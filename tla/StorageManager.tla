---------------------------- MODULE StorageManager ----------------------------
(***************************************************************************)
(* ron/storage/manager.py: files saved to an external drive when it is     *)
(* online and to a queue on the laptop otherwise, deletion tombstones, and *)
(* a monitor thread that looks for the drive, verifies whose it is, and    *)
(* syncs the queue to it.  Conversation turns and the performance archive  *)
(* call save and delete from their own threads, each for paths of its own; *)
(* a path is new with every memory and used again only once deleted.  The  *)
(* drive is exchanged at the same mount point, calls of the file system    *)
(* fail, and the process dies, at any moment.                              *)
(***************************************************************************)
EXTENDS Integers, FiniteSets, Functions

CONSTANTS Paths, Drives, None,
          MaxSaves,     \* bound on saves, over all paths
          QueueLimit,   \* queue_limit_bytes; every file has size one
          MaxFaults,    \* bound on failing calls of the file system
          MaxPlugs,     \* bound on exchanges of the drive
          MaxCrashes    \* bound on process deaths

ASSUME StorageAssumption ==
  /\ None \notin Paths \cup Drives \cup {"monitor"} /\ "monitor" \notin Paths
  /\ IsFiniteSet(Paths)
  /\ MaxSaves \in Nat /\ QueueLimit \in Nat
  /\ MaxFaults \in Nat /\ MaxPlugs \in Nat /\ MaxCrashes \in Nat

VARIABLES
  plugged,   \* the drive at the mount point, or None
  files,     \* for each drive its files: the version saved, 0 if there is none
  identity,  \* drives that carry .ron-storage.json
  binding,   \* storage_binding.json
  rows,      \* storage_queue: the version whose checksum the row holds, or 0
  objects,   \* the fallback copies the rows point to
  tombs,     \* storage_deletions
  state,     \* _state
  root,      \* _external_root is not None
  lock,      \* owner of _queue_lock
  mon,       \* where the monitor thread is
  warm,      \* the refresh of start, which does not sync, is over
  seen,      \* the storage_id refresh_once has verified
  todo, item, payload, \* rows a sync has still to do, the one in hand, its data
  call,      \* where the call for each path is
  version,   \* saves of each path so far
  held,      \* what the caller knows of a path: "saved" and "gone" once save and
             \* delete have returned, "doomed" from a call of delete until one returns
  swapped,   \* the drive was exchanged since the monitor last looked at it
  late,      \* calls that had taken the drive for writing when it was refused
  faults, plugs, crashes

drive == <<plugged, swapped, late, plugs>>
disk == <<identity, binding>>
queue == <<rows, objects, tombs>>
status == <<state, root>>
sync == <<todo, item, payload>>
monitor == <<mon, warm, seen, sync>>
client == <<call, version, held>>
vars == <<drive, files, disk, queue, status, lock, monitor, client, faults, crashes>>

Versions == Nat
Pending == {p \in Paths : rows[p] # 0}

TypeOK ==
  /\ plugged \in Drives \cup {None} /\ swapped \in BOOLEAN /\ plugs \in 0..MaxPlugs
  /\ late \in SUBSET Paths
  /\ files \in [Drives -> [Paths -> Versions]]
  /\ identity \in SUBSET Drives /\ binding \in Drives \cup {None}
  /\ rows \in [Paths -> Versions] /\ objects \in [Paths -> Versions]
  /\ Cardinality(Pending) <= QueueLimit
  /\ tombs \in SUBSET Paths
  /\ state \in {"ONLINE", "DEGRADED", "RECOVERING", "ERROR"} /\ root \in BOOLEAN
  /\ lock \in Paths \cup {"monitor", None}
  /\ mon \in {"off", "idle", "found", "bind", "count", "recover", "lock", "undelete",
              "forget", "copy", "write", "row", "object", "online", "dead"}
  /\ warm \in BOOLEAN /\ seen \in Drives \cup {None}
  /\ todo \in SUBSET Paths /\ item \in Paths \cup {None} /\ payload \in Versions
  /\ call \in [Paths -> {"idle", "target", "write", "wait", "row", "aim", "unlink", "tomb"}]
  /\ version \in [Paths -> Versions]
  /\ held \in [Paths -> {"none", "saved", "doomed", "gone"}]
  /\ faults \in 0..MaxFaults /\ crashes \in 0..MaxCrashes

Init ==
  /\ plugged = None /\ swapped = FALSE /\ late = {} /\ plugs = 0
  /\ files = [d \in Drives |-> [p \in Paths |-> 0]]
  /\ identity = {} /\ binding = None
  /\ rows = [p \in Paths |-> 0] /\ objects = [p \in Paths |-> 0] /\ tombs = {}
  /\ state = "DEGRADED" /\ root = FALSE /\ lock = None
  /\ mon = "off" /\ warm = FALSE /\ seen = None /\ todo = {} /\ item = None /\ payload = 0
  /\ call = [p \in Paths |-> "idle"]
  /\ version = [p \in Paths |-> 0] /\ held = [p \in Paths |-> "none"]
  /\ faults = 0 /\ crashes = 0

-----------------------------------------------------------------------------
\* Shared pieces.

SetState(s, r) == state' = s /\ root' = r
Online == state = "ONLINE" /\ root

\* A call of the file system fails: always without a drive, else now and then.
Fault == faults < MaxFaults /\ faults' = faults + 1
DriveFails == IF plugged = None THEN UNCHANGED faults ELSE Fault

\* unlink(missing_ok=True): a path on a drive that is gone counts as deleted.
Unlink(p) ==
  files' = IF plugged = None THEN files ELSE [files EXCEPT ![plugged][p] = 0]

Put(p, v) == plugged # None /\ files' = [files EXCEPT ![plugged][p] = v]

Return(p, promise) ==
  /\ call' = [call EXCEPT ![p] = "idle"]
  /\ held' = [held EXCEPT ![p] = promise]

Goto(p, l) == call' = [call EXCEPT ![p] = l]

-----------------------------------------------------------------------------
\* save_bytes.

\* Fault: an older tombstone is left in place.
SaveOverTombstone(p) ==
  /\ call[p] = "idle"
  /\ FoldFunction(+, 0, version) < MaxSaves
  /\ version[p] = 0 \/ held[p] = "gone"
  /\ version' = [version EXCEPT ![p] = @ + 1]
  /\ held' = [held EXCEPT ![p] = "none"]
  /\ Goto(p, "target")
  /\ UNCHANGED <<drive, files, disk, queue, status, lock, monitor, faults, crashes>>

\* The tombstone of the path is cancelled first, outside the queue lock.
SaveBegin(p) ==
  /\ call[p] = "idle"
  /\ FoldFunction(+, 0, version) < MaxSaves
  /\ version[p] = 0 \/ held[p] = "gone"
  /\ tombs' = tombs \ {p}
  /\ version' = [version EXCEPT ![p] = @ + 1]
  /\ held' = [held EXCEPT ![p] = "none"]
  /\ Goto(p, "target")
  /\ UNCHANGED <<drive, files, disk, rows, objects, status, lock, monitor, faults, crashes>>

SaveTarget(p) ==
  /\ call[p] = "target"
  /\ Goto(p, IF Online THEN "write" ELSE "wait")
  /\ late' = late \ {p}
  /\ UNCHANGED <<plugged, swapped, plugs, files, disk, queue, status, lock, monitor, version, held, faults, crashes>>

\* A failed write may leave the file, complete, if only the check of it failed.
SaveWrite(p) ==
  /\ call[p] = "write"
  /\ \/ /\ Put(p, version[p])
        /\ Return(p, "saved")
        /\ UNCHANGED <<status, faults>>
     \/ /\ DriveFails
        /\ UNCHANGED files \/ Put(p, version[p])
        /\ SetState("DEGRADED", FALSE)
        /\ Goto(p, "wait")
        /\ UNCHANGED held
  /\ UNCHANGED <<drive, disk, queue, lock, monitor, version, crashes>>

Full(p) == Cardinality(Pending \ {p}) + 1 > QueueLimit

\* _queue_bytes_locked writes the fallback copy and then its row; a full queue
\* or a full laptop is reported to the caller.
SaveObject(p) ==
  /\ call[p] = "wait"
  /\ lock = None
  /\ \/ /\ (Full(p) /\ UNCHANGED faults) \/ Fault
        /\ Goto(p, "idle")
        /\ UNCHANGED <<lock, objects>>
     \/ /\ ~Full(p)
        /\ lock' = p
        /\ objects' = [objects EXCEPT ![p] = version[p]]
        /\ Goto(p, "row")
        /\ UNCHANGED faults
  /\ UNCHANGED <<drive, files, disk, rows, tombs, status, monitor, version, held, crashes>>

SaveRow(p) ==
  /\ call[p] = "row"
  /\ lock' = None
  /\ \/ /\ rows' = [rows EXCEPT ![p] = version[p]]
        /\ Return(p, "saved")
        /\ UNCHANGED faults
     \/ /\ Fault
        /\ Goto(p, "idle")
        /\ UNCHANGED <<rows, held>>
  /\ UNCHANGED <<drive, files, disk, objects, tombs, status, monitor, version, crashes>>

-----------------------------------------------------------------------------
\* delete, all of it under the queue lock.  An error of the queue's database,
\* after the file is gone or where the tombstone should be, reaches the caller.

\* Fault: the queue lock is not taken.
DeleteUnlocked(p) ==
  /\ call[p] = "idle"
  /\ held[p] \in {"saved", "doomed"}
  /\ rows' = [rows EXCEPT ![p] = 0]
  /\ objects' = [objects EXCEPT ![p] = IF rows[p] = 0 THEN @ ELSE 0]
  /\ held' = [held EXCEPT ![p] = "doomed"]
  /\ Goto(p, "aim")
  /\ UNCHANGED <<drive, files, disk, tombs, status, lock, monitor, version, faults, crashes>>

DeleteBegin(p) ==
  /\ call[p] = "idle"
  /\ held[p] \in {"saved", "doomed"}
  /\ lock = None /\ lock' = p
  /\ rows' = [rows EXCEPT ![p] = 0]
  /\ objects' = [objects EXCEPT ![p] = IF rows[p] = 0 THEN @ ELSE 0]
  /\ held' = [held EXCEPT ![p] = "doomed"]
  /\ Goto(p, "aim")
  /\ UNCHANGED <<drive, files, disk, tombs, status, monitor, version, faults, crashes>>

DeleteTarget(p) ==
  /\ call[p] = "aim"
  /\ Goto(p, IF Online THEN "unlink" ELSE "tomb")
  /\ late' = late \ {p}
  /\ UNCHANGED <<plugged, swapped, plugs, files, disk, queue, status, lock, monitor, version, held, faults, crashes>>

DeleteFile(p) ==
  /\ call[p] = "unlink"
  /\ \/ /\ Unlink(p)
        /\ tombs' = tombs \ {p}
        /\ lock' = None
        /\ Return(p, "gone")
        /\ UNCHANGED <<status, faults>>
     \/ /\ Fault
        /\ SetState("DEGRADED", FALSE)
        /\ Goto(p, "tomb")
        /\ UNCHANGED <<files, tombs, lock, held>>
     \/ /\ Fault
        /\ Unlink(p)
        /\ lock' = None
        /\ Return(p, "doomed")
        /\ UNCHANGED <<status, tombs>>
  /\ UNCHANGED <<drive, disk, rows, objects, monitor, version, crashes>>

DeleteLater(p) ==
  /\ call[p] = "tomb"
  /\ lock' = None
  /\ \/ /\ tombs' = tombs \cup {p}
        /\ Return(p, "gone")
        /\ UNCHANGED faults
     \/ /\ Fault
        /\ Return(p, "doomed")
        /\ UNCHANGED tombs
  /\ UNCHANGED <<drive, files, disk, rows, objects, status, monitor, version, crashes>>

-----------------------------------------------------------------------------
\* The monitor thread: refresh_once, first without and then with sync.

Start ==
  /\ mon = "off"
  /\ mon' = "idle"
  /\ UNCHANGED <<drive, files, disk, queue, status, lock, warm, seen, sync, client, faults, crashes>>

\* A refresh ends in state s.
Settle(s, r) ==
  /\ SetState(s, r)
  /\ mon' = "idle" /\ warm' = TRUE /\ seen' = None

Discover ==
  /\ mon = "idle"
  /\ \/ /\ plugged = None /\ swapped' = FALSE
        /\ Settle("DEGRADED", FALSE)
     \/ /\ plugged # None
        /\ mon' = "found"
        /\ UNCHANGED <<swapped, status, warm, seen>>
  /\ UNCHANGED <<plugged, late, plugs, files, disk, queue, lock, sync, client, faults, crashes>>

\* Fault: whatever drive is found is Ron's.
TrustedAny(d) == TRUE

\* _verify_or_initialise_identity: once bound, only the bound drive will do.
Trusted(d) == binding # None => d = binding /\ d \in identity

Identify ==
  /\ mon = "found"
  /\ \/ /\ DriveFails \/ (~Trusted(plugged) /\ UNCHANGED faults)
        /\ Settle("ERROR", FALSE)
        /\ late' = late \cup {p \in Paths : call[p] \in {"write", "unlink"}}
        /\ UNCHANGED identity
     \/ /\ plugged # None /\ Trusted(plugged)
        /\ identity' = identity \cup {plugged}
        /\ seen' = plugged /\ late' = {}
        /\ mon' = "bind"
        /\ UNCHANGED <<status, warm, faults>>
  /\ swapped' = FALSE
  /\ UNCHANGED <<plugged, plugs, files, binding, queue, lock, sync, client, crashes>>

\* The probe of the drive, or the writing of the binding, may fail.
Bind ==
  /\ mon = "bind"
  /\ \/ /\ binding' = IF binding = None THEN seen ELSE binding
        /\ mon' = "count"
        /\ UNCHANGED <<status, warm, seen, faults>>
     \/ /\ Fault
        /\ Settle("ERROR", FALSE)
        /\ UNCHANGED binding
  /\ UNCHANGED <<drive, files, identity, queue, lock, sync, client, crashes>>

\* Fault: a drive that is already online is not looked at for queued work.
CountWhenOffline ==
  /\ mon = "count"
  /\ mon' = IF ~Online /\ (Pending # {} \/ tombs # {}) THEN "recover" ELSE "online"
  /\ UNCHANGED <<drive, files, disk, queue, status, lock, warm, seen, sync, client, faults, crashes>>

Count ==
  /\ mon = "count"
  /\ mon' = IF Pending # {} \/ tombs # {} THEN "recover" ELSE "online"
  /\ UNCHANGED <<drive, files, disk, queue, status, lock, warm, seen, sync, client, faults, crashes>>

\* pending_stats is asked outside every try of refresh_once, after the drive is
\* verified and for the report it returns, and _monitor catches nothing: an
\* error of the queue's database ends the thread for the life of the process.
\* In the refresh of start it ends start, and with it the program: Crash.
MonitorDies ==
  /\ mon \in {"count", "idle"} /\ warm
  /\ Fault
  /\ mon' = "dead" /\ seen' = None
  /\ UNCHANGED <<drive, files, disk, queue, status, lock, warm, sync, client, crashes>>

Recover ==
  /\ mon = "recover"
  /\ SetState("RECOVERING", TRUE)
  /\ mon' = IF warm THEN "lock" ELSE "idle"
  /\ warm' = TRUE
  /\ UNCHANGED <<drive, files, disk, queue, lock, seen, sync, client, faults, crashes>>

GoOnline ==
  /\ mon = "online"
  /\ Settle("ONLINE", TRUE)
  /\ UNCHANGED <<drive, files, disk, queue, lock, sync, client, faults, crashes>>

\* sync_pending does nothing if a failing save has given up the drive.
SyncBegin ==
  /\ mon = "lock"
  /\ lock = None
  /\ IF root THEN lock' = "monitor" /\ todo' = tombs /\ mon' = "undelete"
             ELSE mon' = "online" /\ UNCHANGED <<lock, todo>>
  /\ UNCHANGED <<drive, files, disk, queue, status, warm, seen, item, payload, client, faults, crashes>>

\* An exception of any step ends the sync and leaves the rest queued.
SyncFails ==
  /\ \/ /\ mon = "write" /\ DriveFails
        /\ UNCHANGED files \/ Put(item, payload)
     \/ /\ mon \in {"undelete", "forget", "copy", "row", "object"}
        /\ todo # {} \/ item # None
        /\ Fault
        /\ UNCHANGED files
  /\ Settle("ERROR", TRUE)
  /\ lock' = None /\ todo' = {} /\ item' = None /\ payload' = 0
  /\ UNCHANGED <<drive, disk, queue, client, crashes>>

\* _sync_deletions: the file, then the tombstone, one after the other.
SyncUnlink ==
  /\ mon = "undelete"
  /\ \E p \in todo : Unlink(p) /\ item' = p /\ todo' = todo \ {p}
  /\ mon' = "forget"
  /\ UNCHANGED <<drive, disk, queue, status, lock, warm, seen, payload, client, faults, crashes>>

SyncForget ==
  /\ mon = "forget"
  /\ tombs' = tombs \ {item}
  /\ item' = None
  /\ mon' = "undelete"
  /\ UNCHANGED <<drive, files, disk, rows, objects, status, lock, warm, seen, todo, payload, client, faults, crashes>>

SyncRows ==
  /\ mon = "undelete"
  /\ todo = {}
  /\ todo' = Pending
  /\ mon' = "copy"
  /\ UNCHANGED <<drive, files, disk, queue, status, lock, warm, seen, item, payload, client, faults, crashes>>

\* A copy that is missing or does not have the row's checksum is passed over.
SyncRead ==
  /\ mon = "copy"
  /\ \E p \in todo :
       /\ todo' = todo \ {p}
       /\ IF objects[p] = 0 \/ objects[p] # rows[p]
          THEN UNCHANGED <<item, payload, mon>>
          ELSE item' = p /\ payload' = objects[p] /\ mon' = "write"
  /\ UNCHANGED <<drive, files, disk, queue, status, lock, warm, seen, client, faults, crashes>>

\* Fault: the file is taken for written, whatever became of it.
SyncWriteUnchecked ==
  /\ mon = "write"
  /\ Put(item, payload) \/ (plugged = None /\ UNCHANGED files)
  /\ payload' = 0
  /\ mon' = "row"
  /\ UNCHANGED <<drive, disk, queue, status, lock, warm, seen, todo, item, client, faults, crashes>>

SyncWrite ==
  /\ mon = "write"
  /\ Put(item, payload)
  /\ payload' = 0
  /\ mon' = "row"
  /\ UNCHANGED <<drive, disk, queue, status, lock, warm, seen, todo, item, client, faults, crashes>>

\* "updates the queue database, and only then removes the local fallback copy"
SyncRow ==
  /\ mon = "row"
  /\ rows' = [rows EXCEPT ![item] = 0]
  /\ mon' = "object"
  /\ UNCHANGED <<drive, files, disk, objects, tombs, status, lock, warm, seen, sync, client, faults, crashes>>

SyncObject ==
  /\ mon = "object"
  /\ objects' = [objects EXCEPT ![item] = 0]
  /\ item' = None
  /\ mon' = "copy"
  /\ UNCHANGED <<drive, files, disk, rows, tombs, status, lock, warm, seen, todo, payload, client, faults, crashes>>

SyncEnd ==
  /\ mon = "copy"
  /\ todo = {}
  /\ lock' = None
  /\ mon' = "online"
  /\ UNCHANGED <<drive, files, disk, queue, status, warm, seen, sync, client, faults, crashes>>

-----------------------------------------------------------------------------
\* The world: the user exchanges the drive, the process dies and starts again.

Exchange ==
  /\ plugs < MaxPlugs
  /\ plugs' = plugs + 1
  /\ \E d \in Drives \cup {None} : d # plugged /\ plugged' = d
  /\ swapped' = TRUE
  /\ UNCHANGED <<late, files, disk, queue, status, lock, monitor, client, faults, crashes>>

Crash ==
  /\ crashes < MaxCrashes
  /\ crashes' = crashes + 1
  /\ SetState("DEGRADED", FALSE) /\ lock' = None
  /\ mon' = "off" /\ warm' = FALSE /\ seen' = None /\ todo' = {} /\ item' = None /\ payload' = 0
  /\ call' = [p \in Paths |-> "idle"] /\ late' = {}
  /\ UNCHANGED <<plugged, swapped, plugs, files, disk, queue, version, held, faults>>

Monitor ==
  \/ Start \/ Discover \/ Identify \/ Bind \/ Count \/ Recover \/ GoOnline
  \/ SyncBegin \/ SyncFails \/ SyncUnlink \/ SyncForget \/ SyncRows
  \/ SyncRead \/ SyncWrite \/ SyncRow \/ SyncObject \/ SyncEnd

Answer(p) ==
  \/ SaveTarget(p) \/ SaveWrite(p) \/ SaveObject(p) \/ SaveRow(p)
  \/ DeleteTarget(p) \/ DeleteFile(p) \/ DeleteLater(p)

Next ==
  \/ Monitor
  \/ \E p \in Paths : SaveBegin(p) \/ DeleteBegin(p) \/ Answer(p)
  \/ MonitorDies \/ Exchange \/ Crash

Spec == Init /\ [][Next]_vars

\* The monitor runs every check_interval_seconds and calls return; saves,
\* deletions, exchanges and crashes need not happen.  A client cannot keep the
\* queue lock from the monitor for ever, since its calls are bounded.
FairSpec == Spec /\ WF_vars(Monitor) /\ \A p \in Paths : WF_vars(Answer(p))

-----------------------------------------------------------------------------
\* Nothing that was saved is lost: from the return of save to the next delete
\* the data is on a drive, or in the queue with a row that finds it, whatever
\* fails, is exchanged or dies in between.
Durable ==
  \A p \in Paths : held[p] = "saved" =>
    \/ rows[p] = version[p] /\ objects[p] = version[p]
    \/ \E d \in Drives : files[d][p] = version[p]

\* read_bytes looks for a tombstone, in the queue, and then on the drive; without
\* a drive it says so.
Reads(p, v) ==
  /\ p \notin tombs
  /\ IF rows[p] # 0 /\ objects[p] # 0 THEN objects[p] = v
     ELSE Online /\ plugged # None => files[plugged][p] = v

\* A read of what was saved finds it, or reports the drive offline; it is
\* never told of an older file or an older deletion, unless the file went to
\* another drive in the seconds between an exchange and the monitor's next
\* look, where it still is.
ReadsWhatWasSaved ==
  \A p \in Paths : held[p] = "saved" =>
    \/ Reads(p, version[p])
    \/ \E d \in Drives \ {plugged} : files[d][p] = version[p]

\* A forgotten file that is nowhere does not come back by a sync that read the
\* queue before the deletion.
NoResurrection ==
  [][\A p \in Paths :
       held[p] = "gone" /\ held'[p] = "gone" =>
         /\ \A d \in Drives : files[d][p] = 0 => files'[d][p] = 0
         /\ rows[p] = 0 => rows'[p] = 0]_vars

\* "If another drive is later presented as RON_STORAGE, Ron refuses to write
\* to it": from the monitor's look at the stranger to the next exchange no
\* file of it changes, but for those of calls that chose the drive before the
\* look and write to it after: save_bytes and delete hold no lock over that.
StrangerRefused ==
  [][\A d \in Drives, p \in Paths :
       d # binding /\ files'[d][p] # files[d][p] => swapped \/ p \in late]_vars

\* When the bound drive stays in place, the queue drains: every queued write
\* and deletion reaches it, also one queued just as the drive came online,
\* unless the monitor has died of an error of the queue's database.
QueueDrains ==
  <>[](plugged # None /\ plugged = binding) =>
    <>[](Pending = {} /\ tombs = {}) \/ <>[](mon = "dead")

-----------------------------------------------------------------------------
\* What the documentation says and the code does not do.

\* "If a memory is forgotten while the HDD is offline, Ron ... stores a
\* deletion tombstone": once delete has returned, the file is gone from the
\* bound drive or a tombstone waits for it.
ForgottenIsDeleted ==
  \A p \in Paths : held[p] = "gone" /\ binding # None =>
    p \in tombs \/ files[binding][p] = 0
=============================================================================
