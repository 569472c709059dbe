------------------------- MODULE StorageManagerProofs -------------------------
(***************************************************************************)
(* Theorems about StorageManager for any finite set of paths, any set of   *)
(* drives, any queue limit, and any number of saves, failing calls,        *)
(* exchanges of the drive and deaths of the process.                       *)
(***************************************************************************)
EXTENDS StorageManager, FiniteSetTheorems, TLAPS

Syncing == {"undelete", "forget", "copy", "write", "row", "object"}
Kept(p) == \E d \in Drives : files[d][p] = version[p]

\* What the caller was told fits the queue: a row and its copy are those of
\* the newest save, a tombstone is that of a path whose deletion has returned,
\* and data without a row is on a drive.
Told(p) ==
  /\ rows[p] # 0 => rows[p] = version[p] /\ objects[p] = version[p] /\ held[p] = "saved"
  /\ version[p] = 0 => held[p] = "none"
  /\ p \in tombs => held[p] = "gone"
  /\ held[p] = "saved" /\ rows[p] = 0 => Kept(p)
QueueInv == \A p \in Paths : Told(p)

\* A call of save has promised nothing yet, one of delete has withdrawn the
\* promise; both hold the queue lock where they change the queue, and the row
\* about to be inserted has room and a copy.
Underway(p) ==
  /\ call[p] \in {"target", "write", "wait", "row"} => held[p] = "none" /\ version[p] # 0
  /\ call[p] \in {"aim", "unlink", "tomb"} => held[p] = "doomed"
  /\ call[p] \in {"row", "aim", "unlink", "tomb"} => lock = p
  /\ call[p] = "row" => objects[p] = version[p] /\ Cardinality(Pending \ {p}) + 1 <= QueueLimit
CallInv == \A p \in Paths : Underway(p)

\* A sync owns the queue lock, and nothing is online while it runs: it deletes
\* no file that was saved again after its tombstone, and writes the data of
\* the newest save of a path that is not being deleted.
SyncInv ==
  /\ mon \in Syncing => lock = "monitor"
  /\ mon \in Syncing \cup {"lock"} => state # "ONLINE"
  /\ mon \in {"forget", "write", "row", "object"} => item \in Paths
  /\ mon \in {"undelete", "forget"} =>
       \A p \in todo : held[p] # "saved" /\ call[p] # "write"
  /\ mon = "forget" => held[item] # "saved" /\ call[item] # "write"
  /\ mon \in {"write", "row", "object"} => held[item] = "saved"
  /\ mon = "write" => payload = version[item] /\ rows[item] = version[item]
  /\ mon \in {"row", "object"} => Kept(item)
  /\ mon = "object" => rows[item] = 0

\* Whoever may write to the drive knows a binding, and a drive that has stayed
\* in place since the monitor looked at it is the bound one if the manager
\* has a root, if a refresh goes on, or if a call took it after that look.
Verified == root \/ mon \in {"count", "recover", "lock", "online"} \cup Syncing
Bound == ~swapped => plugged \in {None, binding}
DriveInv ==
  /\ Verified => binding # None /\ Bound
  /\ \A p \in Paths : call[p] \in {"write", "unlink"} =>
       binding # None /\ (p \notin late => Bound)
  /\ mon = "bind" =>
       /\ seen \in Drives /\ (~swapped => plugged = seen)
       /\ binding # None => seen = binding

IInv == TypeOK /\ QueueInv /\ CallInv /\ SyncInv /\ DriveInv

-----------------------------------------------------------------------------
LEMMA InitIInv == Init => IInv
<1> SUFFICES ASSUME Init PROVE IInv
  OBVIOUS
<1>1. Pending = {} /\ Cardinality(Pending) = 0
  BY FS_EmptySet DEF Init, Pending
<1>2. Cardinality(Pending) <= QueueLimit
  BY <1>1, StorageAssumption DEF StorageAssumption
<1>3. files \in [Drives -> [Paths -> Versions]] /\ faults \in 0..MaxFaults
      /\ plugs \in 0..MaxPlugs /\ crashes \in 0..MaxCrashes
  BY StorageAssumption DEF Init, Versions, StorageAssumption
<1>4. TypeOK
  BY <1>2, <1>3 DEF Init, TypeOK, Versions
<1>5. QueueInv /\ CallInv
  BY DEF Init, QueueInv, CallInv, Told, Underway
<1>6. SyncInv /\ DriveInv
  BY DEF Init, SyncInv, DriveInv, Syncing, Verified
<1> QED BY <1>4, <1>5, <1>6 DEF IInv

\* Rows that only disappear keep the queue within its limit.
LEMMA QueueShrinks ==
  ASSUME IsFiniteSet(Paths), QueueLimit \in Nat, Cardinality(Pending) <= QueueLimit,
         Pending' \subseteq Pending
  PROVE  Cardinality(Pending') <= QueueLimit
<1>1. IsFiniteSet(Pending)
  BY FS_Subset DEF Pending
<1>2. Cardinality(Pending') <= Cardinality(Pending)
  BY <1>1, FS_Subset
<1>3. Cardinality(Pending') \in Nat /\ Cardinality(Pending) \in Nat
  BY <1>1, FS_Subset, FS_CardinalityType
<1> QED BY <1>2, <1>3

\* The row a save inserts takes the room it was promised.
LEMMA QueueHasRoom ==
  ASSUME IsFiniteSet(Paths), QueueLimit \in Nat, NEW p \in Paths,
         Cardinality(Pending \ {p}) + 1 <= QueueLimit, Pending' \subseteq Pending \cup {p}
  PROVE  Cardinality(Pending') <= QueueLimit
<1> DEFINE others == Pending \ {p}
<1>1. IsFiniteSet(others) /\ IsFiniteSet(others \cup {p})
  BY FS_Subset, FS_AddElement DEF Pending
<1>2. Cardinality(others \cup {p}) = Cardinality(others) + 1
  BY <1>1, FS_AddElement
<1>3. Pending' \subseteq others \cup {p}
  OBVIOUS
<1>4. Cardinality(Pending') <= Cardinality(others \cup {p})
  BY <1>1, <1>3, FS_Subset
<1>5. Cardinality(Pending') \in Nat /\ Cardinality(others) \in Nat
  BY <1>1, <1>3, FS_Subset, FS_CardinalityType
<1> QED BY <1>2, <1>4, <1>5

-----------------------------------------------------------------------------
\* Every step keeps the types.
LEMMA FaultTyped ==
  ASSUME faults \in 0..MaxFaults, MaxFaults \in Nat, Fault \/ DriveFails \/ UNCHANGED faults
  PROVE  faults' \in 0..MaxFaults
<1>1. CASE Fault
  BY <1>1 DEF Fault
<1> QED BY <1>1 DEF DriveFails

LEMMA FilesTyped ==
  ASSUME files \in [Drives -> [Paths -> Nat]], plugged \in Drives \cup {None},
         NEW p \in Paths, NEW n \in Nat, Put(p, n) \/ Unlink(p) \/ UNCHANGED files
  PROVE  files' \in [Drives -> [Paths -> Nat]]
<1>1. ASSUME NEW d \in Drives, NEW v \in Nat
      PROVE  [files EXCEPT ![d][p] = v] \in [Drives -> [Paths -> Nat]]
  OBVIOUS
<1>2. CASE Put(p, n)
  <2>1. plugged \in Drives
    BY <1>2 DEF Put
  <2> QED BY <1>1, <1>2, <2>1 DEF Put
<1>3. CASE Unlink(p)
  <2>1. CASE plugged \in Drives /\ plugged # None
    BY <1>1, <1>3, <2>1 DEF Unlink
  <2>2. CASE plugged = None
    BY <1>3, <2>2 DEF Unlink
  <2> QED BY <2>1, <2>2
<1> QED BY <1>2, <1>3

LEMMA CallsTyped ==
  ASSUME IInv, NEW p \in Paths, SaveBegin(p) \/ DeleteBegin(p) \/ Answer(p)
  PROVE  TypeOK'
<1> USE StorageAssumption DEF StorageAssumption, IInv, TypeOK, Versions, drive, disk, queue, status,
        sync, monitor, client
<1>2. CASE SaveBegin(p)
  <2>1. Pending' = Pending
    BY <1>2 DEF SaveBegin, Pending
  <2>2. version' = [version EXCEPT ![p] = version[p] + 1] /\ version[p] \in Nat
    BY <1>2 DEF SaveBegin
  <2>3. version' \in [Paths -> Nat]
    BY <2>2
  <2>4. UNCHANGED <<drive, files, disk, rows, objects, status, lock, monitor, faults, crashes>>
        /\ tombs' = tombs \ {p} /\ held' = [held EXCEPT ![p] = "none"]
        /\ call' = [call EXCEPT ![p] = "target"]
    BY <1>2 DEF SaveBegin, Goto
  <2> QED BY <2>1, <2>3, <2>4
<1>3. CASE SaveTarget(p)
  <2>1. Pending' = Pending
    BY <1>3 DEF SaveTarget, Pending
  <2> QED BY <1>3, <2>1 DEF SaveTarget, Goto
<1>4. CASE SaveWrite(p)
  <2>1. Pending' = Pending
    BY <1>4 DEF SaveWrite, Pending
  <2>2. files' \in [Drives -> [Paths -> Nat]]
    <3>1. Put(p, version[p]) \/ UNCHANGED files
      BY <1>4 DEF SaveWrite
    <3> QED BY <3>1, FilesTyped
  <2>3. faults' \in 0..MaxFaults
    <3>1. DriveFails \/ UNCHANGED faults
      BY <1>4 DEF SaveWrite
    <3> QED BY <3>1, FaultTyped
  <2>4. /\ state' \in {"DEGRADED", state} /\ root' \in BOOLEAN
        /\ \/ held' = [held EXCEPT ![p] = "saved"] /\ call' = [call EXCEPT ![p] = "idle"]
           \/ held' = held /\ call' = [call EXCEPT ![p] = "wait"]
        /\ UNCHANGED <<drive, disk, queue, lock, monitor, version, crashes>>
    BY <1>4 DEF SaveWrite, Return, Goto, SetState
  <2>5. /\ held' \in [Paths -> {"none", "saved", "doomed", "gone"}]
        /\ call' \in [Paths -> {"idle", "target", "write", "wait", "row", "aim", "unlink", "tomb"}]
    BY <2>4
  <2> QED BY <2>1, <2>2, <2>3, <2>4, <2>5
<1>5. CASE SaveObject(p)
  <2>1. Pending' = Pending
    BY <1>5 DEF SaveObject, Pending
  <2>2. faults' \in 0..MaxFaults
    <3>1. Fault \/ UNCHANGED faults
      BY <1>5 DEF SaveObject
    <3> QED BY <3>1, FaultTyped
  <2> QED BY <1>5, <2>1, <2>2 DEF SaveObject, Goto
<1>6. CASE SaveRow(p)
  <2>1. Pending' \subseteq Pending \cup {p}
    BY <1>6 DEF SaveRow, Pending
  <2>2. Cardinality(Pending \ {p}) + 1 <= QueueLimit
    BY <1>6 DEF SaveRow, CallInv, Underway
  <2>3. Cardinality(Pending') <= QueueLimit
    BY <2>1, <2>2, QueueHasRoom
  <2>4. faults' \in 0..MaxFaults
    <3>1. Fault \/ UNCHANGED faults
      BY <1>6 DEF SaveRow
    <3> QED BY <3>1, FaultTyped
  <2> QED BY <1>6, <2>3, <2>4 DEF SaveRow, Return, Goto
<1>7. CASE DeleteBegin(p)
  <2>1. Pending' \subseteq Pending
    BY <1>7 DEF DeleteBegin, Pending
  <2>2. Cardinality(Pending') <= QueueLimit
    BY <2>1, QueueShrinks
  <2> QED BY <1>7, <2>2 DEF DeleteBegin, Goto
<1>8. CASE DeleteTarget(p)
  <2>1. Pending' = Pending
    BY <1>8 DEF DeleteTarget, Pending
  <2> QED BY <1>8, <2>1 DEF DeleteTarget, Goto
<1>9. CASE DeleteFile(p)
  <2>1. Pending' = Pending
    BY <1>9 DEF DeleteFile, Pending
  <2>2. files' \in [Drives -> [Paths -> Nat]]
    <3>1. Unlink(p) \/ UNCHANGED files
      BY <1>9 DEF DeleteFile
    <3> QED BY <3>1, FilesTyped
  <2>3. faults' \in 0..MaxFaults
    <3>1. Fault \/ UNCHANGED faults
      BY <1>9 DEF DeleteFile
    <3> QED BY <3>1, FaultTyped
  <2>4. /\ state' \in {"DEGRADED", state} /\ root' \in BOOLEAN /\ lock' \in {None, lock}
        /\ tombs' \subseteq tombs
        /\ \/ held' = [held EXCEPT ![p] = "gone"] /\ call' = [call EXCEPT ![p] = "idle"]
           \/ held' = [held EXCEPT ![p] = "doomed"] /\ call' = [call EXCEPT ![p] = "idle"]
           \/ held' = held /\ call' = [call EXCEPT ![p] = "tomb"]
        /\ UNCHANGED <<drive, disk, rows, objects, monitor, version, crashes>>
    BY <1>9 DEF DeleteFile, Return, Goto, SetState
  <2>5. /\ held' \in [Paths -> {"none", "saved", "doomed", "gone"}]
        /\ call' \in [Paths -> {"idle", "target", "write", "wait", "row", "aim", "unlink", "tomb"}]
    BY <2>4
  <2> QED BY <2>1, <2>2, <2>3, <2>4, <2>5
<1>10. CASE DeleteLater(p)
  <2>1. Pending' = Pending
    BY <1>10 DEF DeleteLater, Pending
  <2>2. faults' \in 0..MaxFaults
    <3>1. Fault \/ UNCHANGED faults
      BY <1>10 DEF DeleteLater
    <3> QED BY <3>1, FaultTyped
  <2> QED BY <1>10, <2>1, <2>2 DEF DeleteLater, Return
<1> QED BY <1>2, <1>3, <1>4, <1>5, <1>6, <1>7, <1>8, <1>9, <1>10 DEF Answer

LEMMA WorldTyped == ASSUME IInv, Exchange \/ Crash \/ UNCHANGED vars PROVE TypeOK'
<1> USE StorageAssumption DEF StorageAssumption, IInv, TypeOK, Versions, drive, disk, queue, status,
        sync, monitor, client
<1>1. Pending' = Pending
  BY DEF Exchange, Crash, vars, Pending
<1>2. CASE Exchange
  BY <1>1, <1>2 DEF Exchange
<1>3. CASE Crash
  <2>1. /\ crashes' \in 0..MaxCrashes
        /\ state' = "DEGRADED" /\ root' = FALSE /\ lock' = None
        /\ mon' = "off" /\ warm' = FALSE /\ seen' = None /\ todo' = {} /\ item' = None
        /\ payload' = 0
    BY <1>3 DEF Crash, SetState
  <2>2. call' \in [Paths -> {"idle"}] /\ late' = {}
        /\ UNCHANGED <<plugged, swapped, plugs, files, disk, queue, version, held, faults>>
    BY <1>3 DEF Crash
  <2> QED BY <1>1, <2>1, <2>2
<1>4. CASE UNCHANGED vars
  BY <1>1, <1>4 DEF vars
<1> QED BY <1>2, <1>3, <1>4

\* The refresh of the monitor before it syncs.
Refresh ==
  Start \/ Discover \/ Identify \/ Bind \/ Count \/ Recover \/ GoOnline \/ MonitorDies

LEMMA RefreshTyped == ASSUME IInv, Refresh PROVE TypeOK'
<1> USE StorageAssumption DEF StorageAssumption, IInv, TypeOK, Versions, drive, disk, queue, status,
        sync, monitor, client
<1>1. Pending' = Pending
  BY DEF Refresh, Start, Discover, Identify, Bind, Count, Recover, GoOnline, MonitorDies, Pending
<1>2. faults' \in 0..MaxFaults
  <2>1. Fault \/ DriveFails \/ UNCHANGED faults
    BY DEF Refresh, Start, Discover, Identify, Bind, Count, Recover, GoOnline, MonitorDies
  <2> QED BY <2>1, FaultTyped
<1>3. CASE Start \/ Discover \/ Count \/ Recover \/ GoOnline
  BY <1>1, <1>2, <1>3, ZenonT(40) DEF Start, Discover, Count, Recover, GoOnline, Settle, SetState
<1>6. CASE MonitorDies
  BY <1>1, <1>2, <1>6 DEF MonitorDies
<1>4. CASE Identify
  BY <1>1, <1>2, <1>4, ZenonT(40) DEF Identify, Settle, SetState
<1>5. CASE Bind
  BY <1>1, <1>2, <1>5, ZenonT(40) DEF Bind, Settle, SetState
<1> QED BY <1>3, <1>4, <1>5, <1>6 DEF Refresh

LEMMA SyncTyped == ASSUME IInv, Monitor, ~Refresh PROVE TypeOK'
<1> USE StorageAssumption DEF StorageAssumption, IInv, TypeOK, Versions, drive, disk, queue, status,
        sync, monitor, client
<1>2. CASE SyncBegin \/ SyncForget \/ SyncRows \/ SyncRead \/ SyncEnd
  <2>1. Pending' = Pending
    BY <1>2 DEF SyncBegin, SyncForget, SyncRows, SyncRead, SyncEnd, Pending
  <2>2. Pending \subseteq Paths
    BY DEF Pending
  <2>3. CASE SyncBegin \/ SyncForget \/ SyncRows \/ SyncEnd
    BY <2>1, <2>2, <2>3 DEF SyncBegin, SyncForget, SyncRows, SyncEnd
  <2>4. CASE SyncRead
    BY <2>1, <2>4 DEF SyncRead
  <2> QED BY <1>2, <2>3, <2>4
<1>3. CASE SyncFails
  <2>1. Pending' = Pending
    BY <1>3 DEF SyncFails, Pending
  <2>2. mon = "write" => item \in Paths
    BY DEF SyncInv
  <2>3. files' \in [Drives -> [Paths -> Nat]]
    <3>1. UNCHANGED files \/ (mon = "write" /\ Put(item, payload))
      BY <1>3 DEF SyncFails
    <3> QED BY <2>2, <3>1, FilesTyped
  <2>4. faults' \in 0..MaxFaults
    <3>1. Fault \/ DriveFails
      BY <1>3 DEF SyncFails
    <3> QED BY <3>1, FaultTyped
  <2> QED BY <1>3, <2>1, <2>3, <2>4 DEF SyncFails, Settle, SetState
<1>4. CASE SyncUnlink
  <2>1. Pending' = Pending
    BY <1>4 DEF SyncUnlink, Pending
  <2>2. files' \in [Drives -> [Paths -> Nat]]
    <3>1. PICK p \in Paths : Unlink(p)
      BY <1>4 DEF SyncUnlink
    <3> QED BY <3>1, FilesTyped
  <2> QED BY <1>4, <2>1, <2>2 DEF SyncUnlink
<1>5. CASE SyncWrite
  <2>1. Pending' = Pending
    BY <1>5 DEF SyncWrite, Pending
  <2>2. item \in Paths
    BY <1>5 DEF SyncInv, SyncWrite
  <2>3. files' \in [Drives -> [Paths -> Nat]]
    BY <1>5, <2>2, FilesTyped DEF SyncWrite
  <2> QED BY <1>5, <2>1, <2>3 DEF SyncWrite
<1>6. CASE SyncRow
  <2>1. Pending' \subseteq Pending
    BY <1>6 DEF SyncRow, Pending
  <2>2. Cardinality(Pending') <= QueueLimit
    BY <2>1, QueueShrinks
  <2> QED BY <1>6, <2>2, ZenonT(40) DEF SyncRow
<1>7. CASE SyncObject
  <2>1. Pending' = Pending
    BY <1>7 DEF SyncObject, Pending
  <2> QED BY <1>7, <2>1, ZenonT(40) DEF SyncObject
<1> QED BY <1>2, <1>3, <1>4, <1>5, <1>6, <1>7 DEF Monitor, Refresh

-----------------------------------------------------------------------------
(* Who changes a file of a drive: a save with its data, a delete, and a sync *)
(* with a tombstone it has read or with the newest data of the path.  A call *)
(* changes no file but that of its own path.                                 *)
LEMMA WritesKnown ==
  ASSUME IInv, Next, NEW d \in Drives, NEW p \in Paths, files'[d][p] # files[d][p]
  PROVE  /\ d = plugged
         /\ \/ call[p] = "write" /\ files'[d][p] = version[p] /\ UNCHANGED <<rows, version>>
            \/ call[p] = "unlink" /\ files'[d][p] = 0 /\ UNCHANGED <<rows, version>>
            \/ mon = "undelete" /\ p \in todo /\ files'[d][p] = 0 /\ UNCHANGED <<rows, client>>
            \/ mon = "write" /\ p = item /\ files'[d][p] = version[p] /\ UNCHANGED <<rows, client>>
<1>1. files \in [Drives -> [Paths -> Nat]]
  BY DEF IInv, TypeOK, Versions
<1>2. ASSUME NEW q \in Paths, NEW n \in Nat, Put(q, n)
      PROVE  d = plugged /\ p = q /\ files'[d][p] = n
  BY <1>1, <1>2 DEF Put
<1>3. ASSUME NEW q \in Paths, Unlink(q)
      PROVE  d = plugged /\ p = q /\ files'[d][p] = 0
  BY <1>1, <1>3 DEF Unlink
<1>4. \A q \in Paths : version[q] \in Nat
  BY DEF IInv, TypeOK, Versions
<1>5. ASSUME NEW q \in Paths, SaveWrite(q)
      PROVE  d = plugged /\ call[p] = "write" /\ files'[d][p] = version[p] /\ UNCHANGED <<rows, version>>
  <2>1. call[q] = "write" /\ UNCHANGED <<rows, version>>
    BY <1>5 DEF SaveWrite, queue
  <2>2. Put(q, version[q])
    BY <1>5 DEF SaveWrite
  <2> QED BY <1>2, <1>4, <2>1, <2>2
<1>6. ASSUME NEW q \in Paths, DeleteFile(q)
      PROVE  d = plugged /\ call[p] = "unlink" /\ files'[d][p] = 0 /\ UNCHANGED <<rows, version>>
  <2>1. call[q] = "unlink" /\ UNCHANGED <<rows, version>>
    BY <1>6 DEF DeleteFile
  <2>2. Unlink(q)
    BY <1>6 DEF DeleteFile
  <2> QED BY <1>3, <2>1, <2>2
<1>7. CASE SyncUnlink
  <2>1. PICK q \in todo : Unlink(q)
    BY <1>7 DEF SyncUnlink
  <2>2. todo \subseteq Paths
    BY DEF IInv, TypeOK
  <2> QED BY <1>3, <1>7, <2>1, <2>2 DEF SyncUnlink, queue
<1>8. CASE SyncWrite \/ SyncFails
  <2>1. mon = "write" /\ Put(item, payload) /\ UNCHANGED <<rows, client>>
    BY <1>8 DEF SyncWrite, SyncFails, queue
  <2>2. item \in Paths /\ payload = version[item]
    BY <2>1 DEF IInv, SyncInv
  <2> QED BY <1>2, <1>4, <2>1, <2>2
<1> QED
  BY <1>5, <1>6, <1>7, <1>8 DEF Next, Monitor, Answer, Exchange, Crash, SaveBegin, SaveTarget,
     SaveObject, SaveRow, DeleteBegin, DeleteTarget, DeleteLater, Start, Discover, Identify, Bind,
     Count, MonitorDies, Recover, GoOnline, SyncBegin, SyncForget, SyncRows, SyncRead, SyncRow,
     SyncObject, SyncEnd

\* What a drive keeps of a promise is not overwritten.
LEMMA KeptStays ==
  ASSUME IInv, Next, NEW p \in Paths, held[p] = "saved", Kept(p), version'[p] = version[p]
  PROVE  Kept(p)'
<1>1. PICK d \in Drives : files[d][p] = version[p]
  BY DEF Kept
<1>2. call[p] # "write" /\ call[p] # "unlink"
  BY DEF IInv, CallInv, Underway
<1>3. mon = "undelete" => p \notin todo
  BY DEF IInv, SyncInv
<1>4. files'[d][p] = version[p]
  BY <1>1, <1>2, <1>3, WritesKnown
<1> QED BY <1>4 DEF Kept

LEMMA QueueStep == ASSUME IInv, Next PROVE QueueInv'
<1> SUFFICES ASSUME NEW p \in Paths PROVE Told(p)'
  BY DEF QueueInv
<1> USE DEF TypeOK, Versions, queue, client, monitor, sync
<1>0. TypeOK /\ Told(p) /\ Underway(p)
  BY DEF IInv, QueueInv, CallInv
<1>1. /\ rows[p] # 0 => rows[p] = version[p] /\ objects[p] = version[p] /\ held[p] = "saved"
      /\ version[p] = 0 => held[p] = "none"
      /\ p \in tombs => held[p] = "gone"
      /\ held[p] = "saved" /\ rows[p] = 0 => Kept(p)
  BY <1>0 DEF Told
<1>2. held[p] = "saved" /\ Kept(p) /\ version'[p] = version[p] => Kept(p)'
  BY KeptStays
<1>3. ASSUME rows'[p] = rows[p], objects'[p] = objects[p], version'[p] = version[p],
             held'[p] = held[p], p \in tombs' => p \in tombs
      PROVE  Told(p)'
  BY <1>1, <1>2, <1>3 DEF Told
<1>4. ASSUME NEW q \in Paths, SaveBegin(q) \/ DeleteBegin(q) \/ Answer(q), p # q PROVE Told(p)'
  <2>1. rows'[p] = rows[p] /\ objects'[p] = objects[p] /\ version'[p] = version[p]
        /\ held'[p] = held[p] /\ (p \in tombs' => p \in tombs)
    BY <1>0, <1>4 DEF SaveBegin, DeleteBegin, Answer, SaveTarget, SaveWrite, SaveObject, SaveRow,
       DeleteTarget, DeleteFile, DeleteLater, Return
  <2> QED BY <1>3, <2>1
<1>5. CASE SaveBegin(p)
  <2>1. version[p] \in Nat /\ version'[p] = version[p] + 1 /\ held'[p] = "none"
    BY <1>0, <1>5 DEF SaveBegin
  <2>2. rows[p] = 0 /\ rows'[p] = 0 /\ p \notin tombs'
    BY <1>0, <1>1, <1>5 DEF SaveBegin
  <2> QED BY <2>1, <2>2 DEF Told
<1>6. CASE SaveWrite(p)
  <2>1. CASE Put(p, version[p]) /\ Return(p, "saved")
    <3>1. plugged \in Drives /\ files'[plugged][p] = version[p]
      BY <1>0, <2>1 DEF Put
    <3>2. Kept(p)'
      BY <3>1, <1>6 DEF Kept, SaveWrite
    <3>3. /\ held'[p] = "saved" /\ held[p] = "none" /\ version[p] # 0
          /\ UNCHANGED <<rows, objects, tombs, version>>
      BY <1>0, <1>6, <2>1 DEF SaveWrite, Return, Underway
    <3> QED BY <1>1, <3>2, <3>3 DEF Told
  <2>2. CASE UNCHANGED held
    BY <1>3, <1>6, <2>2 DEF SaveWrite
  <2> QED BY <1>6, <2>1, <2>2 DEF SaveWrite
<1>7. CASE SaveObject(p)
  <2>1. held[p] = "none" /\ UNCHANGED <<rows, tombs, version, held>>
    BY <1>0, <1>7 DEF SaveObject, Underway
  <2> QED BY <1>1, <2>1 DEF Told
<1>8. CASE SaveRow(p)
  <2>1. /\ held[p] = "none" /\ objects[p] = version[p]
        /\ UNCHANGED <<objects, tombs, version>>
        /\ \/ UNCHANGED <<rows, held>>
           \/ rows'[p] = version[p] /\ held'[p] = "saved"
    BY <1>0, <1>8 DEF SaveRow, Underway, Return
  <2>2. version[p] # 0
    BY <1>0, <1>8 DEF SaveRow, Underway
  <2> QED BY <1>1, <2>1, <2>2 DEF Told
<1>9. CASE DeleteBegin(p)
  <2>1. held'[p] = "doomed" /\ rows'[p] = 0 /\ UNCHANGED <<tombs, version>>
        /\ held[p] \in {"saved", "doomed"}
    BY <1>0, <1>9 DEF DeleteBegin
  <2> QED BY <1>1, <2>1 DEF Told
<1>10. CASE DeleteFile(p) \/ DeleteLater(p)
  <2>1. held[p] = "doomed" /\ UNCHANGED <<rows, objects, version>>
    BY <1>0, <1>10 DEF DeleteFile, DeleteLater, Underway
  <2>2. \/ held'[p] = "gone"
        \/ held'[p] = "doomed" /\ UNCHANGED tombs
    BY <1>0, <1>10, <2>1 DEF DeleteFile, DeleteLater, Return
  <2> QED BY <1>1, <2>1, <2>2 DEF Told
<1>11. CASE SyncRow
  <2>1. item \in Paths /\ held[item] = "saved" /\ Kept(item)
    BY <1>11 DEF IInv, SyncInv, SyncRow
  <2>2. rows' = [rows EXCEPT ![item] = 0] /\ UNCHANGED <<objects, tombs, version, held>>
    BY <1>11 DEF SyncRow
  <2>3. CASE p = item
    BY <1>0, <1>1, <1>2, <2>1, <2>2, <2>3 DEF Told
  <2>4. CASE p # item
    BY <1>0, <1>3, <2>1, <2>2, <2>4
  <2> QED BY <2>3, <2>4
<1>12. CASE SyncObject
  <2>1. item \in Paths /\ held[item] = "saved" /\ Kept(item) /\ rows[item] = 0
    BY <1>12 DEF IInv, SyncInv, SyncObject
  <2>2. objects' = [objects EXCEPT ![item] = 0] /\ UNCHANGED <<rows, tombs, version, held>>
    BY <1>12 DEF SyncObject
  <2>3. CASE p = item
    BY <1>0, <1>1, <1>2, <2>1, <2>2, <2>3 DEF Told
  <2>4. CASE p # item
    BY <1>0, <1>3, <2>1, <2>2, <2>4
  <2> QED BY <2>3, <2>4
<1>13. CASE SyncFails \/ SyncUnlink \/ SyncForget \/ SyncWrite
  BY <1>3, <1>13 DEF SyncFails, SyncUnlink, SyncForget, SyncWrite
<1>14. CASE Start \/ Discover \/ Identify \/ Bind \/ Count \/ MonitorDies \/ Recover \/ GoOnline
            \/ SyncBegin \/ SyncRows \/ SyncRead \/ SyncEnd \/ Exchange \/ Crash
  BY <1>3, <1>14 DEF Start, Discover, Identify, Bind, Count, MonitorDies, Recover, GoOnline,
     SyncBegin, SyncRows, SyncRead, SyncEnd, Exchange, Crash
<1>15. CASE SaveTarget(p) \/ DeleteTarget(p)
  BY <1>3, <1>15 DEF SaveTarget, DeleteTarget
<1>16. ASSUME NEW q \in Paths, SaveBegin(q) \/ DeleteBegin(q) \/ Answer(q) PROVE Told(p)'
  BY <1>4, <1>5, <1>6, <1>7, <1>8, <1>9, <1>10, <1>15, <1>16 DEF Answer
<1> QED BY <1>11, <1>12, <1>13, <1>14, <1>16 DEF Next, Monitor

\* A call ends, or goes on with the lock it has taken; no row is added by
\* another call while it holds the lock.
LEMMA CallStep == ASSUME IInv, Next PROVE CallInv'
<1> SUFFICES ASSUME NEW p \in Paths PROVE Underway(p)'
  BY DEF CallInv
<1> USE DEF TypeOK, Versions, queue, client, monitor, sync
<1>0. TypeOK /\ Told(p) /\ Underway(p) /\ "monitor" \notin Paths /\ None \notin Paths
  BY StorageAssumption DEF IInv, QueueInv, CallInv, StorageAssumption
<1>1. /\ call[p] \in {"target", "write", "wait", "row"} => held[p] = "none" /\ version[p] # 0
      /\ call[p] \in {"aim", "unlink", "tomb"} => held[p] = "doomed"
      /\ call[p] \in {"row", "aim", "unlink", "tomb"} => lock = p
      /\ call[p] = "row" => objects[p] = version[p] /\ Cardinality(Pending \ {p}) + 1 <= QueueLimit
  BY <1>0 DEF Underway
<1>2. ASSUME call'[p] = call[p], held'[p] = held[p], version'[p] = version[p],
             lock' = lock \/ lock # p,
             lock = p => UNCHANGED <<rows, objects, version>>
      PROVE  Underway(p)'
  <2>1. lock = p => Pending' = Pending
    BY <1>2 DEF Pending
  <2>2. CASE lock = p
    <3>1. lock' = p /\ objects' = objects /\ version' = version /\ Pending' = Pending
      BY <1>2, <2>1, <2>2
    <3> QED BY <1>1, <1>2, <3>1 DEF Underway
  <2>3. CASE lock # p
    <3>1. call'[p] \notin {"row", "aim", "unlink", "tomb"}
      BY <1>1, <1>2, <2>3
    <3> QED BY <1>1, <1>2, <3>1 DEF Underway
  <2> QED BY <2>2, <2>3
<1>3. ASSUME NEW q \in Paths, SaveBegin(q) \/ DeleteBegin(q) \/ Answer(q), p # q
      PROVE  Underway(p)'
  <2>1. call'[p] = call[p] /\ held'[p] = held[p] /\ version'[p] = version[p]
        /\ objects'[p] = objects[p]
    BY <1>0, <1>3, ZenonT(40) DEF SaveBegin, DeleteBegin, Answer, SaveTarget, SaveWrite, SaveObject, SaveRow,
       DeleteTarget, DeleteFile, DeleteLater, Return, Goto
  <2>2. Underway(q)
    BY DEF IInv, CallInv
  <2>3. lock' = lock \/ lock # p
    BY <1>0, <1>3, <2>2 DEF SaveBegin, DeleteBegin, Answer, SaveTarget, SaveWrite, SaveObject,
       SaveRow, DeleteTarget, DeleteFile, DeleteLater, Underway
  <2>4. lock = p => rows' = rows
    BY <1>0, <1>3, <2>2 DEF SaveBegin, DeleteBegin, Answer, SaveTarget, SaveWrite, SaveObject,
       SaveRow, DeleteTarget, DeleteFile, DeleteLater, Underway
  <2>5. lock = p => Pending' = Pending
    BY <2>4 DEF Pending
  <2> QED BY <1>1, <2>1, <2>3, <2>5 DEF Underway
<1>4. CASE SaveBegin(p)
  <2>1. call'[p] = "target" /\ held'[p] = "none" /\ version'[p] = version[p] + 1
        /\ version[p] \in Nat
    BY <1>0, <1>4 DEF SaveBegin, Goto
  <2> QED BY <2>1 DEF Underway
<1>5. CASE SaveTarget(p)
  <2>1. call'[p] \in {"write", "wait"} /\ held'[p] = "none" /\ version'[p] # 0
    BY <1>0, <1>1, <1>5 DEF SaveTarget, Goto
  <2> QED BY <2>1 DEF Underway
<1>6. CASE SaveWrite(p)
  <2>1. call'[p] = "idle" \/ (call'[p] = "wait" /\ held'[p] = "none" /\ version'[p] # 0)
    BY <1>0, <1>1, <1>6 DEF SaveWrite, Goto, Return
  <2> QED BY <2>1 DEF Underway
<1>7. CASE SaveObject(p)
  <2>1. held'[p] = "none" /\ version[p] # 0 /\ UNCHANGED <<rows, version>>
    BY <1>1, <1>7 DEF SaveObject
  <2>2. \/ call'[p] = "idle"
        \/ /\ call'[p] = "row" /\ lock' = p /\ objects'[p] = version[p]
           /\ Cardinality(Pending \ {p}) + 1 <= QueueLimit
    <3>1. CASE Goto(p, "idle")
      BY <1>0, <3>1 DEF Goto
    <3>2. CASE ~Full(p) /\ lock' = p /\ Goto(p, "row") /\ objects' = [objects EXCEPT ![p] = version[p]]
      <4>1. Cardinality(Pending \ {p}) \in Nat
        <5>1. IsFiniteSet(Pending \ {p})
          BY StorageAssumption, FS_Subset DEF StorageAssumption, Pending
        <5> QED BY <5>1, FS_CardinalityType
      <4>2. Cardinality(Pending \ {p}) + 1 <= QueueLimit
        BY <4>1, <3>2, StorageAssumption DEF StorageAssumption, Full
      <4> QED BY <1>0, <3>2, <4>2 DEF Goto
    <3> QED BY <1>7, <3>1, <3>2 DEF SaveObject
  <2>3. Pending' = Pending
    BY <2>1 DEF Pending
  <2> QED BY <2>1, <2>2, <2>3 DEF Underway
<1>8. CASE SaveRow(p) \/ DeleteLater(p)
  <2>1. call'[p] = "idle"
    BY <1>0, <1>8 DEF SaveRow, DeleteLater, Return, Goto
  <2> QED BY <2>1 DEF Underway
<1>9. CASE DeleteBegin(p)
  <2>1. call'[p] = "aim" /\ held'[p] = "doomed" /\ lock' = p
    BY <1>0, <1>9 DEF DeleteBegin, Goto
  <2> QED BY <2>1 DEF Underway
<1>10. CASE DeleteTarget(p)
  <2>1. call'[p] \in {"unlink", "tomb"} /\ held'[p] = "doomed" /\ lock' = p
    BY <1>0, <1>1, <1>10 DEF DeleteTarget, Goto
  <2> QED BY <2>1 DEF Underway
<1>11. CASE DeleteFile(p)
  <2>1. call'[p] = "idle" \/ (call'[p] = "tomb" /\ held'[p] = "doomed" /\ lock' = p)
    BY <1>0, <1>1, <1>11 DEF DeleteFile, Goto, Return
  <2> QED BY <2>1 DEF Underway
<1>12. CASE Refresh
  BY <1>2, <1>12 DEF Refresh, Start, Discover, Identify, Bind, Count, Recover, GoOnline, MonitorDies
<1>13. CASE Monitor /\ ~Refresh
  <2>1. UNCHANGED client
    BY <1>13 DEF Monitor, Refresh, SyncBegin, SyncFails, SyncUnlink, SyncForget, SyncRows,
       SyncRead, SyncWrite, SyncRow, SyncObject, SyncEnd
  <2>2. lock # p
    BY <1>0, <1>13 DEF Monitor, Refresh, SyncBegin, SyncFails, SyncUnlink, SyncForget, SyncRows,
       SyncRead, SyncWrite, SyncRow, SyncObject, SyncEnd, IInv, SyncInv, Syncing
  <2> QED BY <1>2, <2>1, <2>2
<1>14. CASE Exchange
  BY <1>2, <1>14 DEF Exchange
<1>15. CASE Crash
  <2>1. call'[p] = "idle"
    BY <1>15 DEF Crash
  <2> QED BY <2>1 DEF Underway
<1>16. ASSUME NEW q \in Paths, SaveBegin(q) \/ DeleteBegin(q) \/ Answer(q) PROVE Underway(p)'
  BY <1>3, <1>4, <1>5, <1>6, <1>7, <1>8, <1>9, <1>10, <1>11, <1>16 DEF Answer
<1> QED BY <1>12, <1>13, <1>14, <1>15, <1>16 DEF Next, Refresh

LEMMA SyncStep == ASSUME IInv, Next PROVE SyncInv'
<1> USE DEF TypeOK, Versions, queue, client, monitor, sync, Syncing
<1>0. TypeOK /\ SyncInv /\ QueueInv /\ CallInv /\ "monitor" \notin Paths /\ None \notin Paths
      /\ None # "monitor"
  BY StorageAssumption DEF IInv, StorageAssumption
<1>1. ASSUME NEW p \in Paths, SaveBegin(p) \/ DeleteBegin(p) \/ Answer(p) PROVE SyncInv'
  <2>1. UNCHANGED monitor /\ (state' = state \/ state' = "DEGRADED")
    BY <1>1 DEF SaveBegin, DeleteBegin, Answer, SaveTarget, SaveWrite, SaveObject, SaveRow,
       DeleteTarget, DeleteFile, DeleteLater, SetState, status
  <2>2. Underway(p)
    BY <1>0 DEF CallInv
  <2>3. lock = "monitor" => UNCHANGED <<lock, rows>>
    BY <1>0, <1>1, <2>2 DEF SaveBegin, DeleteBegin, Answer, SaveTarget, SaveWrite, SaveObject,
       SaveRow, DeleteTarget, DeleteFile, DeleteLater, Underway
  <2>4. ASSUME NEW q \in Paths, held[q] # "saved", call[q] # "write", lock = "monitor",
               state # "ONLINE"
        PROVE  held'[q] # "saved" /\ call'[q] # "write"
    BY <1>0, <1>1, <2>2, <2>4 DEF SaveBegin, DeleteBegin, Answer, SaveTarget, SaveWrite,
       SaveObject, SaveRow, DeleteTarget, DeleteFile, DeleteLater, Underway, Goto, Return, Online
  <2>5. ASSUME NEW q \in Paths, held[q] = "saved", lock = "monitor"
        PROVE  held'[q] = "saved" /\ version'[q] = version[q]
    <3>1. version[q] # 0
      BY <1>0, <2>5 DEF QueueInv, Told
    <3> QED
      BY <1>0, <1>1, <2>2, <2>5, <3>1 DEF SaveBegin, DeleteBegin, Answer, SaveTarget, SaveWrite,
         SaveObject, SaveRow, DeleteTarget, DeleteFile, DeleteLater, Underway, Goto, Return
  <2>6. mon \in {"row", "object"} => Kept(item)'
    <3> SUFFICES ASSUME mon \in {"row", "object"} PROVE Kept(item)'
      OBVIOUS
    <3>1. item \in Paths /\ held[item] = "saved" /\ Kept(item) /\ lock = "monitor"
      BY <1>0 DEF SyncInv
    <3>2. item' = item /\ version'[item] = version[item]
      BY <2>1, <2>5, <3>1
    <3>3. \A q \in Paths : q = item => Kept(q)'
      BY <3>1, <3>2, KeptStays
    <3> QED BY <3>1, <3>2, <3>3 DEF Kept
  <2> QED BY <1>0, <2>1, <2>3, <2>4, <2>5, <2>6 DEF SyncInv
<1>2. CASE Refresh
  <2>1. mon' \notin Syncing
    BY <1>2 DEF Refresh, Start, Discover, Identify, Bind, Count, Recover, GoOnline, MonitorDies, Settle
  <2>2. mon' = "lock" => state' # "ONLINE"
    BY <1>2 DEF Refresh, Start, Discover, Identify, Bind, Count, Recover, GoOnline, MonitorDies, Settle,
       SetState
  <2> QED BY <2>1, <2>2 DEF SyncInv
<1>3. CASE SyncBegin
  <2>1. ASSUME NEW p \in tombs PROVE held[p] # "saved" /\ call[p] # "write"
    <3>1. p \in Paths /\ held[p] = "gone"
      BY <1>0 DEF QueueInv, Told
    <3> QED BY <1>0, <3>1 DEF CallInv, Underway
  <2>2. \/ mon' = "undelete" /\ lock' = "monitor" /\ todo' = tombs
        \/ mon' = "online"
    BY <1>3 DEF SyncBegin
  <2>3. state' = state /\ state # "ONLINE" /\ UNCHANGED <<held, call>>
    BY <1>0, <1>3 DEF SyncBegin, SyncInv, status
  <2> QED BY <2>1, <2>2, <2>3 DEF SyncInv
<1>4. CASE SyncUnlink
  <2>1. PICK p \in todo : item' = p /\ todo' = todo \ {p}
    BY <1>4 DEF SyncUnlink
  <2>2. mon = "undelete" /\ mon' = "forget" /\ UNCHANGED <<lock, state, held, call>>
    BY <1>4 DEF SyncUnlink, status
  <2> QED BY <1>0, <2>1, <2>2 DEF SyncInv
<1>5. CASE SyncForget \/ SyncRows \/ SyncEnd \/ SyncFails
  BY <1>0, <1>5 DEF SyncForget, SyncRows, SyncEnd, SyncFails, Settle, SyncInv, status
<1>6. CASE SyncRead
  <2>1. PICK p \in todo :
          IF objects[p] = 0 \/ objects[p] # rows[p]
            THEN UNCHANGED <<item, payload, mon>>
            ELSE item' = p /\ payload' = objects[p] /\ mon' = "write"
    BY <1>6 DEF SyncRead
  <2>2. mon = "copy" /\ UNCHANGED <<lock, state, rows, version, held, call>>
    BY <1>6 DEF SyncRead, status
  <2>3. p \in Paths /\ Told(p)
    BY <1>0 DEF QueueInv
  <2> QED BY <1>0, <2>1, <2>2, <2>3 DEF SyncInv, Told
<1>7. CASE SyncWrite
  <2>1. item \in Paths /\ payload = version[item] /\ held[item] = "saved"
    BY <1>0, <1>7 DEF SyncInv, SyncWrite
  <2>2. plugged \in Drives /\ files'[plugged][item] = version[item]
    BY <1>0, <1>7, <2>1 DEF SyncWrite, Put
  <2>3. mon = "write" /\ mon' = "row" /\ UNCHANGED <<lock, state, rows, version, held, call, item>>
    BY <1>7 DEF SyncWrite, status
  <2>4. Kept(item)'
    BY <2>2, <2>3 DEF Kept
  <2> QED BY <1>0, <2>1, <2>3, <2>4 DEF SyncInv
<1>8. CASE SyncRow
  <2>1. mon = "row" /\ mon' = "object" /\ item' = item /\ UNCHANGED <<lock, state, held, version>>
        /\ rows' = [rows EXCEPT ![item] = 0]
    BY <1>8 DEF SyncRow, status
  <2>2. item \in Paths /\ held[item] = "saved" /\ Kept(item)
    BY <1>0, <2>1 DEF SyncInv
  <2>3. Kept(item)'
    BY <2>1, <2>2, KeptStays
  <2>4. rows'[item] = 0
    BY <1>0, <2>1, <2>2
  <2> QED BY <1>0, <2>1, <2>2, <2>3, <2>4 DEF SyncInv
<1>9. CASE SyncObject
  BY <1>0, <1>9 DEF SyncObject, SyncInv, status
<1>10. CASE Exchange
  <2>1. UNCHANGED <<files, queue, status, lock, monitor, client>>
    BY <1>10 DEF Exchange
  <2>2. Kept(item)' = Kept(item)
    BY <2>1 DEF Kept
  <2> QED BY <1>0, <2>1, <2>2 DEF SyncInv, status
<1>11. CASE Crash
  BY <1>11 DEF Crash, SyncInv
<1> QED BY <1>1, <1>2, <1>3, <1>4, <1>5, <1>6, <1>7, <1>8, <1>9, <1>10, <1>11
        DEF Next, Monitor, Refresh

LEMMA DriveStep == ASSUME IInv, Next PROVE DriveInv'
<1> USE DEF TypeOK, drive, disk, client, monitor, sync, status, Syncing, Verified, Bound
<1>0. TypeOK /\ DriveInv /\ None \notin Drives
  BY StorageAssumption DEF IInv, StorageAssumption
<1>1. ASSUME NEW p \in Paths, SaveBegin(p) \/ DeleteBegin(p) \/ Answer(p) PROVE DriveInv'
  <2>1. UNCHANGED <<plugged, swapped, disk, monitor>>
    BY <1>1 DEF SaveBegin, DeleteBegin, Answer, SaveTarget, SaveWrite, SaveObject, SaveRow,
       DeleteTarget, DeleteFile, DeleteLater
  <2>2. root' => root
    BY <1>1 DEF SaveBegin, DeleteBegin, Answer, SaveTarget, SaveWrite, SaveObject, SaveRow,
       DeleteTarget, DeleteFile, DeleteLater, SetState
  <2>3. ASSUME NEW q \in Paths, call'[q] \in {"write", "unlink"}
        PROVE  binding # None /\ (q \notin late' => Bound)
    <3>1. CASE UNCHANGED late /\ call'[q] = call[q]
      BY <1>0, <2>3, <3>1 DEF DriveInv
    <3>2. CASE root
      BY <1>0, <3>2 DEF DriveInv
    <3>3. (UNCHANGED late /\ call'[q] = call[q]) \/ root \/ (p # q /\ call'[q] = call[q] /\ late' = late \ {p})
      BY <1>0, <1>1, <2>3 DEF SaveBegin, DeleteBegin, Answer, SaveTarget, SaveWrite, SaveObject,
         SaveRow, DeleteTarget, DeleteFile, DeleteLater, Goto, Return, Online
    <3>4. CASE p # q /\ call'[q] = call[q] /\ late' = late \ {p}
      BY <1>0, <2>3, <3>4 DEF DriveInv
    <3> QED BY <3>1, <3>2, <3>3, <3>4
  <2> QED BY <1>0, <2>1, <2>2, <2>3 DEF DriveInv
<1>2. CASE Start \/ Count \/ MonitorDies \/ Recover \/ GoOnline
  BY <1>0, <1>2 DEF Start, Count, MonitorDies, Recover, GoOnline, Settle, SetState, DriveInv
<1>3. CASE Discover
  BY <1>0, <1>3 DEF Discover, Settle, SetState, DriveInv
<1>4. CASE Identify
  <2>1. CASE Settle("ERROR", FALSE) /\ late' = late \cup {p \in Paths : call[p] \in {"write", "unlink"}}
    <3>1. UNCHANGED <<binding, call>> /\ ~root' /\ mon' = "idle"
      BY <1>4, <2>1 DEF Identify, Settle, SetState
    <3> QED BY <1>0, <2>1, <3>1 DEF DriveInv
  <2>2. CASE /\ plugged # None /\ Trusted(plugged) /\ seen' = plugged
             /\ mon' = "bind" /\ UNCHANGED status
    <3>1. UNCHANGED <<plugged, binding, call>> /\ plugged \in Drives
      BY <1>0, <1>4, <2>2 DEF Identify
    <3>2. binding # None => plugged = binding
      BY <2>2 DEF Trusted
    <3> QED BY <1>0, <2>2, <3>1, <3>2 DEF DriveInv
  <2> QED BY <1>4, <2>1, <2>2 DEF Identify
<1>5. CASE Bind
  BY <1>0, <1>5 DEF Bind, Settle, SetState, DriveInv
<1>6. CASE SyncBegin \/ SyncFails \/ SyncUnlink \/ SyncForget \/ SyncRows \/ SyncRead \/ SyncWrite
           \/ SyncRow \/ SyncObject \/ SyncEnd
  BY <1>0, <1>6 DEF SyncBegin, SyncFails, SyncUnlink, SyncForget, SyncRows, SyncRead, SyncWrite,
     SyncRow, SyncObject, SyncEnd, Settle, SetState, DriveInv
<1>7. CASE Exchange
  BY <1>0, <1>7 DEF Exchange, DriveInv
<1>8. CASE Crash
  BY <1>0, <1>8 DEF Crash, SetState, DriveInv
<1> QED BY <1>1, <1>2, <1>3, <1>4, <1>5, <1>6, <1>7, <1>8 DEF Next, Monitor

-----------------------------------------------------------------------------
LEMMA StutterIInv == ASSUME IInv, UNCHANGED vars PROVE IInv'
<1> USE DEF vars, drive, disk, queue, status, monitor, sync, client
<1>1. TypeOK'
  BY WorldTyped
<1>2. QueueInv' /\ CallInv'
  BY DEF IInv, QueueInv, Told, CallInv, Underway, Kept, Pending
<1>3. SyncInv' /\ DriveInv'
  BY DEF IInv, SyncInv, DriveInv, Verified, Bound, Kept
<1> QED BY <1>1, <1>2, <1>3 DEF IInv

THEOREM Invariance == Spec => []IInv
<1>1. ASSUME IInv, Next PROVE TypeOK'
  BY <1>1, CallsTyped, WorldTyped, RefreshTyped, SyncTyped DEF Next, Refresh
<1>2. IInv /\ [Next]_vars => IInv'
  BY <1>1, QueueStep, CallStep, SyncStep, DriveStep, StutterIInv DEF IInv
<1> QED BY InitIInv, <1>2, PTL DEF Spec

-----------------------------------------------------------------------------
\* storage/manager.py keeps to its types, and _queue_bytes_locked to its
\* limit: no two calls of save fill the queue beyond it.
THEOREM TypeCorrect == Spec => []TypeOK
<1>1. IInv => TypeOK
  BY DEF IInv
<1> QED BY Invariance, <1>1, PTL

\* save_bytes, delete and sync lose nothing that was saved, whatever fails, is
\* exchanged or dies between the external write, the row and the copy.
THEOREM NothingIsLost == Spec => []Durable
<1>1. IInv => Durable
  BY DEF IInv, QueueInv, Told, Kept, Durable
<1> QED BY Invariance, <1>1, PTL

\* read_bytes finds the newest save of a path, never an older tombstone or
\* queued copy.
THEOREM ReadsAreTrue == Spec => []ReadsWhatWasSaved
<1>1. ASSUME IInv PROVE ReadsWhatWasSaved
  <2> SUFFICES ASSUME NEW p \in Paths, held[p] = "saved"
               PROVE  \/ Reads(p, version[p])
                      \/ \E d \in Drives \ {plugged} : files[d][p] = version[p]
    BY DEF ReadsWhatWasSaved
  <2>1. Told(p) /\ TypeOK
    BY <1>1 DEF IInv, QueueInv
  <2>2. p \notin tombs /\ version[p] # 0
    BY <2>1 DEF Told
  <2>3. CASE rows[p] # 0
    BY <2>1, <2>2, <2>3 DEF Told, Reads
  <2>4. CASE rows[p] = 0
    <3>1. PICK d \in Drives : files[d][p] = version[p]
      BY <2>1, <2>4 DEF Told, Kept
    <3>2. CASE d = plugged
      BY <2>2, <2>4, <3>1, <3>2 DEF Reads
    <3> QED BY <3>1, <3>2
  <2> QED BY <2>3, <2>4
<1> QED BY Invariance, <1>1, PTL

\* A forgotten file stays forgotten: a sync writes no file, and inserts no
\* row, of a path whose deletion has returned.
THEOREM ForgottenStaysForgotten == Spec => NoResurrection
<1>1. ASSUME IInv, Next, NEW p \in Paths, held[p] = "gone", held'[p] = "gone"
      PROVE  /\ \A d \in Drives : files[d][p] = 0 => files'[d][p] = 0
             /\ rows[p] = 0 => rows'[p] = 0
  <2>1. TypeOK /\ QueueInv' /\ Underway(p)
    BY <1>1, QueueStep DEF IInv, CallInv
  <2>2. rows'[p] = 0
    BY <1>1, <2>1 DEF QueueInv, Told
  <2>3. ASSUME NEW d \in Drives, files'[d][p] # files[d][p] PROVE files'[d][p] = 0
    <3>1. call[p] # "write"
      BY <1>1, <2>1 DEF Underway
    <3>2. mon = "write" => p # item
      BY <1>1 DEF IInv, SyncInv
    <3> QED BY <1>1, <2>3, <3>1, <3>2, WritesKnown
  <2> QED BY <2>2, <2>3
<1>2. IInv /\ [Next]_vars =>
        [\A p \in Paths :
           held[p] = "gone" /\ held'[p] = "gone" =>
             /\ \A d \in Drives : files[d][p] = 0 => files'[d][p] = 0
             /\ rows[p] = 0 => rows'[p] = 0]_vars
  BY <1>1
<1> QED BY Invariance, <1>2, PTL DEF Spec, NoResurrection

\* refresh_once, save_bytes, delete and sync write to no drive but the bound
\* one: not from the monitor's look at another drive to the next exchange, but
\* for calls that had chosen the drive before that look.
THEOREM OnlyTheBoundDrive == Spec => StrangerRefused
<1>1. ASSUME IInv, Next, NEW d \in Drives, NEW p \in Paths, d # binding,
             files'[d][p] # files[d][p], ~swapped
      PROVE  p \in late
  <2>1. TypeOK /\ DriveInv /\ None \notin Drives
    BY <1>1, StorageAssumption DEF IInv, StorageAssumption
  <2>2. d = plugged
    BY <1>1, WritesKnown
  <2>3. call[p] \in {"write", "unlink"} \/ mon \in {"undelete", "write"}
    BY <1>1, WritesKnown
  <2>4. ~Bound
    BY <1>1, <2>1, <2>2 DEF Bound
  <2>5. mon \notin {"undelete", "write"}
    BY <2>1, <2>4 DEF DriveInv, Verified, Syncing
  <2> QED BY <2>1, <2>3, <2>4, <2>5 DEF DriveInv
<1>2. IInv /\ [Next]_vars =>
        [\A d \in Drives, p \in Paths :
           d # binding /\ files'[d][p] # files[d][p] => swapped \/ p \in late]_vars
  BY <1>1 DEF vars
<1> QED BY Invariance, <1>2, PTL DEF Spec, StrangerRefused
=============================================================================
