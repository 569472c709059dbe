---------------------------- MODULE MemoryService ----------------------------
(***************************************************************************)
(* Long-term memory (memory/service.py, memory/catalog.py) and the part of   *)
(* a conversation turn that controls it (memory/intelligence.py).  A         *)
(* memory is a file in the archive and a row in the catalog; remembering     *)
(* writes the file and then the row, forgetting deletes the file and then    *)
(* the row, and nothing joins the two.  Two threads learn: the turn that     *)
(* answers the user and the worker that reports a finished task.             *)
(*                                                                           *)
(* The archive stands for StorageManager as its callers meet it: a file is   *)
(* saved to the drive or queued on the laptop, its deletion waits as a       *)
(* tombstone while the drive is away, and a monitor looks for the drive and  *)
(* syncs.  What the storage believes of the drive is not what is plugged in: *)
(* a deletion on a drive that has just been pulled is reported done, and the *)
(* file returns with the drive.  Another drive at the same place, and a save *)
(* that fails but leaves its file, are in StorageManager only.               *)
(***************************************************************************)
EXTENDS Naturals, FiniteSets

CONSTANTS Facts,            \* what the user states: the compact summaries
          Secrets,          \* those that look like a credential
          Passing,          \* those that hold for today only, or fit no pattern
          MaxMemories,      \* bound: memories created
          MaxDriveChanges,  \* bound: the drive goes or comes
          MaxStops          \* bound: the process dies

ASSUME MemoryAssumption ==
    /\ Facts # {} /\ Secrets \subseteq Facts /\ Passing \subseteq Facts
    /\ MaxMemories \in Nat /\ MaxDriveChanges \in Nat /\ MaxStops \in Nat

Ids == 1..MaxMemories
NoId == 0
Learners == {"turn", "task"}

VARIABLES
    created,      \* memory ids handed out so far (uuid4)
    content,      \* id -> the fact in its file, whatever became of the file
    file,         \* id -> none, queued, drive, or doomed (a tombstone waits)
    row,          \* id -> none, or kept: its row in the catalog
    stranded,     \* history: files whose deletion was carried out on a drive not there
    drive,        \* the external drive is bound and present
    storage,      \* what StorageManager believes of it: away, syncing or online
    learner,      \* thread -> where it is in remember_unique or forget
    forgetting,   \* MemoryIntelligence._forget
    asked,        \* history: the memory the last reply asked about, or NoId
    confirmed,    \* history: memories whose deletion the user confirmed
    promised,     \* history: memories the user was told are remembered
    forgotten,    \* history: memories the user was told are forgotten
    outages       \* drive changes and deaths so far

archive == <<created, content, file, row, stranded>>
outside == <<drive, storage>>
memoryBounds == <<outages>>
promises == <<confirmed, promised, forgotten>>
memoryVars == <<archive, outside, learner, forgetting, asked, promises, memoryBounds>>

Free == [at |-> "free", fact |-> CHOOSE f \in Facts : TRUE, id |-> NoId]
NoForget == [candidates |-> {}, selected |-> NoId]

MemoryTypeOK ==
    /\ created \in 0..MaxMemories
    /\ content \in [Ids -> Facts]
    /\ file \in [Ids -> {"none", "queued", "drive", "doomed"}]
    /\ row \in [Ids -> {"none", "kept"}]
    /\ stranded \subseteq Ids
    /\ drive \in BOOLEAN /\ storage \in {"away", "syncing", "online"}
    /\ learner \in [Learners -> [at : {"free", "new", "saved", "confirmed", "deleted"},
                                 fact : Facts, id : {NoId} \cup Ids]]
    /\ forgetting \in [candidates : SUBSET Ids, selected : {NoId} \cup Ids]
    /\ asked \in {NoId} \cup Ids
    /\ confirmed \subseteq Ids /\ promised \subseteq Ids /\ forgotten \subseteq Ids
    /\ outages \in [drive : 0..MaxDriveChanges, stops : 0..MaxStops]

MemoryInit ==
    /\ created = 0
    /\ content = [i \in Ids |-> Free.fact]
    /\ file = [i \in Ids |-> "none"]
    /\ row = [i \in Ids |-> "none"]
    /\ stranded = {}
    /\ drive \in BOOLEAN /\ storage = "away"
    /\ learner = [t \in Learners |-> Free]
    /\ forgetting = NoForget
    /\ asked = NoId
    /\ confirmed = {} /\ promised = {} /\ forgotten = {}
    /\ outages = [drive |-> 0, stops |-> 0]

(***************************************************************************)
(* What the catalog and the archive answer.                                  *)
(***************************************************************************)
Rows == {i \in Ids : row[i] # "none"}
SameSummary(f) == {i \in Rows : content[i] = f}
IsFree(t) == learner[t].at = "free"
Become(t, at, f, i) == learner' = [learner EXCEPT ![t] = [at |-> at, fact |-> f, id |-> i]]
BecomeFree(t) == learner' = [learner EXCEPT ![t] = Free]

(* Replies of the turn that ask about no memory.                             *)
SayOther == asked' = NoId

(* An unrelated prompt ends a pending request to forget.                     *)
DropForget == forgetting' = NoForget
KeepForget == forgetting' = forgetting

(* What a thread may keep: the user can ask for anything but a credential,   *)
(* and may say so only in his own turn; the rest is learned from what he     *)
(* happens to state, which has to be of lasting use.                         *)
Learnable(t) == (Facts \ Secrets) \ (IF t = "turn" THEN {} ELSE Passing)

(***************************************************************************)
(* remember_unique: look for a row with the same summary; without one,       *)
(* save the file, then write the row.  The look-up and the writes hold no    *)
(* common lock.                                                              *)
(***************************************************************************)
Learn(t, f) ==
    /\ IsFree(t)
    /\ \/ /\ SameSummary(f) # {}
          /\ UNCHANGED learner
       \/ /\ SameSummary(f) = {} /\ created < MaxMemories
          /\ Become(t, "new", f, NoId)
    /\ IF t = "turn" THEN DropForget /\ SayOther
                     ELSE UNCHANGED <<forgetting, asked>>
    /\ UNCHANGED <<archive, outside, promises, memoryBounds>>

(* A write that fails makes the storage give up the drive, and the file is   *)
(* queued; so is that of a save that began before the drive came online.     *)
SaveMemory(t) ==
    /\ learner[t].at = "new"
    /\ \/ /\ created < MaxMemories
          /\ LET i == created + 1
             IN /\ created' = i
                /\ content' = [content EXCEPT ![i] = learner[t].fact]
                /\ \/ /\ storage = "online" /\ drive
                      /\ file' = [file EXCEPT ![i] = "drive"]
                      /\ UNCHANGED storage
                   \/ /\ file' = [file EXCEPT ![i] = "queued"]
                      /\ storage' \in {storage, "away"}
                /\ Become(t, "saved", learner[t].fact, i)
       \/ /\ BecomeFree(t)                        \* the laptop's disk is full
          /\ storage' \in {storage, "away"}
          /\ UNCHANGED <<created, content, file>>
    /\ UNCHANGED <<row, stranded, drive, forgetting, asked, promises, memoryBounds>>

IndexMemory(t) ==
    /\ learner[t].at = "saved"
    /\ LET i == learner[t].id
       IN /\ row' = [row EXCEPT ![i] = "kept"]
          /\ promised' = promised \cup {i}
    /\ BecomeFree(t)
    /\ UNCHANGED <<created, content, file, stranded, outside, forgetting, asked, confirmed,
                   forgotten, memoryBounds>>

(* Fault: an unrelated prompt that leaves the pending request armed.        *)
OtherPromptKeeps ==
    /\ IsFree("turn")
    /\ SayOther
    /\ UNCHANGED <<archive, outside, learner, forgetting, promises, memoryBounds>>

(***************************************************************************)
(* The turn: recalling reads the file and falls back to the summary of the   *)
(* row; both leave the memory as it is, as does every prompt that is no      *)
(* memory request.                                                           *)
(***************************************************************************)
OtherPrompt ==
    /\ IsFree("turn")
    /\ DropForget
    /\ SayOther
    /\ UNCHANGED <<archive, outside, learner, promises, memoryBounds>>

(* A query finds the rows whose summary shares a word with it, or the one    *)
(* row its prefix names.                                                     *)
Matching(query) == {i \in Rows : content[i] \in query}

BeginForget(query) ==
    /\ IsFree("turn")
    /\ \E candidates \in {Matching(query)} \cup {{i} : i \in Rows} :
         /\ forgetting' =
              IF candidates = {} THEN NoForget
              ELSE [candidates |-> candidates,
                    selected |-> IF Cardinality(candidates) = 1
                                 THEN CHOOSE i \in candidates : TRUE ELSE NoId]
         /\ asked' = forgetting'.selected
    /\ UNCHANGED <<archive, outside, learner, promises, memoryBounds>>

(* "forget 2" picks a candidate; a number out of range asks again.           *)
ChooseNumber ==
    /\ IsFree("turn")
    /\ forgetting.candidates # {} /\ forgetting.selected = NoId
    /\ \/ \E i \in forgetting.candidates :
            /\ forgetting' = [forgetting EXCEPT !.selected = i]
            /\ asked' = i
       \/ KeepForget /\ SayOther
    /\ UNCHANGED <<archive, outside, learner, promises, memoryBounds>>

(* "cancel", or "no" once a memory is selected.                              *)
KeepMemory ==
    /\ IsFree("turn")
    /\ forgetting.candidates # {}
    /\ DropForget
    /\ SayOther
    /\ UNCHANGED <<archive, outside, learner, promises, memoryBounds>>

ConfirmForget ==
    /\ IsFree("turn")
    /\ forgetting.selected # NoId
    /\ Become("turn", "confirmed", Free.fact, forgetting.selected)
    /\ confirmed' = confirmed \cup ({asked} \ {NoId})
    /\ DropForget
    /\ SayOther
    /\ UNCHANGED <<archive, outside, promised, forgotten, memoryBounds>>

(***************************************************************************)
(* forget: the file first, then the row.                                     *)
(***************************************************************************)
(* What becomes of a file whose deletion the storage carries out where it    *)
(* believes the drive to be: unlink does not mind that nothing is there, and *)
(* the tombstone is cancelled.                                               *)
Unlinked(i) ==
    IF drive THEN {"none"}
    ELSE CASE file[i] = "drive"  -> {"drive"}
           [] file[i] = "doomed" -> {"none", "drive"}
           [] OTHER              -> {"none"}

(* delete: unlinked if the drive is believed online, else a tombstone.       *)
Erased(i) == IF storage = "online" THEN Unlinked(i) ELSE {"doomed"}

(* delete raises with the queued copy gone, or the file, or neither.         *)
HalfErased(i) ==
    {file[i]} \cup (IF file[i] = "queued" THEN {"none"}
                    ELSE IF file[i] = "drive" /\ storage = "online" THEN Unlinked(i) ELSE {})

Strands(i) == stranded' = IF drive THEN stranded ELSE stranded \cup {i}

DeleteFile ==
    /\ learner["turn"].at = "confirmed"
    /\ LET i == learner["turn"].id
       IN \/ /\ row[i] = "none"                \* "That memory was already gone."
             /\ BecomeFree("turn")
             /\ UNCHANGED <<file, stranded, storage>>
          \/ /\ row[i] # "none"
             /\ \E left \in Erased(i) : file' = [file EXCEPT ![i] = left]
             /\ IF storage = "online" THEN Strands(i) ELSE UNCHANGED stranded
             /\ Become("turn", "deleted", Free.fact, i)
             /\ UNCHANGED storage
          \/ /\ row[i] # "none"                \* the unlink fails, a tombstone waits
             /\ storage = "online" /\ storage' = "away"
             /\ file' = [file EXCEPT ![i] = "doomed"]
             /\ Become("turn", "deleted", Free.fact, i)
             /\ UNCHANGED stranded
          \/ /\ row[i] # "none"                \* the storage raises
             /\ \E left \in HalfErased(i) : file' = [file EXCEPT ![i] = left]
             /\ storage' \in {storage, "away"}
             /\ BecomeFree("turn")
             /\ UNCHANGED stranded
    /\ UNCHANGED <<created, content, row, drive, forgetting, asked, promises, memoryBounds>>

DeleteRow ==
    /\ learner["turn"].at = "deleted"
    /\ LET i == learner["turn"].id
       IN /\ row' = [row EXCEPT ![i] = "none"]
          /\ forgotten' = forgotten \cup {i}
    /\ BecomeFree("turn")
    /\ UNCHANGED <<created, content, file, stranded, outside, forgetting, asked, confirmed,
                   promised, memoryBounds>>

(***************************************************************************)
(* The drive, the storage's monitor, and the death of the process.           *)
(***************************************************************************)
DriveChanges ==
    /\ outages.drive < MaxDriveChanges
    /\ outages' = [outages EXCEPT !.drive = @ + 1]
    /\ drive' = ~drive
    /\ UNCHANGED <<archive, storage, learner, forgetting, asked, promises>>

PendingWork == {i \in Ids : file[i] \in {"queued", "doomed"}}

(* The monitor looks for the drive; a look may fail where the drive is there. *)
MonitorLooks ==
    /\ storage # "syncing"
    /\ \/ storage' = "away"
       \/ /\ drive
          /\ storage' = IF PendingWork = {} THEN "online" ELSE "syncing"
    /\ UNCHANGED <<archive, drive, learner, forgetting, asked, promises, memoryBounds>>

(* A queued file needs the drive to be written; a tombstone is obeyed, and   *)
(* dropped, whether the drive is still there or not.                         *)
SyncFile(i) ==
    /\ storage = "syncing"
    /\ \/ /\ file[i] = "queued" /\ drive
          /\ file' = [file EXCEPT ![i] = "drive"]
          /\ UNCHANGED stranded
       \/ /\ file[i] = "doomed"
          /\ \E left \in Unlinked(i) : file' = [file EXCEPT ![i] = left]
          /\ Strands(i)
    /\ UNCHANGED <<created, content, row, outside, learner, forgetting, asked, promises,
                   memoryBounds>>

(* What was queued meanwhile waits for the next look; any step may fail.     *)
SyncEnds ==
    /\ storage = "syncing"
    /\ storage' \in {"online", "away"}
    /\ UNCHANGED <<archive, drive, learner, forgetting, asked, promises, memoryBounds>>

MemoryRestarts ==
    /\ outages.stops < MaxStops
    /\ outages' = [outages EXCEPT !.stops = @ + 1]
    /\ learner' = [t \in Learners |-> Free]
    /\ storage' = "away"
    /\ DropForget
    /\ SayOther
    /\ UNCHANGED <<archive, drive, promises>>

MemoryNext ==
    \/ \E t \in Learners : (\E f \in Learnable(t) : Learn(t, f)) \/ SaveMemory(t) \/ IndexMemory(t)
    \/ OtherPrompt
    \/ \E query \in SUBSET Facts \ {{}} : BeginForget(query)
    \/ ChooseNumber
    \/ KeepMemory
    \/ ConfirmForget
    \/ DeleteFile
    \/ DeleteRow
    \/ DriveChanges
    \/ MonitorLooks
    \/ \E i \in Ids : SyncFile(i)
    \/ SyncEnds
    \/ MemoryRestarts

MemorySpec == MemoryInit /\ [][MemoryNext]_memoryVars

(***************************************************************************)
(* What the user was told about a memory stays true through drive changes    *)
(* and deaths: a memory the user was told is remembered keeps its row and    *)
(* its content until the user, asked about exactly that memory by the last   *)
(* reply, confirmed its deletion (intelligence.py _handle_pending_forget);   *)
(* and a memory reported forgotten has no row, and its file is gone or       *)
(* awaits its tombstone (service.py forget), unless its deletion was carried *)
(* out on a drive that had been pulled: then the file returns with the       *)
(* drive, without a row (the disagreement that StorageManager's              *)
(* ForgottenIsDeleted shows).                                                *)
(***************************************************************************)
Erasing(i) == file[i] \in {"none", "doomed"} \/ i \in stranded

OnlyTheConfirmedIsForgotten ==
    /\ \A i \in promised \ confirmed : row[i] # "none" /\ file[i] \in {"queued", "drive"}
    /\ \A i \in forgotten : row[i] = "none" /\ Erasing(i)
=============================================================================
