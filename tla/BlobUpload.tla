----------------------------- MODULE BlobUpload -----------------------------
(***************************************************************************)
(* The upload of one blob of a workspace: BlobService (blobs/service.ts),  *)
(* the file system driver below it, the reservations of UsageService       *)
(* (usage/service.ts) and the maintenance that removes expired uploads and *)
(* unreferenced blobs (maintenance/service.ts).  Every await is a step of  *)
(* its own: the stored bytes, the rows and the reservation change one      *)
(* after another, and a request may fail or die between any two of them.   *)
(*                                                                         *)
(* Uploads of one blob follow each other: the row is unique per blob.  All *)
(* uploads of a blob end at one storage key.  A blob has one part.         *)
(***************************************************************************)
EXTENDS Integers

CONSTANTS
  Requests,     \* concurrent requests of clients
  Contents,     \* what an upload may announce, and what bytes may turn out to be
  MaxUploads,   \* bound: uploads begun
  MaxIncidents, \* bound: failing statements and dying requests
  Metered,      \* BlobService was given a UsageService
  HasLimit,     \* its account has a storage limit
  None          \* a null column, an absent file

UploadIds == 1..MaxUploads
NoUpload  == [id |-> 0, reserved |-> FALSE, claimedBy |-> None, stale |-> FALSE,
              expired |-> FALSE, completed |-> FALSE, received |-> FALSE]

VARIABLES
  blob,        \* the row of blobs: state and ciphertext hash
  upload,      \* the row of blob_uploads, with its part
  staged,      \* the bytes each upload has received; "gone" without its directory
  assembling,  \* the file each upload is being assembled in
  stored,      \* the bytes at the storage key
  reservation, \* the row of usage_reservations for this blob
  usage,       \* account_usage: reserved and active bytes, in blobs
  call,        \* where each request stands and what it remembers
  sweeper,     \* where the maintenance run stands
  referenced,  \* an object or a retained version refers to the blob
  undercut,    \* history: the row of a running or completed completion was removed
  begun,       \* uploads begun so far
  mishaps      \* failures so far

uploadVars == <<blob, upload, staged, assembling, stored, reservation, usage, call,
                sweeper, referenced, undercut, begun, mishaps>>

Absent == [state |-> "absent", hash |-> None]
Idle   == [at |-> "idle", up |-> 0, asks |-> None, reserved |-> FALSE, saw |-> None]
Open   == {"reserved", "external_started"}

CreateSteps   == {"active", "stale", "abortStale", "deleteStale", "releaseStale",
                  "reserve", "take", "begin", "insert", "mark", "undo", "undoReserve"}
CompleteSteps == {"parts", "exists", "copy", "publish", "tidy", "digest", "compare",
                  "deleteBytes", "deleteRows", "releaseDeleted", "commit", "unclaim"}
OtherSteps    == {"idle", "dead", "write", "received", "abort", "abortRows", "releaseAborted"}

(* Rows, files and memories have their types (all of BlobUpload).           *)
TypeOK ==
  /\ blob \in [state : {"absent", "uploading", "ready"}, hash : Contents \cup {None}]
  /\ upload \in [id : {0} \cup UploadIds, reserved : BOOLEAN,
                 claimedBy : Requests \cup {None}, stale : BOOLEAN, expired : BOOLEAN,
                 completed : BOOLEAN, received : BOOLEAN]
  /\ staged \in [UploadIds -> Contents \cup {"gone", "empty"}]
  /\ assembling \in [UploadIds -> Contents \cup {None}]
  /\ stored \in Contents \cup {None}
  /\ reservation \in [status : Open \cup {"none", "released", "committed"},
                      hash : Contents \cup {None}]
  /\ usage \in [reserved : Nat, active : Nat]
  /\ call \in [Requests -> [at : CreateSteps \cup CompleteSteps \cup OtherSteps,
                            up : {0} \cup UploadIds, asks : Contents \cup {None},
                            reserved : BOOLEAN, saw : Contents \cup {None}]]
  /\ sweeper \in [at : {"idle", "abort", "row", "release", "blob", "bytes", "blobRow"},
                  up : {0} \cup UploadIds, reserved : BOOLEAN]
  /\ referenced \in BOOLEAN /\ undercut \in BOOLEAN
  /\ begun \in 0..MaxUploads /\ mishaps \in 0..MaxIncidents

Init ==
  /\ blob = Absent /\ upload = NoUpload
  /\ staged = [u \in UploadIds |-> "gone"]
  /\ assembling = [u \in UploadIds |-> None]
  /\ stored = None
  /\ reservation = [status |-> "none", hash |-> None]
  /\ usage = [reserved |-> 0, active |-> 0]
  /\ call = [c \in Requests |-> Idle]
  /\ sweeper = [at |-> "idle", up |-> 0, reserved |-> FALSE]
  /\ referenced = FALSE /\ undercut = FALSE
  /\ begun = 0 /\ mishaps = 0

files    == <<staged, assembling, stored>>
metering == <<reservation, usage>>
outside  == <<sweeper, referenced, undercut, begun, mishaps>>

At(c, step)    == call[c].at = step
Goto(c, step)  == call' = [call EXCEPT ![c].at = step]
Done(c)        == call' = [call EXCEPT ![c] = Idle]

(***************************************************************************)
(* Reservations.                                                           *)
(***************************************************************************)
Released(n) == IF n > 0 THEN n - 1 ELSE 0     \* greatest(0, n - quantity)

(* Fault: what is settled is released once more, below zero if it must.     *)
ReleaseTwice ==
  /\ reservation' = [reservation EXCEPT !.status = "released"]
  /\ usage' = [usage EXCEPT !.reserved = @ - 1]

ReleaseReservation ==
  IF reservation.status \in Open
  THEN /\ reservation' = [reservation EXCEPT !.status = "released"]
       /\ usage' = [usage EXCEPT !.reserved = Released(@)]
  ELSE UNCHANGED metering

(* A new or released reservation is taken (again), an open one is shared.   *)
Shareable(h) == reservation.status \in Open /\ reservation.hash = h
Takeable(h)  == \/ reservation.status = "none"
                \/ reservation.status = "released" /\ reservation.hash = h

(* Fault: what is taken is not counted.                                     *)
TakeUncounted(h) ==
  /\ reservation' = [status |-> "reserved", hash |-> h]
  /\ UNCHANGED usage

TakeReservation(h) ==
  /\ reservation' = [status |-> "reserved", hash |-> h]
  /\ usage' = [usage EXCEPT !.reserved = @ + 1]

(* The part of complete's last transaction that is about the reservation.   *)
CanCommit == reservation.status \in Open \cup {"committed"}

CommitReservation ==
  IF reservation.status = "committed" THEN UNCHANGED metering
  ELSE /\ reservation' = [reservation EXCEPT !.status = "committed"]
       /\ usage' = [reserved |-> Released(usage.reserved), active |-> usage.active + 1]

(***************************************************************************)
(* createUpload.  A blob that is ready is answered, and so is the upload   *)
(* that is in progress; an upload that is over is removed first.           *)
(***************************************************************************)
CreateUpload(c, h) ==
  /\ At(c, "idle")
  /\ \/ blob.state = "absent"
     \/ blob.state = "uploading" /\ blob.hash = h
  /\ call' = [call EXCEPT ![c] = [Idle EXCEPT !.asks = h, !.at =
                IF blob.state = "uploading" THEN "active"
                ELSE IF Metered THEN "reserve" ELSE "begin"]]
  /\ UNCHANGED <<blob, upload, files, metering, outside>>

InProgress ==
  /\ upload.id # 0 /\ ~upload.completed
  /\ ~upload.expired \/ (upload.claimedBy # None /\ ~upload.stale)

FindActive(c) ==
  /\ At(c, "active")
  /\ IF InProgress THEN Done(c) ELSE Goto(c, "stale")
  /\ UNCHANGED <<blob, upload, files, metering, outside>>

FirstOf(c) == IF Metered THEN "reserve" ELSE "begin"

FindStale(c) ==
  /\ At(c, "stale")
  /\ CASE upload.id = 0    -> Goto(c, FirstOf(c))
       [] upload.completed -> Done(c)
       [] OTHER            -> call' = [call EXCEPT ![c].at = "abortStale", ![c].up = upload.id,
                                                   ![c].reserved = upload.reserved]
  /\ UNCHANGED <<blob, upload, files, metering, outside>>

(* abortUpload removes the directory, and with it the parts.                *)
RemoveStaged(u) == staged' = [staged EXCEPT ![u] = "gone"]
RemoveUpload(u) == upload' = IF upload.id = u THEN NoUpload ELSE upload

Holding(c)  == call[c].at \in CompleteSteps /\ call[c].up = upload.id
Held        == upload.claimedBy # None /\ Holding(upload.claimedBy)
Undercut(u) == undercut' = (undercut \/ (upload.id = u /\ (Held \/ upload.completed)))

AbortStale(c) ==
  /\ At(c, "abortStale")
  /\ RemoveStaged(call[c].up) /\ Goto(c, "deleteStale")
  /\ UNCHANGED <<blob, upload, assembling, stored, metering, outside>>

DeleteStale(c) ==
  /\ At(c, "deleteStale")
  /\ RemoveUpload(call[c].up) /\ Undercut(call[c].up)
  /\ Goto(c, IF call[c].reserved THEN "releaseStale" ELSE FirstOf(c))
  /\ UNCHANGED <<blob, files, metering, sweeper, referenced, begun, mishaps>>

ReleaseStale(c) ==
  /\ At(c, "releaseStale")
  /\ ReleaseReservation /\ Goto(c, "reserve")
  /\ UNCHANGED <<blob, upload, files, outside>>

(* Fault: the row of account_usage is never locked.                         *)
NeverLocked == FALSE

(* With a storage limit the row of account_usage is locked first.           *)
UsageLocked == HasLimit

(* Then nobody takes the reservation between its reading and its writing;
   else it is read, and written in a step of its own (Take).                *)
Reserve(c) ==
  LET h == call[c].asks IN
  /\ At(c, "reserve")
  /\ \/ /\ Shareable(h)
        /\ call' = [call EXCEPT ![c].at = "begin", ![c].reserved = FALSE]
        /\ UNCHANGED metering
     \/ /\ Takeable(h) /\ UsageLocked /\ TakeReservation(h)
        /\ call' = [call EXCEPT ![c].at = "begin", ![c].reserved = TRUE]
     \/ /\ Takeable(h) /\ ~UsageLocked
        /\ call' = [call EXCEPT ![c].at = "take", ![c].saw = reservation.hash]
        /\ UNCHANGED metering
     \/ /\ ~Shareable(h) /\ ~Takeable(h)
        /\ Done(c) /\ UNCHANGED metering
  /\ UNCHANGED <<blob, upload, files, outside>>

(* A row that was read is updated by its id whatever became of it since; a
   row that was not there is inserted, which fails if it is there by now.   *)
Take(c) ==
  /\ At(c, "take")
  /\ \/ /\ call[c].saw # None \/ reservation.status = "none"
        /\ TakeReservation(call[c].asks)
        /\ call' = [call EXCEPT ![c].at = "begin", ![c].reserved = TRUE, ![c].saw = None]
     \/ /\ call[c].saw = None /\ reservation.status # "none"
        /\ Done(c) /\ UNCHANGED metering
  /\ UNCHANGED <<blob, upload, files, outside>>

Begin(c) ==
  /\ At(c, "begin") /\ begun < MaxUploads
  /\ begun' = begun + 1
  /\ staged' = [staged EXCEPT ![begun + 1] = "empty"]
  /\ call' = [call EXCEPT ![c].at = "insert", ![c].up = begun + 1]
  /\ UNCHANGED <<blob, upload, assembling, stored, metering, sweeper, referenced, undercut, mishaps>>

(* The blob row is taken over whatever its state; the upload row is unique. *)
InsertUpload(c) ==
  /\ At(c, "insert")
  /\ \/ /\ upload.id = 0
        /\ blob' = [state |-> "uploading", hash |-> call[c].asks]
        /\ upload' = [NoUpload EXCEPT !.id = call[c].up, !.reserved = Metered]
        /\ IF Metered THEN Goto(c, "mark") ELSE Done(c)
     \/ /\ upload.id # 0
        /\ Goto(c, "undo") /\ UNCHANGED <<blob, upload>>
  /\ UNCHANGED <<files, metering, outside>>

(* Who settles a reservation reads its status and updates the row if it still
   has that status.  Those who have read "reserved" when it becomes
   "external_started" settle nothing: a release returns all the same, and the
   completion fails.                                                        *)
Settles == {"releaseStale", "undoReserve", "releaseDeleted", "releaseAborted"}

Outrun(d) ==
  /\ reservation.status = "reserved"
  /\ call[d].at \in Settles \/ (call[d].at = "commit" /\ call[d].reserved)

PassedOver(d) ==
  CASE call[d].at = "releaseStale"                   -> [call[d] EXCEPT !.at = "reserve"]
    [] call[d].at \in {"releaseDeleted", "commit"}   -> [call[d] EXCEPT !.at = "unclaim"]
    [] call[d].at \in {"undoReserve", "releaseAborted"} -> Idle

MarkExternalStarted(c) ==
  /\ At(c, "mark")
  /\ reservation' = [reservation EXCEPT !.status = IF @ = "reserved" THEN "external_started" ELSE @]
  /\ \E late \in SUBSET {d \in Requests : Outrun(d)} :
       call' = [d \in Requests |->
                  IF d = c THEN Idle ELSE IF d \in late THEN PassedOver(d) ELSE call[d]]
  /\ \/ UNCHANGED sweeper
     \/ /\ reservation.status = "reserved" /\ sweeper.at = "release"
        /\ sweeper' = [sweeper EXCEPT !.at = "blob"]
  /\ UNCHANGED <<blob, upload, files, usage, referenced, undercut, begun, mishaps>>

(* The catch of createUpload.                                               *)
UndoBegin(c) ==
  /\ At(c, "undo")
  /\ IF call[c].up = 0 THEN UNCHANGED staged ELSE RemoveStaged(call[c].up)
  /\ IF call[c].reserved THEN Goto(c, "undoReserve") ELSE Done(c)
  /\ UNCHANGED <<blob, upload, assembling, stored, metering, outside>>

UndoReserve(c) ==
  /\ At(c, "undoReserve")
  /\ ReleaseReservation /\ Done(c)
  /\ UNCHANGED <<blob, upload, files, outside>>

CreateStep(c) ==
  \/ FindActive(c) \/ FindStale(c) \/ AbortStale(c) \/ DeleteStale(c) \/ ReleaseStale(c)
  \/ Reserve(c) \/ Take(c) \/ Begin(c) \/ InsertUpload(c) \/ MarkExternalStarted(c)
  \/ UndoBegin(c) \/ UndoReserve(c)

(***************************************************************************)
(* writePart: the upload is looked up, the bytes are written, the part is  *)
(* recorded.  The bytes may not be the ones announced.                     *)
(***************************************************************************)
Active == upload.id # 0 /\ ~upload.completed /\ upload.claimedBy = None /\ ~upload.expired

WritePart(c, bytes) ==
  /\ At(c, "idle") /\ Active
  /\ call' = [call EXCEPT ![c] = [Idle EXCEPT !.at = "write", !.up = upload.id, !.saw = bytes]]
  /\ UNCHANGED <<blob, upload, files, metering, outside>>

StorePart(c) ==
  /\ At(c, "write")
  /\ \/ /\ staged[call[c].up] = "gone" /\ Done(c) /\ UNCHANGED staged
     \/ /\ staged[call[c].up] # "gone" /\ Goto(c, "received")
        /\ staged' = [staged EXCEPT ![call[c].up] = call[c].saw]
  /\ UNCHANGED <<blob, upload, assembling, stored, metering, outside>>

RecordPart(c) ==
  /\ At(c, "received") /\ Done(c)
  /\ upload' = [upload EXCEPT !.received = @ \/ upload.id = call[c].up]
  /\ UNCHANGED <<blob, files, metering, outside>>

(***************************************************************************)
(* complete.  One request claims the upload, for a lease; it assembles the *)
(* bytes unless they are already at the storage key, and compares.         *)
(***************************************************************************)
(* Fault: a claim does not exclude the next one.                            *)
ClaimableTwice == upload.id # 0 /\ ~upload.completed /\ ~upload.expired

Claimable ==
  /\ upload.id # 0 /\ ~upload.completed
  /\ \/ upload.claimedBy = None /\ ~upload.expired
     \/ upload.claimedBy # None /\ upload.stale

Complete(c) ==
  /\ At(c, "idle") /\ Claimable
  /\ upload' = [upload EXCEPT !.claimedBy = c, !.stale = FALSE]
  /\ call' = [call EXCEPT ![c] = [Idle EXCEPT !.at = "parts", !.up = upload.id,
                                              !.reserved = upload.reserved]]
  /\ UNCHANGED <<blob, files, metering, outside>>

CheckParts(c) ==
  /\ At(c, "parts")
  /\ Goto(c, IF upload.id = call[c].up /\ upload.received THEN "exists" ELSE "unclaim")
  /\ UNCHANGED <<blob, upload, files, metering, outside>>

CheckStored(c) ==
  /\ At(c, "exists")
  /\ Goto(c, IF stored = None THEN "copy" ELSE "digest")
  /\ UNCHANGED <<blob, upload, files, metering, outside>>

(* The temporary file must be new: one left by a request that died is
   removed, and this attempt fails.                                         *)
Copy(c) ==
  LET u == call[c].up IN
  /\ At(c, "copy")
  /\ IF assembling[u] = None /\ staged[u] \in Contents
     THEN assembling' = [assembling EXCEPT ![u] = staged[u]] /\ Goto(c, "publish")
     ELSE assembling' = [assembling EXCEPT ![u] = None] /\ Goto(c, "unclaim")
  /\ UNCHANGED <<blob, upload, staged, stored, metering, outside>>

(* A hard link: it fails when the key exists, or the temporary file is gone. *)
Publish(c) ==
  LET u == call[c].up IN
  /\ At(c, "publish")
  /\ IF stored = None /\ assembling[u] # None
     THEN stored' = assembling[u] /\ Goto(c, "tidy") /\ UNCHANGED assembling
     ELSE assembling' = [assembling EXCEPT ![u] = None] /\ Goto(c, "unclaim") /\ UNCHANGED stored
  /\ UNCHANGED <<blob, upload, staged, metering, outside>>

Tidy(c) ==
  /\ At(c, "tidy") /\ Goto(c, "digest")
  /\ assembling' = [assembling EXCEPT ![call[c].up] = None]
  /\ RemoveStaged(call[c].up)
  /\ UNCHANGED <<blob, upload, stored, metering, outside>>

Digest(c) ==
  /\ At(c, "digest")
  /\ IF stored = None THEN Goto(c, "unclaim")
     ELSE call' = [call EXCEPT ![c].at = "compare", ![c].saw = stored]
  /\ UNCHANGED <<blob, upload, files, metering, outside>>

(* Fault: the digest is not compared.                                       *)
MatchesAny(c) == blob.state # "absent"

Matches(c) == blob.state # "absent" /\ call[c].saw = blob.hash

Compare(c) ==
  /\ At(c, "compare")
  /\ Goto(c, IF Matches(c) THEN "commit" ELSE "deleteBytes")
  /\ UNCHANGED <<blob, upload, files, metering, outside>>

DeleteBytes(c) ==
  /\ At(c, "deleteBytes") /\ Goto(c, "deleteRows")
  /\ stored' = None
  /\ UNCHANGED <<blob, upload, staged, assembling, metering, outside>>

DeleteRows(c) ==
  /\ At(c, "deleteRows")
  /\ RemoveUpload(call[c].up) /\ blob' = Absent
  /\ Goto(c, IF call[c].reserved THEN "releaseDeleted" ELSE "unclaim")
  /\ UNCHANGED <<files, metering, outside>>

ReleaseDeleted(c) ==
  /\ At(c, "releaseDeleted") /\ Goto(c, "unclaim")
  /\ ReleaseReservation
  /\ UNCHANGED <<blob, upload, files, outside>>

(* The rows are updated where they still exist.                             *)
Commit(c) ==
  /\ At(c, "commit")
  /\ IF call[c].reserved /\ ~CanCommit
     THEN Goto(c, "unclaim") /\ UNCHANGED <<blob, upload, metering>>
     ELSE /\ IF call[c].reserved THEN CommitReservation ELSE UNCHANGED metering
          /\ blob' = IF blob.state = "absent" THEN blob ELSE [blob EXCEPT !.state = "ready"]
          /\ upload' = IF upload.id # call[c].up THEN upload
                       ELSE [upload EXCEPT !.completed = TRUE, !.claimedBy = None, !.stale = FALSE]
          /\ Done(c)
  /\ UNCHANGED <<files, outside>>

(* The catch of complete gives the claim back, if it is still its own.      *)
Unclaim(c) ==
  /\ At(c, "unclaim") /\ Done(c)
  /\ upload' = IF upload.id = call[c].up /\ upload.claimedBy = c
               THEN [upload EXCEPT !.claimedBy = None, !.stale = FALSE] ELSE upload
  /\ UNCHANGED <<blob, files, metering, outside>>

CompleteStep(c) ==
  \/ CheckParts(c) \/ CheckStored(c) \/ Copy(c) \/ Publish(c) \/ Tidy(c) \/ Digest(c)
  \/ Compare(c) \/ DeleteBytes(c) \/ DeleteRows(c) \/ ReleaseDeleted(c)
  \/ Commit(c) \/ Unclaim(c)

(***************************************************************************)
(* abort: an upload nobody completes is removed with its blob row.         *)
(***************************************************************************)
Abort(c) ==
  /\ At(c, "idle") /\ Active
  /\ call' = [call EXCEPT ![c] = [Idle EXCEPT !.at = "abort", !.up = upload.id,
                                              !.reserved = upload.reserved]]
  /\ UNCHANGED <<blob, upload, files, metering, outside>>

AbortStorage(c) ==
  /\ At(c, "abort") /\ Goto(c, "abortRows")
  /\ RemoveStaged(call[c].up)
  /\ UNCHANGED <<blob, upload, assembling, stored, metering, outside>>

Remaining == upload'.id # 0 /\ ~upload'.completed

AbortRows(c) ==
  /\ At(c, "abortRows")
  /\ RemoveUpload(call[c].up) /\ Undercut(call[c].up)
  /\ blob' = IF ~Remaining /\ blob.state = "uploading" THEN Absent ELSE blob
  /\ IF call[c].reserved THEN Goto(c, "releaseAborted") ELSE Done(c)
  /\ UNCHANGED <<files, metering, sweeper, referenced, begun, mishaps>>

ReleaseAborted(c) ==
  /\ At(c, "releaseAborted") /\ Done(c)
  /\ ReleaseReservation
  /\ UNCHANGED <<blob, upload, files, outside>>

AbortStep(c) == AbortStorage(c) \/ AbortRows(c) \/ ReleaseAborted(c)

(***************************************************************************)
(* Maintenance.  Expired uploads first, then blobs nothing refers to.      *)
(***************************************************************************)
SweepTo(step) == sweeper' = [sweeper EXCEPT !.at = step]
aside == <<call, referenced, undercut, begun, mishaps>>

(* Fault: a completion that never ended keeps its upload.                   *)
SweepableUnclaimed ==
  upload.id # 0 /\ ~upload.completed /\ upload.expired /\ upload.claimedBy = None

Sweepable ==
  /\ upload.id # 0 /\ ~upload.completed /\ upload.expired
  /\ upload.claimedBy = None \/ upload.stale

FindExpired ==
  /\ sweeper.at = "idle" /\ Sweepable
  /\ sweeper' = [at |-> "abort", up |-> upload.id, reserved |-> upload.reserved]
  /\ UNCHANGED <<blob, upload, files, metering, aside>>

SweepStaged ==
  /\ sweeper.at = "abort" /\ SweepTo("row")
  /\ RemoveStaged(sweeper.up)
  /\ UNCHANGED <<blob, upload, assembling, stored, metering, aside>>

SweepRow ==
  /\ sweeper.at = "row"
  /\ RemoveUpload(sweeper.up) /\ Undercut(sweeper.up)
  /\ SweepTo(IF upload.id = sweeper.up /\ sweeper.reserved THEN "release" ELSE "blob")
  /\ UNCHANGED <<blob, files, metering, call, referenced, begun, mishaps>>

SweepReservation ==
  /\ sweeper.at = "release" /\ SweepTo("blob")
  /\ ReleaseReservation
  /\ UNCHANGED <<blob, upload, files, aside>>

(* Fault: the blob row is removed whatever became of it.                    *)
SweepBlobAny ==
  /\ sweeper.at = "blob" /\ SweepTo("idle")
  /\ blob' = IF upload.id = 0 \/ upload.completed \/ upload.expired THEN Absent ELSE blob
  /\ UNCHANGED <<upload, files, metering, aside>>

SweepBlob ==
  /\ sweeper.at = "blob" /\ SweepTo("idle")
  /\ blob' = IF /\ blob.state = "uploading"
                /\ upload.id = 0 \/ upload.completed \/ upload.expired
             THEN Absent ELSE blob
  /\ UNCHANGED <<upload, files, metering, aside>>

(* Completed uploads are kept for a week: no request is older.              *)
RemoveCompleted ==
  /\ sweeper.at = "idle" /\ upload.completed
  /\ \A c \in Requests : call[c].at \in {"idle", "dead"}
  /\ upload' = NoUpload
  /\ UNCHANGED <<blob, files, metering, outside, call>>

(* The candidates are chosen in a transaction, and removed after it.        *)
Collectable == blob.state = "ready" /\ ~referenced

ChooseGarbage ==
  /\ sweeper.at = "idle" /\ Collectable
  /\ SweepTo("bytes")
  /\ UNCHANGED <<blob, upload, files, metering, aside>>

CollectBytes ==
  /\ sweeper.at = "bytes" /\ SweepTo("blobRow")
  /\ stored' = None
  /\ UNCHANGED <<blob, upload, staged, assembling, metering, aside>>

CollectRow ==
  /\ sweeper.at = "blobRow" /\ SweepTo("idle")
  /\ blob' = Absent
  /\ UNCHANGED <<upload, files, metering, aside>>

SweepStep == \/ FindExpired \/ SweepStaged \/ SweepRow \/ SweepReservation \/ SweepBlob
             \/ RemoveCompleted \/ ChooseGarbage \/ CollectBytes \/ CollectRow

(***************************************************************************)
(* Commands that refer to the blob, time, and what fails.                  *)
(***************************************************************************)
Refer ==
  /\ blob.state = "ready" /\ ~referenced /\ referenced' = TRUE
  /\ UNCHANGED <<blob, upload, files, metering, call, sweeper, undercut, begun, mishaps>>

Unrefer ==
  /\ referenced /\ referenced' = FALSE
  /\ UNCHANGED <<blob, upload, files, metering, call, sweeper, undercut, begun, mishaps>>

UploadExpires ==
  /\ upload.id # 0 /\ ~upload.completed /\ ~upload.expired
  /\ upload' = [upload EXCEPT !.expired = TRUE]
  /\ UNCHANGED <<blob, files, metering, call, outside>>

(* No request that is alive takes longer than its lease of an hour.         *)
LeaseExpires ==
  /\ upload.claimedBy # None /\ ~upload.stale /\ ~Held
  /\ upload' = [upload EXCEPT !.stale = TRUE]
  /\ UNCHANGED <<blob, files, metering, call, outside>>

Mishap(c) ==
  /\ mishaps < MaxIncidents /\ mishaps' = mishaps + 1
  /\ UNCHANGED <<blob, upload, files, metering, sweeper, referenced, undercut, begun>>

StatementFails(c) ==
  /\ \/ call[c].at \in {"begin", "insert", "mark"} /\ Goto(c, "undo")
     \/ call[c].at \in CompleteSteps \ {"unclaim"} /\ Goto(c, "unclaim")
  /\ Mishap(c)

Dies(c) ==
  /\ call[c].at \notin {"idle", "dead"}
  /\ call' = [call EXCEPT ![c] = [Idle EXCEPT !.at = "dead"]]
  /\ Mishap(c)

Step(c) == CreateStep(c) \/ StorePart(c) \/ RecordPart(c) \/ CompleteStep(c) \/ AbortStep(c)

Next ==
  \/ \E c \in Requests :
       \/ \E h \in Contents : CreateUpload(c, h) \/ WritePart(c, h)
       \/ Complete(c) \/ Abort(c) \/ Step(c) \/ StatementFails(c) \/ Dies(c)
  \/ SweepStep \/ Refer \/ Unrefer \/ UploadExpires \/ LeaseExpires

Spec == Init /\ [][Next]_uploadVars

(***************************************************************************)
(* Properties.                                                             *)
(***************************************************************************)
(* A blob that is ready has the bytes it was announced with, except while
   maintenance collects it, and unless the row of an upload was removed under
   the request that completes it (complete, abort, cleanup, GC).            *)
ReadyHasBytes ==
  blob.state = "ready" /\ sweeper.at # "blobRow" /\ ~undercut => stored = blob.hash

(* A blob that is ready stays so until maintenance collects it, with the same
   exception: then an upload begun by a request that had not seen it ready
   takes its row back to uploading (createUpload).                          *)
ReadyUntilCollected ==
  [][blob.state = "ready" /\ ~undercut =>
       blob' = blob \/ sweeper.at = "blobRow"]_uploadVars

(* No blob goes uncounted: while its reservation is open it is counted as
   reserved, once it is committed as active, and so is a blob that is ready.
   With a storage limit it is counted exactly once, and a ready blob is
   committed; without one, requests that retry the same released reservation
   count it once each (UsageService.reserveBlob, and every path of BlobService
   that settles a reservation).                                             *)
UsageBalanced ==
  Metered =>
    /\ reservation.status \in Open => usage.reserved >= 1
    /\ reservation.status = "committed" \/ blob.state = "ready" => usage.active >= 1
    /\ HasLimit =>
         /\ usage.reserved = (IF reservation.status \in Open THEN 1 ELSE 0)
         /\ usage.active = (IF reservation.status = "committed" THEN 1 ELSE 0)
         /\ blob.state = "ready" => reservation.status = "committed"

(* One request at a time works on the bytes of an upload (complete).        *)
OneCompletion ==
  \A c, d \in Requests :
    /\ call[c].at \in CompleteSteps \ {"unclaim"} /\ call[d].at \in CompleteSteps \ {"unclaim"}
    /\ call[c].up = call[d].up
    => c = d

(* A blob that an object refers to can be read (the check of blob references
   in #apply, GC).                                                          *)
ReferencedReadable == referenced => blob.state = "ready" /\ stored = blob.hash

(* A blob that is ready has its bytes, one request at a time assembles it,
   and the account is charged for, and has reserved, no less than its uploads
   hold, and exactly that if it has a storage limit, along every path of
   completing, aborting and sweeping.                                       *)
UploadsSound == ReadyHasBytes /\ OneCompletion /\ UsageBalanced
=============================================================================
