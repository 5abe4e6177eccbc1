---------------------------- MODULE BlobUploadProofs ----------------------------
(***************************************************************************)
(* What the upload of a blob guarantees for every number of requests,      *)
(* contents, uploads and failures, and what a backup of the blobs, taken   *)
(* and restored, has of them, checked by TLAPS.                            *)
(***************************************************************************)
EXTENDS BlobUpload, BackupPromise, TLAPS

(* The bounds are numbers; null is no request and no content.               *)
BlobsAssumption ==
  /\ MaxUploads \in Nat /\ MaxIncidents \in Nat /\ Metered \in BOOLEAN
  /\ HasLimit \in BOOLEAN
  /\ None \notin Requests /\ None \notin Contents

AllSteps == CreateSteps \cup CompleteSteps \cup OtherSteps

UploadRow == [id : {0} \cup UploadIds, reserved : BOOLEAN, claimedBy : Requests \cup {None},
              stale : BOOLEAN, expired : BOOLEAN, completed : BOOLEAN, received : BOOLEAN]

CallRow == [at : AllSteps, up : {0} \cup UploadIds, asks : Contents \cup {None},
            reserved : BOOLEAN, saw : Contents \cup {None}]

SweeperRow == [at : {"idle", "abort", "row", "release", "blob", "bytes", "blobRow"},
               up : {0} \cup UploadIds, reserved : BOOLEAN]

-----------------------------------------------------------------------------
(* The inductive invariant.                                                 *)

(* complete has claimed the upload; it still needs the upload's row.        *)
Claiming == CompleteSteps \ {"unclaim"}
Working  == CompleteSteps \ {"unclaim", "releaseDeleted"}

RowSound ==
  /\ upload.id # 0 => upload.reserved = Metered
  /\ upload.completed => upload.claimedBy = None
  /\ upload.stale => ~Held

(* A request that completes an upload knows which, and how it was begun; the
   row, while it is there, says that this request has claimed it.  A request
   that writes has bytes to write.  One that reads a reservation before it
   takes it has no limit to keep to.                                        *)
CallsSound ==
  \A c \in Requests :
    /\ call[c].at \in CompleteSteps => call[c].up # 0 /\ call[c].reserved = Metered
    /\ call[c].at \in Claiming /\ call[c].up = upload.id => upload.claimedBy = c
    /\ call[c].at = "write" => call[c].saw \in Contents
    /\ call[c].at = "take" => ~HasLimit

(* Ids are given out one after the other, and only the request that began an
   upload knows of it before its row is inserted.                           *)
IdsFresh ==
  /\ upload.id <= begun /\ \A c \in Requests : call[c].up <= begun
  /\ \A c \in Requests : call[c].at = "insert" =>
       /\ call[c].up # 0 /\ call[c].up # upload.id
       /\ \A d \in Requests \ {c} : call[d].up # call[c].up

UsageExact ==
  /\ reservation.status \in Open => usage.reserved >= 1
  /\ reservation.status = "committed" \/ (Metered /\ blob.state = "ready") => usage.active >= 1
  /\ HasLimit =>
       /\ usage.reserved = (IF reservation.status \in Open THEN 1 ELSE 0)
       /\ usage.active = (IF reservation.status = "committed" THEN 1 ELSE 0)
       /\ Metered /\ blob.state = "ready" => reservation.status = "committed"

(* The row that a request needs is there.                                   *)
RowHeld ==
  \A c \in Requests : call[c].at \in Working =>
    upload.id = call[c].up /\ upload.claimedBy = c /\ ~upload.completed

(* No upload of a blob that is ready is under way, and once its row is
   removed no request is.                                                   *)
ReadyRests ==
  blob.state = "ready" =>
    \/ upload.id # 0 /\ upload.completed
    \/ upload.id = 0 /\ \A c \in Requests : call[c].at \in {"idle", "dead"}

CollectsReady == sweeper.at \in {"bytes", "blobRow"} => blob.state = "ready"

(* What a request has read of the bytes is what is stored.                  *)
DigestCurrent ==
  \A c \in Requests :
    /\ call[c].at \in {"compare", "commit"} => stored = call[c].saw
    /\ call[c].at = "commit" /\ blob.state # "absent" => blob.hash = call[c].saw

Undisturbed ==
  ~undercut => RowHeld /\ ReadyRests /\ CollectsReady /\ DigestCurrent /\ ReadyHasBytes

BlobInv ==
  TypeOK /\ RowSound /\ CallsSound /\ IdsFresh /\ UsageExact /\ OneCompletion /\ Undisturbed

-----------------------------------------------------------------------------
(* Types, in the form that the proofs use.                                  *)
LEMMA Types ==
  TypeOK <=>
    /\ blob \in [state : {"absent", "uploading", "ready"}, hash : Contents \cup {None}]
    /\ upload \in UploadRow
    /\ staged \in [UploadIds -> Contents \cup {"gone", "empty"}]
    /\ assembling \in [UploadIds -> Contents \cup {None}]
    /\ stored \in Contents \cup {None}
    /\ reservation \in [status : Open \cup {"none", "released", "committed"},
                        hash : Contents \cup {None}]
    /\ usage \in [reserved : Nat, active : Nat]
    /\ call \in [Requests -> CallRow]
    /\ sweeper \in SweeperRow
    /\ referenced \in BOOLEAN /\ undercut \in BOOLEAN
    /\ begun \in 0..MaxUploads /\ mishaps \in 0..MaxIncidents
BY DEF TypeOK, UploadRow, CallRow, SweeperRow, AllSteps

LEMMA CallIs ==
  ASSUME TypeOK, NEW c \in Requests, NEW row \in CallRow, call' = [call EXCEPT ![c] = row]
  PROVE  /\ call' \in [Requests -> CallRow] /\ call'[c] = row
         /\ \A d \in Requests \ {c} : call'[d] = call[d]
<1>1. call \in [Requests -> CallRow]
  BY Types
<1> QED  BY <1>1

(* A request goes on to a step.                                             *)
LEMMA GotoIs ==
  ASSUME TypeOK, NEW c \in Requests, NEW step \in AllSteps, Goto(c, step)
  PROVE  \E row \in CallRow :
           /\ call' = [call EXCEPT ![c] = row]
           /\ row.at = step /\ row.up = call[c].up /\ row.asks = call[c].asks
           /\ row.reserved = call[c].reserved /\ row.saw = call[c].saw
<1> DEFINE row == [call[c] EXCEPT !.at = step]
<1>1. call \in [Requests -> CallRow] /\ call[c] \in CallRow
  BY Types
<1>2. call' = [call EXCEPT ![c] = row]
  BY <1>1 DEF Goto
<1>3. /\ row \in CallRow /\ row.at = step /\ row.up = call[c].up /\ row.asks = call[c].asks
      /\ row.reserved = call[c].reserved /\ row.saw = call[c].saw
  BY <1>1 DEF CallRow
<1> HIDE DEF row
<1> QED  BY <1>2, <1>3

LEMMA DoneIs ==
  ASSUME NEW c, Done(c)
  PROVE  Idle \in CallRow /\ call' = [call EXCEPT ![c] = Idle]
BY DEF Done, Idle, CallRow, AllSteps, OtherSteps

(* What a step leaves alone, or well-typed.                                 *)
Quiet == UNCHANGED <<blob, upload, stored, sweeper, referenced, undercut, begun>>

FilesTyped ==
  /\ staged' \in [UploadIds -> Contents \cup {"gone", "empty"}]
  /\ assembling' \in [UploadIds -> Contents \cup {None}]

MeterExact ==
  /\ reservation' \in [status : Open \cup {"none", "released", "committed"},
                       hash : Contents \cup {None}]
  /\ usage' \in [reserved : Nat, active : Nat]
  /\ UsageExact'

LEMMA FilesSame ==
  ASSUME TypeOK, UNCHANGED <<staged, assembling>>
  PROVE  FilesTyped
BY Types DEF FilesTyped

LEMMA StagedGone ==
  ASSUME TypeOK, NEW u, RemoveStaged(u), UNCHANGED assembling
  PROVE  FilesTyped
BY Types DEF FilesTyped, RemoveStaged

LEMMA MeterSame ==
  ASSUME BlobInv, UNCHANGED metering, blob'.state = "ready" => blob.state = "ready"
  PROVE  MeterExact
BY Types DEF MeterExact, BlobInv, metering, UsageExact

(* A reservation is released, or stays as it is.                            *)
LEMMA ReleaseExact ==
  ASSUME BlobInv, ReleaseReservation, UNCHANGED blob
  PROVE  MeterExact
<1> USE DEF MeterExact
<1>1. /\ reservation \in [status : Open \cup {"none", "released", "committed"},
                          hash : Contents \cup {None}]
      /\ usage \in [reserved : Nat, active : Nat] /\ UsageExact
  BY Types DEF BlobInv
<1>2. CASE UNCHANGED metering
  BY <1>1, <1>2 DEF metering, UsageExact
<1>3. CASE /\ reservation.status \in Open
           /\ reservation' = [reservation EXCEPT !.status = "released"]
           /\ usage' = [usage EXCEPT !.reserved = Released(@)]
  <2>1. usage.reserved >= 1 /\ (HasLimit => usage.reserved = 1 /\ usage.active = 0)
    BY <1>1, <1>3 DEF UsageExact, Open
  <2>2. /\ usage'.reserved = usage.reserved - 1 /\ usage'.active = usage.active
        /\ usage' \in [reserved : Nat, active : Nat]
    BY <1>1, <1>3, <2>1 DEF Released
  <2>3. /\ reservation'.status = "released"
        /\ reservation' \in [status : Open \cup {"none", "released", "committed"},
                             hash : Contents \cup {None}]
    BY <1>1, <1>3
  <2>4. /\ HasLimit => ~(Metered /\ blob.state = "ready")
        /\ Metered /\ blob.state = "ready" => usage.active >= 1
    BY <1>1, <1>3 DEF UsageExact, Open
  <2> QED  BY <2>1, <2>2, <2>3, <2>4 DEF UsageExact, Open
<1> QED  BY <1>2, <1>3 DEF ReleaseReservation

-----------------------------------------------------------------------------
(* A step of one request that leaves the rows and the stored bytes alone.   *)

(* What such a step may make of what the request remembers.                 *)
GoesOn(c, row) ==
  /\ row.at # "insert" /\ (row.at = "write" => row.saw \in Contents)
  /\ row.at = "take" => ~HasLimit
  /\ row.up \in {0, upload.id, call[c].up}
  /\ row.at \in CompleteSteps =>
       call[c].at \in CompleteSteps /\ row.up = call[c].up /\ row.reserved = call[c].reserved
  /\ row.at \in Claiming => call[c].at \in Claiming
  /\ row.at \in Working => call[c].at \in Working
  /\ ~undercut => /\ row.at \in {"compare", "commit"} => stored = row.saw
                  /\ row.at = "commit" /\ blob.state # "absent" => blob.hash = row.saw
  /\ call[c].at \in {"idle", "dead"} /\ row.at \notin {"idle", "dead"} =>
       blob.state # "ready" \/ upload.id # 0

LEMMA CallKeeps ==
  ASSUME BlobInv, BlobsAssumption, NEW c \in Requests, NEW row \in CallRow,
         call' = [call EXCEPT ![c] = row], GoesOn(c, row),
         Quiet, FilesTyped, MeterExact, mishaps' \in 0..MaxIncidents
  PROVE  BlobInv'
<1>1. /\ call' \in [Requests -> CallRow] /\ call'[c] = row
      /\ \A d \in Requests \ {c} : call'[d] = call[d]
  BY CallIs DEF BlobInv
<1> USE DEF Quiet
<1>2. TypeOK'
  BY <1>1, Types DEF BlobInv, TypeOK, CallRow, AllSteps, FilesTyped, MeterExact
<1>3. RowSound'
  <2>1. ~Held => ~Held'
    BY <1>1 DEF Held, Holding, GoesOn
  <2> QED  BY <2>1 DEF BlobInv, RowSound
<1>4. CallsSound'
  <2>1. Claiming \subseteq CompleteSteps
    BY DEF Claiming
  <2> QED  BY <1>1, <2>1 DEF BlobInv, CallsSound, GoesOn
<1>5. IdsFresh'
  <2>1. row.up <= begun
    BY DEF GoesOn, BlobInv, IdsFresh, TypeOK
  <2>2. \A d \in Requests : call'[d].up <= begun
    BY <1>1, <2>1 DEF BlobInv, IdsFresh
  <2>3. ASSUME NEW d \in Requests, call'[d].at = "insert"
        PROVE  /\ call'[d].up # 0 /\ call'[d].up # upload.id
               /\ \A e \in Requests \ {d} : call'[e].up # call'[d].up
    <3>1. d # c /\ call'[d] = call[d]
      BY <1>1, <2>3 DEF GoesOn
    <3>2. /\ call[d].up # 0 /\ call[d].up # upload.id
          /\ \A e \in Requests \ {d} : call[e].up # call[d].up
      BY <2>3, <3>1 DEF BlobInv, IdsFresh
    <3>3. row.up # call[d].up
      BY <3>1, <3>2 DEF GoesOn
    <3> QED  BY <1>1, <3>1, <3>2, <3>3
  <2> QED  BY <2>2, <2>3 DEF BlobInv, IdsFresh
<1>6. OneCompletion'
  <2>1. \A d \in Requests : call'[d].at \in Claiming =>
          call[d].at \in Claiming /\ call'[d].up = call[d].up
    BY <1>1 DEF GoesOn, Claiming
  <2> QED  BY <2>1 DEF BlobInv, OneCompletion, Claiming
<1>7. Undisturbed'
  <2> SUFFICES ASSUME ~undercut
               PROVE  (RowHeld /\ ReadyRests /\ CollectsReady /\ DigestCurrent /\ ReadyHasBytes)'
    BY DEF Undisturbed
  <2>1. RowHeld /\ ReadyRests /\ CollectsReady /\ DigestCurrent /\ ReadyHasBytes
    BY DEF BlobInv, Undisturbed
  <2>2. RowHeld'
    <3>1. \A d \in Requests : call'[d].at \in Working =>
            call[d].at \in Working /\ call'[d].up = call[d].up
      BY <1>1 DEF GoesOn, Working
    <3> QED  BY <2>1, <3>1 DEF RowHeld
  <2>3. ReadyRests'
    BY <1>1, <2>1 DEF ReadyRests, GoesOn
  <2>4. DigestCurrent'
    BY <1>1, <2>1 DEF DigestCurrent, GoesOn
  <2> QED  BY <2>1, <2>2, <2>3, <2>4 DEF CollectsReady, ReadyHasBytes
<1> QED  BY <1>2, <1>3, <1>4, <1>5, <1>6, <1>7 DEF BlobInv, MeterExact

LEMMA GotoKeeps ==
  ASSUME BlobInv, BlobsAssumption, NEW c \in Requests,
         NEW step \in AllSteps \ {"insert", "write", "take"},
         Goto(c, step), Quiet, FilesTyped, MeterExact, mishaps' \in 0..MaxIncidents,
         call[c].at \notin {"idle", "dead"},
         step \in CompleteSteps => call[c].at \in CompleteSteps,
         step \in Claiming => call[c].at \in Claiming,
         step \in Working => call[c].at \in Working,
         ~undercut => /\ step \in {"compare", "commit"} => stored = call[c].saw
                      /\ step = "commit" /\ blob.state # "absent" => blob.hash = call[c].saw
  PROVE  BlobInv'
<1>1. PICK row \in CallRow :
        /\ call' = [call EXCEPT ![c] = row]
        /\ row.at = step /\ row.up = call[c].up /\ row.asks = call[c].asks
        /\ row.reserved = call[c].reserved /\ row.saw = call[c].saw
  BY GotoIs DEF BlobInv
<1>2. GoesOn(c, row)
  BY <1>1 DEF GoesOn
<1> QED  BY <1>1, <1>2, CallKeeps

LEMMA DoneKeeps ==
  ASSUME BlobInv, BlobsAssumption, NEW c \in Requests, Done(c), Quiet, FilesTyped, MeterExact,
         mishaps' \in 0..MaxIncidents
  PROVE  BlobInv'
<1>1. Idle \in CallRow /\ call' = [call EXCEPT ![c] = Idle]
  BY DoneIs
<1>2. GoesOn(c, Idle)
  BY DEF GoesOn, Idle, CompleteSteps, Claiming, Working
<1> QED  BY <1>1, <1>2, CallKeeps

(* The steps by their kind.                                                 *)
LEMMA CreateStepsApart ==
  /\ CreateSteps \subseteq AllSteps /\ CompleteSteps \subseteq AllSteps
  /\ OtherSteps \subseteq AllSteps
  /\ Working \subseteq Claiming /\ Claiming \subseteq CompleteSteps
  /\ \A s \in CreateSteps \cup OtherSteps : s \notin CompleteSteps
BY DEF AllSteps, CreateSteps, CompleteSteps, OtherSteps, Working, Claiming

(* A step to a step of createUpload or of abort.                            *)
LEMMA BeginsKeep ==
  ASSUME BlobInv, BlobsAssumption, NEW c \in Requests,
         NEW step \in (CreateSteps \cup OtherSteps) \ {"insert", "write", "take"},
         Goto(c, step), Quiet, FilesTyped, MeterExact, mishaps' \in 0..MaxIncidents,
         call[c].at \notin {"idle", "dead"}
  PROVE  BlobInv'
<1>1. step \notin CompleteSteps /\ step \notin {"compare", "commit"} /\ step \in AllSteps
  BY CreateStepsApart DEF CompleteSteps
<1>2. step \notin Claiming /\ step \notin Working
  BY <1>1, CreateStepsApart
<1> QED  BY <1>1, <1>2, GotoKeeps

(* A row of one that goes on with the upload there is, or begins.           *)
LEMMA EntersKeep ==
  ASSUME BlobInv, BlobsAssumption, NEW c \in Requests, NEW row \in CallRow,
         call' = [call EXCEPT ![c] = row],
         row.at \in (CreateSteps \cup OtherSteps) \ {"insert", "take"}, row.up \in {0, upload.id, call[c].up},
         row.at = "write" => row.saw \in Contents,
         call[c].at \in {"idle", "dead"} => blob.state # "ready" \/ upload.id # 0,
         UNCHANGED <<blob, upload, files, metering, outside>>
  PROVE  BlobInv'
<1>1. row.at \notin CompleteSteps /\ row.at \notin {"compare", "commit"}
  BY CreateStepsApart DEF CompleteSteps
<1>2. GoesOn(c, row)
  BY <1>1, CreateStepsApart DEF GoesOn
<1>3. Quiet /\ FilesTyped /\ MeterExact /\ mishaps' \in 0..MaxIncidents
  BY FilesSame, MeterSame, Types DEF Quiet, files, outside, BlobInv
<1> QED  BY <1>2, <1>3, CallKeeps

-----------------------------------------------------------------------------
(* createUpload, writePart and abort, as far as they leave the rows alone.  *)
LEMMA CreateUploadKeeps ==
  ASSUME BlobInv, BlobsAssumption, NEW c \in Requests, NEW h \in Contents, CreateUpload(c, h)
  PROVE  BlobInv'
<1> DEFINE step == IF blob.state = "uploading" THEN "active"
                   ELSE IF Metered THEN "reserve" ELSE "begin"
           row == [Idle EXCEPT !.asks = h, !.at = step]
<1>1. call' = [call EXCEPT ![c] = row] /\ blob.state # "ready"
      /\ UNCHANGED <<blob, upload, files, metering, outside>>
  BY DEF CreateUpload
<1>2. step \in CreateSteps \ {"insert", "write", "take"} /\ step \in AllSteps
  BY DEF CreateSteps, AllSteps
<1> HIDE DEF step
<1>3. row \in CallRow /\ row.at = step /\ row.up = 0
  BY <1>2 DEF CallRow, Idle
<1> HIDE DEF row
<1> QED  BY <1>1, <1>2, <1>3, EntersKeep

LEMMA FindKeeps ==
  ASSUME BlobInv, BlobsAssumption, NEW c \in Requests, FindActive(c) \/ FindStale(c)
  PROVE  BlobInv'
<1>1. UNCHANGED <<blob, upload, files, metering, outside>> /\ call[c].at \notin {"idle", "dead"}
  BY DEF FindActive, FindStale, At
<1>2. Quiet /\ FilesTyped /\ MeterExact /\ mishaps' \in 0..MaxIncidents
  BY <1>1, FilesSame, MeterSame, Types DEF Quiet, files, outside, BlobInv
<1>3. CASE Done(c)
  BY <1>2, <1>3, DoneKeeps
<1>4. ASSUME NEW step \in {"stale", "reserve", "begin"}, Goto(c, step) PROVE BlobInv'
  BY <1>1, <1>2, <1>4, BeginsKeep DEF CreateSteps
<1>5. CASE call' = [call EXCEPT ![c].at = "abortStale", ![c].up = upload.id,
                                ![c].reserved = upload.reserved]
  <2> DEFINE row == [call[c] EXCEPT !.at = "abortStale", !.up = upload.id,
                                    !.reserved = upload.reserved]
  <2>1. call \in [Requests -> CallRow] /\ call[c] \in CallRow /\ upload \in UploadRow
    BY Types DEF BlobInv
  <2>2. call' = [call EXCEPT ![c] = row]
    BY <1>5, <2>1
  <2>3. row \in CallRow /\ row.at = "abortStale" /\ row.up = upload.id
    BY <2>1 DEF CallRow, UploadRow, AllSteps, CreateSteps
  <2> HIDE DEF row
  <2> QED  BY <1>1, <2>2, <2>3, EntersKeep DEF CreateSteps
<1> QED  BY <1>3, <1>4, <1>5 DEF FindActive, FindStale, FirstOf

LEMMA StaleKeeps ==
  ASSUME BlobInv, BlobsAssumption, NEW c \in Requests,
         \/ AbortStale(c) \/ ReleaseStale(c) \/ UndoBegin(c) \/ UndoReserve(c)
         \/ AbortStorage(c) \/ ReleaseAborted(c)
  PROVE  BlobInv'
<1>1. Quiet /\ mishaps' \in 0..MaxIncidents /\ call[c].at \notin {"idle", "dead"}
  BY Types DEF AbortStale, ReleaseStale, UndoBegin, UndoReserve, AbortStorage, ReleaseAborted, At,
     Quiet, files, outside, BlobInv
<1>2. FilesTyped
  BY FilesSame, StagedGone DEF AbortStale, ReleaseStale, UndoBegin, UndoReserve, AbortStorage,
     ReleaseAborted, files, BlobInv
<1>3. MeterExact
  BY MeterSame, ReleaseExact DEF AbortStale, ReleaseStale, UndoBegin, UndoReserve, AbortStorage,
     ReleaseAborted
<1>4. Done(c) \/ \E step \in {"deleteStale", "reserve", "undoReserve", "abortRows"} : Goto(c, step)
  BY DEF AbortStale, ReleaseStale, UndoBegin, UndoReserve, AbortStorage, ReleaseAborted
<1>5. ASSUME NEW step \in {"deleteStale", "reserve", "undoReserve", "abortRows"}, Goto(c, step)
      PROVE  BlobInv'
  BY <1>1, <1>2, <1>3, <1>5, BeginsKeep DEF CreateSteps, OtherSteps
<1> QED  BY <1>1, <1>2, <1>3, <1>4, <1>5, DoneKeeps

(* With a limit what is taken is new or was released; without one it is
   counted once more, whatever it is.                                       *)
LEMMA TakeExact ==
  ASSUME BlobInv, NEW h \in Contents \cup {None}, Takeable(h) \/ ~HasLimit,
         TakeReservation(h), UNCHANGED blob
  PROVE  MeterExact
<1>1. /\ usage \in [reserved : Nat, active : Nat] /\ UsageExact
  BY Types DEF BlobInv
<1>2. HasLimit => reservation.status \notin Open \cup {"committed"}
  BY DEF Takeable, Open
<1>3. HasLimit => usage.reserved = 0 /\ usage.active = 0
  BY <1>1, <1>2 DEF UsageExact
<1>4. /\ usage'.reserved = usage.reserved + 1 /\ usage'.active = usage.active
      /\ usage' \in [reserved : Nat, active : Nat]
  BY <1>1 DEF TakeReservation
<1>5. /\ reservation'.status = "reserved"
      /\ reservation' \in [status : Open \cup {"none", "released", "committed"},
                           hash : Contents \cup {None}]
  BY DEF TakeReservation, Open
<1>6. /\ HasLimit => ~(Metered /\ blob.state = "ready")
      /\ Metered /\ blob.state = "ready" => usage.active >= 1
  BY <1>1, <1>2 DEF UsageExact
<1>7. usage.reserved \in Nat /\ usage'.reserved >= 1
  BY <1>1, <1>4
<1> QED  BY <1>3, <1>4, <1>5, <1>6, <1>7 DEF MeterExact, UsageExact, Open

LEMMA ReserveKeeps ==
  ASSUME BlobInv, BlobsAssumption, NEW c \in Requests, Reserve(c) \/ Take(c)
  PROVE  BlobInv'
<1>1. Quiet /\ FilesTyped /\ mishaps' \in 0..MaxIncidents /\ UNCHANGED blob
      /\ call[c].at \in {"reserve", "take"}
  BY FilesSame, Types DEF Reserve, UsageLocked, Take, At, Quiet, files, outside, BlobInv
<1>2. /\ call \in [Requests -> CallRow] /\ call[c] \in CallRow
      /\ call[c].asks \in Contents \cup {None} /\ call[c].saw \in Contents \cup {None}
      /\ reservation.hash \in Contents \cup {None}
  BY Types DEF BlobInv, CallRow
<1>3. ASSUME NEW row \in CallRow, MeterExact, call' = [call EXCEPT ![c] = row],
             row.up = call[c].up, row.at = "begin" \/ (row.at = "take" /\ ~HasLimit)
      PROVE  BlobInv'
  <2>1. GoesOn(c, row)
    BY <1>1, <1>3 DEF GoesOn, CompleteSteps, Claiming, Working
  <2> QED  BY <1>1, <1>3, <2>1, CallKeeps
<1>4. CASE Done(c) /\ UNCHANGED metering
  BY <1>1, <1>4, MeterSame, DoneKeeps
<1>5. ASSUME NEW b \in BOOLEAN, MeterExact,
             call' = [call EXCEPT ![c].at = "begin", ![c].reserved = b]
      PROVE  BlobInv'
  <2> DEFINE row == [call[c] EXCEPT !.at = "begin", !.reserved = b]
  <2>1. call' = [call EXCEPT ![c] = row]
    BY <1>2, <1>5
  <2>2. row \in CallRow /\ row.at = "begin" /\ row.up = call[c].up
    BY <1>2 DEF CallRow, AllSteps, CreateSteps
  <2> HIDE DEF row
  <2> QED  BY <1>3, <1>5, <2>1, <2>2
<1>6. ASSUME ~HasLimit, MeterExact,
             call' = [call EXCEPT ![c].at = "take", ![c].saw = reservation.hash]
      PROVE  BlobInv'
  <2> DEFINE row == [call[c] EXCEPT !.at = "take", !.saw = reservation.hash]
  <2>1. call' = [call EXCEPT ![c] = row]
    BY <1>2, <1>6
  <2>2. row \in CallRow /\ row.at = "take" /\ row.up = call[c].up
    BY <1>2 DEF CallRow, AllSteps, CreateSteps
  <2> HIDE DEF row
  <2> QED  BY <1>3, <1>6, <2>1, <2>2
<1>7. ASSUME MeterExact,
             call' = [call EXCEPT ![c].at = "begin", ![c].reserved = TRUE, ![c].saw = None]
      PROVE  BlobInv'
  <2> DEFINE row == [call[c] EXCEPT !.at = "begin", !.reserved = TRUE, !.saw = None]
  <2>1. call' = [call EXCEPT ![c] = row]
    BY <1>2, <1>7
  <2>2. row \in CallRow /\ row.at = "begin" /\ row.up = call[c].up
    BY <1>2 DEF CallRow, AllSteps, CreateSteps
  <2> HIDE DEF row
  <2> QED  BY <1>3, <1>7, <2>1, <2>2
<1>8. ASSUME UNCHANGED metering PROVE MeterExact
  BY <1>1, <1>8, MeterSame
<1>9. ASSUME Takeable(call[c].asks) \/ ~HasLimit, TakeReservation(call[c].asks) PROVE MeterExact
  BY <1>1, <1>2, <1>9, TakeExact
<1>10. CASE Reserve(c)
  BY <1>4, <1>5, <1>6, <1>8, <1>9, <1>10 DEF Reserve, UsageLocked
<1>11. CASE Take(c)
  <2>1. ~HasLimit
    BY <1>11 DEF Take, At, BlobInv, CallsSound
  <2> QED  BY <1>4, <1>7, <1>9, <1>11, <2>1 DEF Take
<1> QED  BY <1>10, <1>11

LEMMA WriteKeeps ==
  ASSUME BlobInv, BlobsAssumption, NEW c \in Requests,
         (\E bytes \in Contents : WritePart(c, bytes)) \/ Abort(c)
  PROVE  BlobInv'
<1>1. upload.id # 0 /\ UNCHANGED <<blob, upload, files, metering, outside>> /\ upload \in UploadRow
  BY Types DEF WritePart, Abort, Active, BlobInv
<1>2. ASSUME NEW bytes \in Contents, WritePart(c, bytes) PROVE BlobInv'
  <2> DEFINE row == [Idle EXCEPT !.at = "write", !.up = upload.id, !.saw = bytes]
  <2>1. row \in CallRow /\ row.at = "write" /\ row.up = upload.id /\ row.saw \in Contents
    BY <1>1 DEF Idle, CallRow, UploadRow, AllSteps, OtherSteps
  <2>2. call' = [call EXCEPT ![c] = row]
    BY <1>2 DEF WritePart
  <2> HIDE DEF row
  <2> QED  BY <1>1, <2>1, <2>2, EntersKeep DEF OtherSteps
<1>3. CASE Abort(c)
  <2> DEFINE row == [Idle EXCEPT !.at = "abort", !.up = upload.id, !.reserved = upload.reserved]
  <2>1. row \in CallRow /\ row.at = "abort" /\ row.up = upload.id
    BY <1>1 DEF Idle, CallRow, UploadRow, AllSteps, OtherSteps
  <2>2. call' = [call EXCEPT ![c] = row]
    BY <1>3 DEF Abort
  <2> HIDE DEF row
  <2> QED  BY <1>1, <2>1, <2>2, EntersKeep DEF OtherSteps
<1> QED  BY <1>2, <1>3

LEMMA StoreKeeps ==
  ASSUME BlobInv, BlobsAssumption, NEW c \in Requests, StorePart(c)
  PROVE  BlobInv'
<1>1. Quiet /\ MeterExact /\ mishaps' \in 0..MaxIncidents /\ call[c].at = "write"
  BY MeterSame, Types DEF StorePart, At, Quiet, outside, BlobInv
<1>2. FilesTyped
  <2>1. call[c].saw \in Contents
    BY <1>1 DEF BlobInv, CallsSound
  <2>2. CASE UNCHANGED staged
    BY <2>2, FilesSame DEF StorePart, BlobInv
  <2>3. CASE staged' = [staged EXCEPT ![call[c].up] = call[c].saw]
    BY <2>1, <2>3, Types DEF StorePart, BlobInv, FilesTyped
  <2> QED  BY <2>2, <2>3 DEF StorePart
<1>3. CASE Done(c)
  BY <1>1, <1>2, <1>3, DoneKeeps
<1>4. CASE Goto(c, "received")
  BY <1>1, <1>2, <1>4, BeginsKeep DEF OtherSteps
<1> QED  BY <1>3, <1>4 DEF StorePart

-----------------------------------------------------------------------------
(* complete, as far as it leaves the rows and the stored bytes alone.       *)
LEMMA CheckKeeps ==
  ASSUME BlobInv, BlobsAssumption, NEW c \in Requests,
         \/ CheckParts(c) \/ CheckStored(c) \/ Copy(c) \/ Tidy(c) \/ Compare(c) \/ ReleaseDeleted(c)
  PROVE  BlobInv'
<1>1. Quiet /\ mishaps' \in 0..MaxIncidents
      /\ call[c].at \in {"parts", "exists", "copy", "tidy", "compare", "releaseDeleted"}
  BY Types DEF CheckParts, CheckStored, Copy, Tidy, Compare, ReleaseDeleted, At, Quiet, files,
     outside, BlobInv
<1>2. FilesTyped
  <2>1. CASE Copy(c)
    BY <2>1, Types DEF Copy, FilesTyped, BlobInv
  <2>2. CASE Tidy(c)
    BY <2>2, Types DEF Tidy, RemoveStaged, FilesTyped, BlobInv
  <2> QED  BY <2>1, <2>2, FilesSame DEF CheckParts, CheckStored, Compare, ReleaseDeleted, files,
       BlobInv
<1>3. MeterExact
  BY MeterSame, ReleaseExact DEF CheckParts, CheckStored, Copy, Tidy, Compare, ReleaseDeleted
<1>4. ASSUME Goto(c, "unclaim") PROVE BlobInv'
  BY <1>1, <1>2, <1>3, <1>4, GotoKeeps DEF AllSteps, CompleteSteps, Claiming, Working
<1>5. ASSUME call[c].at # "releaseDeleted",
             NEW step \in {"exists", "copy", "publish", "digest", "deleteBytes"}, Goto(c, step)
      PROVE  BlobInv'
  <2>1. call[c].at \in Working /\ call[c].at \in Claiming /\ call[c].at \in CompleteSteps
    BY <1>1, <1>5 DEF CompleteSteps, Claiming, Working
  <2> QED  BY <1>1, <1>2, <1>3, <1>5, <2>1, GotoKeeps, CreateStepsApart DEF CompleteSteps
<1>6. CASE Compare(c)
  <2>1. call[c].at = "compare"
    BY <1>6 DEF Compare, At
  <2>2. CASE Matches(c) /\ Goto(c, "commit")
    <3>1. ~undercut => stored = call[c].saw
      BY <2>1 DEF BlobInv, Undisturbed, DigestCurrent
    <3> QED  BY <1>1, <1>2, <1>3, <2>1, <2>2, <3>1, GotoKeeps
             DEF AllSteps, CompleteSteps, Claiming, Working, Matches
  <2> QED  BY <1>5, <1>6, <2>1, <2>2 DEF Compare
<1> QED  BY <1>4, <1>5, <1>6 DEF CheckParts, CheckStored, Copy, Tidy, ReleaseDeleted, At

LEMMA DigestKeeps ==
  ASSUME BlobInv, BlobsAssumption, NEW c \in Requests, Digest(c)
  PROVE  BlobInv'
<1>1. /\ Quiet /\ mishaps' \in 0..MaxIncidents /\ FilesTyped /\ MeterExact
      /\ call[c].at = "digest"
  BY FilesSame, MeterSame, Types DEF Digest, At, Quiet, files, outside, BlobInv
<1>2. CASE Goto(c, "unclaim")
  BY <1>1, <1>2, GotoKeeps DEF AllSteps, CompleteSteps, Claiming, Working
<1>3. CASE call' = [call EXCEPT ![c].at = "compare", ![c].saw = stored]
  <2> DEFINE row == [call[c] EXCEPT !.at = "compare", !.saw = stored]
  <2>1. call \in [Requests -> CallRow] /\ call[c] \in CallRow /\ stored \in Contents \cup {None}
    BY Types DEF BlobInv
  <2>2. call' = [call EXCEPT ![c] = row]
    BY <1>3, <2>1
  <2>3. /\ row \in CallRow /\ row.at = "compare" /\ row.saw = stored
        /\ row.up = call[c].up /\ row.reserved = call[c].reserved
    BY <2>1 DEF CallRow, AllSteps, CompleteSteps
  <2> HIDE DEF row
  <2>4. GoesOn(c, row)
    BY <1>1, <2>3 DEF GoesOn, CompleteSteps, Claiming, Working
  <2> QED  BY <1>1, <2>2, <2>3, <2>4, CallKeeps
<1> QED  BY <1>2, <1>3 DEF Digest

LEMMA MishapKeeps ==
  ASSUME BlobInv, BlobsAssumption, NEW c \in Requests, StatementFails(c) \/ Dies(c)
  PROVE  BlobInv'
<1>1. Mishap(c)
  BY DEF StatementFails, Dies
<1>2. Quiet /\ FilesTyped /\ MeterExact /\ mishaps' \in 0..MaxIncidents
  BY <1>1, FilesSame, MeterSame, Types DEF Mishap, Quiet, files, BlobInv, BlobsAssumption
<1>3. CASE call[c].at \in {"begin", "insert", "mark"} /\ Goto(c, "undo")
  BY <1>2, <1>3, BeginsKeep DEF CreateSteps
<1>4. CASE call[c].at \in CompleteSteps \ {"unclaim"} /\ Goto(c, "unclaim")
  BY <1>2, <1>4, GotoKeeps DEF AllSteps, CompleteSteps, Claiming, Working
<1>5. CASE call' = [call EXCEPT ![c] = [Idle EXCEPT !.at = "dead"]]
  <2> DEFINE row == [Idle EXCEPT !.at = "dead"]
  <2>1. row \in CallRow /\ row.at = "dead" /\ row.up = 0
    BY DEF Idle, CallRow, AllSteps, OtherSteps
  <2> HIDE DEF row
  <2>2. GoesOn(c, row)
    BY <2>1 DEF GoesOn, CompleteSteps, Claiming, Working
  <2>3. call' = [call EXCEPT ![c] = row]
    BY <1>5 DEF row
  <2> QED  BY <1>2, <2>1, <2>2, <2>3, CallKeeps
<1> QED  BY <1>3, <1>4, <1>5 DEF StatementFails, Dies

-----------------------------------------------------------------------------
(* Steps after which no request is at more than it was: rows are removed,
   claims given back, maintenance goes on.                                  *)

(* A request that gives up, or is done with what needs the upload's row.    *)
Retreats(d) ==
  /\ call'[d].at \notin Working \cup {"insert", "write", "take"}
  /\ call'[d].up \in {0, call[d].up}
  /\ call'[d].at \in CompleteSteps =>
       call[d].at \in CompleteSteps /\ call'[d].up = call[d].up /\ call'[d].reserved = call[d].reserved
  /\ call'[d].at \in Claiming => call[d].at \in Claiming
  /\ call[d].at \in {"idle", "dead"} => call'[d].at \in {"idle", "dead"}

CallsRetreat ==
  /\ call' \in [Requests -> CallRow]
  /\ \A d \in Requests : call'[d] = call[d] \/ Retreats(d)

(* The row stays, and so does its claim unless nobody completes the upload. *)
RowStays ==
  /\ upload'.id = upload.id /\ upload'.reserved = upload.reserved
  /\ upload'.completed = upload.completed
  /\ upload'.stale => upload.stale \/ ~Held
  /\ \/ upload'.claimedBy = upload.claimedBy
     \/ /\ upload'.claimedBy = None
        /\ \A d \in Requests : call'[d].at \in Claiming => call'[d].up # upload.id

(* The row goes, and no request needs it.                                   *)
RowGoes ==
  /\ upload' = NoUpload
  /\ ~undercut' =>
       /\ \A d \in Requests : call'[d].at \notin Working
       /\ blob.state = "ready" => \A d \in Requests : call[d].at \in {"idle", "dead"}

BlobGoes ==
  blob' = Absent /\ (~undercut' => blob.state # "ready" \/ sweeper'.at \notin {"bytes", "blobRow"})

SweeperGoesOn ==
  /\ sweeper' \in SweeperRow
  /\ sweeper'.at \in {"bytes", "blobRow"} =>
       sweeper.at \in {"bytes", "blobRow"} \/ blob.state = "ready"
  /\ sweeper.at = "blobRow" => sweeper'.at = "blobRow" \/ blob'.state # "ready"

LEMMA RetreatKeeps ==
  ASSUME BlobInv, BlobsAssumption, CallsRetreat, upload' \in UploadRow, RowStays \/ RowGoes,
         blob' = blob \/ BlobGoes, SweeperGoesOn, FilesTyped, MeterExact,
         UNCHANGED <<stored, begun>>, referenced' \in BOOLEAN, undercut' \in BOOLEAN,
         undercut => undercut', mishaps' \in 0..MaxIncidents
  PROVE  BlobInv'
<1>1. /\ TypeOK /\ RowSound /\ CallsSound /\ IdsFresh /\ OneCompletion
      /\ upload \in UploadRow /\ upload'.id \in Int
      /\ \A d \in Requests : call[d] \in CallRow /\ call'[d] \in CallRow
  BY Types DEF BlobInv, CallsRetreat, UploadRow, UploadIds, BlobsAssumption
<1>2. TypeOK'
  <2>1. blob' \in [state : {"absent", "uploading", "ready"}, hash : Contents \cup {None}]
    BY <1>1, Types DEF BlobGoes, Absent
  <2>2. call' \in [Requests -> CallRow] /\ sweeper' \in SweeperRow
    BY DEF CallsRetreat, SweeperGoesOn
  <2> QED  BY <1>1, <2>1, <2>2
           DEF TypeOK, FilesTyped, MeterExact, UploadRow, CallRow, SweeperRow, AllSteps
<1>3. RowSound'
  <2>1. CASE RowGoes
    BY <2>1 DEF RowGoes, NoUpload, RowSound, Held
  <2>2. CASE RowStays
    <3>1. ~Held => ~Held'
      <4> SUFFICES ASSUME Held' PROVE Held
        OBVIOUS
      <4>1. upload'.claimedBy = upload.claimedBy /\ upload.claimedBy # None
        BY <2>2 DEF RowStays, Held
      <4>2. upload.claimedBy \in Requests
        BY <1>1, <4>1 DEF UploadRow
      <4>3. call[upload.claimedBy].at \in CompleteSteps /\ call[upload.claimedBy].up = upload.id
        BY <2>2, <4>1, <4>2 DEF Held, Holding, CallsRetreat, Retreats, RowStays
      <4> QED  BY <4>1, <4>3 DEF Held, Holding
    <3> QED  BY <1>1, <2>2, <3>1 DEF RowStays, RowSound
  <2> QED  BY <2>1, <2>2
<1>4. \A d \in Requests :
        /\ call'[d].at \in Claiming => call[d].at \in Claiming /\ call'[d].up = call[d].up
        /\ call'[d].at \in Working => call'[d] = call[d]
  BY CreateStepsApart DEF CallsRetreat, Retreats
<1>5. CallsSound'
  <2> SUFFICES ASSUME NEW d \in Requests
               PROVE  /\ call'[d].at \in CompleteSteps => call'[d].up # 0 /\ call'[d].reserved = Metered
                      /\ call'[d].at \in Claiming /\ call'[d].up = upload'.id => upload'.claimedBy = d
                      /\ call'[d].at = "write" => call'[d].saw \in Contents
                      /\ call'[d].at = "take" => ~HasLimit
    BY DEF CallsSound
  <2>1. call'[d].at \in CompleteSteps => call'[d].up # 0 /\ call'[d].reserved = Metered
    BY <1>1 DEF CallsSound, CallsRetreat, Retreats
  <2>2. ASSUME call'[d].at \in Claiming, call'[d].up = upload'.id PROVE upload'.claimedBy = d
    <3>1. call'[d].up # 0
      BY <2>1, <2>2, CreateStepsApart
    <3>2. RowStays
      BY <2>2, <3>1 DEF RowGoes, NoUpload
    <3> QED  BY <1>1, <1>4, <2>2, <3>2 DEF RowStays, CallsSound
  <2>3. /\ call'[d].at = "write" => call'[d].saw \in Contents
        /\ call'[d].at = "take" => ~HasLimit
    BY <1>1 DEF CallsSound, CallsRetreat, Retreats
  <2> QED  BY <2>1, <2>2, <2>3
<1>6. IdsFresh'
  <2>1. upload'.id \in {0, upload.id}
    BY DEF RowStays, RowGoes, NoUpload
  <2>2. \A d \in Requests : call'[d].up \in {0, call[d].up}
    BY DEF CallsRetreat, Retreats
  <2>3. begun \in Nat /\ begun' = begun
    BY <1>1 DEF TypeOK
  <2>4. ASSUME NEW d \in Requests, call'[d].at = "insert"
        PROVE  /\ call'[d].up # 0 /\ call'[d].up # upload'.id
               /\ \A e \in Requests \ {d} : call'[e].up # call'[d].up
    <3>1. call'[d] = call[d]
      BY <2>4 DEF CallsRetreat, Retreats
    <3> QED  BY <1>1, <2>1, <2>2, <2>4, <3>1 DEF IdsFresh
  <2> QED  BY <1>1, <2>1, <2>2, <2>3, <2>4 DEF IdsFresh
<1>7. OneCompletion'
  BY <1>1, <1>4 DEF OneCompletion, Claiming
<1>8. Undisturbed'
  <2> SUFFICES ASSUME ~undercut'
               PROVE  (RowHeld /\ ReadyRests /\ CollectsReady /\ DigestCurrent /\ ReadyHasBytes)'
    BY DEF Undisturbed
  <2>1. ~undercut /\ RowHeld /\ ReadyRests /\ CollectsReady /\ DigestCurrent /\ ReadyHasBytes
    BY DEF BlobInv, Undisturbed
  <2>2. RowHeld'
    <3> SUFFICES ASSUME NEW d \in Requests, call'[d].at \in Working
                 PROVE  upload'.id = call'[d].up /\ upload'.claimedBy = d /\ ~upload'.completed
      BY DEF RowHeld
    <3>1. RowStays
      BY DEF RowGoes
    <3>2. call'[d] = call[d] /\ call'[d].at \in Claiming
      BY <1>4, CreateStepsApart
    <3> QED  BY <2>1, <3>1, <3>2 DEF RowHeld, RowStays
  <2>3. ReadyRests'
    <3> SUFFICES ASSUME blob'.state = "ready"
                 PROVE  \/ upload'.id # 0 /\ upload'.completed
                        \/ upload'.id = 0 /\ \A d \in Requests : call'[d].at \in {"idle", "dead"}
      BY DEF ReadyRests
    <3>1. blob.state = "ready"
      BY DEF BlobGoes, Absent
    <3>2. \A d \in Requests : call[d].at \in {"idle", "dead"} => call'[d].at \in {"idle", "dead"}
      BY DEF CallsRetreat, Retreats
    <3>3. CASE RowStays
      BY <2>1, <3>1, <3>2, <3>3 DEF ReadyRests, RowStays
    <3>4. CASE RowGoes
      BY <3>1, <3>2, <3>4 DEF RowGoes, NoUpload
    <3> QED  BY <3>3, <3>4
  <2>4. CollectsReady'
    BY <2>1 DEF CollectsReady, BlobGoes, Absent, SweeperGoesOn
  <2>5. DigestCurrent'
    <3>1. \A d \in Requests : call'[d].at \in {"compare", "commit"} => call'[d] = call[d]
      BY <1>4 DEF Working, CompleteSteps
    <3>2. blob'.state # "absent" => blob' = blob
      BY DEF BlobGoes, Absent
    <3> QED  BY <2>1, <3>1, <3>2 DEF DigestCurrent
  <2>6. ReadyHasBytes'
    BY <2>1 DEF ReadyHasBytes, BlobGoes, Absent, SweeperGoesOn
  <2> QED  BY <2>2, <2>3, <2>4, <2>5, <2>6
<1> QED  BY <1>2, <1>3, <1>5, <1>6, <1>7, <1>8 DEF BlobInv, MeterExact

(* A request that is sent to a step of createUpload or abort, or is done.   *)
LEMMA GotoRetreats ==
  ASSUME BlobInv, NEW c \in Requests,
         NEW step \in AllSteps \ (Working \cup {"insert", "write", "take"}), Goto(c, step),
         call[c].at \notin {"idle", "dead"},
         step \in CompleteSteps => call[c].at \in CompleteSteps,
         step \in Claiming => call[c].at \in Claiming
  PROVE  CallsRetreat /\ call'[c].at = step /\ \A d \in Requests \ {c} : call'[d] = call[d]
<1>1. PICK row \in CallRow :
        /\ call' = [call EXCEPT ![c] = row]
        /\ row.at = step /\ row.up = call[c].up /\ row.asks = call[c].asks
        /\ row.reserved = call[c].reserved /\ row.saw = call[c].saw
  BY GotoIs DEF BlobInv
<1>2. /\ call' \in [Requests -> CallRow] /\ call'[c] = row
      /\ \A d \in Requests \ {c} : call'[d] = call[d]
  BY <1>1, CallIs DEF BlobInv
<1>3. Retreats(c)
  BY <1>1, <1>2 DEF Retreats
<1> QED  BY <1>1, <1>2, <1>3 DEF CallsRetreat

LEMMA DoneRetreats ==
  ASSUME BlobInv, NEW c \in Requests, Done(c)
  PROVE  CallsRetreat /\ call'[c].at = "idle" /\ \A d \in Requests \ {c} : call'[d] = call[d]
<1>1. Idle \in CallRow /\ call' = [call EXCEPT ![c] = Idle]
  BY DoneIs
<1>2. /\ call' \in [Requests -> CallRow] /\ call'[c] = Idle
      /\ \A d \in Requests \ {c} : call'[d] = call[d]
  BY <1>1, CallIs DEF BlobInv
<1>3. Retreats(c)
  BY <1>2 DEF Retreats, Idle, CompleteSteps, Claiming, Working
<1> QED  BY <1>2, <1>3 DEF CallsRetreat, Idle

LEMMA CallsSame ==
  ASSUME BlobInv, UNCHANGED call
  PROVE  CallsRetreat
BY Types DEF BlobInv, CallsRetreat

LEMMA SweeperSame ==
  ASSUME BlobInv, UNCHANGED sweeper, blob' = blob \/ BlobGoes
  PROVE  SweeperGoesOn
BY Types DEF BlobInv, SweeperGoesOn, BlobGoes, Absent

LEMMA RowSame ==
  ASSUME BlobInv, UNCHANGED upload
  PROVE  upload' \in UploadRow /\ RowStays
BY Types DEF BlobInv, RowStays

(* An upload is marked as started, and who was about to settle its reservation
   settles nothing.                                                         *)
LEMMA MarkKeeps ==
  ASSUME BlobInv, BlobsAssumption, NEW c \in Requests, MarkExternalStarted(c)
  PROVE  BlobInv'
<1>1. /\ UNCHANGED <<blob, upload, files, usage, referenced, undercut, begun, mishaps>>
      /\ call[c].at = "mark"
  BY DEF MarkExternalStarted, At
<1>2. MeterExact
  <2>1. /\ reservation \in [status : Open \cup {"none", "released", "committed"},
                            hash : Contents \cup {None}]
        /\ usage \in [reserved : Nat, active : Nat] /\ UsageExact
    BY Types DEF BlobInv
  <2>2. /\ reservation' \in [status : Open \cup {"none", "released", "committed"},
                             hash : Contents \cup {None}]
        /\ reservation'.status \in Open <=> reservation.status \in Open
        /\ reservation'.status = "committed" <=> reservation.status = "committed"
    BY <2>1 DEF MarkExternalStarted, Open
  <2> QED  BY <1>1, <2>1, <2>2 DEF MeterExact, UsageExact
<1>3. CallsRetreat
  <2>1. PICK late \in SUBSET {d \in Requests : Outrun(d)} :
          call' = [d \in Requests |->
                     IF d = c THEN Idle ELSE IF d \in late THEN PassedOver(d) ELSE call[d]]
    BY DEF MarkExternalStarted
  <2>2. \A d \in Requests : call[d] \in CallRow
    BY Types DEF BlobInv
  <2>3. Idle \in CallRow /\ Idle.at = "idle" /\ Idle.up = 0
    BY DEF Idle, CallRow, AllSteps, OtherSteps
  <2>4. ASSUME NEW d \in late
        PROVE  /\ PassedOver(d) \in CallRow
               /\ PassedOver(d).at \in {"reserve", "unclaim", "idle"}
               /\ PassedOver(d).up \in {0, call[d].up}
               /\ PassedOver(d).at = "unclaim" =>
                    /\ call[d].at \in CompleteSteps
                    /\ PassedOver(d).up = call[d].up /\ PassedOver(d).reserved = call[d].reserved
    <3>1. call[d] \in CallRow /\ Outrun(d)
      BY <2>2, <2>4
    <3>2. CASE call[d].at = "releaseStale"
      <4>1. PassedOver(d) = [call[d] EXCEPT !.at = "reserve"]
        BY <3>2 DEF PassedOver
      <4> QED  BY <3>1, <4>1 DEF CallRow, AllSteps, CreateSteps
    <3>3. CASE call[d].at \in {"releaseDeleted", "commit"}
      <4>1. PassedOver(d) = [call[d] EXCEPT !.at = "unclaim"]
        BY <3>3 DEF PassedOver
      <4> QED  BY <3>1, <3>3, <4>1 DEF CallRow, AllSteps, CompleteSteps
    <3>4. CASE call[d].at \in {"undoReserve", "releaseAborted"}
      <4>1. PassedOver(d) = Idle
        BY <3>4 DEF PassedOver
      <4> QED  BY <2>3, <4>1
    <3> QED  BY <3>1, <3>2, <3>3, <3>4 DEF Outrun, Settles
  <2>5. call' \in [Requests -> CallRow]
    BY <2>1, <2>2, <2>3, <2>4
  <2>6. {"reserve", "idle"} \cap CompleteSteps = {} /\ "unclaim" \notin Claiming
    BY DEF CompleteSteps, Claiming
  <2>7. ASSUME NEW d \in Requests, call'[d] # call[d] PROVE Retreats(d)
    <3>1. CASE d = c
      BY <2>1, <2>3, <2>6, <3>1, CreateStepsApart DEF Retreats
    <3>2. CASE d # c /\ d \in late
      <4>1. call'[d] = PassedOver(d) /\ call[d].at \notin {"idle", "dead"}
        BY <2>1, <3>2 DEF Outrun, Settles
      <4>2. /\ call'[d].at \in {"reserve", "unclaim", "idle"} /\ call'[d].up \in {0, call[d].up}
            /\ call'[d].at = "unclaim" =>
                 /\ call[d].at \in CompleteSteps
                 /\ call'[d].up = call[d].up /\ call'[d].reserved = call[d].reserved
        BY <2>4, <3>2, <4>1
      <4>3. call'[d].at \notin Working /\ call'[d].at \notin Claiming
        BY <2>6, <4>2, CreateStepsApart
      <4> QED  BY <2>6, <4>1, <4>2, <4>3 DEF Retreats
    <3> QED  BY <2>1, <2>7, <3>1, <3>2
  <2> QED  BY <2>5, <2>7 DEF CallsRetreat
<1>4. SweeperGoesOn
  <2>1. sweeper \in SweeperRow
    BY Types DEF BlobInv
  <2>2. CASE UNCHANGED sweeper
    BY <1>1, <2>2, SweeperSame
  <2>3. CASE sweeper.at = "release" /\ sweeper' = [sweeper EXCEPT !.at = "blob"]
    BY <2>1, <2>3 DEF SweeperRow, SweeperGoesOn
  <2> QED  BY <2>2, <2>3 DEF MarkExternalStarted
<1>5. FilesTyped /\ upload' \in UploadRow /\ RowStays
  BY <1>1, FilesSame, RowSame DEF files, BlobInv
<1>6. referenced' \in BOOLEAN /\ undercut' \in BOOLEAN /\ mishaps' \in 0..MaxIncidents
  BY <1>1, Types DEF BlobInv
<1> QED  BY <1>1, <1>2, <1>3, <1>4, <1>5, <1>6, RetreatKeeps DEF files

(* The row of an upload is removed, where that is still the upload there is. *)
LEMMA RowRemoved ==
  ASSUME BlobInv, BlobsAssumption, NEW u, RemoveUpload(u), Undercut(u),
         \A d \in Requests : call'[d].at \in Working => call'[d] = call[d]
  PROVE  /\ upload' \in UploadRow /\ (RowStays \/ RowGoes)
         /\ undercut' \in BOOLEAN /\ (undercut => undercut')
<1>1. upload \in UploadRow /\ NoUpload \in UploadRow /\ undercut \in BOOLEAN
  BY Types DEF BlobInv, UploadRow, NoUpload
<1>2. undercut' \in BOOLEAN /\ (undercut => undercut')
  BY <1>1 DEF Undercut
<1>3. CASE upload.id # u
  BY <1>1, <1>2, <1>3, RowSame DEF RemoveUpload
<1>4. CASE upload.id = u
  <2>1. upload' = NoUpload
    BY <1>4 DEF RemoveUpload
  <2>2. ASSUME ~undercut'
        PROVE  /\ \A d \in Requests : call'[d].at \notin Working
               /\ blob.state = "ready" => \A d \in Requests : call[d].at \in {"idle", "dead"}
    <3>1. ~undercut /\ ~Held /\ ~upload.completed
      BY <1>4, <2>2 DEF Undercut
    <3>2. RowHeld /\ ReadyRests
      BY <3>1 DEF BlobInv, Undisturbed
    <3>3. \A d \in Requests : call[d].at \notin Working
      BY <3>1, <3>2, CreateStepsApart DEF RowHeld, Held, Holding, BlobsAssumption
    <3> QED  BY <3>1, <3>2, <3>3 DEF ReadyRests
  <2> QED  BY <1>1, <1>2, <2>1, <2>2 DEF RowGoes
<1> QED  BY <1>3, <1>4

LEMMA DeleteStaleKeeps ==
  ASSUME BlobInv, BlobsAssumption, NEW c \in Requests, DeleteStale(c)
  PROVE  BlobInv'
<1>1. /\ UNCHANGED <<blob, files, metering, sweeper, referenced, begun, mishaps>>
      /\ RemoveUpload(call[c].up) /\ Undercut(call[c].up) /\ call[c].at = "deleteStale"
      /\ \E step \in {"releaseStale", "reserve", "begin"} : Goto(c, step)
  BY DEF DeleteStale, FirstOf, At
<1>2. /\ CallsRetreat
      /\ call'[c].at \in {"releaseStale", "reserve", "begin"}
      /\ \A d \in Requests \ {c} : call'[d] = call[d]
  BY <1>1, GotoRetreats DEF AllSteps, CreateSteps, CompleteSteps, Claiming, Working
<1>3. \A d \in Requests : call'[d].at \in Working => call'[d] = call[d]
  BY <1>2 DEF Working, CompleteSteps
<1>4. FilesTyped /\ MeterExact /\ SweeperGoesOn
  BY <1>1, FilesSame, MeterSame, SweeperSame DEF files, BlobInv
<1>5. UNCHANGED <<stored, begun>> /\ referenced' \in BOOLEAN /\ mishaps' \in 0..MaxIncidents
  BY <1>1, Types DEF files, BlobInv
<1>6. /\ upload' \in UploadRow /\ (RowStays \/ RowGoes)
      /\ undercut' \in BOOLEAN /\ (undercut => undercut')
  BY <1>1, <1>3, RowRemoved
<1> QED  BY <1>1, <1>2, <1>4, <1>5, <1>6, RetreatKeeps

(* The blob's row goes while it is no more than announced.                  *)
LEMMA UploadingGoes ==
  ASSUME BlobInv, undercut => undercut', blob' = Absent, blob.state # "ready"
  PROVE  BlobGoes
BY DEF BlobGoes

LEMMA AbortRowsKeeps ==
  ASSUME BlobInv, BlobsAssumption, NEW c \in Requests, AbortRows(c)
  PROVE  BlobInv'
<1>1. /\ UNCHANGED <<files, metering, sweeper, referenced, begun, mishaps>>
      /\ RemoveUpload(call[c].up) /\ Undercut(call[c].up) /\ call[c].at = "abortRows"
      /\ Goto(c, "releaseAborted") \/ Done(c)
      /\ blob' = blob \/ (blob' = Absent /\ blob.state = "uploading")
  BY DEF AbortRows, At
<1>2. /\ CallsRetreat /\ call'[c].at \in {"releaseAborted", "idle"}
      /\ \A d \in Requests \ {c} : call'[d] = call[d]
  BY <1>1, GotoRetreats, DoneRetreats DEF AllSteps, OtherSteps, CompleteSteps, Claiming, Working
<1>3. \A d \in Requests : call'[d].at \in Working => call'[d] = call[d]
  BY <1>2 DEF Working, CompleteSteps
<1>4. /\ upload' \in UploadRow /\ (RowStays \/ RowGoes)
      /\ undercut' \in BOOLEAN /\ (undercut => undercut')
  BY <1>1, <1>3, RowRemoved
<1>5. blob' = blob \/ BlobGoes
  BY <1>1, <1>4, UploadingGoes
<1>6. FilesTyped /\ MeterExact /\ SweeperGoesOn
  BY <1>1, <1>5, FilesSame, MeterSame, SweeperSame DEF files, BlobInv, Absent
<1>7. UNCHANGED <<stored, begun>> /\ referenced' \in BOOLEAN /\ mishaps' \in 0..MaxIncidents
  BY <1>1, Types DEF files, BlobInv
<1> QED  BY <1>2, <1>4, <1>5, <1>6, <1>7, RetreatKeeps

LEMMA RecordKeeps ==
  ASSUME BlobInv, BlobsAssumption, NEW c \in Requests, RecordPart(c)
  PROVE  BlobInv'
<1>1. UNCHANGED <<blob, files, metering, outside>> /\ Done(c)
  BY DEF RecordPart
<1>2. upload' \in UploadRow /\ RowStays
  <2>1. upload \in UploadRow
    BY Types DEF BlobInv
  <2>2. upload' = [upload EXCEPT !.received = upload.received \/ upload.id = call[c].up]
    BY DEF RecordPart
  <2> QED  BY <2>1, <2>2 DEF UploadRow, RowStays
<1>3. CallsRetreat
  BY <1>1, DoneRetreats
<1>4. FilesTyped /\ MeterExact /\ SweeperGoesOn
  BY <1>1, FilesSame, MeterSame, SweeperSame DEF files, outside, BlobInv
<1>5. /\ UNCHANGED <<stored, begun, undercut>> /\ referenced' \in BOOLEAN /\ undercut' \in BOOLEAN
      /\ mishaps' \in 0..MaxIncidents
  BY <1>1, Types DEF files, outside, BlobInv
<1> QED  BY <1>1, <1>2, <1>3, <1>4, <1>5, RetreatKeeps

(* complete gives up and forgets the upload and its blob.                   *)
LEMMA DeleteRowsKeeps ==
  ASSUME BlobInv, BlobsAssumption, NEW c \in Requests, DeleteRows(c)
  PROVE  BlobInv'
<1>1. /\ UNCHANGED <<files, metering, outside>> /\ blob' = Absent /\ call[c].at = "deleteRows"
      /\ RemoveUpload(call[c].up) /\ (Goto(c, "releaseDeleted") \/ Goto(c, "unclaim"))
  BY DEF DeleteRows, At
<1>2. /\ call[c].at \in Working /\ call[c].at \in Claiming /\ call[c].at \in CompleteSteps
      /\ "releaseDeleted" \in Claiming \ Working /\ "unclaim" \in CompleteSteps \ Claiming
  BY <1>1 DEF Working, Claiming, CompleteSteps
<1>3. /\ CallsRetreat /\ call'[c].at \in {"releaseDeleted", "unclaim"}
      /\ \A d \in Requests \ {c} : call'[d] = call[d]
  <2>1. ASSUME NEW step \in {"releaseDeleted", "unclaim"}, Goto(c, step)
        PROVE  /\ CallsRetreat /\ call'[c].at = step
               /\ \A d \in Requests \ {c} : call'[d] = call[d]
    <3>1. step \in AllSteps \ (Working \cup {"insert", "write"})
      BY DEF AllSteps, Working, CompleteSteps
    <3> QED  BY <1>1, <1>2, <2>1, <3>1, GotoRetreats
  <2> QED  BY <1>1, <2>1
<1>4. call'[c].at \notin Working
  BY <1>3 DEF Working
<1>5. undercut' = undercut
  BY <1>1 DEF outside
<1>6. ASSUME ~undercut
      PROVE  /\ \A d \in Requests : call'[d].at \notin Working
             /\ upload.id = call[c].up /\ blob.state # "ready"
  <2>1. RowHeld /\ ReadyRests
    BY <1>6 DEF BlobInv, Undisturbed
  <2>2. upload.id = call[c].up /\ upload.claimedBy = c /\ ~upload.completed
    BY <1>2, <2>1 DEF RowHeld
  <2>3. \A d \in Requests \ {c} : call'[d].at \notin Working
    BY <1>3, <2>1, <2>2 DEF RowHeld
  <2> QED  BY <1>1, <1>4, <2>1, <2>2, <2>3 DEF ReadyRests
<1>7. upload' \in UploadRow /\ (RowStays \/ RowGoes)
  <2>1. CASE upload.id # call[c].up
    BY <1>1, <2>1, RowSame DEF RemoveUpload
  <2>2. CASE upload.id = call[c].up
    BY <1>1, <1>5, <1>6, <2>2 DEF RemoveUpload, RowGoes, NoUpload, UploadRow
  <2> QED  BY <2>1, <2>2
<1>8. BlobGoes
  BY <1>1, <1>5, <1>6 DEF BlobGoes
<1>9. FilesTyped /\ MeterExact /\ SweeperGoesOn
  BY <1>1, <1>8, FilesSame, MeterSame, SweeperSame DEF files, outside, BlobInv, Absent
<1>10. /\ UNCHANGED <<stored, begun>> /\ referenced' \in BOOLEAN /\ undercut' \in BOOLEAN
       /\ mishaps' \in 0..MaxIncidents
  BY <1>1, Types DEF files, outside, BlobInv
<1> QED  BY <1>3, <1>5, <1>7, <1>8, <1>9, <1>10, RetreatKeeps

LEMMA UnclaimKeeps ==
  ASSUME BlobInv, BlobsAssumption, NEW c \in Requests, Unclaim(c)
  PROVE  BlobInv'
<1>1. UNCHANGED <<blob, files, metering, outside>> /\ Done(c)
  BY DEF Unclaim
<1>2. CallsRetreat /\ call'[c].at = "idle" /\ \A d \in Requests \ {c} : call'[d] = call[d]
  BY <1>1, DoneRetreats
<1>3. upload' \in UploadRow /\ RowStays
  <2>1. upload \in UploadRow
    BY Types DEF BlobInv
  <2>2. CASE UNCHANGED upload
    BY <2>2, RowSame
  <2>3. CASE /\ upload.id = call[c].up /\ upload.claimedBy = c
             /\ upload' = [upload EXCEPT !.claimedBy = None, !.stale = FALSE]
    <3>1. \A d \in Requests : call'[d].at \in Claiming => call'[d].up # upload.id
      BY <1>2, <2>3 DEF BlobInv, CallsSound, Claiming, CompleteSteps
    <3>2. /\ upload' \in UploadRow /\ upload'.id = upload.id /\ upload'.reserved = upload.reserved
          /\ upload'.completed = upload.completed /\ upload'.claimedBy = None /\ ~upload'.stale
      BY <2>1, <2>3 DEF UploadRow
    <3> QED  BY <3>1, <3>2 DEF RowStays
  <2> QED  BY <2>2, <2>3 DEF Unclaim
<1>4. FilesTyped /\ MeterExact /\ SweeperGoesOn
  BY <1>1, FilesSame, MeterSame, SweeperSame DEF files, outside, BlobInv
<1>5. /\ UNCHANGED <<stored, begun, undercut>> /\ referenced' \in BOOLEAN /\ undercut' \in BOOLEAN
      /\ mishaps' \in 0..MaxIncidents
  BY <1>1, Types DEF files, outside, BlobInv
<1> QED  BY <1>1, <1>2, <1>3, <1>4, <1>5, RetreatKeeps

(* Time, and commands that refer to the blob.                               *)
LEMMA TimeKeeps ==
  ASSUME BlobInv, BlobsAssumption,
         UploadExpires \/ LeaseExpires \/ Refer \/ Unrefer \/ UNCHANGED uploadVars
  PROVE  BlobInv'
<1>1. UNCHANGED <<blob, files, metering, call, sweeper, undercut, begun, mishaps>>
  BY DEF UploadExpires, LeaseExpires, Refer, Unrefer, uploadVars, outside, files, metering
<1>2. upload' \in UploadRow /\ RowStays
  <2>1. upload \in UploadRow
    BY Types DEF BlobInv
  <2>2. CASE UNCHANGED upload
    BY <2>2, RowSame
  <2>3. CASE UploadExpires
    BY <2>1, <2>3 DEF UploadExpires, UploadRow, RowStays
  <2>4. CASE LeaseExpires
    <3>1. ~Held /\ upload' = [upload EXCEPT !.stale = TRUE]
      BY <2>4 DEF LeaseExpires
    <3>2. /\ upload' \in UploadRow /\ upload'.id = upload.id /\ upload'.reserved = upload.reserved
          /\ upload'.completed = upload.completed /\ upload'.claimedBy = upload.claimedBy
      BY <2>1, <3>1 DEF UploadRow
    <3> QED  BY <3>1, <3>2 DEF RowStays
  <2> QED  BY <2>2, <2>3, <2>4 DEF Refer, Unrefer, uploadVars
<1>3. referenced' \in BOOLEAN
  BY Types DEF BlobInv, UploadExpires, LeaseExpires, Refer, Unrefer, uploadVars, outside
<1>4. FilesTyped /\ MeterExact /\ SweeperGoesOn /\ CallsRetreat
  BY <1>1, FilesSame, MeterSame, SweeperSame, CallsSame DEF files, BlobInv
<1>5. UNCHANGED <<stored, begun, undercut>> /\ undercut' \in BOOLEAN /\ mishaps' \in 0..MaxIncidents
  BY <1>1, Types DEF files, BlobInv
<1> QED  BY <1>1, <1>2, <1>3, <1>4, <1>5, RetreatKeeps

-----------------------------------------------------------------------------
(* The maintenance run.                                                     *)
LEMMA SweeperMoves ==
  ASSUME BlobInv, NEW step \in {"idle", "abort", "row", "release", "blob", "bytes", "blobRow"},
         SweepTo(step)
  PROVE  sweeper' \in SweeperRow /\ sweeper'.at = step
BY Types DEF BlobInv, SweepTo, SweeperRow

LEMMA SweepStagedKeeps ==
  ASSUME BlobInv, BlobsAssumption, FindExpired \/ SweepStaged \/ SweepReservation \/ ChooseGarbage
  PROVE  BlobInv'
<1>1. UNCHANGED <<blob, upload, call, referenced, undercut, begun, mishaps, stored>>
      /\ sweeper.at # "blobRow"
  BY DEF FindExpired, SweepStaged, SweepReservation, ChooseGarbage, aside, files
<1>2. SweeperGoesOn
  <2>1. CASE FindExpired
    <3>1. upload \in UploadRow
      BY Types DEF BlobInv
    <3>2. sweeper' \in SweeperRow /\ sweeper'.at = "abort"
      BY <2>1, <3>1 DEF FindExpired, SweeperRow, UploadRow
    <3> QED  BY <1>1, <3>2 DEF SweeperGoesOn
  <2>2. CASE SweepStaged
    BY <1>1, <2>2, SweeperMoves DEF SweepStaged, SweeperGoesOn
  <2>3. CASE SweepReservation
    BY <1>1, <2>3, SweeperMoves DEF SweepReservation, SweeperGoesOn
  <2>4. CASE ChooseGarbage
    BY <1>1, <2>4, SweeperMoves DEF ChooseGarbage, Collectable, SweeperGoesOn
  <2> QED  BY <2>1, <2>2, <2>3, <2>4
<1>3. FilesTyped
  BY FilesSame, StagedGone DEF FindExpired, SweepStaged, SweepReservation, ChooseGarbage, files,
       BlobInv
<1>4. MeterExact
  BY <1>1, MeterSame, ReleaseExact DEF FindExpired, SweepStaged, SweepReservation, ChooseGarbage
<1>5. upload' \in UploadRow /\ RowStays /\ CallsRetreat
  BY <1>1, RowSame, CallsSame
<1>6. referenced' \in BOOLEAN /\ undercut' \in BOOLEAN /\ mishaps' \in 0..MaxIncidents
  BY <1>1, Types DEF BlobInv
<1> QED  BY <1>1, <1>2, <1>3, <1>4, <1>5, <1>6, RetreatKeeps

LEMMA SweepRowKeeps ==
  ASSUME BlobInv, BlobsAssumption, SweepRow
  PROVE  BlobInv'
<1>1. /\ UNCHANGED <<blob, files, metering, call, referenced, begun, mishaps>>
      /\ RemoveUpload(sweeper.up) /\ Undercut(sweeper.up) /\ sweeper.at = "row"
      /\ SweepTo("release") \/ SweepTo("blob")
  BY DEF SweepRow
<1>2. SweeperGoesOn
  BY <1>1, SweeperMoves DEF SweeperGoesOn
<1>3. /\ upload' \in UploadRow /\ (RowStays \/ RowGoes)
      /\ undercut' \in BOOLEAN /\ (undercut => undercut')
  BY <1>1, RowRemoved
<1>4. FilesTyped /\ MeterExact /\ CallsRetreat
  BY <1>1, FilesSame, MeterSame, CallsSame DEF files, BlobInv
<1>5. UNCHANGED <<stored, begun>> /\ referenced' \in BOOLEAN /\ mishaps' \in 0..MaxIncidents
  BY <1>1, Types DEF files, BlobInv
<1> QED  BY <1>1, <1>2, <1>3, <1>4, <1>5, RetreatKeeps

LEMMA SweepBlobKeeps ==
  ASSUME BlobInv, BlobsAssumption, SweepBlob \/ CollectRow
  PROVE  BlobInv'
<1>1. UNCHANGED <<upload, files, metering, call, referenced, undercut, begun, mishaps>>
      /\ SweepTo("idle")
  BY DEF SweepBlob, CollectRow, aside
<1>2. sweeper' \in SweeperRow /\ sweeper'.at = "idle"
  BY <1>1, SweeperMoves
<1>3. blob' = blob \/ BlobGoes
  BY <1>2 DEF SweepBlob, CollectRow, BlobGoes
<1>4. SweeperGoesOn
  BY <1>2 DEF SweeperGoesOn, SweepBlob, CollectRow, Absent
<1>5. blob'.state = "ready" => blob.state = "ready"
  BY DEF SweepBlob, CollectRow, Absent
<1>6. FilesTyped /\ MeterExact /\ CallsRetreat /\ upload' \in UploadRow /\ RowStays
  BY <1>1, <1>5, FilesSame, MeterSame, CallsSame, RowSame DEF files, BlobInv
<1>7. UNCHANGED <<stored, begun>> /\ referenced' \in BOOLEAN /\ undercut' \in BOOLEAN
      /\ mishaps' \in 0..MaxIncidents
  BY <1>1, Types DEF files, BlobInv
<1> QED  BY <1>1, <1>3, <1>4, <1>6, <1>7, RetreatKeeps

LEMMA RemoveCompletedKeeps ==
  ASSUME BlobInv, BlobsAssumption, RemoveCompleted
  PROVE  BlobInv'
<1>1. UNCHANGED <<blob, files, metering, outside, call>> /\ upload' = NoUpload
      /\ \A d \in Requests : call[d].at \in {"idle", "dead"}
  BY DEF RemoveCompleted
<1>2. upload' \in UploadRow /\ RowGoes
  BY <1>1 DEF RowGoes, NoUpload, UploadRow, Working, CompleteSteps
<1>3. FilesTyped /\ MeterExact /\ CallsRetreat /\ SweeperGoesOn
  BY <1>1, FilesSame, MeterSame, CallsSame, SweeperSame DEF files, outside, BlobInv
<1>4. UNCHANGED <<stored, begun, undercut>> /\ referenced' \in BOOLEAN /\ undercut' \in BOOLEAN
      /\ mishaps' \in 0..MaxIncidents
  BY <1>1, Types DEF files, outside, BlobInv
<1> QED  BY <1>1, <1>2, <1>3, <1>4, RetreatKeeps

-----------------------------------------------------------------------------
(* The stored bytes change: only while no request has read them.            *)
LEMMA StoredKeeps ==
  ASSUME BlobInv, BlobsAssumption, call' \in [Requests -> CallRow],
         \A d \in Requests :
           \/ call'[d] = call[d]
           \/ /\ call'[d].up = call[d].up /\ call'[d].reserved = call[d].reserved
              /\ call'[d].at \in {"tidy", "deleteRows"} /\ call[d].at \in Working,
         stored' \in Contents \cup {None}, FilesTyped, SweeperGoesOn,
         UNCHANGED <<blob, upload, metering, referenced, undercut, begun, mishaps>>,
         ~undercut => /\ \A d \in Requests : call'[d].at \notin {"compare", "commit"}
                      /\ blob.state = "ready" => sweeper'.at = "blobRow"
  PROVE  BlobInv'
<1>1. /\ TypeOK /\ RowSound /\ CallsSound /\ IdsFresh /\ OneCompletion /\ upload \in UploadRow
      /\ \A d \in Requests : call[d] \in CallRow /\ call'[d] \in CallRow
  BY Types DEF BlobInv
<1>2. {"tidy", "deleteRows"} \subseteq Working /\ \A s \in Working : s \notin {"idle", "dead"}
  BY DEF Working, CompleteSteps
<1>3. \A d \in Requests :
        /\ call'[d].up = call[d].up /\ call'[d].reserved = call[d].reserved
        /\ call'[d].at \in CompleteSteps <=> call[d].at \in CompleteSteps
        /\ call'[d].at \in Claiming <=> call[d].at \in Claiming
        /\ call'[d].at \in Working <=> call[d].at \in Working
        /\ call[d].at \in {"idle", "dead"} => call'[d].at \in {"idle", "dead"}
        /\ call'[d].at \in {"insert", "write"} => call'[d] = call[d]
  BY <1>2, CreateStepsApart
<1>4. TypeOK'
  BY <1>1, Types DEF BlobInv, TypeOK, CallRow, AllSteps, FilesTyped, metering, SweeperGoesOn,
       SweeperRow
<1>5. RowSound'
  <2>1. Held' => Held
    BY <1>1, <1>3 DEF Held, Holding, UploadRow
  <2> QED  BY <1>1, <2>1 DEF RowSound
<1>6. CallsSound'
  BY <1>1, <1>3 DEF CallsSound
<1>7. IdsFresh'
  BY <1>1, <1>3 DEF IdsFresh
<1>8. UsageExact'
  BY DEF BlobInv, UsageExact, metering
<1>9. OneCompletion'
  BY <1>1, <1>3 DEF OneCompletion, Claiming
<1>10. Undisturbed'
  <2> SUFFICES ASSUME ~undercut
               PROVE  (RowHeld /\ ReadyRests /\ CollectsReady /\ DigestCurrent /\ ReadyHasBytes)'
    BY DEF Undisturbed
  <2>1. RowHeld /\ ReadyRests /\ CollectsReady
    BY DEF BlobInv, Undisturbed
  <2>2. RowHeld' /\ ReadyRests'
    BY <1>3, <2>1 DEF RowHeld, ReadyRests
  <2> QED  BY <2>1, <2>2 DEF CollectsReady, SweeperGoesOn, DigestCurrent, ReadyHasBytes
<1> QED  BY <1>4, <1>5, <1>6, <1>7, <1>8, <1>9, <1>10 DEF BlobInv

(* The request that holds the claim is alone, and its blob is not ready.    *)
LEMMA WorksAlone ==
  ASSUME BlobInv, ~undercut, NEW c \in Requests, call[c].at \in Working
  PROVE  /\ \A d \in Requests \ {c} : call[d].at \notin Working
         /\ blob.state # "ready" /\ upload.id = call[c].up
<1>1. RowHeld /\ ReadyRests
  BY DEF BlobInv, Undisturbed
<1>2. call[c].at \notin {"idle", "dead"}
  BY DEF Working, CompleteSteps
<1> QED  BY <1>1, <1>2 DEF RowHeld, ReadyRests

LEMMA PublishKeeps ==
  ASSUME BlobInv, BlobsAssumption, NEW c \in Requests, Publish(c) \/ DeleteBytes(c)
  PROVE  BlobInv'
<1>1. UNCHANGED <<blob, upload, staged, metering, outside>> /\ call[c].at \in {"publish", "deleteBytes"}
  BY DEF Publish, DeleteBytes, At
<1>2. /\ call[c].at \in Working /\ call[c].at \notin {"idle", "dead"}
  BY <1>1 DEF Working, CompleteSteps
<1>3. FilesTyped /\ stored' \in Contents \cup {None}
  <2>1. /\ stored \in Contents \cup {None} /\ assembling \in [UploadIds -> Contents \cup {None}]
        /\ staged \in [UploadIds -> Contents \cup {"gone", "empty"}]
        /\ call[c] \in CallRow /\ (call[c].up # 0)
    BY <1>2, CreateStepsApart, Types DEF BlobInv, CallsSound
  <2>2. call[c].up \in UploadIds
    BY <2>1 DEF CallRow
  <2> QED  BY <2>1, <2>2 DEF Publish, DeleteBytes, FilesTyped
<1>4. CASE Goto(c, "unclaim") /\ UNCHANGED stored
  <2>1. Quiet /\ MeterExact /\ mishaps' \in 0..MaxIncidents
    BY <1>1, <1>4, MeterSame, Types DEF Quiet, outside, BlobInv
  <2> QED  BY <1>2, <1>3, <1>4, <2>1, GotoKeeps, CreateStepsApart
           DEF AllSteps, CompleteSteps, Claiming, Working
<1>5. ASSUME NEW step \in {"tidy", "deleteRows"}, Goto(c, step) PROVE BlobInv'
  <2>1. PICK row \in CallRow :
          /\ call' = [call EXCEPT ![c] = row]
          /\ row.at = step /\ row.up = call[c].up /\ row.reserved = call[c].reserved
    <3>1. step \in AllSteps
      BY DEF AllSteps, CompleteSteps
    <3> QED  BY <1>5, <3>1, GotoIs DEF BlobInv
  <2>2. /\ call' \in [Requests -> CallRow] /\ call'[c] = row
        /\ \A d \in Requests \ {c} : call'[d] = call[d]
    BY <2>1, CallIs DEF BlobInv
  <2>3. SweeperGoesOn
    BY <1>1, SweeperSame DEF outside
  <2>4. ASSUME ~undercut
        PROVE  /\ \A d \in Requests : call'[d].at \notin {"compare", "commit"}
               /\ blob.state # "ready"
    <3>1. {"compare", "commit"} \subseteq Working
      BY DEF Working, CompleteSteps
    <3> QED  BY <1>2, <2>1, <2>2, <2>4, <3>1, WorksAlone
  <2> QED  BY <1>1, <1>2, <1>3, <2>1, <2>2, <2>3, <2>4, StoredKeeps DEF outside
<1> QED  BY <1>4, <1>5 DEF Publish, DeleteBytes

LEMMA CollectBytesKeeps ==
  ASSUME BlobInv, BlobsAssumption, CollectBytes
  PROVE  BlobInv'
<1>1. /\ UNCHANGED <<blob, upload, staged, assembling, metering, call, referenced, undercut, begun, mishaps>>
      /\ sweeper.at = "bytes" /\ SweepTo("blobRow") /\ stored' = None
  BY DEF CollectBytes, aside
<1>2. sweeper' \in SweeperRow /\ sweeper'.at = "blobRow"
  BY <1>1, SweeperMoves
<1>3. FilesTyped /\ call' \in [Requests -> CallRow]
  BY <1>1, FilesSame, Types DEF BlobInv
<1>4. ASSUME ~undercut
      PROVE  /\ blob.state = "ready"
             /\ \A d \in Requests : call'[d].at \notin {"compare", "commit"}
  <2>1. RowHeld /\ ReadyRests /\ CollectsReady
    BY <1>4 DEF BlobInv, Undisturbed
  <2>2. blob.state = "ready"
    BY <1>1, <2>1 DEF CollectsReady
  <2>3. \A d \in Requests : call[d].at \notin Working
    BY <2>2, <1>4, WorksAlone
  <2> QED  BY <1>1, <2>2, <2>3 DEF Working, CompleteSteps
<1>5. SweeperGoesOn
  BY <1>1, <1>2 DEF SweeperGoesOn
<1> QED  BY <1>1, <1>2, <1>3, <1>4, <1>5, StoredKeeps

-----------------------------------------------------------------------------
(* An upload begins, its row is inserted, claimed, and completed.           *)
LEMMA BeginKeeps ==
  ASSUME BlobInv, BlobsAssumption, NEW c \in Requests, Begin(c)
  PROVE  BlobInv'
<1> DEFINE row == [call[c] EXCEPT !.at = "insert", !.up = begun + 1]
<1>1. /\ UNCHANGED <<blob, upload, assembling, stored, metering, sweeper, referenced, undercut, mishaps>>
      /\ call[c].at = "begin" /\ begun' = begun + 1 /\ begun < MaxUploads
      /\ staged' = [staged EXCEPT ![begun + 1] = "empty"]
      /\ TypeOK /\ RowSound /\ CallsSound /\ IdsFresh /\ OneCompletion
  BY DEF Begin, At, BlobInv
<1>2. /\ call \in [Requests -> CallRow] /\ call[c] \in CallRow /\ upload \in UploadRow
      /\ \A d \in Requests : call[d].up \in Nat
      /\ begun \in Nat /\ begun + 1 \in UploadIds /\ begun' \in 0..MaxUploads
  BY <1>1, Types DEF BlobsAssumption, UploadIds, CallRow
<1>3. call' = [call EXCEPT ![c] = row]
  BY <1>2 DEF Begin
<1>4. row \in CallRow /\ row.at = "insert" /\ row.up = begun + 1
  BY <1>2 DEF CallRow, AllSteps, CreateSteps
<1> HIDE DEF row
<1>5. /\ call' \in [Requests -> CallRow] /\ call'[c] = row
      /\ \A d \in Requests \ {c} : call'[d] = call[d]
  BY <1>1, <1>3, <1>4, CallIs
<1>6. /\ "insert" \notin CompleteSteps /\ "begin" \notin CompleteSteps
      /\ Working \subseteq Claiming /\ Claiming \subseteq CompleteSteps
  BY CreateStepsApart DEF CompleteSteps
<1>7. TypeOK'
  <2>1. staged' \in [UploadIds -> Contents \cup {"gone", "empty"}]
    BY <1>1, Types
  <2> QED  BY <1>1, <1>2, <1>5, <2>1, Types DEF TypeOK, CallRow, AllSteps, metering
<1>8. RowSound'
  <2>1. Held' => Held
    BY <1>1, <1>2, <1>4, <1>5, <1>6 DEF Held, Holding, UploadRow
  <2> QED  BY <1>1, <2>1 DEF RowSound
<1>9. CallsSound'
  BY <1>1, <1>4, <1>5, <1>6 DEF CallsSound
<1>10. IdsFresh'
  <2>1. upload'.id <= begun' /\ \A d \in Requests : call'[d].up <= begun'
    BY <1>1, <1>2, <1>4, <1>5 DEF IdsFresh, UploadRow, UploadIds, BlobsAssumption
  <2>2. ASSUME NEW d \in Requests, call'[d].at = "insert"
        PROVE  /\ call'[d].up # 0 /\ call'[d].up # upload'.id
               /\ \A e \in Requests \ {d} : call'[e].up # call'[d].up
    <3>1. CASE d = c
      BY <1>1, <1>2, <1>4, <1>5, <3>1 DEF IdsFresh, UploadRow, UploadIds, BlobsAssumption
    <3>2. CASE d # c
      <4>1. call'[d] = call[d] /\ call[d].up <= begun
        BY <1>1, <1>5, <3>2 DEF IdsFresh
      <4>2. begun + 1 # call[d].up
        BY <1>2, <4>1
      <4>3. call'[c].up # call[d].up
        BY <1>4, <1>5, <4>2
      <4> QED  BY <1>1, <1>5, <2>2, <4>1, <4>3 DEF IdsFresh
    <3> QED  BY <3>1, <3>2
  <2> QED  BY <2>1, <2>2 DEF IdsFresh
<1>11. UsageExact'
  BY <1>1 DEF BlobInv, UsageExact, metering
<1>12. OneCompletion'
  BY <1>1, <1>4, <1>5, <1>6 DEF OneCompletion, Claiming
<1>13. Undisturbed'
  <2> SUFFICES ASSUME ~undercut
               PROVE  (RowHeld /\ ReadyRests /\ CollectsReady /\ DigestCurrent /\ ReadyHasBytes)'
    BY <1>1 DEF Undisturbed
  <2>1. RowHeld /\ ReadyRests /\ CollectsReady /\ DigestCurrent /\ ReadyHasBytes
    BY DEF BlobInv, Undisturbed
  <2>2. RowHeld'
    BY <1>1, <1>4, <1>5, <1>6, <2>1 DEF RowHeld
  <2>3. ReadyRests' /\ DigestCurrent'
    BY <1>1, <1>4, <1>5, <2>1 DEF ReadyRests, DigestCurrent
  <2> QED  BY <1>1, <2>1, <2>2, <2>3 DEF CollectsReady, ReadyHasBytes
<1> QED  BY <1>7, <1>8, <1>9, <1>10, <1>11, <1>12, <1>13 DEF BlobInv

LEMMA InsertUploadKeeps ==
  ASSUME BlobInv, BlobsAssumption, NEW c \in Requests, InsertUpload(c)
  PROVE  BlobInv'
<1>1. /\ UNCHANGED <<files, metering, outside>> /\ call[c].at = "insert"
      /\ TypeOK /\ RowSound /\ CallsSound /\ IdsFresh /\ OneCompletion
  BY DEF InsertUpload, At, BlobInv
<1>2. CASE Goto(c, "undo") /\ UNCHANGED <<blob, upload>>
  <2>1. Quiet /\ FilesTyped /\ MeterExact /\ mishaps' \in 0..MaxIncidents
    BY <1>1, <1>2, FilesSame, MeterSame, Types DEF Quiet, files, outside
  <2> QED  BY <1>1, <1>2, <2>1, BeginsKeep DEF CreateSteps
<1>3. CASE /\ upload.id = 0
           /\ blob' = [state |-> "uploading", hash |-> call[c].asks]
           /\ upload' = [NoUpload EXCEPT !.id = call[c].up, !.reserved = Metered]
           /\ (Goto(c, "mark") \/ Done(c))
  <2>1. /\ call \in [Requests -> CallRow] /\ call[c] \in CallRow /\ upload \in UploadRow
        /\ begun \in Nat
    BY <1>1, Types DEF BlobsAssumption
  <2>2. /\ call' \in [Requests -> CallRow] /\ call'[c].at \in {"mark", "idle"}
        /\ call'[c].up \in {0, call[c].up}
        /\ \A d \in Requests \ {c} : call'[d] = call[d]
    BY <1>1, <1>3, GotoRetreats, DoneRetreats
       DEF AllSteps, CreateSteps, CompleteSteps, Claiming, Working, CallsRetreat, Retreats
  <2>3. /\ upload'.id = call[c].up /\ upload'.reserved = Metered /\ upload'.claimedBy = None
        /\ ~upload'.stale /\ ~upload'.completed /\ upload' \in UploadRow
    BY <1>3, <2>1, ZenonT(60) DEF NoUpload, UploadRow, CallRow, BlobsAssumption
  <2>4. /\ "mark" \notin CompleteSteps /\ "idle" \notin CompleteSteps
        /\ Working \subseteq Claiming /\ Claiming \subseteq CompleteSteps
    BY CreateStepsApart DEF CompleteSteps
  <2>5. \A d \in Requests \ {c} : call[d].up # call[c].up
    BY <1>1 DEF IdsFresh
  <2>6. TypeOK'
    <3>1. blob' \in [state : {"absent", "uploading", "ready"}, hash : Contents \cup {None}]
      BY <1>3, <2>1 DEF CallRow
    <3> QED  BY <1>1, <2>2, <2>3, <3>1, Types
             DEF TypeOK, UploadRow, CallRow, AllSteps, files, metering, outside
  <2>7. RowSound'
    BY <2>3 DEF RowSound, Held
  <2>8. CallsSound'
    BY <1>1, <2>2, <2>3, <2>4, <2>5 DEF CallsSound
  <2>9. IdsFresh'
    <3>1. begun' = begun /\ call[c].up <= begun /\ 0 <= begun
      BY <1>1, <2>1 DEF IdsFresh, outside
    <3>2. upload'.id <= begun' /\ \A d \in Requests : call'[d].up <= begun'
      BY <1>1, <2>2, <2>3, <3>1 DEF IdsFresh
    <3>3. ASSUME NEW d \in Requests, call'[d].at = "insert"
          PROVE  /\ call'[d].up # 0 /\ call'[d].up # upload'.id
                 /\ \A e \in Requests \ {d} : call'[e].up # call'[d].up
      BY <1>1, <2>2, <2>3, <2>5, <3>3 DEF IdsFresh
    <3> QED  BY <3>2, <3>3 DEF IdsFresh
  <2>10. UsageExact'
    BY <1>1, <1>3 DEF BlobInv, UsageExact, metering
  <2>11. OneCompletion'
    BY <1>1, <2>2, <2>4 DEF OneCompletion, Claiming
  <2>12. Undisturbed'
    <3> SUFFICES ASSUME ~undercut
                 PROVE  (RowHeld /\ ReadyRests /\ CollectsReady /\ DigestCurrent /\ ReadyHasBytes)'
      BY <1>1 DEF Undisturbed, outside
    <3>1. RowHeld /\ ReadyRests /\ CollectsReady
      BY DEF BlobInv, Undisturbed
    <3>2. \A d \in Requests : call[d].at \notin Working
      BY <1>1, <1>3, <2>4, <3>1 DEF RowHeld, CallsSound
    <3>3. \A d \in Requests : call'[d].at \notin Working
      BY <2>2, <2>4, <3>2
    <3>4. blob.state # "ready"
      BY <1>1, <1>3, <3>1 DEF ReadyRests
    <3>5. sweeper'.at \notin {"bytes", "blobRow"}
      BY <1>1, <3>1, <3>4 DEF CollectsReady, outside
    <3>6. {"compare", "commit"} \subseteq Working
      BY DEF Working, CompleteSteps
    <3> QED  BY <1>3, <3>3, <3>5, <3>6
             DEF RowHeld, ReadyRests, CollectsReady, DigestCurrent, ReadyHasBytes
  <2> QED  BY <2>6, <2>7, <2>8, <2>9, <2>10, <2>11, <2>12 DEF BlobInv
<1> QED  BY <1>2, <1>3 DEF InsertUpload

LEMMA CompleteKeeps ==
  ASSUME BlobInv, BlobsAssumption, NEW c \in Requests, Complete(c)
  PROVE  BlobInv'
<1> DEFINE row == [Idle EXCEPT !.at = "parts", !.up = upload.id, !.reserved = upload.reserved]
<1>1. /\ UNCHANGED <<blob, files, metering, outside>> /\ call[c].at = "idle" /\ Claimable
      /\ upload' = [upload EXCEPT !.claimedBy = c, !.stale = FALSE]
      /\ call' = [call EXCEPT ![c] = row]
      /\ TypeOK /\ RowSound /\ CallsSound /\ IdsFresh /\ OneCompletion
  BY DEF Complete, At, BlobInv
<1>2. /\ call \in [Requests -> CallRow] /\ upload \in UploadRow /\ begun \in Nat
  BY <1>1, Types DEF BlobsAssumption
<1>3. row \in CallRow /\ row.at = "parts" /\ row.up = upload.id /\ row.reserved = upload.reserved
  BY <1>2 DEF CallRow, Idle, UploadRow, AllSteps, CompleteSteps
<1> HIDE DEF row
<1>4. /\ call' \in [Requests -> CallRow] /\ call'[c] = row
      /\ \A d \in Requests \ {c} : call'[d] = call[d]
  BY <1>1, <1>3, CallIs
<1>5. /\ upload'.id = upload.id /\ upload'.reserved = upload.reserved /\ upload'.claimedBy = c
      /\ ~upload'.stale /\ upload'.completed = upload.completed /\ upload' \in UploadRow
  BY <1>1, <1>2 DEF UploadRow
<1>6. upload.id # 0 /\ ~upload.completed /\ upload.reserved = Metered
  BY <1>1 DEF Claimable, RowSound
<1>7. Working \subseteq Claiming /\ Claiming \subseteq CompleteSteps /\ "parts" \notin {"compare", "commit"}
  BY CreateStepsApart
<1>8. ASSUME NEW d \in Requests, call[d].at \in Claiming PROVE call[d].up # upload.id
  <2> SUFFICES ASSUME call[d].up = upload.id PROVE FALSE
    OBVIOUS
  <2>1. upload.claimedBy = d /\ d # None
    BY <1>1, <1>8 DEF CallsSound, BlobsAssumption
  <2>2. Held
    BY <1>7, <1>8, <2>1 DEF Held, Holding
  <2> QED  BY <1>1, <2>1, <2>2 DEF Claimable, RowSound
<1>9. TypeOK'
  BY <1>1, <1>4, <1>5, Types DEF TypeOK, UploadRow, CallRow, AllSteps, files, metering, outside
<1>10. RowSound'
  BY <1>5, <1>6 DEF RowSound
<1>11. CallsSound'
  BY <1>1, <1>3, <1>4, <1>5, <1>6, <1>8 DEF CallsSound
<1>12. IdsFresh'
  <2>1. begun' = begun /\ \A d \in Requests : call'[d].up <= begun'
    BY <1>1, <1>3, <1>4 DEF IdsFresh, outside
  <2>2. ASSUME NEW d \in Requests, call'[d].at = "insert"
        PROVE  /\ call'[d].up # 0 /\ call'[d].up # upload'.id
               /\ \A e \in Requests \ {d} : call'[e].up # call'[d].up
    BY <1>1, <1>3, <1>4, <1>5, <2>2 DEF IdsFresh
  <2> QED  BY <1>1, <1>5, <2>1, <2>2 DEF IdsFresh
<1>13. UsageExact'
  BY <1>1 DEF BlobInv, UsageExact, metering
<1>14. OneCompletion'
  <2>1. \A d \in Requests \ {c} : call'[d].at \in Claiming => call'[d].up # call'[c].up
    BY <1>3, <1>4, <1>8
  <2> QED  BY <1>1, <1>4, <2>1 DEF OneCompletion, Claiming
<1>15. Undisturbed'
  <2> SUFFICES ASSUME ~undercut
               PROVE  (RowHeld /\ ReadyRests /\ CollectsReady /\ DigestCurrent /\ ReadyHasBytes)'
    BY <1>1 DEF Undisturbed, outside
  <2>1. RowHeld /\ ReadyRests /\ CollectsReady /\ DigestCurrent /\ ReadyHasBytes
    BY DEF BlobInv, Undisturbed
  <2>2. blob.state # "ready"
    BY <1>6, <2>1 DEF ReadyRests
  <2>3. RowHeld'
    <3>1. \A d \in Requests : call[d].at \notin Working
      BY <1>7, <1>8, <2>1 DEF RowHeld
    <3> QED  BY <1>3, <1>4, <1>5, <1>6, <3>1 DEF RowHeld
  <2>4. DigestCurrent'
    BY <1>1, <1>3, <1>4, <1>7, <2>1 DEF DigestCurrent, files
  <2> QED  BY <1>1, <2>1, <2>2, <2>3, <2>4 DEF ReadyRests, CollectsReady, ReadyHasBytes, outside
<1> QED  BY <1>9, <1>10, <1>11, <1>12, <1>13, <1>14, <1>15 DEF BlobInv

(* The transaction that ends complete settles the reservation.              *)
LEMMA CommitExact ==
  ASSUME BlobInv, BlobsAssumption,
         IF Metered THEN CanCommit /\ CommitReservation ELSE UNCHANGED metering
  PROVE  MeterExact
<1>1. /\ reservation \in [status : Open \cup {"none", "released", "committed"},
                          hash : Contents \cup {None}]
      /\ usage \in [reserved : Nat, active : Nat] /\ UsageExact
  BY Types DEF BlobInv
<1>2. CASE ~Metered
  BY <1>1, <1>2 DEF MeterExact, UsageExact, metering
<1>3. CASE Metered /\ reservation.status = "committed"
  BY <1>1, <1>3 DEF MeterExact, UsageExact, metering, CommitReservation
<1>4. CASE Metered /\ reservation.status \in Open
  <2>1. /\ usage.reserved >= 1 /\ reservation.status # "committed"
        /\ HasLimit => usage.reserved = 1 /\ usage.active = 0
    BY <1>1, <1>4 DEF UsageExact, Open
  <2>2. /\ usage'.reserved = usage.reserved - 1 /\ usage'.active = usage.active + 1
        /\ usage' \in [reserved : Nat, active : Nat] /\ usage'.active >= 1
    BY <1>1, <1>3, <1>4, <2>1 DEF CommitReservation, Released
  <2>3. /\ reservation'.status = "committed"
        /\ reservation' \in [status : Open \cup {"none", "released", "committed"},
                             hash : Contents \cup {None}]
    BY <1>1, <1>4, <2>1 DEF CommitReservation
  <2> QED  BY <2>1, <2>2, <2>3 DEF MeterExact, UsageExact, Open
<1> QED  BY <1>2, <1>3, <1>4 DEF CanCommit

LEMMA CommitKeeps ==
  ASSUME BlobInv, BlobsAssumption, NEW c \in Requests, Commit(c)
  PROVE  BlobInv'
<1>1. /\ UNCHANGED <<files, outside>> /\ call[c].at = "commit"
      /\ TypeOK /\ RowSound /\ CallsSound /\ IdsFresh /\ OneCompletion
  BY DEF Commit, At, BlobInv
<1>2. /\ call[c].at \in Working /\ call[c].at \in Claiming /\ call[c].at \in CompleteSteps
      /\ Working \subseteq Claiming /\ Claiming \subseteq CompleteSteps
      /\ {"compare", "commit"} \subseteq Working /\ "idle" \notin CompleteSteps
  BY <1>1 DEF Working, Claiming, CompleteSteps
<1>3. call[c].reserved = Metered /\ call[c].up # 0
  BY <1>1, <1>2 DEF CallsSound
<1>4. CASE Goto(c, "unclaim") /\ UNCHANGED <<blob, upload, metering>>
  <2>1. Quiet /\ FilesTyped /\ MeterExact /\ mishaps' \in 0..MaxIncidents
    BY <1>1, <1>4, FilesSame, MeterSame, Types DEF Quiet, files, outside
  <2> QED  BY <1>1, <1>2, <1>4, <2>1, GotoKeeps DEF AllSteps, CompleteSteps, Claiming, Working
<1>5. CASE /\ IF Metered THEN CanCommit /\ CommitReservation ELSE UNCHANGED metering
           /\ blob' = IF blob.state = "absent" THEN blob ELSE [blob EXCEPT !.state = "ready"]
           /\ upload' = IF upload.id # call[c].up THEN upload
                        ELSE [upload EXCEPT !.completed = TRUE, !.claimedBy = None, !.stale = FALSE]
           /\ Done(c)
  <2>1. MeterExact
    BY <1>5, CommitExact
  <2>2. /\ call \in [Requests -> CallRow] /\ upload \in UploadRow
        /\ blob \in [state : {"absent", "uploading", "ready"}, hash : Contents \cup {None}]
    BY <1>1, Types
  <2>3. /\ call' \in [Requests -> CallRow] /\ call'[c].at = "idle" /\ call'[c].up \in {0, call[c].up}
        /\ \A d \in Requests \ {c} : call'[d] = call[d]
    BY <1>5, DoneRetreats DEF CallsRetreat, Retreats, Working, CompleteSteps
  <2>4. /\ upload' \in UploadRow /\ upload'.id = upload.id /\ upload'.reserved = upload.reserved
        /\ \/ upload' = upload /\ upload.id # call[c].up
           \/ /\ upload.id = call[c].up /\ upload'.completed /\ upload'.claimedBy = None
              /\ ~upload'.stale
    BY <1>5, <2>2 DEF UploadRow
  <2>5. /\ blob' \in [state : {"absent", "uploading", "ready"}, hash : Contents \cup {None}]
        /\ blob'.hash = blob.hash /\ (blob'.state = "ready" => blob.state # "absent")
    BY <1>5, <2>2
  <2>6. TypeOK'
    BY <1>1, <2>1, <2>3, <2>4, <2>5, Types
       DEF TypeOK, UploadRow, CallRow, AllSteps, MeterExact, files, outside
  <2>7. RowSound'
    <3>1. upload' = upload => (Held' => Held)
      BY <1>2, <2>2, <2>3 DEF Held, Holding, UploadRow
    <3> QED  BY <1>1, <2>4, <3>1 DEF RowSound
  <2>8. CallsSound'
    <3>1. upload.id = call[c].up => upload.claimedBy = c
      BY <1>1, <1>2 DEF CallsSound
    <3> QED  BY <1>1, <1>2, <2>3, <2>4, <3>1 DEF CallsSound
  <2>9. IdsFresh'
    <3>1. begun' = begun /\ 0 <= begun
      BY <1>1, Types DEF outside, BlobsAssumption
    <3> QED  BY <1>1, <2>3, <2>4, <3>1 DEF IdsFresh
  <2>10. OneCompletion'
    BY <1>1, <1>2, <2>3 DEF OneCompletion, Claiming
  <2>11. Undisturbed'
    <3> SUFFICES ASSUME ~undercut
                 PROVE  (RowHeld /\ ReadyRests /\ CollectsReady /\ DigestCurrent /\ ReadyHasBytes)'
      BY <1>1 DEF Undisturbed, outside
    <3>1. CollectsReady /\ DigestCurrent
      BY DEF BlobInv, Undisturbed
    <3>2. /\ \A d \in Requests : call'[d].at \notin Working
          /\ blob.state # "ready" /\ upload.id = call[c].up
      BY <1>2, <2>3, WorksAlone
    <3>3. ReadyRests'
      BY <1>3, <2>4, <3>2 DEF ReadyRests
    <3>4. sweeper'.at \notin {"bytes", "blobRow"}
      BY <1>1, <3>1, <3>2 DEF CollectsReady, outside
    <3>5. ReadyHasBytes'
      BY <1>1, <2>5, <3>1 DEF ReadyHasBytes, DigestCurrent, files
    <3> QED  BY <1>2, <3>2, <3>3, <3>4, <3>5 DEF RowHeld, CollectsReady, DigestCurrent
  <2> QED  BY <2>1, <2>6, <2>7, <2>8, <2>9, <2>10, <2>11 DEF BlobInv, MeterExact
<1> QED  BY <1>3, <1>4, <1>5 DEF Commit

-----------------------------------------------------------------------------
LEMMA BlobInit ==
  ASSUME BlobsAssumption, Init
  PROVE  BlobInv
<1>1. TypeOK
  <2>1. /\ blob \in [state : {"absent", "uploading", "ready"}, hash : Contents \cup {None}]
        /\ upload \in UploadRow
    BY DEF Init, Absent, NoUpload, UploadRow
  <2>2. Idle \in CallRow
    BY DEF Idle, CallRow, AllSteps, OtherSteps
  <2>3. call \in [Requests -> CallRow]
    BY <2>2 DEF Init
  <2>4. sweeper \in SweeperRow /\ usage \in [reserved : Nat, active : Nat]
    BY DEF Init, SweeperRow
  <2>5. begun \in 0..MaxUploads /\ mishaps \in 0..MaxIncidents
    BY DEF Init, BlobsAssumption
  <2>6. /\ staged \in [UploadIds -> Contents \cup {"gone", "empty"}]
        /\ assembling \in [UploadIds -> Contents \cup {None}]
        /\ stored \in Contents \cup {None}
        /\ reservation \in [status : Open \cup {"none", "released", "committed"},
                            hash : Contents \cup {None}]
        /\ referenced \in BOOLEAN /\ undercut \in BOOLEAN
    BY DEF Init
  <2> QED  BY <2>1, <2>3, <2>4, <2>5, <2>6, Types
<1>2. RowSound /\ CallsSound /\ OneCompletion
  BY DEF Init, RowSound, CallsSound, OneCompletion, Held, NoUpload, Idle, Claiming, CompleteSteps
<1>3. IdsFresh
  BY DEF Init, IdsFresh, NoUpload, Idle
<1>4. UsageExact
  BY DEF Init, UsageExact, Open, Absent
<1>5. Undisturbed
  BY DEF Init, Undisturbed, RowHeld, ReadyRests, CollectsReady, DigestCurrent, ReadyHasBytes,
     Absent, Idle, Working, CompleteSteps
<1> QED  BY <1>1, <1>2, <1>3, <1>4, <1>5 DEF BlobInv

LEMMA BlobStep ==
  ASSUME BlobsAssumption, BlobInv, [Next]_uploadVars
  PROVE  BlobInv'
<1>1. ASSUME NEW c \in Requests, CreateStep(c) PROVE BlobInv'
  BY <1>1, FindKeeps, StaleKeeps, DeleteStaleKeeps, ReserveKeeps, BeginKeeps, InsertUploadKeeps,
     MarkKeeps DEF CreateStep
<1>2. ASSUME NEW c \in Requests, CompleteStep(c) PROVE BlobInv'
  BY <1>2, CheckKeeps, PublishKeeps, DigestKeeps, DeleteRowsKeeps, CommitKeeps, UnclaimKeeps
     DEF CompleteStep
<1>3. ASSUME NEW c \in Requests, AbortStep(c) PROVE BlobInv'
  BY <1>3, StaleKeeps, AbortRowsKeeps DEF AbortStep
<1>4. ASSUME NEW c \in Requests, Step(c) PROVE BlobInv'
  BY <1>1, <1>2, <1>3, <1>4, StoreKeeps, RecordKeeps DEF Step
<1>5. ASSUME NEW c \in Requests,
             \/ \E h \in Contents : CreateUpload(c, h) \/ WritePart(c, h)
             \/ Complete(c) \/ Abort(c) \/ StatementFails(c) \/ Dies(c)
      PROVE  BlobInv'
  BY <1>5, CreateUploadKeeps, WriteKeeps, CompleteKeeps, MishapKeeps
<1>6. CASE SweepStep
  BY <1>6, SweepStagedKeeps, SweepRowKeeps, SweepBlobKeeps, RemoveCompletedKeeps, CollectBytesKeeps
     DEF SweepStep
<1>7. CASE Refer \/ Unrefer \/ UploadExpires \/ LeaseExpires \/ UNCHANGED uploadVars
  BY <1>7, TimeKeeps
<1> QED  BY <1>4, <1>5, <1>6, <1>7 DEF Next

(* A step leaves a blob that is ready as it is, unless it collects it.      *)
LEMMA ReadyStep ==
  ASSUME BlobsAssumption, BlobInv, [Next]_uploadVars, blob.state = "ready", ~undercut
  PROVE  blob' = blob \/ sweeper.at = "blobRow"
<1>1. ReadyRests /\ \A c \in Requests : call[c].at \notin Working
  BY WorksAlone DEF BlobInv, Undisturbed
<1>2. ASSUME NEW c \in Requests, InsertUpload(c) PROVE blob' = blob
  BY <1>1, <1>2 DEF InsertUpload, At, ReadyRests
<1>3. ASSUME NEW c \in Requests, DeleteRows(c) \/ Commit(c) PROVE blob' = blob
  <2>1. call[c].at \in {"deleteRows", "commit"}
    BY <1>3 DEF DeleteRows, Commit, At
  <2> QED  BY <1>1, <2>1 DEF Working, CompleteSteps
<1>4. ASSUME NEW c \in Requests, AbortRows(c) PROVE blob' = blob
  BY <1>4 DEF AbortRows
<1>5. ASSUME NEW c \in Requests, CreateStep(c) PROVE blob' = blob
  BY <1>2, <1>5 DEF CreateStep, FindActive, FindStale, AbortStale, DeleteStale, ReleaseStale,
     Reserve, Take, Begin, MarkExternalStarted, UndoBegin, UndoReserve
<1>6. ASSUME NEW c \in Requests, CompleteStep(c) PROVE blob' = blob
  BY <1>3, <1>6 DEF CompleteStep, CheckParts, CheckStored, Copy, Publish, Tidy, Digest, Compare,
     DeleteBytes, ReleaseDeleted, Unclaim
<1>7. ASSUME NEW c \in Requests, Step(c) PROVE blob' = blob
  BY <1>4, <1>5, <1>6, <1>7 DEF Step, AbortStep, AbortStorage, ReleaseAborted, StorePart, RecordPart
<1>8. ASSUME NEW c \in Requests,
             \/ \E h \in Contents : CreateUpload(c, h) \/ WritePart(c, h)
             \/ Complete(c) \/ Abort(c) \/ StatementFails(c) \/ Dies(c)
      PROVE  blob' = blob
  BY <1>8 DEF CreateUpload, WritePart, Complete, Abort, StatementFails, Dies, Mishap
<1>9. CASE SweepStep
  BY <1>9 DEF SweepStep, FindExpired, SweepStaged, SweepRow, SweepReservation, SweepBlob,
     RemoveCompleted, ChooseGarbage, CollectBytes, CollectRow
<1>10. CASE Refer \/ Unrefer \/ UploadExpires \/ LeaseExpires \/ UNCHANGED uploadVars
  BY <1>10 DEF Refer, Unrefer, UploadExpires, LeaseExpires, uploadVars
<1> QED  BY <1>7, <1>8, <1>9, <1>10 DEF Next

(* A ready blob has the bytes it was announced with, no blob goes uncounted and
   with a storage limit none is counted twice, and one request at a time
   completes an upload: the requests of createUpload, writePart, complete and abort, and
   the maintenance run, in any order and with any of them failing.          *)
THEOREM UploadsCorrect ==
  ASSUME BlobsAssumption
  PROVE  Spec => [](TypeOK /\ UploadsSound)
<1>1. Init => BlobInv
  BY BlobInit
<1>2. BlobInv /\ [Next]_uploadVars => BlobInv'
  BY BlobStep
<1>3. BlobInv => TypeOK /\ UploadsSound
  BY DEF BlobInv, Undisturbed, ReadyHasBytes, UsageExact, UsageBalanced, UploadsSound
<1> QED  BY <1>1, <1>2, <1>3, PTL DEF Spec

(* What is ready stays ready until maintenance collects it (createUpload,
   complete, abort and the removal of expired uploads).                     *)
THEOREM ReadyStays ==
  ASSUME BlobsAssumption
  PROVE  Spec => ReadyUntilCollected
<1>1. Init => BlobInv
  BY BlobInit
<1>2. BlobInv /\ [Next]_uploadVars => BlobInv'
  BY BlobStep
<1>3. BlobInv /\ [Next]_uploadVars =>
        [blob.state = "ready" /\ ~undercut => blob' = blob \/ sweeper.at = "blobRow"]_uploadVars
  BY ReadyStep
<1> QED  BY <1>1, <1>2, <1>3, PTL DEF Spec, ReadyUntilCollected

-----------------------------------------------------------------------------
(* What a backup has of the objects, and what a restored instance makes of it
   (OfflineBackup).  It sees the objects of the store as one set.  Its
   bounds are numbers.                                                      *)
BackupBounds == MaxPackages \in Nat /\ MaxSwitches \in Nat /\ MaxImports \in Nat

Runs ==
  [status : {"none", "preparing", "draining", "dumping", "copying", "verifying", "ready", "failed"},
   generation : Nat, artifacts : SUBSET (Blobs \cup {Backup!Database})]

Instances ==
  [mode : {"normal", "offline"}, switches : 0..MaxSwitches, refs : SUBSET Blobs, given : Nat,
   runs : [Backup!Packages -> Runs]]

Places ==
  {"none", "preparing", "draining", "dumping", "dumped", "copying", "verifying", "held", "signed",
   "failing"}

Writers == [at : Places, expects : Nat, todo : SUBSET Blobs]

Directories ==
  [signed : BOOLEAN, generation : Nat, dump : SUBSET Instances, blobs : SUBSET Blobs]

Typed ==
  /\ db \in Instances /\ objects \subseteq Blobs /\ running \in BOOLEAN
  /\ writer \in [Backup!Packages -> Writers] /\ package \in [Backup!Packages -> Directories]
  /\ restored \in 0..MaxPackages /\ restores \in 0..MaxImports

Ahead(d) ==
  \A p \in Backup!Packages : d.runs[p].status # "none" => d.runs[p].generation <= d.given

(* A dump shows the run of its package unfinished, under generation g.       *)
DumpShows(p, g) ==
  \A d \in package[p].dump :
    d.runs[p].status = "dumping" /\ d.runs[p].artifacts = {} /\ d.runs[p].generation = g

(* The blobs of a package are those its dump refers to, and others.          *)
Whole(p) == \A d \in package[p].dump : d.refs \subseteq package[p].blobs

(* Nothing has changed the mode since the writer of p began.                 *)
Calm(p) == db.switches = writer[p].expects

(* Where the writer of p stands with its run and its package ...             *)
WriterSound(p) ==
  /\ Backup!Writing(p) => writer[p].expects <= db.switches
  /\ writer[p].at \in {"preparing", "draining", "dumping"} =>
       /\ db.runs[p].status = writer[p].at /\ db.runs[p].artifacts = {}
       /\ package[p] = Backup!NoPackage
  /\ writer[p].at \in {"dumped", "copying", "verifying", "held"} => ~package[p].signed
  /\ writer[p].at \in {"dumped", "copying", "verifying", "held", "signed"} =>
       DumpShows(p, db.runs[p].generation)
  /\ writer[p].at \in {"held", "signed"} => Whole(p)

(* ... and, while it is not disturbed, that nothing it reads has changed.    *)
WriterAlone(p) ==
  Calm(p) =>
    /\ writer[p].at \in {"preparing", "draining", "dumping", "dumped", "copying", "verifying"} =>
         db.mode = "offline"
    /\ writer[p].at \in {"dumped", "copying", "verifying"} =>
         \A d \in package[p].dump : d.refs = db.refs
    /\ writer[p].at = "copying" => objects \subseteq writer[p].todo \cup package[p].blobs
    /\ writer[p].at = "verifying" => objects \subseteq package[p].blobs

PackageSound(p) ==
  /\ package[p].signed => Whole(p) /\ DumpShows(p, package[p].generation)
  /\ \A d \in package[p].dump : Ahead(d)

(* The package an instance goes on from is finished, and its run unfinished or
   registered as it is.                                                     *)
RestoredSound ==
  restored # 0 =>
    /\ package[restored].signed /\ ~Backup!Writing(restored)
    /\ db.runs[restored].status # "none"
    /\ Backup!Registrable(restored)

BackupInv ==
  /\ Typed /\ Backup!ReferencedStored /\ Ahead(db) /\ RestoredSound
  /\ \A p \in Backup!Packages : WriterSound(p) /\ WriterAlone(p) /\ PackageSound(p)

-----------------------------------------------------------------------------
LEMMA BackupInit == ASSUME BackupBounds PROVE Backup!Init => BackupInv
<1> SUFFICES ASSUME Backup!Init PROVE BackupInv
    OBVIOUS
<1>1. /\ db.mode = "normal" /\ db.switches = 0 /\ db.refs = {} /\ db.given = 0
      /\ \A p \in Backup!Packages : db.runs[p] = Backup!NoRun /\ writer[p] = Backup!NoWriter /\ package[p] = Backup!NoPackage
      /\ restored = 0
  BY DEF Backup!Init
<1>2. Backup!NoRun \in Runs /\ Backup!NoWriter \in Writers /\ Backup!NoPackage \in Directories
  BY DEF Backup!NoRun, Runs, Backup!NoWriter, Writers, Places, Backup!NoPackage, Directories
<1>3. db \in Instances
  BY <1>2 DEF Backup!Init, Instances, BackupBounds
<1>4. Typed
  <2>1. writer \in [Backup!Packages -> Writers] /\ package \in [Backup!Packages -> Directories]
    BY <1>2 DEF Backup!Init
  <2>2. objects \subseteq Blobs /\ running \in BOOLEAN
        /\ restored \in 0..MaxPackages /\ restores \in 0..MaxImports
    BY DEF Backup!Init, BackupBounds
  <2> QED
    BY <1>3, <2>1, <2>2 DEF Typed
<1>5. \A p \in Backup!Packages : WriterSound(p) /\ WriterAlone(p) /\ PackageSound(p)
  BY <1>1 DEF WriterSound, WriterAlone, PackageSound, Backup!Writing, Backup!NoWriter,
       Backup!NoPackage
<1> QED
  BY <1>1, <1>4, <1>5 DEF BackupInv, Backup!ReferencedStored, Ahead, RestoredSound, Backup!NoRun

-----------------------------------------------------------------------------
(* A step of the writer of p: what there is of other packages stays, and the  *)
(* package the instance goes on from is another.                            *)
LEMMA WriterStep ==
  ASSUME BackupInv, NEW p \in Backup!Packages,
         NEW run \in Runs, NEW w \in Writers, NEW pk \in Directories,
         db' \in Instances, db'.runs = [db.runs EXCEPT ![p] = run],
         db'.mode = db.mode, db'.switches = db.switches, db'.refs = db.refs,
         db'.given >= db.given, run.status # "none" => run.generation <= db'.given,
         writer' = [writer EXCEPT ![p] = w], package' = [package EXCEPT ![p] = pk],
         UNCHANGED <<objects, running, restored, restores>>, restored # p,
         WriterSound(p)', WriterAlone(p)', PackageSound(p)'
  PROVE  BackupInv'
<1>1. Typed /\ db \in Instances
  BY DEF BackupInv, Typed
<1>2. Typed'
  BY <1>1 DEF Typed
<1>3. \A q \in Backup!Packages \ {p} :
        writer'[q] = writer[q] /\ package'[q] = package[q] /\ db'.runs[q] = db.runs[q]
  BY <1>1 DEF Typed, Instances
<1>4. \A q \in Backup!Packages \ {p} : WriterSound(q)' /\ WriterAlone(q)' /\ PackageSound(q)'
  <2> SUFFICES ASSUME NEW q \in Backup!Packages \ {p}
               PROVE  WriterSound(q)' /\ WriterAlone(q)' /\ PackageSound(q)'
      OBVIOUS
  <2>1. WriterSound(q) /\ WriterAlone(q) /\ PackageSound(q)
    BY DEF BackupInv
  <2>2. writer'[q] = writer[q] /\ package'[q] = package[q] /\ db'.runs[q] = db.runs[q]
    BY <1>3
  <2>3. WriterSound(q)'
    BY <2>1, <2>2 DEF WriterSound, Backup!Writing, DumpShows, Whole
  <2>4. WriterAlone(q)'
    BY <2>1, <2>2 DEF WriterAlone, Calm
  <2>5. PackageSound(q)'
    BY <2>1, <2>2 DEF PackageSound, DumpShows, Whole, Ahead
  <2> QED
    BY <2>3, <2>4, <2>5
<1>5. Backup!ReferencedStored'
  BY DEF BackupInv, Backup!ReferencedStored
<1>6. Ahead(db)'
  <2> SUFFICES ASSUME NEW q \in Backup!Packages, db'.runs[q].status # "none"
               PROVE  db'.runs[q].generation <= db'.given
      BY DEF Ahead
  <2>1. CASE q = p
    BY <1>1, <2>1 DEF Instances
  <2>2. CASE q # p
    <3>1. db.runs[q].generation <= db.given /\ db.runs[q] \in Runs /\ db'.runs[q] = db.runs[q]
      BY <1>1, <1>3, <2>2 DEF BackupInv, Ahead, Instances
    <3> QED
      BY <1>1, <3>1 DEF Instances, Runs
  <2> QED
    BY <2>1, <2>2
<1>7. RestoredSound'
  <2> SUFFICES ASSUME restored # 0
               PROVE  /\ package'[restored].signed /\ ~Backup!Writing(restored)'
                      /\ db'.runs[restored].status # "none"
                      /\ Backup!Registrable(restored)'
      BY DEF RestoredSound
  <2>1. restored \in Backup!Packages \ {p}
    BY <1>1 DEF Typed, Backup!Packages
  <2>2. /\ writer'[restored] = writer[restored] /\ package'[restored] = package[restored]
        /\ db'.runs[restored] = db.runs[restored]
    BY <1>3, <2>1
  <2> QED
    BY <2>2 DEF BackupInv, RestoredSound, Backup!Registrable, Backup!Writing, Backup!Inventory
<1> QED
  BY <1>2, <1>4, <1>5, <1>6, <1>7 DEF BackupInv

(* What the fields of a database are that differs in the row of a run.       *)
LEMMA RunEdited ==
  ASSUME db \in Instances, NEW p \in Backup!Packages,
         NEW run \in Runs, db' = [db EXCEPT !.runs[p] = run]
  PROVE  /\ db' \in Instances /\ db'.runs = [db.runs EXCEPT ![p] = run]
         /\ db'.mode = db.mode /\ db'.switches = db.switches /\ db'.refs = db.refs
         /\ db'.given = db.given
BY DEF Instances

LEMMA StatusEdited ==
  ASSUME db \in Instances, NEW p \in Backup!Packages,
         NEW to \in {"none", "preparing", "draining", "dumping", "copying", "verifying", "ready", "failed"}
  PROVE  LET run == [db.runs[p] EXCEPT !.status = to] IN
           /\ run \in Runs /\ run.status = to
           /\ run.generation = db.runs[p].generation /\ run.artifacts = db.runs[p].artifacts
           /\ [db EXCEPT !.runs[p].status = to] = [db EXCEPT !.runs[p] = run]
<1>1. db.runs \in [Backup!Packages -> Runs]
  BY DEF Instances
<1>2. db.runs[p] \in Runs
  BY <1>1
<1> QED
  BY <1>2 DEF Runs

(* The package the instance goes on from has no writer.                     *)
LEMMA WritingElsewhere ==
  ASSUME BackupInv, NEW p \in Backup!Packages, Backup!Writing(p)
  PROVE  restored # p /\ WriterSound(p) /\ WriterAlone(p) /\ PackageSound(p)
         /\ db \in Instances /\ writer[p] \in Writers /\ package[p] \in Directories
         /\ db.runs[p] \in Runs /\ db.given \in Nat
         /\ (db.runs[p].status # "none" => db.runs[p].generation <= db.given)
<1>1. restored # p
  BY DEF BackupInv, RestoredSound, Backup!Packages
<1>2. WriterSound(p) /\ WriterAlone(p) /\ PackageSound(p) /\ Ahead(db)
  BY DEF BackupInv
<1>3. db \in Instances /\ writer[p] \in Writers /\ package[p] \in Directories
  BY DEF BackupInv, Typed
<1>4. db.runs[p] \in Runs /\ db.given \in Nat
  BY <1>3 DEF Instances
<1> QED
  BY <1>1, <1>2, <1>3, <1>4 DEF Ahead

LEMMA BeginBackupKeeps ==
  ASSUME BackupInv, BackupBounds, NEW p \in Backup!Packages, Backup!Begin(p)
  PROVE  BackupInv'
<1> DEFINE run == [status |-> "preparing", generation |-> db.given + 1, artifacts |-> {}]
           w == [at |-> "preparing", expects |-> db.switches, todo |-> {}]
<1>1. /\ db.mode = "offline" /\ UNCHANGED <<objects, running, package, restored, restores>>
      /\ writer' = [writer EXCEPT ![p] = w]
      /\ db' = [db EXCEPT !.given = @ + 1, !.runs[p] = run]
  BY DEF Backup!Begin
<1>2. db \in Instances /\ db.given \in Nat /\ db.switches \in Nat
  BY DEF BackupInv, Typed, Instances, BackupBounds
<1>3. run \in Runs /\ w \in Writers
  BY <1>2 DEF Runs, Writers, Places
<1>4. package[p] = Backup!NoPackage /\ package[p] \in Directories /\ package' = [package EXCEPT ![p] = package[p]]
  BY <1>1 DEF Backup!Begin, BackupInv, Typed, Backup!Packages
<1>5. restored # p
  BY <1>4 DEF BackupInv, RestoredSound, Backup!NoPackage, Backup!Packages
<1> HIDE DEF run, w
<1>6. /\ db' \in Instances /\ db'.runs = [db.runs EXCEPT ![p] = run]
      /\ db'.mode = db.mode /\ db'.switches = db.switches /\ db'.refs = db.refs
      /\ db'.given = db.given + 1
  <2> DEFINE given == db.given + 1
  <2>1. db' = [db EXCEPT !.given = given, !.runs[p] = run] /\ given \in Nat
    BY <1>1, <1>2
  <2> HIDE DEF given
  <2>2. /\ db' \in Instances /\ db'.runs = [db.runs EXCEPT ![p] = run]
        /\ db'.mode = db.mode /\ db'.switches = db.switches /\ db'.refs = db.refs
        /\ db'.given = given
    BY <1>2, <1>3, <2>1 DEF Instances
  <2> QED
    BY <2>2 DEF given
<1>7. /\ run.status = "preparing" /\ run.generation = db.given + 1 /\ run.artifacts = {}
      /\ w.at = "preparing" /\ w.expects = db.switches
  BY DEF run, w
<1>8. db'.runs[p] = run /\ writer'[p] = w /\ package'[p] = Backup!NoPackage
  BY <1>1, <1>2, <1>4, <1>6 DEF BackupInv, Typed, Instances
<1>9. WriterSound(p)'
  BY <1>2, <1>6, <1>7, <1>8 DEF WriterSound, Backup!Writing
<1>10. WriterAlone(p)'
  BY <1>1, <1>6, <1>7, <1>8 DEF WriterAlone
<1>11. PackageSound(p)'
  BY <1>8 DEF PackageSound, Backup!NoPackage
<1>12. db'.given >= db.given /\ (run.status # "none" => run.generation <= db'.given)
  BY <1>2, <1>6, <1>7
<1>13. UNCHANGED <<objects, running, restored, restores>>
  BY <1>1
<1> QED
  BY <1>1, <1>3, <1>4, <1>5, <1>6, <1>9, <1>10, <1>11, <1>12, <1>13, WriterStep

-----------------------------------------------------------------------------
(* A step that leaves the database and the directory: only where the writer  *)
(* stands.                                                                  *)
LEMMA GotoStep ==
  ASSUME BackupInv, NEW p \in Backup!Packages, Backup!Writing(p), NEW w \in Writers,
         writer' = [writer EXCEPT ![p] = w],
         UNCHANGED <<db, package, objects, running, restored, restores>>,
         WriterSound(p)', WriterAlone(p)'
  PROVE  BackupInv'
<1>1. /\ restored # p /\ PackageSound(p) /\ db \in Instances
      /\ package[p] \in Directories /\ db.runs[p] \in Runs /\ db.given \in Nat
      /\ db.runs[p].status # "none" => db.runs[p].generation <= db.given
  BY WritingElsewhere
<1>2. /\ db' \in Instances /\ db'.runs = [db.runs EXCEPT ![p] = db.runs[p]]
      /\ package' = [package EXCEPT ![p] = package[p]]
  BY <1>1 DEF Instances, BackupInv, Typed
<1>3. PackageSound(p)'
  BY <1>1 DEF PackageSound, Whole, DumpShows, Ahead
<1>4. /\ db'.mode = db.mode /\ db'.switches = db.switches /\ db'.refs = db.refs
      /\ db'.given >= db.given /\ (db.runs[p].status # "none" => db.runs[p].generation <= db'.given)
  BY <1>1
<1> QED
  BY <1>1, <1>2, <1>3, <1>4, WriterStep

(* A step of the writer of p that changes the status of its run, or registers *)
(* an artifact of it, and its directory.                                    *)
LEMMA RunStep ==
  ASSUME BackupInv, NEW p \in Backup!Packages, Backup!Writing(p),
         NEW run \in Runs, NEW w \in Writers, NEW pk \in Directories,
         db' = [db EXCEPT !.runs[p] = run], run.generation = db.runs[p].generation,
         run.status # "none" => db.runs[p].status # "none",
         writer' = [writer EXCEPT ![p] = w], package' = [package EXCEPT ![p] = pk],
         UNCHANGED <<objects, running, restored, restores>>,
         WriterSound(p)', WriterAlone(p)', PackageSound(p)'
  PROVE  BackupInv'
<1>1. /\ restored # p /\ db \in Instances /\ db.given \in Nat
      /\ db.runs[p].status # "none" => db.runs[p].generation <= db.given
  BY WritingElsewhere
<1>2. /\ db' \in Instances /\ db'.runs = [db.runs EXCEPT ![p] = run]
      /\ db'.mode = db.mode /\ db'.switches = db.switches /\ db'.refs = db.refs
      /\ db'.given = db.given
  BY <1>1, RunEdited
<1>3. db'.given >= db.given /\ (run.status # "none" => run.generation <= db'.given)
  BY <1>1, <1>2
<1> QED
  BY <1>1, <1>2, <1>3, WriterStep

LEMMA AtWriting ==
  ASSUME NEW p, NEW step, Backup!At(p, step), step # "none"
  PROVE  Backup!Writing(p) /\ writer[p].at = step
BY DEF Backup!At, Backup!Writing

(* Where a writer goes.                                                     *)
LEMMA GoneTo ==
  ASSUME BackupInv, NEW p \in Backup!Packages,
         NEW step \in Places,
         Backup!Goto(p, step)
  PROVE  LET w == [writer[p] EXCEPT !.at = step] IN
           /\ w \in Writers /\ writer' = [writer EXCEPT ![p] = w] /\ writer'[p] = w
           /\ w.at = step /\ w.expects = writer[p].expects /\ w.todo = writer[p].todo
<1>1. writer \in [Backup!Packages -> Writers]
  BY DEF BackupInv, Typed
<1>2. writer[p] \in Writers
  BY <1>1
<1> QED
  BY <1>1, <1>2 DEF Writers, Backup!Goto

LEMMA AdvanceKeeps ==
  ASSUME BackupInv, NEW p \in Backup!Packages,
         NEW from \in {"preparing", "draining", "copying"}, NEW to \in {"draining", "dumping", "verifying"},
         /\ from = "preparing" => to = "draining"
         /\ from = "draining" => to = "dumping"
         /\ from = "copying" => to = "verifying" /\ writer[p].todo = {},
         Backup!Advance(p, from, to)
  PROVE  BackupInv'
<1>1. Backup!Writing(p) /\ writer[p].at = from
  BY AtWriting DEF Backup!Advance
<1>2. /\ WriterSound(p) /\ WriterAlone(p) /\ PackageSound(p) /\ db \in Instances
      /\ package[p] \in Directories
  BY <1>1, WritingElsewhere
<1>3. UNCHANGED <<objects, running, package, restored, restores>>
  BY DEF Backup!Advance
<1>4. CASE db.runs[p].status = from
  <2> DEFINE run == [db.runs[p] EXCEPT !.status = to]
             w == [writer[p] EXCEPT !.at = to]
  <2>0. to \in {"none", "preparing", "draining", "dumping", "copying", "verifying", "ready", "failed"}
    OBVIOUS
  <2>00. to \in Places
    BY DEF Places
  <2>1. db' = [db EXCEPT !.runs[p].status = to] /\ Backup!Goto(p, to)
    BY <1>4 DEF Backup!Advance
  <2>2. /\ run \in Runs /\ run.status = to
        /\ run.generation = db.runs[p].generation /\ run.artifacts = db.runs[p].artifacts
        /\ db' = [db EXCEPT !.runs[p] = run]
    BY <1>2, <2>0, <2>1, StatusEdited
  <2>3. /\ w \in Writers /\ writer' = [writer EXCEPT ![p] = w] /\ writer'[p] = w
        /\ w.at = to /\ w.expects = writer[p].expects /\ w.todo = writer[p].todo
    BY <2>00, <2>1, GoneTo
  <2> HIDE DEF run, w
  <2>4. /\ db'.runs[p] = run /\ db'.mode = db.mode /\ db'.switches = db.switches /\ db'.refs = db.refs
    BY <1>2, <2>2, RunEdited DEF Instances
  <2>5. WriterSound(p)'
    BY <1>1, <1>2, <1>3, <2>2, <2>3, <2>4 DEF WriterSound, Backup!Writing, DumpShows, Whole
  <2>6. WriterAlone(p)'
    BY <1>1, <1>2, <1>3, <2>3, <2>4 DEF WriterAlone, Calm
  <2>7. PackageSound(p)'
    BY <1>2, <1>3 DEF PackageSound, Whole, DumpShows, Ahead
  <2>8. package' = [package EXCEPT ![p] = package[p]]
    BY <1>3 DEF BackupInv, Typed
  <2> QED
    BY <1>1, <1>2, <1>3, <1>4, <2>2, <2>3, <2>5, <2>6, <2>7, <2>8, RunStep
<1>5. CASE db.runs[p].status # from
  <2> DEFINE w == [writer[p] EXCEPT !.at = "failing"]
  <2>1. Backup!Goto(p, "failing") /\ UNCHANGED db
    BY <1>5 DEF Backup!Advance
  <2>2. /\ w \in Writers /\ writer' = [writer EXCEPT ![p] = w] /\ writer'[p] = w
        /\ w.at = "failing" /\ w.expects = writer[p].expects
    BY <2>1, GoneTo DEF Places
  <2> HIDE DEF w
  <2>3. WriterSound(p)' /\ WriterAlone(p)'
    BY <1>1, <1>2, <2>1, <2>2 DEF WriterSound, WriterAlone, Backup!Writing
  <2> QED
    BY <1>1, <1>3, <2>1, <2>2, <2>3, GotoStep
<1> QED
  BY <1>4, <1>5

LEMMA DumpKeeps ==
  ASSUME BackupInv, NEW p \in Backup!Packages, Backup!Dump(p)
  PROVE  BackupInv'
<1> DEFINE run == [db.runs[p] EXCEPT !.artifacts = @ \cup {Backup!Database}]
           w == [writer[p] EXCEPT !.at = "dumped"]
           pk == [package[p] EXCEPT !.dump = {db}]
<1>1. Backup!Writing(p) /\ writer[p].at = "dumping"
  BY AtWriting DEF Backup!Dump
<1>2. /\ WriterSound(p) /\ WriterAlone(p) /\ PackageSound(p) /\ db \in Instances
      /\ package[p] \in Directories /\ db.runs[p] \in Runs /\ Ahead(db)
  BY <1>1, WritingElsewhere DEF BackupInv
<1>3. /\ db.runs[p].status = "dumping" /\ db.runs[p].artifacts = {} /\ package[p] = Backup!NoPackage
  BY <1>1, <1>2 DEF WriterSound
<1>4. /\ Backup!Goto(p, "dumped") /\ UNCHANGED <<objects, running, restored, restores>>
      /\ package' = [package EXCEPT ![p] = pk] /\ db' = [db EXCEPT !.runs[p] = run]
  BY DEF Backup!Dump, BackupInv, Typed, Instances
<1>5. run \in Runs /\ run.status = "dumping" /\ run.generation = db.runs[p].generation
  BY <1>2, <1>3 DEF Runs
<1>6. /\ pk \in Directories /\ pk.dump = {db} /\ pk.signed = FALSE
  <2>1. package[p].signed = FALSE
    BY <1>3 DEF Backup!NoPackage
  <2> QED
    BY <1>2, <2>1 DEF Directories
<1>7. /\ w \in Writers /\ writer' = [writer EXCEPT ![p] = w] /\ writer'[p] = w
      /\ w.at = "dumped" /\ w.expects = writer[p].expects
  BY <1>4, GoneTo DEF Places
<1> HIDE DEF run, w, pk
<1>8. /\ db'.runs[p] = run /\ db'.mode = db.mode /\ db'.switches = db.switches /\ db'.refs = db.refs
      /\ package'[p] = pk
  BY <1>2, <1>4, <1>5, RunEdited DEF Instances, BackupInv, Typed
<1>9. WriterSound(p)'
  BY <1>1, <1>2, <1>3, <1>5, <1>6, <1>7, <1>8 DEF WriterSound, Backup!Writing, DumpShows
<1>10. WriterAlone(p)'
  BY <1>1, <1>2, <1>6, <1>7, <1>8 DEF WriterAlone, Calm
<1>11. PackageSound(p)'
  BY <1>2, <1>6, <1>8 DEF PackageSound, Ahead
<1> QED
  BY <1>1, <1>3, <1>4, <1>5, <1>6, <1>7, <1>9, <1>10, <1>11, RunStep

LEMMA ListKeysKeeps ==
  ASSUME BackupInv, NEW p \in Backup!Packages, Backup!ListKeys(p)
  PROVE  BackupInv'
<1> DEFINE run == [db.runs[p] EXCEPT !.status = "copying"]
           w == [writer[p] EXCEPT !.at = "copying", !.todo = objects]
<1>1. Backup!Writing(p) /\ writer[p].at = "dumped" /\ db.runs[p].status = "dumping"
  BY AtWriting DEF Backup!ListKeys
<1>2. /\ WriterSound(p) /\ WriterAlone(p) /\ PackageSound(p) /\ db \in Instances
      /\ package[p] \in Directories /\ writer[p] \in Writers
  BY <1>1, WritingElsewhere
<1>3. /\ UNCHANGED <<objects, running, package, restored, restores>>
      /\ db' = [db EXCEPT !.runs[p].status = "copying"]
      /\ writer' = [writer EXCEPT ![p] = w]
  BY DEF Backup!ListKeys, BackupInv, Typed
<1>4. /\ run \in Runs /\ run.status = "copying" /\ run.generation = db.runs[p].generation
      /\ db' = [db EXCEPT !.runs[p] = run]
  BY <1>2, <1>3, StatusEdited
<1>5. w \in Writers /\ w.at = "copying" /\ w.expects = writer[p].expects /\ w.todo = objects
  BY <1>2 DEF Writers, Places, BackupInv, Typed
<1> HIDE DEF run, w
<1>6. /\ db'.runs[p] = run /\ db'.mode = db.mode /\ db'.switches = db.switches /\ db'.refs = db.refs
      /\ writer'[p] = w /\ package' = [package EXCEPT ![p] = package[p]]
  BY <1>2, <1>3, <1>4, <1>5, RunEdited DEF Instances, BackupInv, Typed
<1>7. WriterSound(p)'
  BY <1>1, <1>2, <1>3, <1>4, <1>5, <1>6 DEF WriterSound, Backup!Writing, DumpShows
<1>8. WriterAlone(p)'
  BY <1>1, <1>2, <1>3, <1>5, <1>6 DEF WriterAlone, Calm
<1>9. PackageSound(p)'
  BY <1>2, <1>3 DEF PackageSound, Whole, DumpShows, Ahead
<1> QED
  BY <1>1, <1>2, <1>3, <1>4, <1>5, <1>6, <1>7, <1>8, <1>9, RunStep

LEMMA CopyBlobKeeps ==
  ASSUME BackupInv, NEW p \in Backup!Packages, NEW b \in Blobs, Backup!CopyBlob(p, b)
  PROVE  BackupInv'
<1>1. Backup!Writing(p) /\ writer[p].at = "copying" /\ b \in writer[p].todo
  BY AtWriting DEF Backup!CopyBlob
<1>2. /\ WriterSound(p) /\ WriterAlone(p) /\ PackageSound(p) /\ db \in Instances
      /\ package[p] \in Directories /\ writer[p] \in Writers /\ db.runs[p] \in Runs
  BY <1>1, WritingElsewhere
<1>3. UNCHANGED <<objects, running, restored, restores>>
  BY DEF Backup!CopyBlob
<1>4. CASE b \in objects
  <2> DEFINE run == [db.runs[p] EXCEPT !.artifacts = @ \cup {b}]
             w == [writer[p] EXCEPT !.todo = @ \ {b}]
             pk == [package[p] EXCEPT !.blobs = @ \cup {b}]
  <2>1. /\ writer' = [writer EXCEPT ![p] = w] /\ package' = [package EXCEPT ![p] = pk]
        /\ db' = [db EXCEPT !.runs[p] = run]
    BY <1>4 DEF Backup!CopyBlob, BackupInv, Typed, Instances
  <2>2. /\ run \in Runs /\ run.status = db.runs[p].status /\ run.generation = db.runs[p].generation
    BY <1>2 DEF Runs
  <2>3. /\ w \in Writers /\ w.at = "copying" /\ w.expects = writer[p].expects
        /\ w.todo = writer[p].todo \ {b}
    BY <1>1, <1>2 DEF Writers, Places
  <2>4. /\ pk \in Directories /\ pk.dump = package[p].dump /\ pk.signed = package[p].signed
        /\ pk.blobs = package[p].blobs \cup {b} /\ pk.generation = package[p].generation
    BY <1>2 DEF Directories
  <2> HIDE DEF run, w, pk
  <2>5. /\ db'.runs[p] = run /\ db'.mode = db.mode /\ db'.switches = db.switches /\ db'.refs = db.refs
        /\ writer'[p] = w /\ package'[p] = pk
    BY <1>2, <2>1, <2>2, RunEdited DEF Instances, BackupInv, Typed
  <2>6. WriterSound(p)'
    BY <1>1, <1>2, <2>2, <2>3, <2>4, <2>5 DEF WriterSound, Backup!Writing, DumpShows
  <2>7. WriterAlone(p)'
    BY <1>1, <1>2, <1>3, <2>3, <2>4, <2>5 DEF WriterAlone, Calm
  <2>8. PackageSound(p)'
    BY <1>2, <2>4, <2>5 DEF PackageSound, Whole, DumpShows, Ahead
  <2> QED
    BY <1>1, <1>3, <2>1, <2>2, <2>3, <2>4, <2>6, <2>7, <2>8, RunStep
<1>5. CASE b \notin objects
  <2> DEFINE w == [writer[p] EXCEPT !.at = "failing"]
  <2>1. Backup!Goto(p, "failing") /\ UNCHANGED <<db, package>>
    BY <1>5 DEF Backup!CopyBlob
  <2>2. /\ w \in Writers /\ writer' = [writer EXCEPT ![p] = w] /\ writer'[p] = w
        /\ w.at = "failing" /\ w.expects = writer[p].expects
    BY <2>1, GoneTo DEF Places
  <2> HIDE DEF w
  <2>3. WriterSound(p)' /\ WriterAlone(p)'
    BY <1>1, <1>2, <2>1, <2>2 DEF WriterSound, WriterAlone, Backup!Writing
  <2> QED
    BY <1>1, <1>3, <2>1, <2>2, <2>3, GotoStep
<1> QED
  BY <1>4, <1>5

(* The check of the maintenance, which is the only thing that vouches for the *)
(* copies: a writer that goes on has all its dump refers to.                 *)
LEMMA CheckMaintenanceKeeps ==
  ASSUME BackupInv, NEW p \in Backup!Packages, Backup!CheckMaintenance(p)
  PROVE  BackupInv'
<1> DEFINE to == IF Backup!Undisturbed(p) THEN "held" ELSE "failing"
           w == [writer[p] EXCEPT !.at = to]
<1>1. Backup!Writing(p) /\ writer[p].at = "verifying"
  BY AtWriting DEF Backup!CheckMaintenance
<1>2. WriterSound(p) /\ WriterAlone(p) /\ PackageSound(p)
  BY <1>1, WritingElsewhere
<1>3. UNCHANGED <<db, package, objects, running, restored, restores>> /\ Backup!Goto(p, to)
  BY DEF Backup!CheckMaintenance
<1>4. /\ w \in Writers /\ writer' = [writer EXCEPT ![p] = w] /\ writer'[p] = w
      /\ w.at = to /\ w.expects = writer[p].expects
  <2>1. to \in Places
    BY DEF Places
  <2> HIDE DEF to
  <2> QED
    BY <1>3, <2>1, GoneTo
<1>5. to = "held" => Whole(p)
  BY <1>1, <1>2 DEF Backup!Undisturbed, WriterAlone, Calm, Whole, BackupInv, Backup!ReferencedStored
<1>6. to \in {"held", "failing"}
  OBVIOUS
<1> HIDE DEF to, w
<1>7. WriterSound(p)' /\ WriterAlone(p)'
  BY <1>1, <1>2, <1>3, <1>4, <1>5, <1>6 DEF WriterSound, WriterAlone, Backup!Writing, DumpShows,
       Whole
<1> QED
  BY <1>1, <1>3, <1>4, <1>7, GotoStep

LEMMA SignKeeps ==
  ASSUME BackupInv, NEW p \in Backup!Packages, Backup!Sign(p)
  PROVE  BackupInv'
<1> DEFINE w == [writer[p] EXCEPT !.at = "signed"]
           pk == [package[p] EXCEPT !.signed = TRUE, !.generation = db.runs[p].generation]
<1>1. Backup!Writing(p) /\ writer[p].at = "held"
  BY AtWriting DEF Backup!Sign
<1>2. /\ WriterSound(p) /\ WriterAlone(p) /\ PackageSound(p) /\ restored # p
      /\ package[p] \in Directories /\ db \in Instances /\ db.runs[p] \in Runs /\ db.given \in Nat
      /\ db.runs[p].status # "none" => db.runs[p].generation <= db.given
  BY <1>1, WritingElsewhere
<1>3. /\ UNCHANGED <<db, objects, running, restored, restores>> /\ Backup!Goto(p, "signed")
      /\ package' = [package EXCEPT ![p] = pk]
  BY DEF Backup!Sign, BackupInv, Typed
<1>4. /\ w \in Writers /\ writer' = [writer EXCEPT ![p] = w] /\ writer'[p] = w
      /\ w.at = "signed" /\ w.expects = writer[p].expects
  BY <1>3, GoneTo DEF Places
<1>5. /\ pk \in Directories /\ pk.dump = package[p].dump /\ pk.blobs = package[p].blobs
      /\ pk.generation = db.runs[p].generation
  BY <1>2 DEF Directories, Runs
<1> HIDE DEF w, pk
<1>6. package'[p] = pk
  BY <1>3 DEF BackupInv, Typed
<1>7. WriterSound(p)' /\ WriterAlone(p)'
  BY <1>1, <1>2, <1>3, <1>4, <1>5, <1>6 DEF WriterSound, WriterAlone, Backup!Writing, DumpShows,
       Whole
<1>8. PackageSound(p)'
  BY <1>1, <1>2, <1>3, <1>5, <1>6 DEF PackageSound, WriterSound, DumpShows, Whole, Ahead
<1>9. /\ db' \in Instances /\ db'.runs = [db.runs EXCEPT ![p] = db.runs[p]]
      /\ db'.mode = db.mode /\ db'.switches = db.switches /\ db'.refs = db.refs
      /\ db'.given >= db.given /\ (db.runs[p].status # "none" => db.runs[p].generation <= db'.given)
  BY <1>2, <1>3 DEF Instances
<1> QED
  BY <1>2, <1>3, <1>4, <1>5, <1>7, <1>8, <1>9, WriterStep

(* A writer that ends, well or not, or that fails: its run has another status *)
(* and nobody relies on where it stood.                                     *)
LEMMA EndStep ==
  ASSUME BackupInv, NEW p \in Backup!Packages, Backup!Writing(p), NEW w \in Writers,
         w.at \in {"none", "failing"}, w.at = "failing" => w.expects = writer[p].expects,
         NEW to \in {"none", "preparing", "draining", "dumping", "copying", "verifying", "ready", "failed"},
         to # "none" => db.runs[p].status # "none",
         db' = [db EXCEPT !.runs[p].status = to], writer' = [writer EXCEPT ![p] = w],
         UNCHANGED <<package, objects, running, restored, restores>>
  PROVE  BackupInv'
<1> DEFINE run == [db.runs[p] EXCEPT !.status = to]
<1>1. /\ WriterSound(p) /\ PackageSound(p) /\ db \in Instances /\ package[p] \in Directories
  BY WritingElsewhere
<1>2. /\ run \in Runs /\ run.status = to /\ run.generation = db.runs[p].generation
      /\ db' = [db EXCEPT !.runs[p] = run]
  BY <1>1, StatusEdited
<1> HIDE DEF run
<1>3. /\ db'.switches = db.switches /\ writer'[p] = w /\ package' = [package EXCEPT ![p] = package[p]]
  BY <1>1, <1>2, RunEdited DEF BackupInv, Typed
<1>4. WriterSound(p)' /\ WriterAlone(p)'
  BY <1>1, <1>3 DEF WriterSound, WriterAlone, Backup!Writing
<1>5. PackageSound(p)'
  BY <1>1 DEF PackageSound, Whole, DumpShows, Ahead
<1> QED
  BY <1>1, <1>2, <1>3, <1>4, <1>5, RunStep

LEMMA EndKeeps ==
  ASSUME BackupInv,
         NEW p \in Backup!Packages, Backup!MarkReady(p) \/ Backup!Fail(p) \/ Backup!Die(p)
  PROVE  BackupInv'
<1>1. Backup!Writing(p)
  BY AtWriting DEF Backup!MarkReady, Backup!Fail, Backup!Die
<1>2. /\ db \in Instances /\ db.runs[p] \in Runs
  BY <1>1, WritingElsewhere
<1>3. Backup!NoWriter \in Writers /\ Backup!NoWriter.at = "none"
  BY DEF Backup!NoWriter, Writers, Places
<1>4. UNCHANGED <<package, objects, running, restored, restores>>
  BY DEF Backup!MarkReady, Backup!Fail, Backup!Die
<1>5. db = [db EXCEPT !.runs[p].status = db.runs[p].status]
  BY <1>2 DEF Instances, Runs
<1>6. db.runs[p].status \in {"none", "preparing", "draining", "dumping", "copying", "verifying",
                             "ready", "failed"}
  BY <1>2 DEF Runs
<1>7. CASE Backup!Die(p)
  BY <1>1, <1>3, <1>4, <1>5, <1>6, <1>7, EndStep DEF Backup!Die
<1>8. CASE Backup!Fail(p)
  <2> DEFINE to == IF db.runs[p].status \in {"none", "ready", "failed"} THEN db.runs[p].status ELSE "failed"
  <2>1. db' = [db EXCEPT !.runs[p].status = to] /\ writer' = [writer EXCEPT ![p] = Backup!NoWriter]
    BY <1>8 DEF Backup!Fail
  <2>2. /\ to \in {"none", "preparing", "draining", "dumping", "copying", "verifying", "ready", "failed"}
        /\ to # "none" => db.runs[p].status # "none"
    BY <1>6
  <2> HIDE DEF to
  <2> QED
    BY <1>1, <1>3, <1>4, <2>1, <2>2, EndStep
<1>9. CASE Backup!MarkReady(p)
  <2>1. CASE db.runs[p].status \in {"copying", "verifying"} /\ db.runs[p].artifacts # {}
    <3> DEFINE w == [writer[p] EXCEPT !.at = "none"]
    <3>1. db' = [db EXCEPT !.runs[p].status = "ready"] /\ Backup!Goto(p, "none")
      BY <1>9, <2>1 DEF Backup!MarkReady
    <3>2. w \in Writers /\ writer' = [writer EXCEPT ![p] = w] /\ w.at = "none"
      BY <3>1, GoneTo DEF Places
    <3> HIDE DEF w
    <3> QED
      BY <1>1, <1>4, <2>1, <3>1, <3>2, EndStep
  <2>2. CASE ~(db.runs[p].status \in {"copying", "verifying"} /\ db.runs[p].artifacts # {})
    <3> DEFINE w == [writer[p] EXCEPT !.at = "failing"]
    <3>1. UNCHANGED db /\ Backup!Goto(p, "failing")
      BY <1>9, <2>2 DEF Backup!MarkReady
    <3>2. /\ w \in Writers /\ writer' = [writer EXCEPT ![p] = w] /\ w.at = "failing"
          /\ w.expects = writer[p].expects
      BY <3>1, GoneTo DEF Places
    <3> HIDE DEF w
    <3> QED
      BY <1>1, <1>4, <1>5, <1>6, <3>1, <3>2, EndStep
  <2> QED
    BY <2>1, <2>2
<1> QED
  BY <1>7, <1>8, <1>9

-----------------------------------------------------------------------------
(* The servers: while one is at work no undisturbed writer has begun.        *)
LEMMA ServerKeeps ==
  ASSUME BackupInv, NEW b \in Blobs, Backup!Upload(b) \/ Backup!Dereference(b) \/ Backup!Collect(b)
  PROVE  BackupInv'
<1>1. PICK refs \in SUBSET Blobs :
        /\ db' = [db EXCEPT !.refs = refs] /\ objects' \subseteq Blobs
        /\ db.refs \subseteq objects => refs \subseteq objects'
  <2>1. db.refs \subseteq Blobs /\ db \in Instances /\ objects \subseteq Blobs
    BY DEF BackupInv, Typed, Instances
  <2>2. CASE Backup!Upload(b)
    BY <2>1, <2>2 DEF Backup!Upload
  <2>3. CASE Backup!Dereference(b)
    BY <2>1, <2>3 DEF Backup!Dereference
  <2>4. CASE Backup!Collect(b)
    <3>1. db' = [db EXCEPT !.refs = db.refs]
      BY <2>1, <2>4 DEF Backup!Collect, Instances
    <3> QED
      BY <2>1, <2>4, <3>1 DEF Backup!Collect
  <2> QED
    BY <2>2, <2>3, <2>4
<1>2. UNCHANGED <<running, writer, package, restored, restores>> /\ db.mode = "normal"
  BY DEF Backup!Upload, Backup!Dereference, Backup!Collect, Backup!backups, Backup!Busy
<1>3. Typed /\ db \in Instances
  BY DEF BackupInv, Typed
<1>4. /\ db' \in Instances /\ db'.refs = refs /\ db'.mode = db.mode /\ db'.switches = db.switches
      /\ db'.given = db.given /\ db'.runs = db.runs
  BY <1>1, <1>3 DEF Instances
<1>5. Typed'
  BY <1>1, <1>2, <1>3, <1>4 DEF Typed
<1>6. Backup!ReferencedStored'
  BY <1>1, <1>4 DEF BackupInv, Backup!ReferencedStored
<1>7. Ahead(db)' /\ RestoredSound'
  BY <1>2, <1>4 DEF BackupInv, Ahead, RestoredSound, Backup!Registrable, Backup!Writing,
       Backup!Inventory
<1>8. \A p \in Backup!Packages : WriterSound(p)' /\ WriterAlone(p)' /\ PackageSound(p)'
  <2> SUFFICES ASSUME NEW p \in Backup!Packages
               PROVE  WriterSound(p)' /\ WriterAlone(p)' /\ PackageSound(p)'
      OBVIOUS
  <2>1. WriterSound(p) /\ WriterAlone(p) /\ PackageSound(p)
    BY DEF BackupInv
  <2>2. WriterSound(p)' /\ PackageSound(p)'
    BY <1>2, <1>4, <2>1 DEF WriterSound, PackageSound, Backup!Writing, DumpShows, Whole, Ahead
  <2>3. WriterAlone(p)'
    BY <1>2, <1>4, <2>1 DEF WriterAlone, Calm
  <2> QED
    BY <2>2, <2>3
<1> QED
  BY <1>5, <1>6, <1>7, <1>8 DEF BackupInv

(* A change of the mode disturbs every writer.                              *)
LEMMA SwitchKeeps ==
  ASSUME BackupInv, BackupBounds, NEW mode \in {"normal", "offline"}, Backup!Switch(mode)
  PROVE  BackupInv'
<1>1. Typed /\ db \in Instances /\ db.switches \in 0..MaxSwitches /\ db.switches < MaxSwitches
  BY DEF BackupInv, Typed, Instances, Backup!Switch
<1>2. /\ UNCHANGED <<objects, running, writer, package, restored, restores>>
      /\ db' = [db EXCEPT !.mode = mode, !.switches = @ + 1]
  BY DEF Backup!Switch, Backup!backups
<1>3. /\ db' \in Instances /\ db'.refs = db.refs /\ db'.switches = db.switches + 1
      /\ db'.given = db.given /\ db'.runs = db.runs
  <2> DEFINE next == db.switches + 1
  <2>1. next \in 0..MaxSwitches
    BY <1>1 DEF BackupBounds
  <2>2. db' = [db EXCEPT !.mode = mode, !.switches = next]
    BY <1>2
  <2> HIDE DEF next
  <2>3. /\ db' \in Instances /\ db'.refs = db.refs /\ db'.switches = next
        /\ db'.given = db.given /\ db'.runs = db.runs
    BY <1>1, <2>1, <2>2 DEF Instances
  <2> QED
    BY <2>3 DEF next
<1>4. Typed'
  BY <1>1, <1>2, <1>3 DEF Typed
<1>5. Backup!ReferencedStored' /\ Ahead(db)' /\ RestoredSound'
  BY <1>2, <1>3 DEF BackupInv, Backup!ReferencedStored, Ahead, RestoredSound, Backup!Registrable,
       Backup!Writing, Backup!Inventory
<1>6. \A p \in Backup!Packages : WriterSound(p)' /\ WriterAlone(p)' /\ PackageSound(p)'
  <2> SUFFICES ASSUME NEW p \in Backup!Packages
               PROVE  WriterSound(p)' /\ WriterAlone(p)' /\ PackageSound(p)'
      OBVIOUS
  <2>1. WriterSound(p) /\ PackageSound(p) /\ writer[p].expects \in Nat
    BY <1>1 DEF BackupInv, Typed, Writers
  <2>2. PackageSound(p)'
    BY <1>2, <1>3, <2>1 DEF PackageSound, DumpShows, Whole, Ahead
  <2>3. WriterSound(p)'
    BY <1>1, <1>2, <1>3, <2>1 DEF WriterSound, Backup!Writing, DumpShows, Whole, BackupBounds
  <2>4. Calm(p)' => ~Backup!Writing(p)
    BY <1>1, <1>2, <1>3, <2>1 DEF Calm, WriterSound, BackupBounds
  <2>5. WriterAlone(p)'
    BY <1>2, <2>4 DEF WriterAlone, Backup!Writing
  <2> QED
    BY <2>2, <2>3, <2>5
<1> QED
  BY <1>4, <1>5, <1>6 DEF BackupInv

LEMMA RunKeeps ==
  ASSUME BackupInv, Backup!Start \/ Backup!Stop
  PROVE  BackupInv'
<1>1. UNCHANGED <<db, objects, writer, package, restored, restores>> /\ running' \in BOOLEAN
  BY DEF Backup!Start, Backup!Stop, Backup!backups
<1>2. Typed'
  BY <1>1 DEF BackupInv, Typed
<1>3. Backup!ReferencedStored' /\ Ahead(db)' /\ RestoredSound'
  BY <1>1 DEF BackupInv, Backup!ReferencedStored, Ahead, RestoredSound, Backup!Registrable,
       Backup!Writing, Backup!Inventory
<1>4. \A p \in Backup!Packages : WriterSound(p)' /\ WriterAlone(p)' /\ PackageSound(p)'
  BY <1>1 DEF BackupInv, WriterSound, WriterAlone, PackageSound, Backup!Writing, Calm, DumpShows,
       Whole, Ahead
<1> QED
  BY <1>2, <1>3, <1>4 DEF BackupInv

-----------------------------------------------------------------------------
(* A package is imported: its dump refers to what it holds, and shows the run *)
(* it is of unfinished.                                                     *)
LEMMA ImportPackageKeeps ==
  ASSUME BackupInv, BackupBounds, NEW p \in Backup!Packages, Backup!ImportPackage(p)
  PROVE  BackupInv'
<1>1. /\ package[p].signed /\ \A q \in Backup!Packages : ~Backup!Writing(q)
      /\ restores < MaxImports /\ restores' = restores + 1
      /\ db' \in package[p].dump /\ objects' = package[p].blobs /\ restored' = p
      /\ UNCHANGED <<running, writer, package>>
  BY DEF Backup!ImportPackage
<1>2. Typed /\ PackageSound(p) /\ package[p] \in Directories
  BY DEF BackupInv, Typed
<1>3. db' \in Instances /\ objects' \subseteq Blobs
  BY <1>1, <1>2 DEF Directories
<1>4. restored' \in 0..MaxPackages /\ restores' \in 0..MaxImports /\ p # 0
  BY <1>1, <1>2 DEF Typed, Backup!Packages, BackupBounds
<1>5. Typed'
  BY <1>1, <1>2, <1>3, <1>4 DEF Typed
<1>6. Backup!ReferencedStored' /\ Ahead(db)'
  BY <1>1, <1>2 DEF PackageSound, Whole, Backup!ReferencedStored
<1>7. RestoredSound'
  <2>1. /\ db'.runs[p].status = "dumping" /\ db'.runs[p].artifacts = {}
        /\ db'.runs[p].generation = package[p].generation
    BY <1>1, <1>2 DEF PackageSound, DumpShows
  <2> QED
    BY <1>1, <2>1 DEF RestoredSound, Backup!Registrable, Backup!Writing
<1>8. \A q \in Backup!Packages : WriterSound(q)' /\ WriterAlone(q)' /\ PackageSound(q)'
  BY <1>1 DEF BackupInv, WriterSound, WriterAlone, PackageSound, Backup!Writing, DumpShows, Whole,
       Ahead
<1> QED
  BY <1>5, <1>6, <1>7, <1>8 DEF BackupInv

LEMMA RegisterKeeps ==
  ASSUME BackupInv, BackupBounds, NEW p \in Backup!Packages, Backup!Register(p)
  PROVE  BackupInv'
<1> DEFINE run == [status |-> "ready", generation |-> package[p].generation, artifacts |-> Backup!Inventory(p)]
           given == IF db.runs[p].status = "none" THEN Backup!Given(p) ELSE db.given
<1>1. /\ package[p].signed /\ ~Backup!Writing(p) /\ Backup!Registrable(p)
      /\ UNCHANGED <<objects, running, writer, package, restored, restores>>
      /\ db' = [db EXCEPT !.given = given, !.runs[p] = run]
  BY DEF Backup!Register
<1>2. Typed /\ db \in Instances /\ package[p] \in Directories /\ db.given \in Nat /\ Ahead(db)
  BY DEF BackupInv, Typed, Instances
<1>3. package[p].generation \in Nat /\ run \in Runs
  BY <1>2 DEF Directories, Runs, Backup!Inventory
<1>4. given \in Nat /\ given >= db.given /\ package[p].generation <= given
  BY <1>1, <1>2, <1>3 DEF Backup!Given, Backup!Registrable, Ahead
<1>5. /\ run.status = "ready" /\ run.generation = package[p].generation /\ run.artifacts = Backup!Inventory(p)
  OBVIOUS
<1> HIDE DEF run, given
<1>6. /\ db' \in Instances /\ db'.runs = [db.runs EXCEPT ![p] = run]
      /\ db'.mode = db.mode /\ db'.switches = db.switches /\ db'.refs = db.refs /\ db'.given = given
  BY <1>1, <1>2, <1>3, <1>4 DEF Instances
<1>7. db'.runs[p] = run /\ \A q \in Backup!Packages \ {p} : db'.runs[q] = db.runs[q]
  BY <1>2, <1>6 DEF Instances
<1>8. Typed'
  BY <1>1, <1>2, <1>6 DEF Typed
<1>9. Backup!ReferencedStored'
  BY <1>1, <1>6 DEF BackupInv, Backup!ReferencedStored
<1>10. Ahead(db)'
  <2> SUFFICES ASSUME NEW q \in Backup!Packages, db'.runs[q].status # "none"
               PROVE  db'.runs[q].generation <= db'.given
      BY DEF Ahead
  <2>1. CASE q = p
    BY <1>4, <1>5, <1>6, <1>7, <2>1
  <2>2. CASE q # p
    <3>1. db.runs[q] \in Runs /\ db.runs[q].generation <= db.given
      BY <1>2, <1>7, <2>2 DEF Instances, Ahead
    <3>2. db.runs[q].generation \in Nat
      BY <3>1 DEF Runs
    <3> QED
      BY <1>2, <1>4, <1>6, <1>7, <2>2, <3>1, <3>2
  <2> QED
    BY <2>1, <2>2
<1>11. RestoredSound'
  <2> SUFFICES ASSUME restored # 0
               PROVE  /\ package'[restored].signed /\ ~Backup!Writing(restored)'
                      /\ db'.runs[restored].status # "none"
                      /\ Backup!Registrable(restored)'
      BY <1>1 DEF RestoredSound
  <2>1. restored \in Backup!Packages
    BY <1>2 DEF Typed, Backup!Packages
  <2>2. /\ package[restored].signed /\ ~Backup!Writing(restored) /\ db.runs[restored].status # "none"
        /\ Backup!Registrable(restored)
    BY DEF BackupInv, RestoredSound
  <2>3. CASE restored = p
    BY <1>1, <1>5, <1>7, <2>2, <2>3 DEF Backup!Registrable, Backup!Writing, Backup!Inventory
  <2>4. CASE restored # p
    BY <1>1, <1>7, <2>1, <2>2, <2>4 DEF Backup!Registrable, Backup!Writing, Backup!Inventory
  <2> QED
    BY <2>3, <2>4
<1>12. \A q \in Backup!Packages : WriterSound(q)' /\ WriterAlone(q)' /\ PackageSound(q)'
  <2> SUFFICES ASSUME NEW q \in Backup!Packages
               PROVE  WriterSound(q)' /\ WriterAlone(q)' /\ PackageSound(q)'
      OBVIOUS
  <2>1. WriterSound(q) /\ WriterAlone(q) /\ PackageSound(q)
    BY DEF BackupInv
  <2>2. PackageSound(q)' /\ WriterAlone(q)'
    BY <1>1, <1>6, <2>1 DEF PackageSound, WriterAlone, Calm, DumpShows, Whole, Ahead
  <2>3. WriterSound(q)'
    <3>1. CASE q = p
      BY <1>1, <3>1 DEF WriterSound, Backup!Writing
    <3>2. CASE q # p
      BY <1>1, <1>6, <1>7, <2>1, <3>2 DEF WriterSound, Backup!Writing, DumpShows, Whole
    <3> QED
      BY <3>1, <3>2
  <2> QED
    BY <2>2, <2>3
<1> QED
  BY <1>8, <1>9, <1>10, <1>11, <1>12 DEF BackupInv

-----------------------------------------------------------------------------
LEMMA BackupStutter ==
  ASSUME BackupInv, UNCHANGED Backup!backupVars
  PROVE  BackupInv'
<1>1. UNCHANGED <<db, objects, running, writer, package, restored, restores>>
  BY DEF Backup!backupVars
<1> QED
  BY <1>1 DEF BackupInv, Typed, Backup!ReferencedStored, Ahead, RestoredSound, Backup!Registrable,
       Backup!Inventory, Backup!Writing,
       WriterSound, WriterAlone, PackageSound, Calm, DumpShows, Whole

LEMMA BackupStep ==
  ASSUME BackupInv, BackupBounds, [Backup!Next]_(Backup!backupVars)
  PROVE  BackupInv'
<1>1. CASE \E b \in Blobs : Backup!Upload(b) \/ Backup!Dereference(b) \/ Backup!Collect(b)
  BY <1>1, ServerKeeps
<1>2. CASE Backup!Switch("offline") \/ (db.mode # "normal" /\ Backup!Switch("normal"))
  BY <1>2, SwitchKeeps
<1>3. CASE Backup!Start \/ Backup!Stop
  BY <1>3, RunKeeps
<1>4. ASSUME NEW p \in Backup!Packages,
             \/ Backup!Begin(p) \/ Backup!Advance(p, "preparing", "draining") \/ Backup!Advance(p, "draining", "dumping")
             \/ Backup!Dump(p) \/ Backup!ListKeys(p) \/ Backup!EndCopy(p) \/ Backup!CheckMaintenance(p) \/ Backup!Sign(p) \/ Backup!MarkReady(p)
             \/ Backup!Fail(p) \/ Backup!Die(p) \/ Backup!ImportPackage(p) \/ Backup!Register(p)
             \/ \E b \in Blobs : Backup!CopyBlob(p, b)
      PROVE  BackupInv'
  <2>1. CASE Backup!Begin(p)
    BY <2>1, BeginBackupKeeps
  <2>2. CASE Backup!Advance(p, "preparing", "draining") \/ Backup!Advance(p, "draining", "dumping") \/ Backup!EndCopy(p)
    BY <2>2, AdvanceKeeps DEF Backup!EndCopy
  <2>3. CASE Backup!Dump(p) \/ Backup!ListKeys(p) \/ \E b \in Blobs : Backup!CopyBlob(p, b)
    BY <2>3, DumpKeeps, ListKeysKeeps, CopyBlobKeeps
  <2>4. CASE Backup!CheckMaintenance(p) \/ Backup!Sign(p)
    BY <2>4, CheckMaintenanceKeeps, SignKeeps
  <2>5. CASE Backup!MarkReady(p) \/ Backup!Fail(p) \/ Backup!Die(p)
    BY <2>5, EndKeeps
  <2>6. CASE Backup!ImportPackage(p) \/ Backup!Register(p)
    BY <2>6, ImportPackageKeeps, RegisterKeeps
  <2> QED
    BY <1>4, <2>1, <2>2, <2>3, <2>4, <2>5, <2>6
<1>5. CASE UNCHANGED Backup!backupVars
  BY <1>5, BackupStutter
<1> QED
  BY <1>1, <1>2, <1>3, <1>4, <1>5 DEF Backup!Next

(* The type; that every blob an instance refers to can be read, after an      *)
(* import too; that an imported package can be registered; and that no       *)
(* generation is given twice.                                               *)
THEOREM BackupsCorrect ==
  ASSUME BackupBounds
  PROVE  Backup!Spec => [](Backup!TypeOK /\ BackupsComplete)
<1>1. Backup!Init => BackupInv
  BY BackupInit
<1>2. BackupInv /\ [Backup!Next]_(Backup!backupVars) => BackupInv'
  BY BackupStep
<1>3. BackupInv => Backup!TypeOK
  <2> SUFFICES ASSUME BackupInv PROVE Backup!TypeOK
      OBVIOUS
  <2>1. Typed /\ db \in Instances
    BY DEF BackupInv, Typed
  <2>2. \A p \in Backup!Packages : db.runs[p] \in Runs /\ writer[p] \in Writers /\ package[p] \in Directories
    BY <2>1 DEF Typed, Instances
  <2> QED
    BY <2>1, <2>2 DEF Backup!TypeOK, Typed, Instances, Runs, Writers, Places, Directories
<1>4. BackupInv => Backup!ReferencedStored /\ Backup!ImportedRegistrable /\ Backup!GenerationsAhead
  BY DEF BackupInv, RestoredSound, Backup!ImportedRegistrable, Backup!GenerationsAhead, Ahead
<1> QED
  BY <1>1, <1>2, <1>3, <1>4, PTL DEF Backup!Spec, BackupsComplete
=============================================================================
