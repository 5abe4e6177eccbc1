-------------------------- MODULE AccountDeletion --------------------------
(***************************************************************************)
(* Deletion of one hosted account: the case and its fence                  *)
(* (compliance/deletion-service.ts), legal holds                           *)
(* (compliance/legal-hold-service.ts), the stages maintenance takes a case *)
(* through (maintenance/service.ts), the receipts kept apart from the      *)
(* database (compliance/deletion-ledger-store.ts), and their replay onto a *)
(* database restored from a backup (deletion-ledger-replay-service.ts).    *)
(*                                                                         *)
(* Everything about an account takes its advisory lock, in a transaction   *)
(* (one action here); only the removal of its library holds the lock       *)
(* across calls to the storage.  What a stage reads before the lock it     *)
(* reads again under it, so the first reading is left out.                 *)
(*                                                                         *)
(* Assumed: the replay runs before the restored database is served or      *)
(* maintained, as its comment demands; nothing in src calls it yet.  The   *)
(* check of a receipt's id (isStoredReceipt) asks for four groups where a  *)
(* UUID has five, so in the code as it stands IdsAccepted is FALSE.        *)
(***************************************************************************)
EXTENDS Integers

CONSTANTS
  MaxCases,     \* bound: requests to delete the account
  MaxMishaps,   \* bound: crashes of maintenance and boots of the server
  MaxRestores,  \* bound: restores of the backup
  IdsAccepted   \* the check of a receipt's case id passes on the ids of cases

VARIABLES
  records,   \* the database: cases, account, library, hold, fence, ledger, outbox
  age,       \* how long ago each case was requested, on the clock
  bytes,     \* the library's blobs are in the storage
  receipts,  \* the files of the receipt store, by case
  worker,    \* the maintenance run: the stage it is in the middle of
  copy,      \* a backup of the database and the blobs
  served,    \* the database is open to requests and maintenance
  spent      \* finalizations, mishaps, restores; a removal halted without a case

deletionVars == <<records, age, bytes, receipts, worker, copy, served, spent>>

Cases  == 1..MaxCases
Idle   == [at |-> "idle", case |-> 0]
Absent == 0    \* of a receipt: no file
Torn   == -1   \* of a receipt: a file created and not written
NoRow  == <<0, 0>>               \* of the ledger
Stamps == 1..(MaxRestores + 1)   \* what a finalization writes: its time, its hash

InProgress == {"cooling_off", "held", "scheduled", "purging"}

TypeOK ==
  /\ records.cases \in [Cases -> [status : InProgress \cup {"none", "canceled", "completed"},
                                  linked : BOOLEAN]]
  /\ records.account \in {"active", "disabled", "gone"}
  /\ records.library \in {"live", "deleted", "old", "gone"}
  /\ records.hold \in BOOLEAN /\ records.fenced \in BOOLEAN
  /\ records.ledger \in {NoRow} \cup (Cases \X Stamps)
  /\ records.outbox \in [Cases -> {"none", "pending", "delivered"}]
  /\ age \in [Cases -> {"none", "cancelable", "kept", "due"}]
  /\ receipts \in [Cases -> {Absent, Torn} \cup Stamps]
  /\ worker \in [at : {"idle", "locked", "cleared", "opened", "written"}, case : {0} \cup Cases]
  /\ bytes \in BOOLEAN /\ served \in BOOLEAN

Init ==
  /\ records = [cases |-> [c \in Cases |-> [status |-> "none", linked |-> FALSE]],
                account |-> "active", library |-> "live", hold |-> FALSE, fenced |-> FALSE,
                ledger |-> NoRow, outbox |-> [c \in Cases |-> "none"]]
  /\ age = [c \in Cases |-> "none"] /\ bytes = TRUE
  /\ receipts = [c \in Cases |-> Absent] /\ worker = Idle
  /\ copy = [db |-> records, bytes |-> bytes] /\ served = TRUE
  /\ spent = [stamps |-> 0, mishaps |-> 0, restores |-> 0, halted |-> FALSE]

Status(c)  == records.cases[c].status
Linked(c)  == records.cases[c].linked
Pending    == {c \in Cases : Linked(c) /\ Status(c) \in InProgress}
Due(c)     == age[c] = "due"
Has(c, s)  == Linked(c) /\ Status(c) = s

(* The account's lock is free.                                              *)
Unlocked == served /\ worker.at \notin {"locked", "cleared"}

SetCase(c, s) == [records.cases EXCEPT ![c].status = s]
(* Deletion and recovery of a library that is still there.                  *)
Became(s) == IF records.library = "gone" THEN "gone" ELSE s

outside == <<bytes, receipts, copy, served>>

-----------------------------------------------------------------------------
(* request: the account and its library are closed at once, for as long as
   the case lasts.                                                          *)
Request(c) ==
  /\ Unlocked /\ age[c] = "none" /\ \A d \in 1..(c - 1) : age[d] # "none"
  /\ records.account = "active" /\ Pending = {}
  /\ records' = [records EXCEPT
       !.cases[c] = [status |-> IF records.hold THEN "held" ELSE "cooling_off", linked |-> TRUE],
       !.fenced = TRUE, !.account = "disabled", !.library = Became("deleted")]
  /\ age' = [age EXCEPT ![c] = "cancelable"]
  /\ UNCHANGED <<outside, worker, spent>>

(* Fault: the case's term for cancellation is not looked at.                *)
CancelableLate(c) == Linked(c) /\ Status(c) \in {"cooling_off", "held"}
Cancelable(c) ==
  Linked(c) /\ Status(c) \in {"cooling_off", "held"} /\ age[c] = "cancelable"

(* cancel: every workspace of the account is brought back, one its owner had
   removed before the request included.                                     *)
Cancel(c) ==
  /\ Unlocked /\ Cancelable(c)
  /\ records' = [records EXCEPT !.cases = SetCase(c, "canceled"), !.fenced = FALSE,
                                !.account = "active", !.library = Became("live")]
  /\ UNCHANGED <<outside, age, worker, spent>>

(* cancel_until passes, then purge_after.                                   *)
Later(c) ==
  /\ age[c] \in {"cancelable", "kept"}
  /\ age' = [age EXCEPT ![c] = IF @ = "cancelable" THEN "kept" ELSE "due"]
  /\ UNCHANGED <<outside, records, worker, spent>>

(* place, which a case that is purging already does not notice; release.    *)
Held == [c \in Cases |-> IF Linked(c) /\ Status(c) \in {"cooling_off", "scheduled"}
                         THEN [records.cases[c] EXCEPT !.status = "held"] ELSE records.cases[c]]
(* Fault: the hold is placed without the account's lock.                    *)
PlaceAtOnce ==
  /\ served /\ records.account # "gone" /\ ~records.hold
  /\ records' = [records EXCEPT !.hold = TRUE, !.cases = Held]
  /\ UNCHANGED <<outside, age, worker, spent>>
Place ==
  /\ Unlocked /\ records.account # "gone" /\ ~records.hold
  /\ records' = [records EXCEPT !.hold = TRUE, !.cases = Held]
  /\ UNCHANGED <<outside, age, worker, spent>>

Released == [c \in Cases |-> IF ~Has(c, "held") THEN records.cases[c] ELSE
               [records.cases[c] EXCEPT !.status = IF Due(c) THEN "scheduled" ELSE "cooling_off"]]
Release ==
  /\ Unlocked /\ records.hold
  /\ records' = [records EXCEPT !.hold = FALSE, !.cases = Released]
  /\ UNCHANGED <<outside, age, worker, spent>>

-----------------------------------------------------------------------------
(* Requests that authenticated before the account was disabled.             *)

(* assertAccountWriteAllowedInTransaction                                   *)
(* Fault: the fence is not asked.                                           *)
WriteUnfenced == Unlocked /\ records.account # "gone"
WriteAllowed  == Unlocked /\ records.account # "gone" /\ ~records.fenced

CreateLibrary ==
  /\ WriteAllowed /\ records.library = "gone"
  /\ records' = [records EXCEPT !.library = "live"] /\ bytes' = TRUE
  /\ UNCHANGED <<receipts, copy, served, age, worker, spent>>

DeleteLibrary ==
  /\ WriteAllowed /\ records.library = "live"
  /\ records' = [records EXCEPT !.library = "deleted"]
  /\ UNCHANGED <<outside, age, worker, spent>>

(* Its tombstone passes the retention of tombstones.                        *)
TombstoneAges ==
  /\ served /\ records.library = "deleted" /\ records' = [records EXCEPT !.library = "old"]
  /\ UNCHANGED <<outside, age, worker, spent>>

-----------------------------------------------------------------------------
(* Maintenance, one run at a time, under its own lock.                      *)

(* #advanceDeletionCases                                                    *)
Advance(c) ==
  LET next == IF records.hold THEN "held" ELSE "scheduled" IN
  /\ Unlocked /\ worker = Idle
  /\ Linked(c) /\ Status(c) \in {"cooling_off", "held"} /\ Due(c) /\ Status(c) # next
  /\ records' = [records EXCEPT !.cases = SetCase(c, next)]
  /\ UNCHANGED <<outside, age, worker, spent>>

(* #cleanupDeletedWorkspaces: what is read again under the lock.            *)
Removable ==
  /\ records.library = "old" \/ (records.library = "deleted" /\ \E c \in Cases : Has(c, "scheduled") /\ Due(c))
  /\ ~records.hold
  /\ \A c \in Pending : Has(c, "scheduled") /\ Due(c)

LockLibrary ==
  /\ Unlocked /\ worker = Idle /\ Removable
  /\ worker' = [at |-> "locked", case |-> 0]
  /\ UNCHANGED <<outside, records, age, spent>>

(* A removal fails, or its process dies, before the library's row goes.     *)
Halted == [spent EXCEPT !.mishaps = @ + 1, !.halted = @ \/ (worker.at \in {"locked", "cleared"} /\ Pending = {})]

(* The stored bytes go first; a failure leaves some, and the row.           *)
ClearLibrary ==
  /\ worker.at = "locked" /\ bytes' = FALSE
  /\ \/ worker' = [worker EXCEPT !.at = "cleared"] /\ UNCHANGED spent
     \/ spent.mishaps < MaxMishaps /\ spent' = Halted /\ worker' = Idle
  /\ UNCHANGED <<records, age, receipts, copy, served>>

RemoveLibrary ==
  /\ worker.at = "cleared" /\ worker' = Idle
  /\ records' = [records EXCEPT !.library = "gone"]
  /\ UNCHANGED <<outside, age, spent>>

(* #startScheduledDeletionPurges, #finalizePurgingDeletionAccounts          *)
Cleaned(c, s) ==
  /\ Unlocked /\ worker = Idle
  /\ records.account = "disabled" /\ Has(c, s) /\ records.library = "gone" /\ ~records.hold

StartPurge(c) ==
  /\ Cleaned(c, "scheduled")
  /\ records' = [records EXCEPT !.cases = SetCase(c, "purging")]
  /\ UNCHANGED <<outside, age, worker, spent>>

(* The account's row goes; the case stays open until its receipt exists, if
   it does not already.                                                     *)
Finalize(c) ==
  LET known == records.outbox[c] = "delivered"
      stamp == spent.stamps + 1
  IN /\ Cleaned(c, "purging") /\ stamp \in Stamps
     /\ spent' = [spent EXCEPT !.stamps = stamp]
     /\ records' = [records EXCEPT
          !.account = "gone",
          !.cases[c] = [status |-> IF known THEN "completed" ELSE "purging", linked |-> FALSE],
          !.ledger = IF @ = NoRow THEN <<c, stamp>> ELSE @,
          !.outbox[c] = IF @ = "none" THEN "pending" ELSE @]
     /\ UNCHANGED <<outside, age, worker>>

-----------------------------------------------------------------------------
(* #deliverDeletionLedger and FilesystemDeletionLedgerStore.deliver: a file is
   created exclusively, written, and only then the case completed.          *)
Owed(c) == records.outbox[c] = "pending" /\ records.ledger[1] = c
Stamp   == records.ledger[2]

CreateReceipt(c) ==
  /\ served /\ worker = Idle /\ Owed(c) /\ receipts[c] = Absent
  /\ receipts' = [receipts EXCEPT ![c] = Torn]
  /\ worker' = [at |-> "opened", case |-> c]
  /\ UNCHANGED <<records, age, bytes, copy, served, spent>>

WriteReceipt ==
  /\ worker.at = "opened"
  /\ receipts' = [receipts EXCEPT ![worker.case] = Stamp]
  /\ worker' = [worker EXCEPT !.at = "written"]
  /\ UNCHANGED <<records, age, bytes, copy, served, spent>>

(* Faults: an earlier attempt's file is a failure; it is taken unread.      *)
NotOurs(c)  == FALSE
AnyFile(c)  == receipts[c] # Absent
SameFile(c) == receipts[c] = Stamp

FindReceipt(c) ==
  /\ served /\ worker = Idle /\ Owed(c) /\ SameFile(c)
  /\ worker' = [at |-> "written", case |-> c]
  /\ UNCHANGED <<outside, records, age, spent>>

Settle ==
  LET c == worker.case IN
  /\ worker.at = "written" /\ worker' = Idle
  /\ IF records.outbox[c] = "pending" /\ Status(c) = "purging"
     THEN records' = [records EXCEPT !.outbox[c] = "delivered", !.cases = SetCase(c, "completed")]
     ELSE UNCHANGED records
  /\ UNCHANGED <<outside, age, spent>>

-----------------------------------------------------------------------------
(* A crash of the maintenance process.                                      *)
Crash ==
  /\ worker # Idle /\ spent.mishaps < MaxMishaps
  /\ worker' = Idle /\ spent' = Halted
  /\ UNCHANGED <<outside, records, age>>

(* The operator stops the server, copies the database and the blobs; and
   brings them back.                                                        *)
Backup ==
  /\ served /\ worker = Idle /\ spent.restores < MaxRestores
  /\ copy' = [db |-> records, bytes |-> bytes]
  /\ UNCHANGED <<records, age, bytes, receipts, worker, served, spent>>

Restore ==
  /\ worker = Idle /\ spent.restores < MaxRestores
  /\ records' = copy.db /\ bytes' = copy.bytes
  /\ spent' = [spent EXCEPT !.restores = @ + 1] /\ served' = FALSE
  /\ UNCHANGED <<age, receipts, worker, copy>>

(* DeletionLedgerReplayService.reconcile.  It stops, and the server with it,
   at a receipt that is torn or whose id its check does not accept, that
   differs from the local ledger, or whose case meets another one in progress
   for the account.                                                         *)
Readable == \A c \in Cases : receipts[c] = Absent \/ (IdsAccepted /\ receipts[c] # Torn)
Recorded == {c \in Cases : receipts[c] \in Stamps}
Agrees(c) == records.ledger \in {NoRow, <<c, receipts[c]>>}
(* Fault: the ledger's row is not brought back.                             *)
EntryAsIs(c) == records.ledger
Entry(c)     == <<c, receipts[c]>>

(* Fault: only the ledger is replayed when the account is there.            *)
ReplayedLedger(c) ==
  [records EXCEPT !.ledger = Entry(c), !.outbox[c] = "delivered"]
Replayed(c) ==
  IF records.account = "gone"
  THEN [records EXCEPT !.ledger = Entry(c), !.outbox[c] = "delivered",
          !.cases[c] = IF @.status = "none" THEN [status |-> "completed", linked |-> FALSE] ELSE @]
  ELSE [records EXCEPT !.ledger = Entry(c), !.outbox[c] = "delivered",
          !.cases[c] = [status |-> "scheduled", linked |-> TRUE],
          !.fenced = TRUE, !.account = "disabled", !.library = Became("deleted")]

Accepted(c) == Agrees(c) /\ (records.account # "gone" => Pending \subseteq {c})

Replay ==
  /\ Readable
  /\ \/ Recorded = {} /\ UNCHANGED records
     \/ \E c \in Recorded : Accepted(c) /\ records' = Replayed(c)
  /\ served' = TRUE
  /\ UNCHANGED <<age, bytes, receipts, worker, copy>>

Refused ==
  /\ ~Readable \/ \E c \in Recorded : ~Accepted(c)
  /\ served' = FALSE
  /\ UNCHANGED <<records, age, bytes, receipts, worker, copy>>

(* After a restore, and at any boot; maintenance is another process, and ends
   what it has begun where the server does not come up.                     *)
ReplayRestored == ~served /\ Replay /\ UNCHANGED spent
Boot ==
  /\ Unlocked /\ spent.mishaps < MaxMishaps /\ (Replay \/ Refused)
  /\ spent' = [spent EXCEPT !.mishaps = @ + 1]

-----------------------------------------------------------------------------
Stages(c) == Advance(c) \/ StartPurge(c) \/ Finalize(c) \/ CreateReceipt(c) \/ FindReceipt(c)
InHand    == ClearLibrary \/ RemoveLibrary \/ WriteReceipt \/ Settle

Next ==
  \/ \E c \in Cases : Request(c) \/ Cancel(c) \/ Later(c) \/ Stages(c)
  \/ Place \/ Release \/ CreateLibrary \/ DeleteLibrary \/ TombstoneAges
  \/ LockLibrary \/ InHand \/ Crash
  \/ Backup \/ Restore \/ ReplayRestored \/ Boot

Spec == Init /\ [][Next]_deletionVars

-----------------------------------------------------------------------------
(* While a legal hold is active nothing of the account is destroyed, neither its
   stored blobs nor its rows, at whatever stage the hold is placed.         *)
HoldsPreserve ==
  [][spent'.restores = spent.restores /\ records.hold =>
       /\ bytes => bytes'
       /\ records.library # "gone" => records'.library # "gone"
       /\ records.account # "gone" => records'.account # "gone"]_deletionVars

(* A library that its owner can open has its blobs: whoever cancels a deletion
   gets everything back.  Except that a library whose removal was halted before
   the account's deletion was requested comes back with what was left.      *)
OpenLibraryWhole == records.library = "live" => bytes \/ spent.halted

(* Nothing of the account is alive while its deletion is in progress: a request
   that authenticated before it does not write afterwards, and a hold or its
   release reopens nothing.                                                 *)
ClosedWhileDeleting == Pending # {} => records.library # "live" /\ records.account # "active"

(* A case is completed only when its receipt is outside the database, whole,
   whichever attempt wrote it.                                              *)
CompletedHasReceipt == \A c \in Cases : Status(c) = "completed" => receipts[c] \in Stamps

(* An account with a receipt does not come back: not from a backup taken before
   its deletion, once the database is served.  Where its id is not accepted that
   is because no server starts on a receipt, and none ever does again.       *)
DeletedStaysDeleted == served => (Recorded # {} => records.account # "active")

(* The receipts and the ledger of the database served tell of the same deletion,
   so that the next replay does not refuse to start the server.             *)
LedgerMatchesReceipts == served => \A c \in Recorded : Agrees(c)

(* Exceptions to the next: a receipt torn by a crash refuses every later attempt
   and every replay; a case replayed between its receipt and its completion is
   delivered and never completed.                                           *)
Unfinishable(c) == receipts[c] = Torn \/ (Status(c) = "purging" /\ records.outbox[c] = "delivered" /\ ~Linked(c))
(* A case that is due completes, across crashes at any step, unless it is held,
   or the server is down: after a restore, or since a boot was refused, which
   without accepted ids the first receipt does to every boot.               *)
Underway(c) == Status(c) \in InProgress /\ Due(c) /\ served
Concluded(c) == Status(c) = "completed" \/ records.hold \/ ~served \/ Unfinishable(c)
=============================================================================
