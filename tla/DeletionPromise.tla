-------------------------- MODULE DeletionPromise --------------------------
(***************************************************************************)
(* The deletion of an account, with what it promises: MCBlobs checks it on *)
(* an instance, and AccountDeletionProofs proves it.                       *)
(***************************************************************************)
CONSTANTS MaxCases, MaxMishaps, MaxRestores, IdsAccepted
VARIABLES records, age, bytes, receipts, worker, copy, served, spent

Deletion == INSTANCE AccountDeletion

(* Deleting an account: a library that is open has everything, nothing is
   written while the account is being deleted, a completed case has a receipt
   outside the database, the ledger and the receipts agree, and no database is
   served in which a deleted account is back: a server replays the receipts
   before it serves, or does not start where their ids are not accepted.    *)
DeletionSound ==
  /\ Deletion!OpenLibraryWhole /\ Deletion!ClosedWhileDeleting
  /\ Deletion!CompletedHasReceipt
  /\ Deletion!DeletedStaysDeleted /\ Deletion!LedgerMatchesReceipts
=============================================================================
