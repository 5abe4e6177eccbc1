--------------------------- MODULE RestorePromise ---------------------------
(***************************************************************************)
(* A restored database, with what the cutover promises: MCAccess checks it *)
(* on instances, and AccountDeletionProofs proves it.                      *)
(***************************************************************************)
CONSTANTS
  Accounts,
  Reviewer,    \* the account that administers the instance
  Work, MaxCredentials, MaxSeconds, MaxCutoffs
VARIABLES
  db, backup, kept, imported, running, minted, seconds, cutoffs, reviewed, handled,
  done, held

Restores == INSTANCE Restore WITH Administrator <- Reviewer

(* After a restore no credential of before opens anything, work that the
   backup had queued is held, and an administrator reviews who may sign in
   (restore-fence/service.ts, cli/restore.ts).                              *)
RestoredSafely ==
  /\ Restores!OldCredentialsRefused /\ Restores!RestoredWorkHeld
  /\ Restores!ReviewedUnlessHandled
=============================================================================
