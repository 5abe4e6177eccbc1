--------------------------- MODULE LedgerPromise ---------------------------
(***************************************************************************)
(* The ledger of the commands beside the commands themselves, with what it *)
(* promises: MCSync checks this on an instance, and SyncCommandsProofs     *)
(* proves it.                                                              *)
(***************************************************************************)
CONSTANTS Batches, RequiredBy, Large, MaxIncidents, MaxSends, MaxRestores
VARIABLES log, saved, epoch, lowered, request, incidents

Ledger == INSTANCE CommandLedger

(* A command is carried out once, whatever is sent again: the effects are
   those of the command that is recorded, and of no command whose requirement
   was not applied before (#command, #recordRejectedCommand); and what a
   device was told of a command stays true, also over a restore.            *)
LedgerSound ==
  Ledger!TypeOK /\ Ledger!EffectsAsRecorded /\ Ledger!RequiredApplied /\ Ledger!ToldIsTrue
=============================================================================
