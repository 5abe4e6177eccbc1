--------------------------- MODULE BackupPromise ---------------------------
(***************************************************************************)
(* Backups of the blobs, with what a package promises: MCBlobs checks it on*)
(* an instance, and BlobUploadProofs proves it.                            *)
(***************************************************************************)
CONSTANTS
  Blobs, MaxPackages, MaxSwitches,
  MaxImports   \* bound: packages imported
VARIABLES db, objects, running, writer, package, restored, restores

Backup == INSTANCE OfflineBackup WITH stored <- objects, MaxRestores <- MaxImports

(* A package that was written has every blob its database refers to, can be
   registered again after an import, and what is stored later is of a later
   generation (FilesystemBackupWriter, inventory).                          *)
BackupsComplete ==
  Backup!ReferencedStored /\ Backup!ImportedRegistrable /\ Backup!GenerationsAhead
=============================================================================
