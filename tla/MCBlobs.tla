------------------------------ MODULE MCBlobs ------------------------------
(***************************************************************************)
(* Uploads of one blob, backups of the blobs that are stored, the deletion *)
(* of the account they belong to, what it wrote to support and how staff   *)
(* restrict it, in scenarios: an initial state chooses the one that runs.  *)
(*   metered  two requests, an account with a storage limit, a second      *)
(*            upload of the same blob after the first                      *)
(*   mixed    two requests that announce, and send, different bytes, of an *)
(*            account with a storage limit                                 *)
(*   settle   two requests, one failure, fair steps, an account without a  *)
(*            limit                                                        *)
(*   backup   two packages, three changes of the mode, an import           *)
(*   deletion two requests, one mishap, one restore, fair maintenance      *)
(*   refused  the same, no mishap, a check that accepts no receipt         *)
(*   cases    three requests of a customer for support, in two cases       *)
(*   desk     three requests, of a customer and two of the staff, in a case*)
(*   denied   two requests that sign in, or lock the account out, or let it*)
(*            in again, for one of the staff or an administrator           *)
(*   limited  the same, of a restriction that ends and is no lock          *)
(***************************************************************************)
EXTENDS BlobUpload, BackupPromise, DeletionPromise

CONSTANTS r1, r2, x, y, Scenarios

VARIABLES scenario,
          account, cases, messages, snapshot, task, lock, doomed, begins, named, crossed,
          restrictions, entitled, assurance, asking, decided

backups == <<db, objects, running, writer, package, restored, restores>>
deletions == <<records, age, bytes, receipts, worker, copy, served, spent>>
support == <<account, cases, messages, snapshot, task, lock, doomed, begins, named, crossed>>
restricting == <<restrictions, entitled, assurance, asking, decided>>
mcVars == <<scenario, uploadVars, backups, deletions, support, restricting>>

Metering == INSTANCE BlobUpload WITH Contents <- {x}, MaxUploads <- 2, MaxIncidents <- 0,
              HasLimit <- TRUE
Mixed    == INSTANCE BlobUpload WITH HasLimit <- TRUE, MaxIncidents <- 0
Settling == INSTANCE BlobUpload WITH Contents <- {x}

Refusing == INSTANCE AccountDeletion WITH IdsAccepted <- FALSE, MaxMishaps <- 0

Cases    == INSTANCE SupportCases WITH Requests <- {r1, r2}, Staff <- {}, Keys <- {"k", "l"},
              Bodies <- {x, y}, MaxCases <- 2, MaxBegun <- 3, begun <- begins
Desk     == INSTANCE SupportCases WITH Requests <- {r1, r2}, Staff <- {"s", "t"},
              Keys <- {"k", "l"}, Bodies <- {x}, MaxCases <- 1, MaxBegun <- 3, begun <- begins

Denied   == INSTANCE RiskRestrictions WITH Staff <- {"s"}, Tasks <- {r1, r2}, MaxRestrictions <- 2,
              Keys <- {[scope |-> "authentication", action |-> "deny"]}, task <- asking
Limited  == INSTANCE RiskRestrictions WITH Staff <- {"s"}, Tasks <- {r1, r2}, MaxRestrictions <- 2,
              Keys <- {[scope |-> "all", action |-> "read_only"]}, task <- asking

MCInit ==
  /\ scenario \in Scenarios
  /\ CASE scenario = "metered" -> Metering!Init
       [] scenario = "mixed"   -> Mixed!Init
       [] OTHER                -> Settling!Init
  /\ Backup!Init /\ Deletion!Init
  /\ IF scenario = "desk" THEN Desk!Init ELSE Cases!Init
  /\ IF scenario = "denied" THEN Denied!Init ELSE Limited!Init

MCNext ==
  \/ /\ UNCHANGED <<scenario, backups, deletions, support, restricting>>
     /\ \/ scenario = "metered"  /\ Metering!Next
        \/ scenario = "mixed"    /\ Mixed!Next
        \/ scenario = "settle"   /\ Settling!Next
  \/ scenario = "backup" /\ Backup!Next
     /\ UNCHANGED <<scenario, uploadVars, deletions, support, restricting>>
  \/ /\ UNCHANGED <<scenario, uploadVars, backups, support, restricting>>
     /\ \/ scenario = "deletion" /\ Deletion!Next
        \/ scenario = "refused"  /\ Refusing!Next
  \/ /\ UNCHANGED <<scenario, uploadVars, backups, deletions, restricting>>
     /\ \/ scenario = "cases"    /\ Cases!Next
        \/ scenario = "desk"     /\ Desk!Next
  \/ /\ UNCHANGED <<scenario, uploadVars, backups, deletions, support>>
     /\ \/ scenario = "denied"   /\ Denied!Next
        \/ scenario = "limited"  /\ Limited!Next

(* A request that is alive goes on, maintenance runs, and time passes.      *)
MCFairness ==
  /\ \A r \in {r1, r2} : WF_uploadVars(scenario = "settle" /\ Settling!Step(r))
  /\ WF_uploadVars(scenario = "settle" /\ Settling!SweepStep)
  /\ WF_uploadVars(scenario = "settle" /\ Settling!UploadExpires)
  /\ WF_uploadVars(scenario = "settle" /\ Settling!LeaseExpires)
  /\ \A c \in 1..2 : WF_deletions(scenario \in {"deletion", "refused"} /\ Deletion!Stages(c))
  /\ WF_deletions(scenario \in {"deletion", "refused"} /\ (Deletion!LockLibrary \/ Deletion!InHand))

MCSpec == MCInit /\ [][MCNext]_mcVars /\ MCFairness

(* What is stored is of its type, in every scenario.                        *)
MCTypeOK ==
  CASE scenario = "metered" -> Metering!TypeOK
    [] scenario = "mixed"   -> Mixed!TypeOK
    [] scenario = "settle"  -> Settling!TypeOK
    [] scenario = "backup"  -> Backup!TypeOK
    [] scenario \in {"deletion", "refused"} -> Deletion!TypeOK
    [] scenario = "cases"   -> Cases!TypeOK
    [] scenario = "desk"    -> Desk!TypeOK
    [] scenario = "denied"  -> Denied!TypeOK
    [] scenario = "limited" -> Limited!TypeOK

(* With a storage limit a blob is counted exactly once, whatever requests
   reserve it, release it and reserve it again at the same time
   (UsageService.reserveBlob, which locks account_usage).                    *)
CountedOnce ==
  /\ scenario = "metered" => Metering!UsageBalanced
  /\ scenario = "mixed"   => Mixed!UsageBalanced

(* Nothing of a held account is removed (LegalHoldService.place); a case that
   is due and not held is completed, across crashes at any step, unless its
   receipt was torn, a boot replayed it half way, or the server is down: after a
   restore, or since a boot refused a receipt that is torn or not accepted.  *)
DeletionProceeds ==
  /\ Deletion!HoldsPreserve
  /\ \A c \in 1..2 :
       (scenario \in {"deletion", "refused"} /\ Deletion!Underway(c)) ~> Deletion!Concluded(c)

(* A ready blob stays until it is collected; and an upload that was begun is
   completed or removed: a request that died with it is succeeded by
   maintenance (cleanupUploads) whatever step it died at.  Its reservation may
   stay open: a release that was outrun returns without it.                 *)
UploadsSettle ==
  /\ ReadyUntilCollected
  /\ (scenario = "settle" /\ upload.id # 0 /\ ~upload.completed) ~>
       (upload.id = 0 \/ upload.completed)

(* Support: one case for each request to create one however often it is sent,
   a case waits for who has not written last, an account that is being deleted
   writes nothing more, and after its purge nothing it wrote is left
   (SupportService, assertAccountWriteAllowedInTransaction, maintenance).
   Restrictions: what was answered about one stands, and no session is issued
   under it (upsertStaffAccountRestriction, enforceAccountInTransaction).     *)
StaffSound ==
  /\ [](CASE scenario = "cases"   -> Cases!SupportSound
          [] scenario = "desk"    -> Desk!SupportSound
          [] scenario = "denied"  -> Denied!RestrictionsSound
          [] scenario = "limited" -> Limited!RestrictionsSound
          [] OTHER -> TRUE)
  /\ Cases!FencedTakesNothing /\ Desk!FencedTakesNothing
=============================================================================
