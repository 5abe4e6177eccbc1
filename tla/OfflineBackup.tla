---------------------------- MODULE OfflineBackup ----------------------------
(***************************************************************************)
(* The backup of an instance whose blobs are files: the writer             *)
(* (backup/filesystem-writer.ts) dumps the database, then copies the files,*)
(* and signs what it has if maintenance was not left meanwhile; the        *)
(* inventory of runs (backup/inventory-service.ts) is in the database that *)
(* is dumped.  A package that is restored is registered in the database it *)
(* brought, under the generation its manifest is bound to.                 *)
(*                                                                         *)
(* The operator stops the servers before a backup begins; nothing keeps    *)
(* them stopped until it ends.  Bound: one writer at a time; two would     *)
(* share the counter of generations only.                                  *)
(***************************************************************************)
EXTENDS Integers

CONSTANTS
  Blobs,
  MaxPackages,  \* bound: runs ever begun
  MaxSwitches,  \* bound: changes of the maintenance mode
  MaxRestores   \* bound: dumps imported

VARIABLES
  db,           \* mode, its generation, referenced blobs, runs, the generations given
  stored,       \* the blobs whose files exist
  running,      \* a server runs
  writer,       \* of each run: where its process stands and what it remembers
  package,      \* of each run: its directory
  restored,     \* the package this database was imported from
  restores

backupVars == <<db, stored, running, writer, package, restored, restores>>

Packages  == 1..MaxPackages
NoRun     == [status |-> "none", generation |-> 0, artifacts |-> {}]
NoPackage == [signed |-> FALSE, generation |-> 0, dump |-> {}, blobs |-> {}]
NoWriter  == [at |-> "none", expects |-> 0, todo |-> {}]
Database  == "database.dump"   \* an artifact beside the blobs

TypeOK ==
  /\ db.mode \in {"normal", "offline"} /\ db.switches \in 0..MaxSwitches
  /\ db.refs \subseteq Blobs /\ stored \subseteq Blobs
  /\ \A p \in Packages :
       /\ db.runs[p].status \in {"none", "preparing", "draining", "dumping", "copying",
                                 "verifying", "ready", "failed"}
       /\ db.runs[p].artifacts \subseteq Blobs \cup {Database}
       /\ writer[p].at \in {"none", "preparing", "draining", "dumping", "dumped", "copying",
                            "verifying", "held", "signed", "failing"}
       /\ package[p].blobs \subseteq Blobs
  /\ running \in BOOLEAN /\ restored \in 0..MaxPackages /\ restores \in 0..MaxRestores

Init ==
  /\ db = [mode |-> "normal", switches |-> 0, refs |-> {}, given |-> 0,
           runs |-> [p \in Packages |-> NoRun]]
  /\ stored = {} /\ running = TRUE
  /\ writer = [p \in Packages |-> NoWriter]
  /\ package = [p \in Packages |-> NoPackage]
  /\ restored = 0 /\ restores = 0

-----------------------------------------------------------------------------
(* The servers: a blob is stored and referred to, its last reference goes,
   and a maintenance run collects it.  All of them refuse while offline.    *)
Busy == running /\ db.mode = "normal"
backups == <<writer, package, restored, restores>>

Upload(b) ==
  /\ Busy /\ stored' = stored \cup {b} /\ db' = [db EXCEPT !.refs = @ \cup {b}]
  /\ UNCHANGED <<running, backups>>
Dereference(b) ==
  /\ Busy /\ b \in db.refs /\ db' = [db EXCEPT !.refs = @ \ {b}]
  /\ UNCHANGED <<stored, running, backups>>
Collect(b) ==
  /\ Busy /\ b \in stored \ db.refs /\ stored' = stored \ {b}
  /\ UNCHANGED <<db, running, backups>>

(* enable --mode offline, disable: each counts.                             *)
Switch(mode) ==
  /\ db.switches < MaxSwitches
  /\ db' = [db EXCEPT !.mode = mode, !.switches = @ + 1]
  /\ UNCHANGED <<stored, running, backups>>

Start == ~running /\ running' = TRUE /\ UNCHANGED <<db, stored, backups>>
Stop  == running /\ running' = FALSE /\ UNCHANGED <<db, stored, backups>>

-----------------------------------------------------------------------------
(* create.  A step whose run has another status by then fails.              *)
At(p, step)   == writer[p].at = step
Writing(p)    == writer[p].at # "none"
Goto(p, step) == writer' = [writer EXCEPT ![p].at = step]

Begin(p) ==
  /\ \A q \in Packages : q < p <=> db.runs[q] # NoRun \/ package[q] # NoPackage
  /\ db.mode = "offline" /\ ~running /\ \A q \in Packages : ~Writing(q)
  /\ writer' = [writer EXCEPT ![p] = [at |-> "preparing", expects |-> db.switches, todo |-> {}]]
  /\ db' = [db EXCEPT !.given = @ + 1,
                      !.runs[p] = [status |-> "preparing", generation |-> db.given + 1, artifacts |-> {}]]
  /\ UNCHANGED <<stored, running, package, restored, restores>>

Advance(p, from, to) ==
  /\ At(p, from)
  /\ IF db.runs[p].status = from
     THEN db' = [db EXCEPT !.runs[p].status = to] /\ Goto(p, to)
     ELSE Goto(p, "failing") /\ UNCHANGED db
  /\ UNCHANGED <<stored, running, package, restored, restores>>

(* pg_dump, and the record of its file.                                     *)
Dump(p) ==
  /\ At(p, "dumping") /\ Goto(p, "dumped")
  /\ package' = [package EXCEPT ![p].dump = {db}]
  /\ db' = [db EXCEPT !.runs[p].artifacts = @ \cup {Database}]
  /\ UNCHANGED <<stored, running, restored, restores>>

(* The keys are listed, and copied one by one.                              *)
ListKeys(p) ==
  /\ At(p, "dumped") /\ db.runs[p].status = "dumping"
  /\ db' = [db EXCEPT !.runs[p].status = "copying"]
  /\ writer' = [writer EXCEPT ![p].at = "copying", ![p].todo = stored]
  /\ UNCHANGED <<stored, running, package, restored, restores>>

CopyBlob(p, b) ==
  /\ At(p, "copying") /\ b \in writer[p].todo
  /\ IF b \in stored
     THEN /\ writer' = [writer EXCEPT ![p].todo = @ \ {b}]
          /\ package' = [package EXCEPT ![p].blobs = @ \cup {b}]
          /\ db' = [db EXCEPT !.runs[p].artifacts = @ \cup {b}]
     ELSE Goto(p, "failing") /\ UNCHANGED <<db, package>>
  /\ UNCHANGED <<stored, running, restored, restores>>

EndCopy(p) == writer[p].todo = {} /\ Advance(p, "copying", "verifying")

(* Fault: that the instance is offline again is enough.                     *)
OfflineAgain(p) == db.mode = "offline"

Undisturbed(p) == db.mode = "offline" /\ db.switches = writer[p].expects

CheckMaintenance(p) ==
  /\ At(p, "verifying")
  /\ Goto(p, IF Undisturbed(p) THEN "held" ELSE "failing")
  /\ UNCHANGED <<db, stored, running, package, restored, restores>>

(* The manifest is signed and the directory takes its final name.           *)
Sign(p) ==
  /\ At(p, "held") /\ Goto(p, "signed")
  /\ package' = [package EXCEPT ![p].signed = TRUE, ![p].generation = db.runs[p].generation]
  /\ UNCHANGED <<db, stored, running, restored, restores>>

MarkReady(p) ==
  /\ At(p, "signed")
  /\ IF db.runs[p].status \in {"copying", "verifying"} /\ db.runs[p].artifacts # {}
     THEN db' = [db EXCEPT !.runs[p].status = "ready"] /\ Goto(p, "none")
     ELSE Goto(p, "failing") /\ UNCHANGED db
  /\ UNCHANGED <<stored, running, package, restored, restores>>

(* fail, after any statement that throws; or the process dies.              *)
Fail(p) ==
  /\ Writing(p) /\ writer' = [writer EXCEPT ![p] = NoWriter]
  /\ db' = [db EXCEPT !.runs[p].status = IF @ \in {"none", "ready", "failed"} THEN @ ELSE "failed"]
  /\ UNCHANGED <<stored, running, package, restored, restores>>

Die(p) ==
  /\ Writing(p) /\ writer' = [writer EXCEPT ![p] = NoWriter]
  /\ UNCHANGED <<db, stored, running, package, restored, restores>>

-----------------------------------------------------------------------------
(* A package that verifies is imported, database and files, into a target of
   its own: the instance goes on from there.                                *)
ImportPackage(p) ==
  /\ package[p].signed /\ ~running /\ \A q \in Packages : ~Writing(q)
  /\ restores < MaxRestores /\ restores' = restores + 1
  /\ db' \in package[p].dump
  /\ stored' = package[p].blobs /\ restored' = p
  /\ UNCHANGED <<running, writer, package>>

Inventory(p) == {Database} \cup package[p].blobs

(* Fault: only a run that had not begun is taken over.                      *)
RegistrableNew(p) ==
  LET run == db.runs[p] IN
  run.status \in {"none", "preparing", "ready"} /\ (run.status # "none" => run.generation = package[p].generation)

(* importVerifiedManifest: nothing is registered of the package, or the
   same; its generation is no other run's.                                  *)
Registrable(p) ==
  LET run == db.runs[p] IN
  IF run.status = "none"
  THEN \A q \in Packages : db.runs[q].status # "none" => db.runs[q].generation # package[p].generation
  ELSE /\ run.generation = package[p].generation
       /\ run.artifacts = Inventory(p) \/ (run.artifacts = {} /\ run.status # "ready")

(* Fault: the sequence of the generations is left where the dump had it.    *)
GivenAsDumped(p) == db.given

(* setval(greatest(max(generation), nextval)).                              *)
Given(p) ==
  LET next == db.given + 1 IN IF package[p].generation > next THEN package[p].generation ELSE next

Register(p) ==
  /\ package[p].signed /\ ~Writing(p) /\ db.mode = "offline" /\ Registrable(p)
  /\ db' = [db EXCEPT
       !.given = IF db.runs[p].status = "none" THEN Given(p) ELSE @,
       !.runs[p] = [status |-> "ready", generation |-> package[p].generation, artifacts |-> Inventory(p)]]
  /\ UNCHANGED <<stored, running, writer, package, restored, restores>>

Next ==
  \/ \E b \in Blobs : Upload(b) \/ Dereference(b) \/ Collect(b)
  \/ Switch("offline") \/ (db.mode # "normal" /\ Switch("normal")) \/ Start \/ Stop
  \/ \E p \in Packages :
       \/ Begin(p) \/ Advance(p, "preparing", "draining") \/ Advance(p, "draining", "dumping")
       \/ Dump(p) \/ ListKeys(p) \/ EndCopy(p) \/ CheckMaintenance(p) \/ Sign(p) \/ MarkReady(p)
       \/ Fail(p) \/ Die(p) \/ ImportPackage(p) \/ Register(p)
       \/ \E b \in Blobs : CopyBlob(p, b)

Spec == Init /\ [][Next]_backupVars

-----------------------------------------------------------------------------
(* Every blob a database refers to can be read, also after it was imported:
   a package that verifies holds the bytes of each blob its dump refers to,
   though servers may have run, collected blobs and stopped again between
   its dump and its copies (filesystem-writer.ts:83).                       *)
ReferencedStored == db.refs \subseteq stored

(* A package can be registered in the database it was imported to
   (inventory-service.ts:125: the dump has its run in an unfinished state). *)
ImportedRegistrable == restored # 0 => Registrable(restored)

(* No local backup that begins after a restore is given the generation of a
   run that is registered (inventory-service.ts:120).                       *)
GenerationsAhead ==
  \A p \in Packages : db.runs[p].status # "none" => db.runs[p].generation <= db.given
=============================================================================
