----------------------------- MODULE SyncCommands -----------------------------
(***************************************************************************)
(* The durable command log of one workspace: DurableSyncService in         *)
(* apps/server/src/durable-sync/service.ts.  A command runs in one         *)
(* transaction that first takes the workspace row FOR UPDATE, so commands  *)
(* of a workspace are serial and each of them is one action here.          *)
(*                                                                         *)
(* A command that throws rolls its transaction back: a refusal changes no  *)
(* row of these tables and is a guard that fails.  The second transaction  *)
(* that may record a refusal in the ledger is modelled in CommandLedger.   *)
(* Ciphertexts, hashes, key versions, blob references and the storage      *)
(* budget only add reasons to refuse; they are abstracted to "the command  *)
(* may also not happen".                                                   *)
(***************************************************************************)
EXTENDS Integers, FiniteSets

CONSTANTS
  Objects,      \* object ids of the workspace
  Documents,    \* collaborative document ids
  UpdateIds,    \* client-chosen ids of document updates
  CheckpointIds,\* client-chosen ids of document checkpoints
  ConflictIds,  \* client-chosen ids of conflicts
  Names,        \* name blind indexes
  CommandIds,   \* command ids: their number bounds a behaviour
  Sessions,     \* slots for bootstrap sessions (eight in the code)
  Requests,     \* the command bodies the clients may send
  None,         \* a null column
  Inherit       \* an optional field the command leaves out

ASSUME SentinelAssumption ==
  /\ None \notin Objects \cup Documents \cup UpdateIds \cup CheckpointIds
                 \cup ConflictIds \cup Names \cup CommandIds \cup {Inherit}
  /\ Inherit \notin Objects \cup Names
ASSUME ObjectsAssumption == IsFiniteSet(Objects)

Kinds == {"folder", "note", "asset"}
ConflictTypes ==
  {"same-name", "delete-vs-edit", "delete-subtree-vs-edit", "client"}

ParentField == Objects \cup {None, Inherit}
NameField   == Names \cup {None, Inherit}

-----------------------------------------------------------------------------
(* Command bodies.  A revision 0 is the null baseRevision of a creation.   *)

UpsertRequest ==
  [type : {"upsert-object"}, object : Objects, kind : Kinds, base : Nat,
   parent : ParentField, name : NameField, resources : SUBSET Objects,
   conflict : ConflictIds \cup {None}]

DeleteRequest ==
  [type : {"delete-object"}, object : Objects, kind : Kinds, base : Nat \ {0},
   parent : ParentField, seen : Nat, conflict : ConflictIds]

SubtreeRequest ==
  [type : {"delete-subtree"}, root : Objects, items : SUBSET Objects,
   bases : [Objects -> Nat], seen : [Objects -> Nat], conflict : ConflictIds]

AppendRequest ==
  [type : {"initialize-document", "append-update"}, object : Objects,
   kind : Kinds, document : Documents, update : UpdateIds]

CheckpointRequest ==
  [type : {"commit-checkpoint"}, object : Objects, kind : Kinds,
   document : Documents, checkpoint : CheckpointIds, covers : Nat]

ConflictRequest ==
  [type : {"create-conflict"}, object : Objects, kind : Kinds,
   conflict : ConflictIds, conflictType : ConflictTypes,
   revision : Nat \cup {None}, seen : Nat \cup {None}]

ObjectResolution ==
  [parent : ParentField, name : NameField,
   resources : (SUBSET Objects) \cup {Inherit}]

DocumentResolution ==
  [document : Documents, checkpoint : CheckpointIds, seen : Nat]

ResolveRequest ==
  [type : {"resolve-conflict"}, conflict : ConflictIds, created : Nat,
   requires : CommandIds \cup {None}, delete : BOOLEAN,
   content : ObjectResolution \cup {None},
   baseline : DocumentResolution \cup {None}]

ASSUME RequestsAssumption ==
  \A r \in Requests :
    \/ r \in UpsertRequest \/ r \in DeleteRequest \/ r \in SubtreeRequest
    \/ r \in AppendRequest \/ r \in CheckpointRequest
    \/ r \in ConflictRequest \/ r \in ResolveRequest

-----------------------------------------------------------------------------
VARIABLES
  latestSequence, \* workspaces.latest_sequence
  objects,        \* objects: the current row of each object id
  versions,       \* object_versions
  bindings,       \* sync_resource_bindings
  documents,      \* sync_documents
  updates,        \* sync_updates
  checkpoints,    \* sync_checkpoints
  conflicts,      \* sync_conflicts
  events,         \* sync_events
  commands,       \* sync_commands: the status of each recorded command
  sessions        \* sync_bootstrap_sessions with their manifests

vars == <<latestSequence, objects, versions, bindings, documents, updates,
          checkpoints, conflicts, events, commands, sessions>>

ObjectRow ==
  [kind : Kinds, revision : Nat, parent : Objects \cup {None},
   name : Names \cup {None}, deleted : BOOLEAN]

VersionRow ==
  [object : Objects, revision : Nat, sequence : Nat, kind : Kinds,
   parent : Objects \cup {None}, name : Names \cup {None}, deleted : BOOLEAN]

BindingRow ==
  [owner : Objects, ownerRevision : Nat, resource : Objects,
   resourceRevision : Nat]

DocumentRow ==
  [object : Objects \cup {None}, latest : Nat, checkpoint : Nat,
   checkpointId : CheckpointIds \cup {None}]

UpdateRow ==
  [document : Documents, sequence : Nat, update : UpdateIds, event : Nat]

CheckpointRow ==
  [checkpoint : CheckpointIds, document : Documents, covers : Nat, event : Nat]

ConflictRow ==
  [status : {"absent", "unresolved", "resolved"}, object : Objects \cup {None},
   type : ConflictTypes, revision : Nat \cup {None}, seen : Nat \cup {None},
   created : Nat, resolved : Nat]

EventTypes == {"object.upserted", "object.deleted", "document.updated",
               "document.checkpointed", "conflict.created", "conflict.resolved"}

EventRow ==
  [sequence : Nat, command : CommandIds, type : EventTypes, object : Objects,
   revision : Nat, parent : Objects \cup {None},
   document : Documents \cup {None}, documentSequence : Nat,
   update : UpdateIds \cup {None}, conflict : ConflictIds \cup {None}]

SessionRow ==
  [open : BOOLEAN, snapshot : Nat, revisions : [Objects -> Nat],
   documents : [Documents -> DocumentRow], unresolved : SUBSET ConflictIds]

NoObjectRow == [kind |-> "note", revision |-> 0, parent |-> None,
                name |-> None, deleted |-> FALSE]
NoDocumentRow == [object |-> None, latest |-> 0, checkpoint |-> 0,
                  checkpointId |-> None]
NoConflictRow == [status |-> "absent", object |-> None, type |-> "client",
                  revision |-> None, seen |-> None, created |-> 0, resolved |-> 0]
NoSession == [open |-> FALSE, snapshot |-> 0,
              revisions |-> [o \in Objects |-> 0],
              documents |-> [d \in Documents |-> NoDocumentRow],
              unresolved |-> {}]

(* Every row of every table has its columns' types.                        *)
TypeOK ==
  /\ latestSequence \in Nat
  /\ objects \in [Objects -> ObjectRow]
  /\ versions \subseteq VersionRow
  /\ bindings \subseteq BindingRow
  /\ documents \in [Documents -> DocumentRow]
  /\ updates \subseteq UpdateRow
  /\ checkpoints \subseteq CheckpointRow
  /\ conflicts \in [ConflictIds -> ConflictRow]
  /\ events \subseteq EventRow
  /\ commands \in [CommandIds -> {"absent", "applied", "conflict"}]
  /\ sessions \in [Sessions -> SessionRow]

Init ==
  /\ latestSequence = 0
  /\ objects = [o \in Objects |-> NoObjectRow]
  /\ versions = {}
  /\ bindings = {}
  /\ documents = [d \in Documents |-> NoDocumentRow]
  /\ updates = {}
  /\ checkpoints = {}
  /\ conflicts = [c \in ConflictIds |-> NoConflictRow]
  /\ events = {}
  /\ commands = [id \in CommandIds |-> "absent"]
  /\ sessions = [s \in Sessions |-> NoSession]

-----------------------------------------------------------------------------
(* What the tables say.                                                     *)

Exists(o) == objects[o].revision > 0
Active(o) == Exists(o) /\ ~objects[o].deleted
ActiveFolder(o) == Active(o) /\ objects[o].kind = "folder"

(* Fault: a resolved conflict counts as absent.                             *)
ExistUnresolved(c) == conflicts[c].status = "unresolved"

Exist(c) == conflicts[c].status # "absent"

(* The document of o has updates that a device at `seen` has not seen.      *)
EditedAfter(o, seen) ==
  \E d \in Documents : documents[d].object = o /\ documents[d].latest > seen

(* The document of o is exactly at `seen`; no document counts as 0.         *)
EditedUpTo(o, seen) ==
  \/ \E d \in Documents : documents[d].object = o /\ documents[d].latest = seen
  \/ seen = 0 /\ \A d \in Documents : documents[d].object # o

(* The members of every set that holds o and is closed under Up, resp. Down. *)
Ancestry(o) ==
  {x \in Objects : \A S \in SUBSET Objects :
     (o \in S /\ \A y \in S : objects[y].parent # None => objects[y].parent \in S)
       => x \in S}

Subtree(o) ==
  {x \in Objects : \A S \in SUBSET Objects :
     (o \in S /\ \A y \in Objects : Active(y) /\ objects[y].parent \in S => y \in S)
       => x \in S}

(* Every object below o, through tombstones too.                            *)
FullSubtree(o) ==
  {x \in Objects : \A S \in SUBSET Objects :
     (o \in S /\ \A y \in Objects : Exists(y) /\ objects[y].parent \in S => y \in S)
       => x \in S}

(* Fault: only the parent itself is looked at, not the walk to the root.    *)
ActiveParent(o, parent) == parent # None => parent # o /\ ActiveFolder(parent)

(* #assertValidParent: the walk from the parent meets only active folders,
   never o, and ends at the root.                                           *)
ValidParent(o, parent) ==
  parent # None =>
    LET walk == Ancestry(parent)
    IN  /\ o \notin walk
        /\ \A x \in walk : ActiveFolder(x)
        /\ \E x \in walk : objects[x].parent = None

(* #assertFolderEmpty                                                       *)
FolderEmpty(o) == \A x \in Objects : ~(Active(x) /\ objects[x].parent = o)

ReadyAssets(resources) ==
  \A x \in resources : Active(x) /\ objects[x].kind = "asset"

(* A current, active owner binds the asset in its current revision.          *)
Referenced(o) ==
  \E b \in bindings :
    /\ b.resource = o
    /\ Active(b.owner)
    /\ objects[b.owner].revision = b.ownerRevision

Rivals(o, parent, name) ==
  {x \in Objects \ {o} : /\ Active(x)
                         /\ name # None
                         /\ objects[x].parent = parent
                         /\ objects[x].name = name}

(* Fault: a conflict that was closed still counts.                          *)
AnySameName(o) ==
  {c \in ConflictIds : conflicts[c].type = "same-name" /\ conflicts[c].object = o}

OpenSameName(o) ==
  {c \in ConflictIds : /\ conflicts[c].status = "unresolved"
                       /\ conflicts[c].type = "same-name"
                       /\ conflicts[c].object = o}

(* Fault: a field that was left out is not inherited.                       *)
GivenField(given, current) == given

Field(given, current) == IF given = Inherit THEN current ELSE given

-----------------------------------------------------------------------------
(* Row builders.                                                            *)

(* Fault: the sequence advances once per command.                           *)
SequencePerCommand(n) == latestSequence + 1

(* nextSequence, called n times in the transaction.                         *)
NextSequence(n) == latestSequence + n

(* Fault: events carry the sequence before it advances.                     *)
LaggingEvent(n, id, type, o) ==
  [sequence |-> latestSequence + n - 1, command |-> id, type |-> type,
   object |-> o, revision |-> 0, parent |-> None, document |-> None,
   documentSequence |-> 0, update |-> None, conflict |-> None]

Event(n, id, type, o) ==
  [sequence |-> latestSequence + n, command |-> id, type |-> type, object |-> o,
   revision |-> 0, parent |-> None, document |-> None, documentSequence |-> 0,
   update |-> None, conflict |-> None]

ObjectEvent(n, id, o, row) ==
  [Event(n, id, IF row.deleted THEN "object.deleted" ELSE "object.upserted", o)
     EXCEPT !.revision = row.revision, !.parent = row.parent]

ConflictEvent(n, id, type, o, c) ==
  [Event(n, id, type, o) EXCEPT !.conflict = c]

DocumentEvent(n, id, type, d, o, sequence, update) ==
  [Event(n, id, type, o)
     EXCEPT !.document = d, !.documentSequence = sequence, !.update = update]

Version(n, o, row) ==
  [object |-> o, revision |-> row.revision, sequence |-> latestSequence + n,
   kind |-> row.kind, parent |-> row.parent, name |-> row.name,
   deleted |-> row.deleted]

(* Fault: the conflict row carries the sequence before it advances.         *)
LaggingConflict(o, type, revision, seen, n) ==
  [status |-> "unresolved", object |-> o, type |-> type, revision |-> revision,
   seen |-> seen, created |-> latestSequence + n - 1, resolved |-> 0]

NewConflict(o, type, revision, seen, n) ==
  [status |-> "unresolved", object |-> o, type |-> type, revision |-> revision,
   seen |-> seen, created |-> latestSequence + n, resolved |-> 0]

Bind(o, revision, resources) ==
  {[owner |-> o, ownerRevision |-> revision, resource |-> x,
    resourceRevision |-> objects[x].revision] : x \in resources}

(* Fault: open bootstrap sessions are not looked at.                        *)
PruneAlways(d, covers) == {u \in updates : u.document # d \/ u.sequence > covers}

(* A checkpoint removes the updates it covers, unless a bootstrap session
   of the workspace is open.                                                *)
PruneCoveredUpdates(d, covers) ==
  IF \E s \in Sessions : sessions[s].open THEN updates
  ELSE {u \in updates : u.document # d \/ u.sequence > covers}

(* Fault: the ledger is not looked up.                                      *)
FreshAlways(id) == TRUE

(* The lookup in sync_commands: an id that has a row is answered from it, or
   refused, and has no effect.  A fresh one is recorded with its effect.    *)
Fresh(id) == commands[id] = "absent"

Record(id, status) == commands' = [commands EXCEPT ![id] = status]

objectTables   == <<objects, versions, bindings>>
documentTables == <<documents, updates, checkpoints>>

(* The command is recorded and changes nothing else.                        *)
RecordOnly(id, status) ==
  /\ Record(id, status)
  /\ UNCHANGED <<latestSequence, objectTables, documentTables, conflicts,
                 events, sessions>>

-----------------------------------------------------------------------------
(* upsert-object and delete-object.                                         *)

KindMatches(r) == Exists(r.object) => objects[r.object].kind = r.kind

StaleBase(id, r) ==
  /\ r.type \in {"upsert-object", "delete-object"}
  /\ KindMatches(r)
  /\ r.base # objects[r.object].revision
  /\ RecordOnly(id, "conflict")

UpsertedRow(r) ==
  [kind |-> r.kind, revision |-> objects[r.object].revision + 1,
   parent |-> Field(r.parent, objects[r.object].parent),
   name |-> Field(r.name, objects[r.object].name), deleted |-> FALSE]

UpsertAllowed(r) ==
  /\ KindMatches(r)
  /\ r.base = objects[r.object].revision
  /\ ValidParent(r.object, Field(r.parent, objects[r.object].parent))
  /\ r.kind = "asset" => r.resources = {}
  /\ ReadyAssets(r.resources)

(* Fault: the version row keeps the parent the object had before.           *)
WriteObjectOldParent(o, row, n) ==
  /\ objects' = [objects EXCEPT ![o] = row]
  /\ versions' = versions \cup
       {Version(n, o, [row EXCEPT !.parent = objects[o].parent])}

WriteObject(o, row, n) ==
  /\ objects' = [objects EXCEPT ![o] = row]
  /\ versions' = versions \cup {Version(n, o, row)}

(* No other active sibling has the name, or the object already has an
   unresolved same-name conflict.                                           *)
UpsertObject(id, r) ==
  /\ r.type = "upsert-object"
  /\ UpsertAllowed(r)
  /\ LET row == UpsertedRow(r)
     IN  /\ Rivals(r.object, row.parent, row.name) = {} \/ OpenSameName(r.object) # {}
         /\ WriteObject(r.object, row, 1)
         /\ bindings' = bindings \cup Bind(r.object, row.revision, r.resources)
         /\ events' = events \cup {ObjectEvent(1, id, r.object, row)}
  /\ latestSequence' = NextSequence(1)
  /\ Record(id, "applied")
  /\ UNCHANGED <<documentTables, conflicts, sessions>>

(* The name collides: the write stands and a conflict is opened with it.    *)
UpsertSameName(id, r) ==
  /\ r.type = "upsert-object"
  /\ UpsertAllowed(r)
  /\ LET row == UpsertedRow(r)
     IN  /\ Rivals(r.object, row.parent, row.name) # {}
         /\ OpenSameName(r.object) = {}
         /\ r.conflict # None
         /\ ~Exist(r.conflict)
         /\ WriteObject(r.object, row, 1)
         /\ bindings' = bindings \cup Bind(r.object, row.revision, r.resources)
         /\ conflicts' = [conflicts EXCEPT ![r.conflict] =
              NewConflict(r.object, "same-name", row.revision, None, 2)]
         /\ events' = events \cup
              {ObjectEvent(1, id, r.object, row),
               ConflictEvent(2, id, "conflict.created", r.object, r.conflict)}
  /\ latestSequence' = NextSequence(2)
  /\ Record(id, "applied")
  /\ UNCHANGED <<documentTables, sessions>>

DeletedRow(r) ==
  [objects[r.object] EXCEPT
     !.revision = @ + 1, !.parent = Field(r.parent, @), !.deleted = TRUE]

DeleteAllowed(r) ==
  /\ KindMatches(r)
  /\ r.base = objects[r.object].revision
  /\ Active(r.object)
  /\ r.kind = "folder" => FolderEmpty(r.object)
  /\ r.kind = "asset" => ~Referenced(r.object)

DeleteObject(id, r) ==
  /\ r.type = "delete-object"
  /\ DeleteAllowed(r)
  /\ ~EditedAfter(r.object, r.seen)
  /\ WriteObject(r.object, DeletedRow(r), 1)
  /\ events' = events \cup {ObjectEvent(1, id, r.object, DeletedRow(r))}
  /\ latestSequence' = NextSequence(1)
  /\ Record(id, "applied")
  /\ UNCHANGED <<bindings, documentTables, conflicts, sessions>>

(* Deleting a tombstone again is applied and changes nothing.               *)
DeleteTombstone(id, r) ==
  /\ r.type = "delete-object"
  /\ KindMatches(r)
  /\ r.base = objects[r.object].revision
  /\ objects[r.object].deleted
  /\ RecordOnly(id, "applied")

(* The document has updates the deleting device has not seen.               *)
DeleteVersusEdit(id, r) ==
  /\ r.type = "delete-object"
  /\ DeleteAllowed(r)
  /\ EditedAfter(r.object, r.seen)
  /\ ~Exist(r.conflict)
  /\ conflicts' = [conflicts EXCEPT ![r.conflict] =
       NewConflict(r.object, "delete-vs-edit", r.base, r.seen, 1)]
  /\ events' = events \cup
       {ConflictEvent(1, id, "conflict.created", r.object, r.conflict)}
  /\ latestSequence' = NextSequence(1)
  /\ Record(id, "conflict")
  /\ UNCHANGED <<objectTables, documentTables, sessions>>

DeleteVersusEditAgain(id, r) ==
  /\ r.type = "delete-object"
  /\ DeleteAllowed(r)
  /\ EditedAfter(r.object, r.seen)
  /\ conflicts[r.conflict].object = r.object
  /\ conflicts[r.conflict].type = "delete-vs-edit"
  /\ RecordOnly(id, "conflict")

-----------------------------------------------------------------------------
(* delete-subtree.                                                          *)

SubtreeMatches(r) ==
  /\ ActiveFolder(r.root)
  /\ r.items = Subtree(r.root)
  /\ \A o \in r.items : r.bases[o] = objects[o].revision

Depth(o, within) == Cardinality((Ancestry(o) \cap within) \ {o})

(* The order of the deletes: deepest first.                                 *)
DeletionOrders(within) ==
  {order \in [1..Cardinality(within) -> within] :
     \A i, j \in 1..Cardinality(within) :
       i < j => order[i] # order[j] /\ Depth(order[i], within) >= Depth(order[j], within)}

(* Fault: the tombstone keeps the revision.                                 *)
TombstoneInPlace(o) == [objects[o] EXCEPT !.deleted = TRUE]

Tombstone(o) == [objects[o] EXCEPT !.revision = @ + 1, !.deleted = TRUE]

DeleteSubtree(id, r) ==
  /\ r.type = "delete-subtree"
  /\ SubtreeMatches(r)
  /\ \A o \in r.items : ~EditedAfter(o, r.seen[o])
  /\ \E order \in DeletionOrders(r.items) :
       LET deletes == 1..Cardinality(r.items)
       IN  /\ objects' = [o \in Objects |->
                            IF o \in r.items THEN Tombstone(o) ELSE objects[o]]
           /\ versions' = versions \cup
                {Version(n, order[n], Tombstone(order[n])) : n \in deletes}
           /\ events' = events \cup
                {ObjectEvent(n, id, order[n], Tombstone(order[n])) : n \in deletes}
  /\ latestSequence' = NextSequence(Cardinality(r.items))
  /\ Record(id, "applied")
  /\ UNCHANGED <<bindings, documentTables, conflicts, sessions>>

DeleteSubtreeVersusEdit(id, r) ==
  /\ r.type = "delete-subtree"
  /\ SubtreeMatches(r)
  /\ \E o \in r.items : EditedAfter(o, r.seen[o])
  /\ ~Exist(r.conflict)
  /\ conflicts' = [conflicts EXCEPT ![r.conflict] =
       NewConflict(r.root, "delete-subtree-vs-edit", objects[r.root].revision, None, 1)]
  /\ events' = events \cup
       {ConflictEvent(1, id, "conflict.created", r.root, r.conflict)}
  /\ latestSequence' = NextSequence(1)
  /\ Record(id, "conflict")
  /\ UNCHANGED <<objectTables, documentTables, sessions>>

DeleteSubtreeAgain(id, r) ==
  /\ r.type = "delete-subtree"
  /\ objects[r.root].kind = "folder"
  /\ objects[r.root].deleted
  /\ \A o \in FullSubtree(r.root) \ {r.root} : ~Active(o)
  /\ RecordOnly(id, "applied")

-----------------------------------------------------------------------------
(* initialize-document, append-update and commit-checkpoint.                *)

(* The document id and the object id are each bound to at most one another. *)
DocumentFits(r) ==
  \/ documents[r.document].object = r.object
  \/ /\ documents[r.document].object = None
     /\ \A d \in Documents : documents[d].object # r.object

AppendAllowed(r) ==
  /\ Active(r.object)
  /\ objects[r.object].kind = r.kind

AppendUpdate(id, r) ==
  /\ r.type \in {"initialize-document", "append-update"}
  /\ AppendAllowed(r)
  /\ \A u \in updates : u.update # r.update
  /\ DocumentFits(r)
  /\ r.type = "initialize-document" =>
       documents[r.document].latest = 0 /\ documents[r.document].checkpoint = 0
  /\ LET next == documents[r.document].latest + 1
     IN  /\ documents' = [documents EXCEPT ![r.document].object = r.object,
                                           ![r.document].latest = next]
         /\ updates' = updates \cup
              {[document |-> r.document, sequence |-> next,
                update |-> r.update, event |-> latestSequence + 1]}
         /\ events' = events \cup
              {DocumentEvent(1, id, "document.updated", r.document, r.object,
                             next, r.update)}
  /\ latestSequence' = NextSequence(1)
  /\ Record(id, "applied")
  /\ UNCHANGED <<objectTables, checkpoints, conflicts, sessions>>

(* The update id has a row for the document: applied, nothing changes.      *)
AppendAgain(id, r) ==
  /\ r.type \in {"initialize-document", "append-update"}
  /\ AppendAllowed(r)
  /\ \E u \in updates : u.update = r.update /\ u.document = r.document
  /\ RecordOnly(id, "applied")

(* The document's new baseline, with the n-th sequence of the command.      *)
WriteCheckpoint(d, checkpoint, latest, covers, n) ==
  /\ checkpoints' = checkpoints \cup
       {[checkpoint |-> checkpoint, document |-> d, covers |-> covers,
         event |-> latestSequence + n]}
  /\ documents' = [documents EXCEPT ![d].latest = latest,
                     ![d].checkpoint = covers, ![d].checkpointId = checkpoint]
  /\ updates' = PruneCoveredUpdates(d, covers)

FreshCheckpoint(checkpoint) == \A k \in checkpoints : k.checkpoint # checkpoint

(* Fault: the checkpoint may claim to cover more or less than there is.     *)
CheckpointAdvances(r) == r.covers > documents[r.document].checkpoint

CheckpointCurrent(r) ==
  /\ r.covers = documents[r.document].latest
  /\ r.covers > documents[r.document].checkpoint

CommitCheckpoint(id, r) ==
  /\ r.type = "commit-checkpoint"
  /\ documents[r.document].object = r.object
  /\ objects[r.object].kind = r.kind
  /\ CheckpointCurrent(r)
  /\ FreshCheckpoint(r.checkpoint)
  /\ WriteCheckpoint(r.document, r.checkpoint, documents[r.document].latest,
                     r.covers, 1)
  /\ events' = events \cup
       {DocumentEvent(1, id, "document.checkpointed", r.document, r.object,
                      r.covers, None)}
  /\ latestSequence' = NextSequence(1)
  /\ Record(id, "applied")
  /\ UNCHANGED <<objectTables, conflicts, sessions>>

-----------------------------------------------------------------------------
(* create-conflict.                                                         *)

CreateConflictCurrent(r) ==
  /\ r.revision # None => objects[r.object].revision = r.revision
  /\ r.seen # None => EditedUpTo(r.object, r.seen)

CreateConflict(id, r) ==
  /\ r.type = "create-conflict"
  /\ ~Exist(r.conflict)
  /\ Exists(r.object) /\ objects[r.object].kind = r.kind
  /\ CreateConflictCurrent(r)
  /\ conflicts' = [conflicts EXCEPT ![r.conflict] =
       NewConflict(r.object, r.conflictType, r.revision, r.seen, 1)]
  /\ events' = events \cup
       {ConflictEvent(1, id, "conflict.created", r.object, r.conflict)}
  /\ latestSequence' = NextSequence(1)
  /\ Record(id, "applied")
  /\ UNCHANGED <<objectTables, documentTables, sessions>>

CreateConflictChanged(id, r) ==
  /\ r.type = "create-conflict"
  /\ ~Exist(r.conflict)
  /\ Exists(r.object) /\ objects[r.object].kind = r.kind
  /\ ~CreateConflictCurrent(r)
  /\ RecordOnly(id, "conflict")

CreateConflictAgain(id, r) ==
  /\ r.type = "create-conflict"
  /\ Exist(r.conflict)
  /\ conflicts[r.conflict].object = r.object
  /\ objects[r.object].kind = r.kind
  /\ conflicts[r.conflict].type = r.conflictType
  /\ conflicts[r.conflict].revision = r.revision
  /\ conflicts[r.conflict].seen = r.seen
  /\ RecordOnly(id, "applied")

-----------------------------------------------------------------------------
(* resolve-conflict.                                                        *)

ResolveAllowed(r) ==
  /\ r.type = "resolve-conflict"
  /\ r.delete => r.content = None /\ r.baseline = None
  /\ r.requires # None => commands[r.requires] = "applied"
  /\ Exist(r.conflict)

(* The conflict the client saw is this one, by its sequence or by that of an
   event an older server published for it.                                  *)
SameConflict(r) ==
  \/ conflicts[r.conflict].created = r.created
  \/ \E e \in events : /\ e.sequence = r.created
                       /\ e.type = "conflict.created"
                       /\ e.object = conflicts[r.conflict].object
                       /\ e.conflict = r.conflict

BaselineFits(r) ==
  r.baseline # None =>
    documents[r.baseline.document].object = conflicts[r.conflict].object

BaselineCurrent(r) ==
  r.baseline # None => documents[r.baseline.document].latest = r.baseline.seen

ContentCurrent(r) ==
  r.content # None =>
    objects[conflicts[r.conflict].object].revision = conflicts[r.conflict].revision

ResolvedRow(o, content) ==
  [objects[o] EXCEPT !.revision = @ + 1, !.parent = Field(content.parent, @),
                     !.name = Field(content.name, @), !.deleted = FALSE]

ResolvedResources(o, content) ==
  IF content.resources = Inherit
  THEN {b.resource : b \in {x \in bindings :
          x.owner = o /\ x.ownerRevision = objects[o].revision}}
  ELSE content.resources

ContentAllowed(o, content) ==
  /\ objects[o].kind = "asset" => ResolvedResources(o, content) = {}
  /\ ReadyAssets(ResolvedResources(o, content))
  /\ ValidParent(o, ResolvedRow(o, content).parent)

NameFree(o, content) ==
  Rivals(o, ResolvedRow(o, content).parent, ResolvedRow(o, content).name) = {}

DeleteCurrent(r) ==
  LET k == conflicts[r.conflict]
  IN  r.delete => /\ Active(k.object)
                  /\ k.revision # None => objects[k.object].revision = k.revision

(* A resolution that is out of date: recorded as a conflict.                *)
ResolveChanged(id, r) ==
  /\ ResolveAllowed(r)
  /\ \/ ~SameConflict(r)
     \/ /\ SameConflict(r)
        /\ conflicts[r.conflict].status = "unresolved"
        /\ BaselineFits(r)
        /\ \/ ~BaselineCurrent(r)
           \/ ~ContentCurrent(r)
           \/ /\ r.content # None
              /\ ContentAllowed(conflicts[r.conflict].object, r.content)
              /\ ~NameFree(conflicts[r.conflict].object, r.content)
           \/ /\ conflicts[r.conflict].type # "delete-subtree-vs-edit"
              /\ ~DeleteCurrent(r)
  /\ RecordOnly(id, "conflict")

ResolveAgain(id, r) ==
  /\ ResolveAllowed(r)
  /\ SameConflict(r)
  /\ conflicts[r.conflict].status = "resolved"
  /\ RecordOnly(id, "applied")

Resolvable(r) ==
  /\ ResolveAllowed(r)
  /\ SameConflict(r)
  /\ conflicts[r.conflict].status = "unresolved"
  /\ BaselineFits(r) /\ BaselineCurrent(r)

(* The conflict is closed with the n-th and last sequence of the command.   *)
CloseConflict(id, r, n, newEvents) ==
  /\ conflicts' = [conflicts EXCEPT ![r.conflict].status = "resolved",
                                    ![r.conflict].resolved = latestSequence + n]
  /\ events' = events \cup newEvents \cup
       {ConflictEvent(n, id, "conflict.resolved", conflicts[r.conflict].object,
                      r.conflict)}
  /\ latestSequence' = NextSequence(n)
  /\ Record(id, "applied")
  /\ UNCHANGED sessions

BaselineEvent(id, r, n) ==
  DocumentEvent(n, id, "document.checkpointed", r.baseline.document,
                conflicts[r.conflict].object, r.baseline.seen + 1, None)

(* The n-th sequence of the command carries the new baseline.               *)
WriteBaseline(r, n) ==
  /\ FreshCheckpoint(r.baseline.checkpoint)
  /\ WriteCheckpoint(r.baseline.document, r.baseline.checkpoint,
                     r.baseline.seen + 1, r.baseline.seen + 1, n)

(* Dismissed as it stands.                                                  *)
ResolveDismiss(id, r) ==
  /\ Resolvable(r)
  /\ ~r.delete /\ r.content = None /\ r.baseline = None
  /\ CloseConflict(id, r, 1, {})
  /\ UNCHANGED <<objectTables, documentTables>>

(* With a new document baseline only.                                       *)
ResolveBaseline(id, r) ==
  /\ Resolvable(r)
  /\ r.content = None /\ r.baseline # None
  /\ WriteBaseline(r, 1)
  /\ CloseConflict(id, r, 2, {BaselineEvent(id, r, 1)})
  /\ UNCHANGED objectTables

(* With new content of the object, which revives it if it was deleted, and
   possibly a document baseline after it.                                   *)
ResolveContent(id, r) ==
  /\ Resolvable(r)
  /\ r.content # None
  /\ ContentCurrent(r)
  /\ LET o == conflicts[r.conflict].object
         row == ResolvedRow(o, r.content)
     IN  /\ ContentAllowed(o, r.content)
         /\ NameFree(o, r.content)
         /\ WriteObject(o, row, 1)
         /\ bindings' = bindings \cup
              Bind(o, row.revision, ResolvedResources(o, r.content))
         /\ IF r.baseline = None
            THEN /\ CloseConflict(id, r, 2, {ObjectEvent(1, id, o, row)})
                 /\ UNCHANGED documentTables
            ELSE /\ WriteBaseline(r, 2)
                 /\ CloseConflict(id, r, 3, {ObjectEvent(1, id, o, row),
                                             BaselineEvent(id, r, 2)})

(* By deleting the object.                                                  *)
ResolveDelete(id, r) ==
  /\ Resolvable(r)
  /\ r.delete
  /\ conflicts[r.conflict].type # "delete-subtree-vs-edit"
  /\ DeleteCurrent(r)
  /\ LET o == conflicts[r.conflict].object
     IN  /\ objects[o].kind = "folder" => FolderEmpty(o)
         /\ WriteObject(o, Tombstone(o), 1)
         /\ CloseConflict(id, r, 2,
              {[ObjectEvent(1, id, o, Tombstone(o)) EXCEPT !.parent = None]})
  /\ UNCHANGED <<bindings, documentTables>>

-----------------------------------------------------------------------------
(* Bootstrap sessions.                                                      *)

(* The snapshot and its manifest are taken under the workspace row lock.    *)
OpenBootstrap(s) ==
  /\ ~sessions[s].open
  /\ sessions' = [sessions EXCEPT ![s] =
       [open |-> TRUE, snapshot |-> latestSequence,
        revisions |-> [o \in Objects |-> objects[o].revision],
        documents |-> documents,
        unresolved |-> {c \in ConflictIds : conflicts[c].status = "unresolved"}]]
  /\ UNCHANGED <<latestSequence, objectTables, documentTables, conflicts,
                 events, commands>>

(* Released by the client, or idle for half an hour.                        *)
CloseBootstrap(s) ==
  /\ sessions[s].open
  /\ sessions' = [sessions EXCEPT ![s] = NoSession]
  /\ UNCHANGED <<latestSequence, objectTables, documentTables, conflicts,
                 events, commands>>

-----------------------------------------------------------------------------
ObjectCommand(id, r) ==
  \/ StaleBase(id, r) \/ UpsertObject(id, r) \/ UpsertSameName(id, r)
  \/ DeleteObject(id, r) \/ DeleteTombstone(id, r)
  \/ DeleteVersusEdit(id, r) \/ DeleteVersusEditAgain(id, r)

SubtreeCommand(id, r) ==
  \/ DeleteSubtree(id, r) \/ DeleteSubtreeVersusEdit(id, r)
  \/ DeleteSubtreeAgain(id, r)

DocumentCommand(id, r) ==
  \/ AppendUpdate(id, r) \/ AppendAgain(id, r) \/ CommitCheckpoint(id, r)

ConflictCommand(id, r) ==
  \/ CreateConflict(id, r) \/ CreateConflictChanged(id, r)
  \/ CreateConflictAgain(id, r)
  \/ ResolveChanged(id, r) \/ ResolveAgain(id, r) \/ ResolveDismiss(id, r)
  \/ ResolveBaseline(id, r) \/ ResolveContent(id, r) \/ ResolveDelete(id, r)

Apply(id, r) ==
  \/ ObjectCommand(id, r) \/ SubtreeCommand(id, r)
  \/ DocumentCommand(id, r) \/ ConflictCommand(id, r)

Command(id) == Fresh(id) /\ \E r \in Requests : Apply(id, r)

Next ==
  \/ \E id \in CommandIds : Command(id)
  \/ \E s \in Sessions : OpenBootstrap(s) \/ CloseBootstrap(s)

Spec == Init /\ [][Next]_vars

-----------------------------------------------------------------------------
(* Safety.                                                                  *)

VersionsOf(o) == {v \in versions : v.object = o}
EventsOf(id)  == {e \in events : e.command = id}
ObjectEventsOf(o) ==
  {e \in events : e.object = o /\ e.type \in {"object.upserted", "object.deleted"}}

(* The event log has exactly one event at each sequence the workspace has
   handed out: a command that takes several sequences publishes an event at
   each, and no two commands share one.  Pull relies on it to see a gap.    *)
EventLogComplete ==
  /\ {e.sequence : e \in events} = 1..latestSequence
  /\ \A e, f \in events : e.sequence = f.sequence => e = f

(* An object's versions are its revisions 1..current, each written once and
   in the order of the workspace sequence.                                  *)
VersionHistory ==
  \A o \in Objects :
    /\ {v.revision : v \in VersionsOf(o)} = 1..objects[o].revision
    /\ \A v, w \in VersionsOf(o) :
         /\ v.revision = w.revision => v = w
         /\ v.revision < w.revision => v.sequence < w.sequence

(* A bootstrap page reads the version row, Pull reads the events and a
   command reads the object row: the three agree on every object.           *)
ThreeViewsAgree ==
  /\ \A o \in Objects : Exists(o) =>
       \E v \in VersionsOf(o) :
         /\ v.revision = objects[o].revision
         /\ v.kind = objects[o].kind
         /\ v.parent = objects[o].parent
         /\ v.name = objects[o].name
         /\ v.deleted = objects[o].deleted
  /\ \A v \in versions : \E e \in ObjectEventsOf(v.object) :
       /\ e.sequence = v.sequence
       /\ e.revision = v.revision
       /\ v.deleted <=> e.type = "object.deleted"
       /\ ~v.deleted => e.parent = v.parent

(* The active objects form a forest of active folders, whatever moves,
   deletes and revivals preceded: no orphan, no cycle.                      *)
HierarchySound ==
  \A o \in Objects : Active(o) /\ objects[o].parent # None =>
    /\ ActiveFolder(objects[o].parent)
    /\ o \notin Ancestry(objects[o].parent)

(* Two active siblings share a name only if a same-name conflict on one of
   them is open, or was closed after both took their present form.          *)
SameNameRecorded ==
  \A o, x \in Objects :
    /\ Active(o)
    /\ x \in Rivals(o, objects[o].parent, objects[o].name)
    => \E c \in ConflictIds :
         /\ conflicts[c].object \in {o, x}
         /\ conflicts[c].type = "same-name"
         /\ \/ conflicts[c].status = "unresolved"
            \/ \A v \in versions :
                 (v.object \in {o, x} /\ v.revision = objects[v.object].revision)
                   => v.sequence < conflicts[c].resolved

(* A document can be rebuilt: its checkpoint is stored and covers what the
   row says, and every later update is there, exactly once.                 *)
DocumentRecoverable ==
  \A d \in Documents :
    /\ documents[d].checkpoint <= documents[d].latest
    /\ documents[d].checkpoint > 0 =>
         \E k \in checkpoints : /\ k.checkpoint = documents[d].checkpointId
                                /\ k.document = d
                                /\ k.covers = documents[d].checkpoint
    /\ \A n \in (documents[d].checkpoint + 1)..documents[d].latest :
         \E u \in updates : u.document = d /\ u.sequence = n
    /\ \A u, w \in updates :
         u.document = d /\ w.document = d /\ u.sequence = w.sequence => u = w

(* While a bootstrap session is open, everything its manifest names can be
   read: the version of each object and the updates after each checkpoint.  *)
BootstrapReadable ==
  \A s \in Sessions : sessions[s].open =>
    /\ \A o \in Objects : sessions[s].revisions[o] > 0 =>
         \E v \in VersionsOf(o) : /\ v.revision = sessions[s].revisions[o]
                                  /\ v.sequence <= sessions[s].snapshot
    /\ \A d \in Documents :
         \A n \in (sessions[s].documents[d].checkpoint + 1)
                    ..sessions[s].documents[d].latest :
           \E u \in updates : u.document = d /\ u.sequence = n

(* The first page lists the conflicts by their sequences, after the snapshot
   transaction: it is the set that was unresolved at the snapshot.          *)
BootstrapListing(snapshot) ==
  {c \in ConflictIds :
     /\ Exist(c)
     /\ conflicts[c].created <= snapshot
     /\ conflicts[c].status = "unresolved" \/ conflicts[c].resolved > snapshot}

BootstrapConflictsFixed ==
  \A s \in Sessions : sessions[s].open =>
    BootstrapListing(sessions[s].snapshot) = sessions[s].unresolved

(* A device that loads the snapshot and pulls from it reaches the current
   revision of every object and the current length of every document.       *)
SnapshotPlusEventsIsCurrent ==
  \A s \in Sessions : sessions[s].open =>
    LET later(E) == {e \in E : e.sequence > sessions[s].snapshot}
    IN  /\ \A o \in Objects :
             objects[o].revision =
               sessions[s].revisions[o] + Cardinality(later(ObjectEventsOf(o)))
        /\ \A d \in Documents :
             LET seen == {e.documentSequence : e \in later({e \in events : e.document = d})}
                           \cup {sessions[s].documents[d].latest}
             IN  /\ documents[d].latest \in seen
                 /\ \A n \in seen : n <= documents[d].latest

(* A command takes effect once and as a whole: its events are one run of the
   log, the ledger knows it, and if the ledger answers "conflict" all it did
   was to open a conflict.                                                  *)
CommandsAtomic ==
  \A id \in CommandIds :
    /\ commands[id] = "absent" => EventsOf(id) = {}
    /\ \A e, f \in EventsOf(id), g \in events :
         e.sequence < g.sequence /\ g.sequence < f.sequence => g.command = id
    /\ commands[id] = "conflict" =>
         \A e \in EventsOf(id) : e.type = "conflict.created"
    /\ \A e, f \in EventsOf(id) :
         e.type = "document.updated" /\ f.type = "document.updated" => e = f

(* A conflict is announced once and closed at most once, later, and its row
   carries the sequences of those two events.                               *)
ConflictsMatchEvents ==
  \A c \in ConflictIds :
    LET about(type) == {e.sequence : e \in {x \in events : x.conflict = c /\ x.type = type}}
    IN  /\ about("conflict.created") =
             IF Exist(c) THEN {conflicts[c].created} ELSE {}
        /\ about("conflict.resolved") =
             IF conflicts[c].status = "resolved" THEN {conflicts[c].resolved} ELSE {}
        /\ conflicts[c].status = "resolved" =>
             conflicts[c].created < conflicts[c].resolved

(* The log is what the commands did: each event of it belongs to one command,
   and each command is in it as a whole or not at all (#command, #apply). *)
CommandsWhole == EventLogComplete /\ CommandsAtomic

(* One tree for every device: no file hangs below a missing folder, a
   document or itself, and two live files of one name in one folder are
   always in a conflict somebody has seen (#assertValidParent, #apply).      *)
OneTree == HierarchySound /\ SameNameRecorded

(* The head of an object, its version history and its events tell one story,
   and a conflict is open exactly when its last event says so.              *)
ViewsAgree == VersionHistory /\ ThreeViewsAgree /\ ConflictsMatchEvents

(* A device that restores from a bootstrap snapshot, whose pages are read
   while others write, and then follows the events ends at the current state
   (bootstrap, documentUpdates, #pruneCoveredUpdates).                      *)
BootstrapExact == BootstrapReadable /\ BootstrapConflictsFixed /\ SnapshotPlusEventsIsCurrent

(* "An asset cannot be deleted while a current object references it": every
   asset bound by an active owner's current revision is active.             *)
BoundAssetsActive == \A o \in Objects : Referenced(o) => Active(o)

Closes(c) == conflicts[c].status = "unresolved" /\ conflicts'[c].status = "resolved"
Deletes(o) == Active(o) /\ objects'[o].deleted

(* Where a delete met an edit, the edited version is kept: closing the
   conflict by deleting the object does not take with it an update that was
   appended after the conflict was raised.                                  *)
DeleteSparesLaterEdits ==
  [][\A c \in ConflictIds :
       Closes(c) /\ Deletes(conflicts[c].object) =>
         \A e \in events :
           e.type = "document.updated" /\ e.object = conflicts[c].object
             => e.sequence < conflicts[c].created]_vars

=============================================================================
