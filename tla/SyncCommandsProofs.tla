-------------------------- MODULE SyncCommandsProofs --------------------------
(***************************************************************************)
(* What SyncCommands guarantees for every set of objects, documents,       *)
(* requests and command ids, checked by TLAPS: the types of its rows, the  *)
(* event log, the views of an object, the documents, the bootstrap         *)
(* sessions and the tree; and what the ledger of the commands guarantees   *)
(* for every batch of them (CommandLedger).                                *)
(***************************************************************************)
EXTENDS SyncCommands, LedgerPromise, FiniteSetTheorems, SequenceTheorems, TLAPS

-----------------------------------------------------------------------------
(* The shape of a command body follows from its type.                       *)

LEMMA UpsertShape ==
  ASSUME NEW r \in Requests, r.type = "upsert-object"
  PROVE  r \in UpsertRequest
BY RequestsAssumption DEF UpsertRequest, DeleteRequest, SubtreeRequest,
   AppendRequest, CheckpointRequest, ConflictRequest, ResolveRequest

LEMMA DeleteShape ==
  ASSUME NEW r \in Requests, r.type = "delete-object"
  PROVE  r \in DeleteRequest
BY RequestsAssumption DEF UpsertRequest, DeleteRequest, SubtreeRequest,
   AppendRequest, CheckpointRequest, ConflictRequest, ResolveRequest

LEMMA SubtreeShape ==
  ASSUME NEW r \in Requests, r.type = "delete-subtree"
  PROVE  r \in SubtreeRequest
BY RequestsAssumption DEF UpsertRequest, DeleteRequest, SubtreeRequest,
   AppendRequest, CheckpointRequest, ConflictRequest, ResolveRequest

LEMMA AppendShape ==
  ASSUME NEW r \in Requests, r.type \in {"initialize-document", "append-update"}
  PROVE  r \in AppendRequest
BY RequestsAssumption DEF UpsertRequest, DeleteRequest, SubtreeRequest,
   AppendRequest, CheckpointRequest, ConflictRequest, ResolveRequest

LEMMA CheckpointShape ==
  ASSUME NEW r \in Requests, r.type = "commit-checkpoint"
  PROVE  r \in CheckpointRequest
BY RequestsAssumption DEF UpsertRequest, DeleteRequest, SubtreeRequest,
   AppendRequest, CheckpointRequest, ConflictRequest, ResolveRequest

LEMMA ConflictShape ==
  ASSUME NEW r \in Requests, r.type = "create-conflict"
  PROVE  r \in ConflictRequest
BY RequestsAssumption DEF UpsertRequest, DeleteRequest, SubtreeRequest,
   AppendRequest, CheckpointRequest, ConflictRequest, ResolveRequest

LEMMA ResolveShape ==
  ASSUME NEW r \in Requests, r.type = "resolve-conflict"
  PROVE  r \in ResolveRequest
BY RequestsAssumption DEF UpsertRequest, DeleteRequest, SubtreeRequest,
   AppendRequest, CheckpointRequest, ConflictRequest, ResolveRequest

-----------------------------------------------------------------------------
(* Row builders build rows.                                                 *)

LEMMA EventIsRow ==
  ASSUME latestSequence \in Nat, NEW n \in Nat, NEW id \in CommandIds,
         NEW type \in EventTypes, NEW o \in Objects
  PROVE  Event(n, id, type, o) \in EventRow
BY DEF Event, EventRow

LEMMA ObjectEventIsRow ==
  ASSUME latestSequence \in Nat, NEW n \in Nat, NEW id \in CommandIds,
         NEW o \in Objects, NEW row \in ObjectRow
  PROVE  /\ ObjectEvent(n, id, o, row) \in EventRow
         /\ ObjectEvent(n, id, o, row).sequence = latestSequence + n
<1> DEFINE type == IF row.deleted THEN "object.deleted" ELSE "object.upserted"
<1>1. type \in EventTypes
  BY DEF EventTypes
<1>2. row.revision \in Nat /\ row.parent \in Objects \cup {None}
  BY DEF ObjectRow
<1>3. /\ Event(n, id, type, o) \in EventRow
      /\ Event(n, id, type, o).sequence = latestSequence + n
  BY <1>1, EventIsRow DEF Event
<1>4. ObjectEvent(n, id, o, row)
        = [Event(n, id, type, o) EXCEPT !.revision = row.revision, !.parent = row.parent]
  BY DEF ObjectEvent
<1> HIDE DEF type
<1> QED  BY <1>2, <1>3, <1>4 DEF EventRow

LEMMA ConflictEventIsRow ==
  ASSUME latestSequence \in Nat, NEW n \in Nat, NEW id \in CommandIds,
         NEW type \in {"conflict.created", "conflict.resolved"},
         NEW o \in Objects, NEW c \in ConflictIds
  PROVE  /\ ConflictEvent(n, id, type, o, c) \in EventRow
         /\ ConflictEvent(n, id, type, o, c).sequence = latestSequence + n
BY DEF ConflictEvent, Event, EventRow, EventTypes

LEMMA DocumentEventIsRow ==
  ASSUME latestSequence \in Nat, NEW n \in Nat, NEW id \in CommandIds,
         NEW type \in {"document.updated", "document.checkpointed"},
         NEW d \in Documents, NEW o \in Objects, NEW s \in Nat,
         NEW u \in UpdateIds \cup {None}
  PROVE  /\ DocumentEvent(n, id, type, d, o, s, u) \in EventRow
         /\ DocumentEvent(n, id, type, d, o, s, u).sequence = latestSequence + n
<1>1. /\ Event(n, id, type, o) \in EventRow
      /\ Event(n, id, type, o).sequence = latestSequence + n
  BY EventIsRow DEF Event, EventTypes
<1> QED  BY <1>1 DEF DocumentEvent, EventRow

LEMMA VersionIsRow ==
  ASSUME latestSequence \in Nat, NEW n \in Nat, NEW o \in Objects,
         NEW row \in ObjectRow
  PROVE  Version(n, o, row) \in VersionRow
BY DEF Version, VersionRow, ObjectRow

LEMMA BindIsRows ==
  ASSUME objects \in [Objects -> ObjectRow], NEW o \in Objects,
         NEW revision \in Nat, NEW resources \in SUBSET Objects
  PROVE  Bind(o, revision, resources) \subseteq BindingRow
BY DEF Bind, BindingRow, ObjectRow

LEMMA NewConflictIsRow ==
  ASSUME latestSequence \in Nat, NEW o \in Objects, NEW type \in ConflictTypes,
         NEW revision \in Nat \cup {None}, NEW seen \in Nat \cup {None},
         NEW n \in Nat
  PROVE  /\ NewConflict(o, type, revision, seen, n) \in ConflictRow
         /\ NewConflict(o, type, revision, seen, n).status # "absent"
         /\ NewConflict(o, type, revision, seen, n).object \in Objects
BY DEF NewConflict, ConflictRow

LEMMA FieldIsParent ==
  ASSUME NEW given \in ParentField, NEW current \in Objects \cup {None}
  PROVE  Field(given, current) \in Objects \cup {None}
BY DEF Field, ParentField

LEMMA FieldIsName ==
  ASSUME NEW given \in NameField, NEW current \in Names \cup {None}
  PROVE  Field(given, current) \in Names \cup {None}
BY DEF Field, NameField

LEMMA TombstoneIsRow ==
  ASSUME objects \in [Objects -> ObjectRow], NEW o \in Objects
  PROVE  Tombstone(o) \in ObjectRow
<1> DEFINE revision == objects[o].revision + 1
<1>1. objects[o] \in ObjectRow /\ revision \in Nat
  BY DEF ObjectRow
<1>2. Tombstone(o) = [objects[o] EXCEPT !.revision = revision, !.deleted = TRUE]
  BY DEF Tombstone
<1> HIDE DEF revision
<1> QED  BY <1>1, <1>2 DEF ObjectRow

LEMMA DeletedIsRow ==
  ASSUME objects \in [Objects -> ObjectRow], NEW r \in DeleteRequest
  PROVE  DeletedRow(r) \in ObjectRow
<1> DEFINE o == r.object
           revision == objects[o].revision + 1
           parent == Field(r.parent, objects[o].parent)
<1>1. objects[o] \in ObjectRow /\ revision \in Nat /\ parent \in Objects \cup {None}
  BY FieldIsParent DEF ObjectRow, DeleteRequest
<1>2. DeletedRow(r) = [objects[o] EXCEPT !.revision = revision, !.parent = parent,
                                         !.deleted = TRUE]
  BY DEF DeletedRow
<1> HIDE DEF revision, parent
<1> QED  BY <1>1, <1>2 DEF ObjectRow

LEMMA UpsertedIsRow ==
  ASSUME objects \in [Objects -> ObjectRow], NEW r \in UpsertRequest
  PROVE  UpsertedRow(r) \in ObjectRow
BY FieldIsParent, FieldIsName DEF UpsertedRow, UpsertRequest, ObjectRow

LEMMA ResolvedIsRow ==
  ASSUME objects \in [Objects -> ObjectRow], NEW o \in Objects,
         NEW content \in ObjectResolution
  PROVE  ResolvedRow(o, content) \in ObjectRow
<1> DEFINE revision == objects[o].revision + 1
           parent == Field(content.parent, objects[o].parent)
           name == Field(content.name, objects[o].name)
<1>1. /\ objects[o] \in ObjectRow
      /\ revision \in Nat
      /\ parent \in Objects \cup {None}
      /\ name \in Names \cup {None}
  BY FieldIsParent, FieldIsName DEF ObjectRow, ObjectResolution
<1>2. ResolvedRow(o, content)
        = [objects[o] EXCEPT !.revision = revision, !.parent = parent,
                             !.name = name, !.deleted = FALSE]
  BY DEF ResolvedRow
<1> HIDE DEF revision, parent, name
<1> QED  BY <1>1, <1>2 DEF ObjectRow

-----------------------------------------------------------------------------
(* Type correctness.  A conflict that exists names an object: the events of
   its resolution carry that object.                                        *)

ConflictsNamed == \A c \in ConflictIds : Exist(c) => conflicts[c].object \in Objects

TypeInv == TypeOK /\ ConflictsNamed

LEMMA InitTyped == Init => TypeInv
BY DEF Init, TypeInv, TypeOK, ConflictsNamed, Exist, NoObjectRow, ObjectRow,
   NoDocumentRow, DocumentRow, NoConflictRow, ConflictRow, NoSession, SessionRow,
   Kinds, ConflictTypes

LEMMA RecordOnlyTyped ==
  ASSUME TypeInv, NEW id \in CommandIds, NEW status \in {"applied", "conflict"},
         RecordOnly(id, status)
  PROVE  TypeInv'
BY DEF RecordOnly, Record, objectTables, documentTables, TypeInv, TypeOK,
   ConflictsNamed, Exist

LEMMA WriteObjectTyped ==
  ASSUME TypeOK, NEW o \in Objects, NEW row \in ObjectRow, NEW n \in Nat,
         WriteObject(o, row, n)
  PROVE  objects' \in [Objects -> ObjectRow] /\ versions' \subseteq VersionRow
BY VersionIsRow DEF TypeOK, WriteObject

LEMMA NewConflictTyped ==
  ASSUME TypeInv, NEW c \in ConflictIds, NEW row \in ConflictRow,
         row.object \in Objects,
         conflicts' = [conflicts EXCEPT ![c] = row]
  PROVE  conflicts' \in [ConflictIds -> ConflictRow] /\ ConflictsNamed'
BY DEF TypeInv, TypeOK, ConflictsNamed, Exist

LEMMA UpsertObjectTyped ==
  ASSUME TypeInv, NEW id \in CommandIds, NEW r \in Requests, UpsertObject(id, r)
  PROVE  TypeInv'
<1> DEFINE row == UpsertedRow(r)
<1>1. r \in UpsertRequest /\ r.object \in Objects /\ r.resources \in SUBSET Objects
  BY UpsertShape DEF UpsertObject, UpsertRequest
<1>2. row \in ObjectRow /\ row.revision \in Nat
  BY <1>1, UpsertedIsRow DEF TypeInv, TypeOK, ObjectRow
<1>3. /\ WriteObject(r.object, row, 1)
      /\ bindings' = bindings \cup Bind(r.object, row.revision, r.resources)
      /\ events' = events \cup {ObjectEvent(1, id, r.object, row)}
  BY DEF UpsertObject
<1> HIDE DEF row
<1>4. objects' \in [Objects -> ObjectRow] /\ versions' \subseteq VersionRow
  BY <1>1, <1>2, <1>3, WriteObjectTyped DEF TypeInv
<1>5. bindings' \subseteq BindingRow
  BY <1>1, <1>2, <1>3, BindIsRows DEF TypeInv, TypeOK
<1>6. events' \subseteq EventRow
  <2>1. latestSequence \in Nat /\ events \subseteq EventRow
    BY DEF TypeInv, TypeOK
  <2>2. ObjectEvent(1, id, r.object, row) \in EventRow
    BY <1>1, <1>2, <2>1, ObjectEventIsRow
  <2> QED
    BY <1>3, <2>1, <2>2
<1> QED
  BY <1>4, <1>5, <1>6 DEF UpsertObject, Record, NextSequence, documentTables,
     TypeInv, TypeOK, ConflictsNamed, Exist

LEMMA UpsertSameNameTyped ==
  ASSUME TypeInv, NEW id \in CommandIds, NEW r \in Requests, UpsertSameName(id, r)
  PROVE  TypeInv'
<1> DEFINE row == UpsertedRow(r)
           k == NewConflict(r.object, "same-name", row.revision, None, 2)
<1>1. /\ r \in UpsertRequest
      /\ r.object \in Objects
      /\ r.resources \in SUBSET Objects
      /\ r.conflict \in ConflictIds
  BY UpsertShape DEF UpsertSameName, UpsertRequest
<1>2. row \in ObjectRow /\ row.revision \in Nat
  BY <1>1, UpsertedIsRow DEF TypeInv, TypeOK, ObjectRow
<1>3. /\ WriteObject(r.object, row, 1)
      /\ bindings' = bindings \cup Bind(r.object, row.revision, r.resources)
      /\ conflicts' = [conflicts EXCEPT ![r.conflict] = k]
      /\ events' = events \cup
           {ObjectEvent(1, id, r.object, row),
            ConflictEvent(2, id, "conflict.created", r.object, r.conflict)}
  BY DEF UpsertSameName
<1>4. k \in ConflictRow /\ k.object \in Objects
  BY <1>1, <1>2, NewConflictIsRow DEF TypeInv, TypeOK, ConflictTypes
<1> HIDE DEF row, k
<1>5. objects' \in [Objects -> ObjectRow] /\ versions' \subseteq VersionRow
  BY <1>1, <1>2, <1>3, WriteObjectTyped DEF TypeInv
<1>6. bindings' \subseteq BindingRow
  BY <1>1, <1>2, <1>3, BindIsRows DEF TypeInv, TypeOK
<1>7. events' \subseteq EventRow
  BY <1>1, <1>2, <1>3, ObjectEventIsRow, ConflictEventIsRow DEF TypeInv, TypeOK
<1>8. conflicts' \in [ConflictIds -> ConflictRow] /\ ConflictsNamed'
  BY <1>1, <1>3, <1>4, NewConflictTyped
<1> QED
  BY <1>5, <1>6, <1>7, <1>8 DEF UpsertSameName, Record, NextSequence,
     documentTables, TypeInv, TypeOK

LEMMA DeleteObjectTyped ==
  ASSUME TypeInv, NEW id \in CommandIds, NEW r \in Requests, DeleteObject(id, r)
  PROVE  TypeInv'
<1> DEFINE row == DeletedRow(r)
<1>1. r \in DeleteRequest /\ r.object \in Objects
  BY DeleteShape DEF DeleteObject, DeleteRequest
<1>2. row \in ObjectRow
  BY <1>1, DeletedIsRow DEF TypeInv, TypeOK
<1>3. /\ WriteObject(r.object, row, 1)
      /\ events' = events \cup {ObjectEvent(1, id, r.object, row)}
  BY DEF DeleteObject
<1> HIDE DEF row
<1>4. objects' \in [Objects -> ObjectRow] /\ versions' \subseteq VersionRow
  BY <1>1, <1>2, <1>3, WriteObjectTyped DEF TypeInv
<1>5. events' \subseteq EventRow
  BY <1>1, <1>2, <1>3, ObjectEventIsRow DEF TypeInv, TypeOK
<1> QED
  BY <1>4, <1>5 DEF DeleteObject, Record, NextSequence, documentTables,
     TypeInv, TypeOK, ConflictsNamed, Exist

(* A command that only opens a conflict.                                    *)
LEMMA OpenConflictTyped ==
  ASSUME TypeInv, NEW id \in CommandIds, NEW status \in {"applied", "conflict"},
         NEW o \in Objects, NEW c \in ConflictIds, NEW type \in ConflictTypes,
         NEW revision \in Nat \cup {None}, NEW seen \in Nat \cup {None},
         conflicts' = [conflicts EXCEPT ![c] = NewConflict(o, type, revision, seen, 1)],
         events' = events \cup {ConflictEvent(1, id, "conflict.created", o, c)},
         latestSequence' = NextSequence(1),
         Record(id, status),
         UNCHANGED <<objectTables, documentTables, sessions>>
  PROVE  TypeInv'
<1> DEFINE k == NewConflict(o, type, revision, seen, 1)
<1>1. k \in ConflictRow /\ k.object \in Objects
  BY NewConflictIsRow DEF TypeInv, TypeOK
<1>2. conflicts' = [conflicts EXCEPT ![c] = k]
  OBVIOUS
<1> HIDE DEF k
<1>3. conflicts' \in [ConflictIds -> ConflictRow] /\ ConflictsNamed'
  BY <1>1, <1>2, NewConflictTyped
<1>4. events' \subseteq EventRow
  BY ConflictEventIsRow DEF TypeInv, TypeOK
<1> QED
  BY <1>3, <1>4 DEF Record, NextSequence, objectTables, documentTables,
     TypeInv, TypeOK

LEMMA DeleteVersusEditTyped ==
  ASSUME TypeInv, NEW id \in CommandIds, NEW r \in Requests, DeleteVersusEdit(id, r)
  PROVE  TypeInv'
<1>1. /\ r.object \in Objects
      /\ r.conflict \in ConflictIds
      /\ r.base \in Nat \cup {None}
      /\ r.seen \in Nat \cup {None}
  BY DeleteShape DEF DeleteVersusEdit, DeleteRequest
<1>2. "delete-vs-edit" \in ConflictTypes
  BY DEF ConflictTypes
<1> QED  BY <1>1, <1>2, OpenConflictTyped DEF DeleteVersusEdit

LEMMA DeleteSubtreeVersusEditTyped ==
  ASSUME TypeInv, NEW id \in CommandIds, NEW r \in Requests,
         DeleteSubtreeVersusEdit(id, r)
  PROVE  TypeInv'
<1>1. r.root \in Objects /\ r.conflict \in ConflictIds
  BY SubtreeShape DEF DeleteSubtreeVersusEdit, SubtreeRequest
<1>2. objects[r.root].revision \in Nat \cup {None}
  BY <1>1 DEF TypeInv, TypeOK, ObjectRow
<1>3. "delete-subtree-vs-edit" \in ConflictTypes
  BY DEF ConflictTypes
<1> QED  BY <1>1, <1>2, <1>3, OpenConflictTyped DEF DeleteSubtreeVersusEdit

LEMMA CreateConflictTyped ==
  ASSUME TypeInv, NEW id \in CommandIds, NEW r \in Requests, CreateConflict(id, r)
  PROVE  TypeInv'
<1>1. r \in ConflictRequest
  BY ConflictShape DEF CreateConflict
<1> QED  BY <1>1, OpenConflictTyped DEF CreateConflict, ConflictRequest

LEMMA DeleteSubtreeTyped ==
  ASSUME TypeInv, NEW id \in CommandIds, NEW r \in Requests, DeleteSubtree(id, r)
  PROVE  TypeInv'
<1>1. r.items \in SUBSET Objects
  BY SubtreeShape DEF DeleteSubtree, SubtreeRequest
<1>2. Cardinality(r.items) \in Nat
  BY <1>1, ObjectsAssumption, FS_Subset, FS_CardinalityType
<1> DEFINE deletes == 1..Cardinality(r.items)
<1>3. PICK order \in DeletionOrders(r.items) :
        /\ objects' = [o \in Objects |->
                         IF o \in r.items THEN Tombstone(o) ELSE objects[o]]
        /\ versions' = versions \cup
             {Version(n, order[n], Tombstone(order[n])) : n \in deletes}
        /\ events' = events \cup
             {ObjectEvent(n, id, order[n], Tombstone(order[n])) : n \in deletes}
  BY DEF DeleteSubtree
<1>4. \A n \in deletes : n \in Nat /\ order[n] \in Objects
  BY <1>1, <1>2 DEF DeletionOrders
<1> HIDE DEF deletes
<1>5. \A o \in Objects : Tombstone(o) \in ObjectRow
  BY TombstoneIsRow DEF TypeInv, TypeOK
<1>6. objects' \in [Objects -> ObjectRow]
  BY <1>3, <1>5 DEF TypeInv, TypeOK
<1>7. versions' \subseteq VersionRow
  BY <1>3, <1>4, <1>5, VersionIsRow DEF TypeInv, TypeOK
<1>8. events' \subseteq EventRow
  BY <1>3, <1>4, <1>5, ObjectEventIsRow DEF TypeInv, TypeOK
<1> QED
  BY <1>2, <1>6, <1>7, <1>8 DEF DeleteSubtree, Record, NextSequence,
     documentTables, TypeInv, TypeOK, ConflictsNamed, Exist

LEMMA AppendUpdateTyped ==
  ASSUME TypeInv, NEW id \in CommandIds, NEW r \in Requests, AppendUpdate(id, r)
  PROVE  TypeInv'
<1> DEFINE d == r.document
           next == documents[d].latest + 1
<1>1. /\ d \in Documents
      /\ r.object \in Objects
      /\ r.update \in UpdateIds
      /\ r.update \in UpdateIds \cup {None}
  BY AppendShape DEF AppendUpdate, AppendRequest
<1>2. next \in Nat
  BY <1>1 DEF TypeInv, TypeOK, DocumentRow
<1>3. /\ documents' = [documents EXCEPT ![d].object = r.object, ![d].latest = next]
      /\ updates' = updates \cup
           {[document |-> d, sequence |-> next, update |-> r.update,
             event |-> latestSequence + 1]}
      /\ events' = events \cup
           {DocumentEvent(1, id, "document.updated", d, r.object, next, r.update)}
  BY DEF AppendUpdate
<1> HIDE DEF next
<1>4. DocumentEvent(1, id, "document.updated", d, r.object, next, r.update) \in EventRow
  BY <1>1, <1>2, DocumentEventIsRow DEF TypeInv, TypeOK
<1> HIDE DEF d
<1>5. documents' \in [Documents -> DocumentRow]
  BY <1>1, <1>2, <1>3, ZenonT(60) DEF TypeInv, TypeOK, DocumentRow
<1>6. updates' \subseteq UpdateRow
  BY <1>1, <1>2, <1>3 DEF TypeInv, TypeOK, UpdateRow
<1>7. events' \subseteq EventRow
  BY <1>3, <1>4 DEF TypeInv, TypeOK
<1> QED
  BY <1>5, <1>6, <1>7 DEF AppendUpdate, Record, NextSequence, objectTables,
     TypeInv, TypeOK, ConflictsNamed, Exist

LEMMA WriteCheckpointTyped ==
  ASSUME TypeOK, NEW d \in Documents, NEW checkpoint \in CheckpointIds,
         NEW latest \in Nat, NEW covers \in Nat, NEW n \in Nat,
         WriteCheckpoint(d, checkpoint, latest, covers, n)
  PROVE  /\ documents' \in [Documents -> DocumentRow]
         /\ updates' \subseteq UpdateRow
         /\ checkpoints' \subseteq CheckpointRow
<1>1. documents' \in [Documents -> DocumentRow]
  BY ZenonT(60) DEF WriteCheckpoint, TypeOK, DocumentRow
<1>2. updates' \subseteq UpdateRow
  BY DEF WriteCheckpoint, PruneCoveredUpdates, TypeOK
<1>3. checkpoints' \subseteq CheckpointRow
  BY DEF WriteCheckpoint, TypeOK, CheckpointRow
<1> QED  BY <1>1, <1>2, <1>3

LEMMA CommitCheckpointTyped ==
  ASSUME TypeInv, NEW id \in CommandIds, NEW r \in Requests, CommitCheckpoint(id, r)
  PROVE  TypeInv'
<1> DEFINE d == r.document
<1>1. /\ d \in Documents
      /\ r.object \in Objects
      /\ r.checkpoint \in CheckpointIds
      /\ r.covers \in Nat
      /\ documents[d].latest \in Nat
  BY CheckpointShape DEF CommitCheckpoint, CheckpointRequest, TypeInv, TypeOK,
     DocumentRow
<1>2. /\ WriteCheckpoint(d, r.checkpoint, documents[d].latest, r.covers, 1)
      /\ events' = events \cup
           {DocumentEvent(1, id, "document.checkpointed", d, r.object, r.covers, None)}
  BY DEF CommitCheckpoint
<1> HIDE DEF d
<1>3. events' \subseteq EventRow
  BY <1>1, <1>2, DocumentEventIsRow DEF TypeInv, TypeOK
<1> QED
  BY <1>1, <1>2, <1>3, WriteCheckpointTyped DEF CommitCheckpoint, Record,
     NextSequence, objectTables, TypeInv, TypeOK, ConflictsNamed, Exist

(* Closing a conflict, given that the events before the last are events.    *)
LEMMA CloseConflictTyped ==
  ASSUME TypeInv, NEW id \in CommandIds, NEW r \in ResolveRequest,
         Exist(r.conflict), NEW n \in Nat, NEW new, new \subseteq EventRow,
         CloseConflict(id, r, n, new)
  PROVE  /\ conflicts' \in [ConflictIds -> ConflictRow]
         /\ ConflictsNamed'
         /\ events' \subseteq EventRow
         /\ latestSequence' \in Nat
         /\ commands' \in [CommandIds -> {"absent", "applied", "conflict"}]
         /\ sessions' \in [Sessions -> SessionRow]
<1> DEFINE c == r.conflict
<1>1. c \in ConflictIds /\ conflicts[c].object \in Objects
  BY DEF ResolveRequest, TypeInv, ConflictsNamed
<1>2. /\ conflicts' = [conflicts EXCEPT ![c].status = "resolved",
                                        ![c].resolved = latestSequence + n]
      /\ events' = events \cup new \cup
           {ConflictEvent(n, id, "conflict.resolved", conflicts[c].object, c)}
  BY DEF CloseConflict
<1>3. Exist(c)
  OBVIOUS
<1> HIDE DEF c
<1>4. conflicts' \in [ConflictIds -> ConflictRow]
  <2> DEFINE at == latestSequence + n
             row == [conflicts[c] EXCEPT !.status = "resolved", !.resolved = at]
  <2>1. at \in Nat /\ conflicts[c] \in ConflictRow
    BY <1>1 DEF TypeInv, TypeOK
  <2> HIDE DEF at
  <2>2. row \in ConflictRow
    BY <2>1 DEF ConflictRow
  <2>3. conflicts' = [conflicts EXCEPT ![c] = row]
    BY <1>1, <1>2 DEF at, TypeInv, TypeOK
  <2> HIDE DEF row
  <2> QED  BY <1>1, <2>2, <2>3 DEF TypeInv, TypeOK
<1>5. ConflictsNamed'
  <2>1. \A x \in ConflictIds : conflicts'[x].object = conflicts[x].object
    BY <1>1, <1>2 DEF TypeInv, TypeOK, ConflictRow
  <2>2. \A x \in ConflictIds \ {c} : conflicts'[x] = conflicts[x]
    BY <1>1, <1>2 DEF TypeInv, TypeOK
  <2> QED  BY <1>3, <2>1, <2>2 DEF TypeInv, ConflictsNamed, Exist
<1>6. events' \subseteq EventRow
  BY <1>1, <1>2, ConflictEventIsRow DEF TypeInv, TypeOK
<1> QED
  BY <1>4, <1>5, <1>6 DEF CloseConflict, Record, NextSequence, TypeInv, TypeOK

LEMMA BaselineTyped ==
  ASSUME TypeInv, NEW id \in CommandIds, NEW r \in ResolveRequest,
         Exist(r.conflict), r.baseline # None, NEW n \in Nat,
         WriteBaseline(r, n)
  PROVE  /\ BaselineEvent(id, r, n) \in EventRow
         /\ documents' \in [Documents -> DocumentRow]
         /\ updates' \subseteq UpdateRow
         /\ checkpoints' \subseteq CheckpointRow
<1> DEFINE seen == r.baseline.seen + 1
           o == conflicts[r.conflict].object
<1>1. /\ r.baseline.document \in Documents
      /\ r.baseline.checkpoint \in CheckpointIds
      /\ seen \in Nat
      /\ o \in Objects
  BY DEF ResolveRequest, DocumentResolution, TypeInv, ConflictsNamed
<1>2. /\ WriteCheckpoint(r.baseline.document, r.baseline.checkpoint, seen, seen, n)
      /\ BaselineEvent(id, r, n)
           = DocumentEvent(n, id, "document.checkpointed", r.baseline.document, o,
                           seen, None)
  BY DEF WriteBaseline, BaselineEvent
<1> HIDE DEF seen, o
<1> QED
  BY <1>1, <1>2, WriteCheckpointTyped, DocumentEventIsRow DEF TypeInv, TypeOK

LEMMA ResolveDismissTyped ==
  ASSUME TypeInv, NEW id \in CommandIds, NEW r \in Requests, ResolveDismiss(id, r)
  PROVE  TypeInv'
<1>1. r \in ResolveRequest /\ Exist(r.conflict)
  BY ResolveShape DEF ResolveDismiss, Resolvable, ResolveAllowed
<1> QED
  BY <1>1, CloseConflictTyped DEF ResolveDismiss, objectTables, documentTables,
     TypeInv, TypeOK

LEMMA ResolveBaselineTyped ==
  ASSUME TypeInv, NEW id \in CommandIds, NEW r \in Requests, ResolveBaseline(id, r)
  PROVE  TypeInv'
<1>1. r \in ResolveRequest /\ Exist(r.conflict)
  BY ResolveShape DEF ResolveBaseline, Resolvable, ResolveAllowed
<1>2. /\ r.baseline # None
      /\ WriteBaseline(r, 1)
      /\ CloseConflict(id, r, 2, {BaselineEvent(id, r, 1)})
      /\ UNCHANGED objectTables
  BY DEF ResolveBaseline
<1> DEFINE new == {BaselineEvent(id, r, 1)}
<1>3. new \subseteq EventRow
  BY <1>1, <1>2, BaselineTyped
<1> HIDE DEF new
<1>4. CloseConflict(id, r, 2, new)
  BY <1>2 DEF new
<1> QED
  BY <1>1, <1>2, <1>3, <1>4, BaselineTyped, CloseConflictTyped
     DEF objectTables, TypeInv, TypeOK

LEMMA ResolveDeleteTyped ==
  ASSUME TypeInv, NEW id \in CommandIds, NEW r \in Requests, ResolveDelete(id, r)
  PROVE  TypeInv'
<1> DEFINE o == conflicts[r.conflict].object
           row == Tombstone(o)
           event == ObjectEvent(1, id, o, row)
           new == {[event EXCEPT !.parent = None]}
<1>1. r \in ResolveRequest /\ Exist(r.conflict)
  BY ResolveShape DEF ResolveDelete, Resolvable, ResolveAllowed
<1>2. o \in Objects
  BY <1>1 DEF ResolveRequest, TypeInv, ConflictsNamed
<1>3. /\ WriteObject(o, row, 1)
      /\ CloseConflict(id, r, 2, new)
      /\ UNCHANGED <<bindings, documentTables>>
  BY DEF ResolveDelete
<1>4. row \in ObjectRow
  BY <1>2, TombstoneIsRow DEF TypeInv, TypeOK
<1> HIDE DEF o, row
<1>5. event \in EventRow
  BY <1>2, <1>4, ObjectEventIsRow DEF TypeInv, TypeOK
<1> HIDE DEF event
<1>6. new \subseteq EventRow
  BY <1>5 DEF EventRow
<1> HIDE DEF new
<1>7. objects' \in [Objects -> ObjectRow] /\ versions' \subseteq VersionRow
  BY <1>2, <1>3, <1>4, WriteObjectTyped DEF TypeInv
<1> QED
  BY <1>1, <1>3, <1>6, <1>7, CloseConflictTyped DEF documentTables, TypeInv, TypeOK

LEMMA ResolveContentTyped ==
  ASSUME TypeInv, NEW id \in CommandIds, NEW r \in Requests, ResolveContent(id, r)
  PROVE  TypeInv'
<1> DEFINE o == conflicts[r.conflict].object
           row == ResolvedRow(o, r.content)
           resources == ResolvedResources(o, r.content)
           event == ObjectEvent(1, id, o, row)
<1>1. /\ r \in ResolveRequest
      /\ Exist(r.conflict)
      /\ r.content # None
  BY ResolveShape DEF ResolveContent, Resolvable, ResolveAllowed
<1>2. o \in Objects /\ r.content \in ObjectResolution
  BY <1>1 DEF ResolveRequest, TypeInv, ConflictsNamed
<1>3. /\ WriteObject(o, row, 1)
      /\ bindings' = bindings \cup Bind(o, row.revision, resources)
      /\ \/ /\ r.baseline = None
            /\ CloseConflict(id, r, 2, {event})
            /\ UNCHANGED documentTables
         \/ /\ r.baseline # None
            /\ WriteBaseline(r, 2)
            /\ CloseConflict(id, r, 3, {event, BaselineEvent(id, r, 2)})
  BY DEF ResolveContent
<1>4. row \in ObjectRow /\ row.revision \in Nat
  BY <1>2, ResolvedIsRow DEF TypeInv, TypeOK, ObjectRow
<1>5. resources \in SUBSET Objects
  BY <1>2 DEF ResolvedResources, ObjectResolution, TypeInv, TypeOK, BindingRow
<1> HIDE DEF o, row, resources
<1>6. event \in EventRow
  BY <1>2, <1>4, ObjectEventIsRow DEF TypeInv, TypeOK
<1> HIDE DEF event
<1>7. objects' \in [Objects -> ObjectRow] /\ versions' \subseteq VersionRow
  BY <1>2, <1>3, <1>4, WriteObjectTyped DEF TypeInv
<1>8. bindings' \subseteq BindingRow
  BY <1>2, <1>3, <1>4, <1>5, BindIsRows DEF TypeInv, TypeOK
<1>9. CASE r.baseline = None
  <2>1. {event} \subseteq EventRow
    BY <1>6
  <2> QED
    BY <1>1, <1>3, <1>7, <1>8, <1>9, <2>1, CloseConflictTyped
       DEF documentTables, TypeInv, TypeOK
<1>10. CASE r.baseline # None
  <2> DEFINE new == {event, BaselineEvent(id, r, 2)}
  <2>1. WriteBaseline(r, 2) /\ CloseConflict(id, r, 3, new)
    BY <1>3, <1>10
  <2>2. new \subseteq EventRow
    BY <1>1, <1>6, <1>10, <2>1, BaselineTyped
  <2> HIDE DEF new
  <2>3. /\ documents' \in [Documents -> DocumentRow]
        /\ updates' \subseteq UpdateRow
        /\ checkpoints' \subseteq CheckpointRow
    BY <1>1, <1>10, <2>1, BaselineTyped
  <2> QED
    BY <1>1, <1>7, <1>8, <2>1, <2>2, <2>3, CloseConflictTyped DEF TypeInv, TypeOK
<1> QED  BY <1>9, <1>10

LEMMA BootstrapTyped ==
  ASSUME TypeInv, NEW s \in Sessions, OpenBootstrap(s) \/ CloseBootstrap(s)
  PROVE  TypeInv'
<1> DEFINE revisions == [o \in Objects |-> objects[o].revision]
           unresolved == {c \in ConflictIds : conflicts[c].status = "unresolved"}
           row == [open |-> TRUE, snapshot |-> latestSequence,
                   revisions |-> revisions, documents |-> documents,
                   unresolved |-> unresolved]
<1>1. revisions \in [Objects -> Nat] /\ unresolved \subseteq ConflictIds
  BY DEF TypeInv, TypeOK, ObjectRow
<1> HIDE DEF revisions, unresolved
<1>2. row \in SessionRow
  BY <1>1 DEF TypeInv, TypeOK, SessionRow
<1>3. NoSession \in SessionRow
  BY DEF NoSession, SessionRow, NoDocumentRow, DocumentRow
<1>4. CASE OpenBootstrap(s)
  <2>1. sessions' = [sessions EXCEPT ![s] = row]
    BY <1>4 DEF OpenBootstrap, revisions, unresolved
  <2> QED
    BY <1>2, <1>4, <2>1 DEF OpenBootstrap, objectTables, documentTables, TypeInv,
       TypeOK, ConflictsNamed, Exist
<1>5. CASE CloseBootstrap(s)
  BY <1>3, <1>5 DEF CloseBootstrap, objectTables, documentTables, TypeInv,
     TypeOK, ConflictsNamed, Exist
<1> QED  BY <1>4, <1>5

(* The commands that are recorded and change nothing else.                  *)
NoEffect(id, r) ==
  \/ StaleBase(id, r) \/ DeleteTombstone(id, r) \/ DeleteVersusEditAgain(id, r)
  \/ DeleteSubtreeAgain(id, r) \/ AppendAgain(id, r)
  \/ CreateConflictChanged(id, r) \/ CreateConflictAgain(id, r)
  \/ ResolveChanged(id, r) \/ ResolveAgain(id, r)

LEMMA NoEffectRecords ==
  ASSUME NEW id, NEW r, NoEffect(id, r)
  PROVE  \E status \in {"applied", "conflict"} : RecordOnly(id, status)
BY DEF NoEffect, StaleBase, DeleteTombstone, DeleteVersusEditAgain,
   DeleteSubtreeAgain, AppendAgain, CreateConflictChanged, CreateConflictAgain,
   ResolveChanged, ResolveAgain

(* What a command can do, one action at a time.                             *)
LEMMA CommandCases ==
  ASSUME NEW id, NEW r, Apply(id, r)
  PROVE  \/ NoEffect(id, r)
         \/ UpsertObject(id, r) \/ UpsertSameName(id, r) \/ DeleteObject(id, r)
         \/ DeleteVersusEdit(id, r) \/ DeleteSubtree(id, r)
         \/ DeleteSubtreeVersusEdit(id, r) \/ AppendUpdate(id, r)
         \/ CommitCheckpoint(id, r) \/ CreateConflict(id, r)
         \/ ResolveDismiss(id, r) \/ ResolveBaseline(id, r)
         \/ ResolveContent(id, r) \/ ResolveDelete(id, r)
BY DEF Apply, ObjectCommand, SubtreeCommand, DocumentCommand, ConflictCommand, NoEffect

LEMMA StepTyped ==
  ASSUME TypeInv, [Next]_vars
  PROVE  TypeInv'
<1>1. CASE UNCHANGED vars
  BY <1>1 DEF vars, TypeInv, TypeOK, ConflictsNamed, Exist
<1>2. ASSUME NEW s \in Sessions, OpenBootstrap(s) \/ CloseBootstrap(s)
      PROVE  TypeInv'
  BY <1>2, BootstrapTyped
<1>3. ASSUME NEW id \in CommandIds, NEW r \in Requests, Apply(id, r)
      PROVE  TypeInv'
  <2>1. CASE NoEffect(id, r)
    BY <2>1, NoEffectRecords, RecordOnlyTyped
  <2> QED
    BY <1>3, <2>1, CommandCases, UpsertObjectTyped, UpsertSameNameTyped,
       DeleteObjectTyped, DeleteVersusEditTyped, DeleteSubtreeTyped,
       DeleteSubtreeVersusEditTyped, AppendUpdateTyped, CommitCheckpointTyped,
       CreateConflictTyped, ResolveDismissTyped, ResolveBaselineTyped,
       ResolveContentTyped, ResolveDeleteTyped
<1> QED  BY <1>1, <1>2, <1>3 DEF Next, Command

(* Every row of every table keeps its columns' types, whatever commands and
   bootstrap sessions there are.                                            *)
THEOREM TypeCorrect == Spec => []TypeOK
<1>1. Init => TypeInv
  BY InitTyped
<1>2. TypeInv /\ [Next]_vars => TypeInv'
  BY StepTyped
<1>3. TypeInv => TypeOK
  BY DEF TypeInv
<1> QED  BY <1>1, <1>2, <1>3, PTL DEF Spec

-----------------------------------------------------------------------------
(***************************************************************************)
(* The event log of a workspace has no gap and no double sequence: what    *)
(* Pull relies on to notice that it missed something.                      *)
(***************************************************************************)

(* The n new events of a command carry the n sequences it takes.            *)
Publishes(new, n) ==
  /\ {e.sequence : e \in new} = (latestSequence + 1)..(latestSequence + n)
  /\ \A e, f \in new : e.sequence = f.sequence => e = f
  /\ events' = events \cup new
  /\ latestSequence' = NextSequence(n)

LEMMA LogGrows ==
  ASSUME TypeOK, EventLogComplete, NEW n \in Nat, NEW new, Publishes(new, n)
  PROVE  EventLogComplete'
<1>1. latestSequence \in Nat /\ latestSequence' = latestSequence + n
  BY DEF TypeOK, Publishes, NextSequence
<1>2. events' = events \cup new
  BY DEF Publishes
<1>3. \A e \in events : e.sequence \in 1..latestSequence
  BY DEF EventLogComplete
<1>4. \A e \in new : e.sequence \in (latestSequence + 1)..(latestSequence + n)
  BY DEF Publishes
<1>5. {e.sequence : e \in events'} = 1..latestSequence'
  <2>1. \A e \in events' : e.sequence \in 1..latestSequence'
    BY <1>1, <1>2, <1>3, <1>4
  <2>2. ASSUME NEW i \in 1..latestSequence'
        PROVE  \E e \in events' : e.sequence = i
    <3>1. CASE i \in 1..latestSequence
      BY <1>2, <3>1 DEF EventLogComplete
    <3>2. CASE i \in (latestSequence + 1)..(latestSequence + n)
      BY <1>2, <3>2 DEF Publishes
    <3> QED  BY <1>1, <3>1, <3>2
  <2> QED  BY <2>1, <2>2
<1>6. ASSUME NEW e \in events', NEW f \in events', e.sequence = f.sequence
      PROVE  e = f
  <2>1. CASE e \in events /\ f \in events
    BY <1>6, <2>1 DEF EventLogComplete
  <2>2. CASE e \in new /\ f \in new
    BY <1>6, <2>2 DEF Publishes
  <2>3. ~(e \in events /\ f \in new) /\ ~(e \in new /\ f \in events)
    BY <1>1, <1>3, <1>4, <1>6
  <2> QED  BY <1>2, <2>1, <2>2, <2>3
<1> QED  BY <1>5, <1>6 DEF EventLogComplete

-----------------------------------------------------------------------------
(* The sequence each row builder puts on its event.                         *)

LEMMA EventSequences ==
  /\ \A n, id, o, row : ObjectEvent(n, id, o, row).sequence = latestSequence + n
  /\ \A n, id, type, o, c :
       ConflictEvent(n, id, type, o, c).sequence = latestSequence + n
  /\ \A n, id, type, d, o, s, u :
       DocumentEvent(n, id, type, d, o, s, u).sequence = latestSequence + n
  /\ \A n, id, r : BaselineEvent(id, r, n).sequence = latestSequence + n
BY DEF ObjectEvent, ConflictEvent, DocumentEvent, BaselineEvent, Event

LEMMA OnePublished ==
  ASSUME TypeOK, NEW e, e.sequence = latestSequence + 1,
         events' = events \cup {e}, latestSequence' = NextSequence(1)
  PROVE  Publishes({e}, 1)
BY DEF TypeOK, Publishes

LEMMA TwoPublished ==
  ASSUME TypeOK, NEW e, NEW f,
         e.sequence = latestSequence + 1, f.sequence = latestSequence + 2,
         events' = events \cup {e, f}, latestSequence' = NextSequence(2)
  PROVE  Publishes({e, f}, 2)
BY DEF TypeOK, Publishes

LEMMA ThreePublished ==
  ASSUME TypeOK, NEW e, NEW f, NEW g,
         e.sequence = latestSequence + 1, f.sequence = latestSequence + 2,
         g.sequence = latestSequence + 3,
         events' = events \cup {e, f, g}, latestSequence' = NextSequence(3)
  PROVE  Publishes({e, f, g}, 3)
BY DEF TypeOK, Publishes

LEMMA SubtreePublishes ==
  ASSUME TypeOK, NEW id \in CommandIds, NEW r \in Requests, DeleteSubtree(id, r)
  PROVE  \E n \in Nat : \E new : Publishes(new, n)
<1> DEFINE n == Cardinality(r.items)
<1>1. n \in Nat
  <2>1. r.items \in SUBSET Objects
    BY SubtreeShape DEF DeleteSubtree, SubtreeRequest
  <2> QED  BY <2>1, ObjectsAssumption, FS_Subset, FS_CardinalityType
<1>2. PICK order \in DeletionOrders(r.items) :
        events' = events \cup {ObjectEvent(i, id, order[i], Tombstone(order[i])) : i \in 1..n}
  BY DEF DeleteSubtree
<1> DEFINE event(i) == ObjectEvent(i, id, order[i], Tombstone(order[i]))
           new == {event(i) : i \in 1..n}
<1>3. latestSequence' = NextSequence(n) /\ events' = events \cup new
  BY <1>2 DEF DeleteSubtree
<1>4. \A i \in 1..n : event(i).sequence = latestSequence + i
  BY EventSequences
<1> HIDE DEF n, event
<1>5. {e.sequence : e \in new} = (latestSequence + 1)..(latestSequence + n)
  <2>1. \A e \in new : e.sequence \in (latestSequence + 1)..(latestSequence + n)
    BY <1>1, <1>4 DEF TypeOK
  <2>2. ASSUME NEW k \in (latestSequence + 1)..(latestSequence + n)
        PROVE  \E e \in new : e.sequence = k
    <3>1. k - latestSequence \in 1..n /\ latestSequence + (k - latestSequence) = k
      BY <1>1 DEF TypeOK
    <3> QED  BY <1>4, <3>1
  <2> QED  BY <2>1, <2>2
<1>6. \A e, f \in new : e.sequence = f.sequence => e = f
  BY <1>1, <1>4 DEF TypeOK
<1> QED  BY <1>1, <1>3, <1>5, <1>6 DEF Publishes

(* Every command that has an effect publishes an event at each sequence.    *)
LEMMA EffectsPublish ==
  ASSUME TypeOK, NEW id \in CommandIds, NEW r \in Requests, Apply(id, r),
         ~NoEffect(id, r)
  PROVE  \E n \in Nat : \E new : Publishes(new, n)
<1>1. CASE UpsertObject(id, r)
  <2> DEFINE e == ObjectEvent(1, id, r.object, UpsertedRow(r))
  <2>1. events' = events \cup {e} /\ latestSequence' = NextSequence(1)
    BY <1>1 DEF UpsertObject
  <2>2. e.sequence = latestSequence + 1
    BY EventSequences
  <2> HIDE DEF e
  <2> QED  BY <2>1, <2>2, OnePublished
<1>2. CASE UpsertSameName(id, r)
  <2> DEFINE e == ObjectEvent(1, id, r.object, UpsertedRow(r))
             f == ConflictEvent(2, id, "conflict.created", r.object, r.conflict)
  <2>1. events' = events \cup {e, f} /\ latestSequence' = NextSequence(2)
    BY <1>2 DEF UpsertSameName
  <2>2. e.sequence = latestSequence + 1 /\ f.sequence = latestSequence + 2
    BY EventSequences
  <2> HIDE DEF e, f
  <2> QED  BY <2>1, <2>2, TwoPublished
<1>3. CASE DeleteObject(id, r)
  <2> DEFINE e == ObjectEvent(1, id, r.object, DeletedRow(r))
  <2>1. events' = events \cup {e} /\ latestSequence' = NextSequence(1)
    BY <1>3 DEF DeleteObject
  <2>2. e.sequence = latestSequence + 1
    BY EventSequences
  <2> HIDE DEF e
  <2> QED  BY <2>1, <2>2, OnePublished
<1>4. CASE DeleteVersusEdit(id, r)
  <2> DEFINE e == ConflictEvent(1, id, "conflict.created", r.object, r.conflict)
  <2>1. events' = events \cup {e} /\ latestSequence' = NextSequence(1)
    BY <1>4 DEF DeleteVersusEdit
  <2>2. e.sequence = latestSequence + 1
    BY EventSequences
  <2> HIDE DEF e
  <2> QED  BY <2>1, <2>2, OnePublished
<1>5. CASE DeleteSubtree(id, r)
  BY <1>5, SubtreePublishes
<1>6. CASE DeleteSubtreeVersusEdit(id, r)
  <2> DEFINE e == ConflictEvent(1, id, "conflict.created", r.root, r.conflict)
  <2>1. events' = events \cup {e} /\ latestSequence' = NextSequence(1)
    BY <1>6 DEF DeleteSubtreeVersusEdit
  <2>2. e.sequence = latestSequence + 1
    BY EventSequences
  <2> HIDE DEF e
  <2> QED  BY <2>1, <2>2, OnePublished
<1>7. CASE AppendUpdate(id, r)
  <2> DEFINE e == DocumentEvent(1, id, "document.updated", r.document, r.object,
                                documents[r.document].latest + 1, r.update)
  <2>1. events' = events \cup {e} /\ latestSequence' = NextSequence(1)
    BY <1>7 DEF AppendUpdate
  <2>2. e.sequence = latestSequence + 1
    BY EventSequences
  <2> HIDE DEF e
  <2> QED  BY <2>1, <2>2, OnePublished
<1>8. CASE CommitCheckpoint(id, r)
  <2> DEFINE e == DocumentEvent(1, id, "document.checkpointed", r.document, r.object,
                                r.covers, None)
  <2>1. events' = events \cup {e} /\ latestSequence' = NextSequence(1)
    BY <1>8 DEF CommitCheckpoint
  <2>2. e.sequence = latestSequence + 1
    BY EventSequences
  <2> HIDE DEF e
  <2> QED  BY <2>1, <2>2, OnePublished
<1>9. CASE CreateConflict(id, r)
  <2> DEFINE e == ConflictEvent(1, id, "conflict.created", r.object, r.conflict)
  <2>1. events' = events \cup {e} /\ latestSequence' = NextSequence(1)
    BY <1>9 DEF CreateConflict
  <2>2. e.sequence = latestSequence + 1
    BY EventSequences
  <2> HIDE DEF e
  <2> QED  BY <2>1, <2>2, OnePublished
<1> DEFINE closed(n) == ConflictEvent(n, id, "conflict.resolved",
                          conflicts[r.conflict].object, r.conflict)
           baseline(n) == BaselineEvent(id, r, n)
           written == ObjectEvent(1, id, conflicts[r.conflict].object,
                        ResolvedRow(conflicts[r.conflict].object, r.content))
           deleted == [ObjectEvent(1, id, conflicts[r.conflict].object,
                         Tombstone(conflicts[r.conflict].object))
                         EXCEPT !.parent = None]
<1>10. /\ \A n : closed(n).sequence = latestSequence + n
       /\ \A n : baseline(n).sequence = latestSequence + n
       /\ written.sequence = latestSequence + 1
       /\ deleted.sequence = latestSequence + 1
  BY EventSequences DEF ObjectEvent, Event
<1> HIDE DEF closed, baseline, written, deleted
<1>11. CASE ResolveDismiss(id, r)
  <2>1. events' = events \cup {closed(1)} /\ latestSequence' = NextSequence(1)
    BY <1>11 DEF ResolveDismiss, CloseConflict, closed
  <2> QED  BY <1>10, <2>1, OnePublished
<1>12. CASE ResolveBaseline(id, r)
  <2>1. events' = events \cup {baseline(1), closed(2)} /\ latestSequence' = NextSequence(2)
    BY <1>12 DEF ResolveBaseline, CloseConflict, closed, baseline
  <2> QED  BY <1>10, <2>1, TwoPublished
<1>13. CASE ResolveDelete(id, r)
  <2>1. events' = events \cup {deleted, closed(2)} /\ latestSequence' = NextSequence(2)
    BY <1>13 DEF ResolveDelete, CloseConflict, closed, deleted
  <2> QED  BY <1>10, <2>1, TwoPublished
<1>14. CASE ResolveContent(id, r)
  <2>1. CASE r.baseline = None
    <3>1. events' = events \cup {written, closed(2)} /\ latestSequence' = NextSequence(2)
      BY <1>14, <2>1 DEF ResolveContent, CloseConflict, closed, written
    <3> QED  BY <1>10, <3>1, TwoPublished
  <2>2. CASE r.baseline # None
    <3>1. /\ events' = events \cup {written, baseline(2), closed(3)}
          /\ latestSequence' = NextSequence(3)
      BY <1>14, <2>2 DEF ResolveContent, CloseConflict, closed, written, baseline
    <3> QED  BY <1>10, <3>1, ThreePublished
  <2> QED  BY <2>1, <2>2
<1> QED
  BY CommandCases, <1>1, <1>2, <1>3, <1>4, <1>5, <1>6, <1>7, <1>8, <1>9, <1>11,
     <1>12, <1>13, <1>14

LEMMA LogStep ==
  ASSUME TypeOK, EventLogComplete, [Next]_vars
  PROVE  EventLogComplete'
<1>1. CASE UNCHANGED <<latestSequence, events>>
  BY <1>1 DEF EventLogComplete
<1>2. ASSUME NEW id \in CommandIds, NEW r \in Requests, Apply(id, r)
      PROVE  EventLogComplete'
  <2>1. CASE NoEffect(id, r)
    BY <1>1, <2>1, NoEffectRecords DEF RecordOnly
  <2>2. CASE ~NoEffect(id, r)
    BY <1>2, <2>2, EffectsPublish, LogGrows
  <2> QED  BY <2>1, <2>2
<1> QED
  BY <1>1, <1>2 DEF Next, Command, OpenBootstrap, CloseBootstrap, vars

(* Whatever the requests and however many sequences a command takes, the log
   has exactly one event at each sequence handed out.                       *)
THEOREM LogComplete == Spec => []EventLogComplete
<1>1. Init => EventLogComplete
  BY DEF Init, EventLogComplete
<1>2. TypeOK /\ EventLogComplete /\ [Next]_vars => EventLogComplete'
  BY LogStep
<1>3. Spec => []TypeOK
  BY TypeCorrect
<1> QED  BY <1>1, <1>2, <1>3, PTL DEF Spec

-----------------------------------------------------------------------------
(* Commands are atomic.                                                     *)

(* What the events of the row builders say of the command.                  *)
LEMMA EventCommands ==
  /\ \A n, id, o, row : LET e == ObjectEvent(n, id, o, row)
       IN e.command = id /\ e.type # "document.updated"
  /\ \A n, id, o, row : LET e == [ObjectEvent(n, id, o, row) EXCEPT !.parent = None]
       IN e.command = id /\ e.type # "document.updated"
  /\ \A n, id, type, o, c : LET e == ConflictEvent(n, id, type, o, c)
       IN e.command = id /\ e.type = type
  /\ \A n, id, type, d, o, s, u : LET e == DocumentEvent(n, id, type, d, o, s, u)
       IN e.command = id /\ e.type = type
  /\ \A n, id, r : LET e == BaselineEvent(id, r, n)
       IN e.command = id /\ e.type # "document.updated"
BY DEF ObjectEvent, ConflictEvent, DocumentEvent, BaselineEvent, Event

(* The new events are all of the command, and one at most is an update.     *)
OfOneCommand(id, new) ==
  /\ \A e \in new : e.command = id
  /\ \A e, f \in new :
       e.type = "document.updated" /\ f.type = "document.updated" => e = f

LEMMA AppliedAreOwn ==
  ASSUME TypeOK, NEW id \in CommandIds, NEW r \in Requests,
         \/ UpsertObject(id, r) \/ UpsertSameName(id, r) \/ DeleteObject(id, r)
         \/ DeleteSubtree(id, r) \/ AppendUpdate(id, r) \/ CommitCheckpoint(id, r)
         \/ CreateConflict(id, r)
  PROVE  \E new : events' = events \cup new /\ OfOneCommand(id, new)
<1>1. CASE UpsertObject(id, r) \/ UpsertSameName(id, r)
  <2>1. PICK new \in {{ObjectEvent(1, id, r.object, UpsertedRow(r))},
                      {ObjectEvent(1, id, r.object, UpsertedRow(r)),
                       ConflictEvent(2, id, "conflict.created", r.object, r.conflict)}} :
          events' = events \cup new
    BY <1>1 DEF UpsertObject, UpsertSameName
  <2>2. \A e \in new : e.command = id /\ e.type # "document.updated"
    BY <2>1, EventCommands
  <2> QED  BY <2>1, <2>2 DEF OfOneCommand
<1>2. CASE DeleteObject(id, r)
  <2>1. PICK new \in {{ObjectEvent(1, id, r.object, DeletedRow(r))}} :
          events' = events \cup new
    BY <1>2 DEF DeleteObject
  <2>2. \A e \in new : e.command = id /\ e.type # "document.updated"
    BY <2>1, EventCommands
  <2> QED  BY <2>1, <2>2 DEF OfOneCommand
<1>3. CASE DeleteSubtree(id, r)
  <2>1. PICK order \in DeletionOrders(r.items) :
          events' = events \cup {ObjectEvent(n, id, order[n], Tombstone(order[n])) :
                                   n \in 1..Cardinality(r.items)}
    BY <1>3 DEF DeleteSubtree
  <2> DEFINE new == {ObjectEvent(n, id, order[n], Tombstone(order[n])) :
                       n \in 1..Cardinality(r.items)}
  <2>2. \A e \in new : e.command = id /\ e.type # "document.updated"
    BY EventCommands
  <2>3. events' = events \cup new
    BY <2>1
  <2> HIDE DEF new
  <2> QED  BY <2>2, <2>3 DEF OfOneCommand
<1>4. CASE AppendUpdate(id, r) \/ CommitCheckpoint(id, r)
  <2>1. PICK e \in {DocumentEvent(1, id, "document.updated", r.document, r.object,
                                  documents[r.document].latest + 1, r.update),
                    DocumentEvent(1, id, "document.checkpointed", r.document, r.object,
                                  r.covers, None)} :
          events' = events \cup {e}
    BY <1>4 DEF AppendUpdate, CommitCheckpoint
  <2>2. e.command = id
    BY <2>1, EventCommands
  <2>3. PICK new \in {{e}} : TRUE
    OBVIOUS
  <2>4. events' = events \cup new /\ OfOneCommand(id, new)
    BY <2>1, <2>2, <2>3 DEF OfOneCommand
  <2> QED  BY <2>4
<1>5. CASE CreateConflict(id, r)
  <2>1. PICK new \in {{ConflictEvent(1, id, "conflict.created", r.object, r.conflict)}} :
          events' = events \cup new
    BY <1>5 DEF CreateConflict
  <2>2. \A e \in new : e.command = id /\ e.type # "document.updated"
    BY <2>1, EventCommands
  <2> QED  BY <2>1, <2>2 DEF OfOneCommand
<1> QED  BY <1>1, <1>2, <1>3, <1>4, <1>5

LEMMA ClosedAreOwn ==
  ASSUME TypeOK, NEW id \in CommandIds, NEW r \in Requests,
         \/ ResolveDismiss(id, r) \/ ResolveBaseline(id, r)
         \/ ResolveContent(id, r) \/ ResolveDelete(id, r)
  PROVE  \E new : events' = events \cup new /\ OfOneCommand(id, new)
<1> DEFINE o == conflicts[r.conflict].object
           Plain(e) == e.command = id /\ e.type # "document.updated"
<1>1. ASSUME NEW n, NEW others, CloseConflict(id, r, n, others), \A e \in others : Plain(e)
      PROVE  \E new : events' = events \cup new /\ OfOneCommand(id, new)
  <2>1. PICK new \in {others \cup
                        {ConflictEvent(n, id, "conflict.resolved", o, r.conflict)}} :
          events' = events \cup new
    BY <1>1 DEF CloseConflict
  <2>2. \A e \in new : Plain(e)
    BY <1>1, <2>1, EventCommands
  <2> QED  BY <2>1, <2>2 DEF OfOneCommand
<1>2. PICK n, others :
        /\ CloseConflict(id, r, n, others)
        /\ others \in {{}, {BaselineEvent(id, r, 1)},
                       {ObjectEvent(1, id, o, ResolvedRow(o, r.content))},
                       {ObjectEvent(1, id, o, ResolvedRow(o, r.content)),
                        BaselineEvent(id, r, 2)},
                       {[ObjectEvent(1, id, o, Tombstone(o)) EXCEPT !.parent = None]}}
  <2>1. CASE ResolveDismiss(id, r)
    BY <2>1 DEF ResolveDismiss
  <2>2. CASE ResolveBaseline(id, r)
    BY <2>2 DEF ResolveBaseline
  <2>3. CASE ResolveContent(id, r)
    BY <2>3 DEF ResolveContent
  <2>4. CASE ResolveDelete(id, r)
    BY <2>4 DEF ResolveDelete
  <2> QED  BY <2>1, <2>2, <2>3, <2>4
<1>3. \A e \in others : Plain(e)
  <2>1. /\ Plain(BaselineEvent(id, r, 1)) /\ Plain(BaselineEvent(id, r, 2))
        /\ Plain(ObjectEvent(1, id, o, ResolvedRow(o, r.content)))
        /\ Plain([ObjectEvent(1, id, o, Tombstone(o)) EXCEPT !.parent = None])
    BY EventCommands
  <2> HIDE DEF Plain
  <2> QED  BY <1>2, <2>1
<1> HIDE DEF o, Plain
<1> QED  BY <1>1, <1>2, <1>3

(* A command that is recorded as a conflict only opens one.                 *)
LEMMA RefusedAreOwn ==
  ASSUME TypeOK, NEW id \in CommandIds, NEW r \in Requests,
         DeleteVersusEdit(id, r) \/ DeleteSubtreeVersusEdit(id, r)
  PROVE  \E new : /\ events' = events \cup new
                  /\ OfOneCommand(id, new)
                  /\ \A e \in new : e.type = "conflict.created"
<1>1. PICK o, new : /\ new = {ConflictEvent(1, id, "conflict.created", o, r.conflict)}
                    /\ events' = events \cup new
  BY DEF DeleteVersusEdit, DeleteSubtreeVersusEdit
<1>2. \A e \in new : e.command = id /\ e.type = "conflict.created"
  BY <1>1, EventCommands
<1> QED  BY <1>1, <1>2 DEF OfOneCommand

LEMMA EffectsAreOwn ==
  ASSUME TypeOK, NEW id \in CommandIds, NEW r \in Requests, Apply(id, r),
         ~NoEffect(id, r)
  PROVE  \E status \in {"applied", "conflict"} : \E new :
           /\ Record(id, status)
           /\ events' = events \cup new
           /\ OfOneCommand(id, new)
           /\ status = "conflict" => \A e \in new : e.type = "conflict.created"
<1>1. CASE \/ UpsertObject(id, r) \/ UpsertSameName(id, r) \/ DeleteObject(id, r)
           \/ DeleteSubtree(id, r) \/ AppendUpdate(id, r) \/ CommitCheckpoint(id, r)
           \/ CreateConflict(id, r)
  <2>1. Record(id, "applied")
    BY <1>1 DEF UpsertObject, UpsertSameName, DeleteObject, DeleteSubtree, AppendUpdate,
       CommitCheckpoint, CreateConflict
  <2> QED  BY <1>1, <2>1, AppliedAreOwn
<1>2. CASE \/ ResolveDismiss(id, r) \/ ResolveBaseline(id, r)
           \/ ResolveContent(id, r) \/ ResolveDelete(id, r)
  <2>1. Record(id, "applied")
    BY <1>2 DEF ResolveDismiss, ResolveBaseline, ResolveContent, ResolveDelete, CloseConflict
  <2> QED  BY <1>2, <2>1, ClosedAreOwn, SMTT(40)
<1>3. CASE DeleteVersusEdit(id, r) \/ DeleteSubtreeVersusEdit(id, r)
  <2>1. Record(id, "conflict")
    BY <1>3 DEF DeleteVersusEdit, DeleteSubtreeVersusEdit
  <2> QED  BY <1>3, <2>1, RefusedAreOwn
<1> QED  BY <1>1, <1>2, <1>3, CommandCases

(* The events of an earlier command stay one run: new ones come after all.  *)
LEMMA AtomicGrows ==
  ASSUME TypeOK, EventLogComplete, CommandsAtomic, NEW id \in CommandIds, Fresh(id),
         NEW r \in Requests, Apply(id, r), ~NoEffect(id, r)
  PROVE  CommandsAtomic'
<1>1. PICK status \in {"applied", "conflict"}, new \in {events' \ events} :
        /\ Record(id, status)
        /\ events' = events \cup new
        /\ OfOneCommand(id, new)
        /\ status = "conflict" => \A e \in new : e.type = "conflict.created"
  BY EffectsAreOwn DEF OfOneCommand
<1>2. \A e \in new : e.sequence \in Nat /\ e.sequence > latestSequence
  BY <1>1, EffectsPublish DEF Publishes, TypeOK
<1>3. \A e \in events : e.sequence \in Nat /\ e.sequence <= latestSequence
  <2>1. ASSUME NEW e \in events
        PROVE  e.sequence \in 1..latestSequence
    BY DEF EventLogComplete
  <2> QED  BY <2>1 DEF TypeOK
<1>4. latestSequence \in Nat
  BY DEF TypeOK
<1>5. \A e \in events : e.command # id
  BY DEF CommandsAtomic, Fresh, EventsOf
<1>6. /\ commands'[id] = status
      /\ \A x \in CommandIds \ {id} : commands'[x] = commands[x]
  BY <1>1 DEF Record, TypeOK
<1>7. ASSUME NEW x \in CommandIds \ {id}
      PROVE  /\ commands'[x] = "absent" => EventsOf(x)' = {}
             /\ \A e, f \in EventsOf(x)', g \in events' :
                  e.sequence < g.sequence /\ g.sequence < f.sequence => g.command = x
             /\ commands'[x] = "conflict" =>
                  \A e \in EventsOf(x)' : e.type = "conflict.created"
             /\ \A e, f \in EventsOf(x)' :
                  e.type = "document.updated" /\ f.type = "document.updated" => e = f
  <2>1. EventsOf(x)' = EventsOf(x)
    BY <1>1 DEF EventsOf, OfOneCommand
  <2>2. \A e, f \in EventsOf(x), g \in events' :
          e.sequence < g.sequence /\ g.sequence < f.sequence => g.command = x
    <3> SUFFICES ASSUME NEW e \in EventsOf(x), NEW f \in EventsOf(x), NEW g \in events',
                        e.sequence < g.sequence, g.sequence < f.sequence
                 PROVE  g.command = x
      OBVIOUS
    <3>1. g \in events
      BY <1>1, <1>2, <1>3, <1>4 DEF EventsOf
    <3> QED  BY <3>1 DEF CommandsAtomic
  <2> QED  BY <1>6, <2>1, <2>2 DEF CommandsAtomic
<1>8. EventsOf(id)' = new
  BY <1>1, <1>5 DEF EventsOf, OfOneCommand
<1>9. \A e, f \in new, g \in events' :
        e.sequence < g.sequence /\ g.sequence < f.sequence => g.command = id
  <2> SUFFICES ASSUME NEW e \in new, NEW f \in new, NEW g \in events',
                      e.sequence < g.sequence, g.sequence < f.sequence
               PROVE  g.command = id
    OBVIOUS
  <2>1. g \in new
    BY <1>1, <1>2, <1>3, <1>4
  <2> QED  BY <1>1, <2>1 DEF OfOneCommand
<1>10. /\ commands'[id] = "absent" => EventsOf(id)' = {}
       /\ \A e, f \in EventsOf(id)', g \in events' :
            e.sequence < g.sequence /\ g.sequence < f.sequence => g.command = id
       /\ commands'[id] = "conflict" =>
            \A e \in EventsOf(id)' : e.type = "conflict.created"
       /\ \A e, f \in EventsOf(id)' :
            e.type = "document.updated" /\ f.type = "document.updated" => e = f
  BY <1>1, <1>6, <1>8, <1>9 DEF OfOneCommand
<1> QED  BY <1>7, <1>10 DEF CommandsAtomic

LEMMA RecordedAtomic ==
  ASSUME TypeOK, CommandsAtomic, NEW id \in CommandIds, Fresh(id),
         NEW status \in {"applied", "conflict"}, RecordOnly(id, status)
  PROVE  CommandsAtomic'
<1>1. events' = events
  BY DEF RecordOnly
<1>2. /\ commands'[id] = status
      /\ \A x \in CommandIds \ {id} : commands'[x] = commands[x]
  BY DEF RecordOnly, Record, TypeOK
<1>3. EventsOf(id) = {}
  BY DEF CommandsAtomic, Fresh
<1> QED  BY <1>1, <1>2, <1>3 DEF CommandsAtomic, EventsOf

(* Each command is in the log as a whole or not at all: its events are one
   run, the ledger knows it, and one it answers "conflict" only opened a
   conflict (#command, #apply, the row lock on the workspace).              *)
THEOREM CommandsCorrect == Spec => []CommandsWhole
<1>1. Init => CommandsAtomic
  BY DEF Init, CommandsAtomic, EventsOf
<1>2. ASSUME TypeOK, EventLogComplete, CommandsAtomic, [Next]_vars
      PROVE  CommandsAtomic'
  <2>1. CASE UNCHANGED <<events, commands>>
    BY <1>2, <2>1 DEF CommandsAtomic, EventsOf
  <2>2. ASSUME NEW id \in CommandIds, Fresh(id), NEW r \in Requests, Apply(id, r)
        PROVE  CommandsAtomic'
    BY <1>2, <2>2, AtomicGrows, RecordedAtomic, NoEffectRecords
  <2> QED
    BY <1>2, <2>1, <2>2 DEF Next, Command, OpenBootstrap, CloseBootstrap, vars
<1>3. Spec => []TypeOK
  BY TypeCorrect
<1>4. Spec => []EventLogComplete
  BY LogComplete
<1> QED  BY <1>1, <1>2, <1>3, <1>4, PTL DEF Spec, CommandsWhole

-----------------------------------------------------------------------------
(***************************************************************************)
(* The object rows, their version history, the event log and the conflict  *)
(* rows tell one story.                                                    *)
(***************************************************************************)

(* The fields of an event that the views compare.                           *)
LEMMA ObjectEventFields ==
  ASSUME NEW n, NEW id, NEW o, NEW row
  PROVE  LET e == ObjectEvent(n, id, o, row)
         IN  /\ e.sequence = latestSequence + n
             /\ e.type = IF row.deleted THEN "object.deleted" ELSE "object.upserted"
             /\ e.object = o
             /\ e.revision = row.revision
             /\ e.parent = row.parent
             /\ e.document = None
BY DEF ObjectEvent, Event

LEMMA ConflictEventFields ==
  ASSUME NEW n, NEW id, NEW type, NEW o, NEW c
  PROVE  LET e == ConflictEvent(n, id, type, o, c)
         IN  /\ e.sequence = latestSequence + n
             /\ e.type = type
             /\ e.conflict = c
             /\ e.document = None
BY DEF ConflictEvent, Event

LEMMA DocumentEventFields ==
  ASSUME NEW n, NEW id, NEW type, NEW d, NEW o, NEW s, NEW u
  PROVE  LET e == DocumentEvent(n, id, type, d, o, s, u)
         IN  /\ e.sequence = latestSequence + n
             /\ e.type = type
             /\ e.document = d
             /\ e.documentSequence = s
BY DEF DocumentEvent, Event

-----------------------------------------------------------------------------
(* What a command does to the objects, seen from all three views.           *)

ObjectTypes == {"object.upserted", "object.deleted"}

VersionAt(o, row, s) ==
  [object |-> o, revision |-> row.revision, sequence |-> s, kind |-> row.kind,
   parent |-> row.parent, name |-> row.name, deleted |-> row.deleted]

Announces(e, o, row, s) ==
  /\ e.object = o
  /\ e.sequence = s
  /\ e.type = IF row.deleted THEN "object.deleted" ELSE "object.upserted"
  /\ e.revision = row.revision
  /\ ~row.deleted => e.parent = row.parent

(* The objects of W get their next revision.  Each has one new version and
   one new event, both at the sequence stamp[o].                            *)
Rewrites(W, stamp, new) ==
  /\ W \subseteq Objects
  /\ \A o \in Objects \ W : objects'[o] = objects[o]
  /\ \A o \in W :
       /\ stamp[o] \in Nat
       /\ stamp[o] > latestSequence
       /\ objects'[o].revision = objects[o].revision + 1
       /\ \E e \in new : Announces(e, o, objects'[o], stamp[o])
  /\ versions' = versions \cup {VersionAt(o, objects'[o], stamp[o]) : o \in W}
  /\ events' = events \cup new
  /\ \A e \in new : e.type \in ObjectTypes => e.object \in W
  /\ \A e, f \in new :
       e.type \in ObjectTypes /\ f.type \in ObjectTypes /\ e.object = f.object => e = f

LEMMA NoneRewritten ==
  ASSUME UNCHANGED <<objects, versions>>, NEW new, events' = events \cup new,
         \A e \in new : e.type \notin ObjectTypes
  PROVE  \E W, stamp, added : Rewrites(W, stamp, added)
<1>1. Rewrites({}, [o \in {} |-> 0], new)
  BY DEF Rewrites
<1> QED  BY <1>1

LEMMA OneRewritten ==
  ASSUME TypeOK, NEW o \in Objects, NEW row, NEW e, NEW rest,
         row.revision = objects[o].revision + 1,
         WriteObject(o, row, 1),
         Announces(e, o, row, latestSequence + 1),
         events' = events \cup ({e} \cup rest),
         \A f \in rest : f.type \notin ObjectTypes
  PROVE  \E W, stamp, added : Rewrites(W, stamp, added)
<1> DEFINE stamp == [x \in {o} |-> latestSequence + 1]
<1>1. /\ objects'[o] = row
      /\ \A x \in Objects \ {o} : objects'[x] = objects[x]
  BY DEF WriteObject, TypeOK
<1>2. versions' = versions \cup {VersionAt(o, row, latestSequence + 1)}
  BY DEF WriteObject, Version, VersionAt
<1>3. latestSequence + 1 \in Nat /\ latestSequence + 1 > latestSequence
  BY DEF TypeOK
<1>4. {VersionAt(x, objects'[x], stamp[x]) : x \in {o}}
        = {VersionAt(o, row, latestSequence + 1)}
  BY <1>1
<1>5. Rewrites({o}, stamp, {e} \cup rest)
  BY <1>1, <1>2, <1>3, <1>4 DEF Rewrites, Announces
<1> QED  BY <1>5

LEMMA RowsAdvance ==
  ASSUME TypeOK
  PROVE  /\ \A r \in Requests : r.type = "upsert-object" =>
              UpsertedRow(r).revision = objects[r.object].revision + 1
         /\ \A r \in Requests : r.type = "delete-object" =>
              DeletedRow(r).revision = objects[r.object].revision + 1
         /\ \A o \in Objects :
              /\ Tombstone(o).revision = objects[o].revision + 1
              /\ Tombstone(o).deleted
              /\ Tombstone(o).parent = objects[o].parent
         /\ \A o \in Objects, content \in ObjectResolution :
              ResolvedRow(o, content).revision = objects[o].revision + 1
<1>1. \A o \in Objects : objects[o] \in ObjectRow
  BY DEF TypeOK
<1>2. ASSUME NEW r \in Requests, r.type = "upsert-object"
      PROVE  UpsertedRow(r).revision = objects[r.object].revision + 1
  BY DEF UpsertedRow
<1>3. ASSUME NEW r \in Requests, r.type = "delete-object"
      PROVE  DeletedRow(r).revision = objects[r.object].revision + 1
  <2> DEFINE revision == objects[r.object].revision + 1
             parent == Field(r.parent, objects[r.object].parent)
  <2>1. DeletedRow(r) = [objects[r.object] EXCEPT
          !.revision = revision, !.parent = parent, !.deleted = TRUE]
    BY DEF DeletedRow
  <2>2. objects[r.object] \in ObjectRow
    BY <1>1, <1>3, DeleteShape DEF DeleteRequest
  <2> HIDE DEF parent
  <2> QED  BY <2>1, <2>2 DEF ObjectRow
<1>4. ASSUME NEW o \in Objects
      PROVE  /\ Tombstone(o).revision = objects[o].revision + 1
             /\ Tombstone(o).deleted
             /\ Tombstone(o).parent = objects[o].parent
  <2>1. Tombstone(o) = [objects[o] EXCEPT
          !.revision = objects[o].revision + 1, !.deleted = TRUE]
    BY DEF Tombstone
  <2> QED  BY <1>1, <2>1 DEF ObjectRow
<1>5. ASSUME NEW o \in Objects, NEW content \in ObjectResolution
      PROVE  ResolvedRow(o, content).revision = objects[o].revision + 1
  <2> DEFINE revision == objects[o].revision + 1
             parent == Field(content.parent, objects[o].parent)
             name == Field(content.name, objects[o].name)
  <2>1. ResolvedRow(o, content) = [objects[o] EXCEPT
          !.revision = revision, !.parent = parent, !.name = name, !.deleted = FALSE]
    BY DEF ResolvedRow
  <2> HIDE DEF parent, name
  <2> QED  BY <1>1, <2>1 DEF ObjectRow
<1> QED  BY <1>2, <1>3, <1>4, <1>5

(* The deletion order of a subtree names each of its objects once.          *)
LEMMA OrderIsBijection ==
  ASSUME NEW within \in SUBSET Objects, NEW order \in DeletionOrders(within)
  PROVE  /\ Cardinality(within) \in Nat
         /\ order \in [1..Cardinality(within) -> within]
         /\ \A i, j \in 1..Cardinality(within) : order[i] = order[j] => i = j
         /\ \A o \in within : \E i \in 1..Cardinality(within) : order[i] = o
<1> DEFINE N == Cardinality(within)
<1>1. IsFiniteSet(within) /\ N \in Nat
  BY ObjectsAssumption, FS_Subset, FS_CardinalityType
<1>2. /\ order \in [1..N -> within]
      /\ \A i, j \in 1..N : i < j => order[i] # order[j]
  BY DEF DeletionOrders
<1>3. IsFiniteSet(1..N) /\ Cardinality(1..N) = N
  BY <1>1, FS_Interval
<1> HIDE DEF N
<1>4. \A i, j \in 1..N : order[i] = order[j] => i = j
  BY <1>1, <1>2
<1>5. order \in Injection(1..N, within)
  BY <1>2, <1>4 DEF Injection, IsInjective
<1>6. order \in Surjection(1..N, within)
  BY <1>1, <1>3, <1>5, FS_Injection DEF N
<1>7. \A o \in within : \E i \in 1..N : order[i] = o
  BY <1>6 DEF Surjection
<1> QED  BY <1>1, <1>2, <1>4, <1>7 DEF N

LEMMA SubtreeRewritten ==
  ASSUME TypeOK, NEW id \in CommandIds, NEW r \in Requests, DeleteSubtree(id, r)
  PROVE  \E W, stamp, added : Rewrites(W, stamp, added)
<1> DEFINE N == Cardinality(r.items)
<1>1. r.items \in SUBSET Objects
  BY SubtreeShape DEF DeleteSubtree, SubtreeRequest
<1>2. PICK order \in DeletionOrders(r.items) :
        /\ objects' = [o \in Objects |->
                         IF o \in r.items THEN Tombstone(o) ELSE objects[o]]
        /\ versions' = versions \cup
             {Version(n, order[n], Tombstone(order[n])) : n \in 1..N}
        /\ events' = events \cup
             {ObjectEvent(n, id, order[n], Tombstone(order[n])) : n \in 1..N}
  BY DEF DeleteSubtree
<1>3. /\ N \in Nat
      /\ order \in [1..N -> r.items]
      /\ \A i, j \in 1..N : order[i] = order[j] => i = j
      /\ \A o \in r.items : \E i \in 1..N : order[i] = o
  BY <1>1, <1>2, OrderIsBijection
<1> HIDE DEF N
<1> DEFINE place(o) == CHOOSE i \in 1..N : order[i] = o
           stamp == [o \in r.items |-> latestSequence + place(o)]
           event(n) == ObjectEvent(n, id, order[n], Tombstone(order[n]))
           new == {event(n) : n \in 1..N}
<1>4. \A o \in r.items : place(o) \in 1..N /\ order[place(o)] = o
  BY <1>3
<1>5. \A i \in 1..N : order[i] \in r.items /\ place(order[i]) = i
  BY <1>3, <1>4
<1> HIDE DEF place
<1>6. \A o \in r.items : /\ stamp[o] = latestSequence + place(o)
                         /\ stamp[o] \in Nat /\ stamp[o] > latestSequence
  BY <1>3, <1>4 DEF TypeOK
<1>7. \A o \in r.items : objects'[o] = Tombstone(o)
  BY <1>1, <1>2
<1>8. \A o \in Objects \ r.items : objects'[o] = objects[o]
  BY <1>1, <1>2
<1>9. \A o \in r.items : objects'[o].revision = objects[o].revision + 1
  BY <1>1, <1>7, RowsAdvance
<1> HIDE DEF stamp
<1>10. \A o \in r.items : VersionAt(o, objects'[o], stamp[o])
                          = Version(place(o), o, Tombstone(o))
  BY <1>6, <1>7 DEF VersionAt, Version
<1>11. {VersionAt(o, objects'[o], stamp[o]) : o \in r.items}
         = {Version(n, order[n], Tombstone(order[n])) : n \in 1..N}
  <2>1. ASSUME NEW o \in r.items
        PROVE  VersionAt(o, objects'[o], stamp[o])
                 \in {Version(n, order[n], Tombstone(order[n])) : n \in 1..N}
    BY <1>4, <1>10
  <2>2. ASSUME NEW n \in 1..N
        PROVE  Version(n, order[n], Tombstone(order[n]))
                 \in {VersionAt(o, objects'[o], stamp[o]) : o \in r.items}
    <3>1. /\ order[n] \in r.items
          /\ Version(n, order[n], Tombstone(order[n]))
               = VersionAt(order[n], objects'[order[n]], stamp[order[n]])
      BY <1>5, <1>10
    <3> QED  BY <3>1
  <2> QED  BY <2>1, <2>2
<1>12. \A n \in 1..N : /\ event(n).sequence = latestSequence + n
                        /\ event(n).type = "object.deleted"
                        /\ event(n).object = order[n]
                        /\ event(n).revision = objects[order[n]].revision + 1
  BY <1>1, <1>5, RowsAdvance, ObjectEventFields
<1> HIDE DEF event
<1>13. ASSUME NEW o \in r.items
       PROVE  \E e \in new : Announces(e, o, objects'[o], stamp[o])
  <2>1. place(o) \in 1..N /\ order[place(o)] = o
    BY <1>4
  <2>2. objects'[o].deleted /\ objects'[o].revision = objects[o].revision + 1
    BY <1>1, <1>7, RowsAdvance
  <2>3. Announces(event(place(o)), o, objects'[o], stamp[o])
    BY <1>6, <1>12, <2>1, <2>2 DEF Announces
  <2> QED  BY <2>1, <2>3
<1>14. events' = events \cup new
  BY <1>2 DEF event
<1>15. \A e \in new : e.object \in r.items
  BY <1>5, <1>12
<1>16. \A e, f \in new : e.object = f.object => e = f
  BY <1>3, <1>12
<1> HIDE DEF new
<1>17. versions' = versions \cup {VersionAt(o, objects'[o], stamp[o]) : o \in r.items}
  BY <1>2, <1>11
<1>18. Rewrites(r.items, stamp, new)
  BY <1>1, <1>6, <1>8, <1>9, <1>13, <1>14, <1>15, <1>16, <1>17 DEF Rewrites
<1> QED  BY <1>18

LEMMA UpsertRewritten ==
  ASSUME TypeOK, NEW id \in CommandIds, NEW r \in Requests,
         UpsertObject(id, r) \/ UpsertSameName(id, r)
  PROVE  \E W, stamp, added : Rewrites(W, stamp, added)
<1> DEFINE o == r.object
           row == UpsertedRow(r)
           e == ObjectEvent(1, id, o, row)
           f == ConflictEvent(2, id, "conflict.created", o, r.conflict)
<1>1. o \in Objects
  BY UpsertShape DEF UpsertObject, UpsertSameName, UpsertRequest
<1>2. row.revision = objects[o].revision + 1
  BY RowsAdvance DEF UpsertObject, UpsertSameName
<1>3. Announces(e, o, row, latestSequence + 1)
  BY ObjectEventFields DEF Announces
<1>4. f.type \notin ObjectTypes
  BY ConflictEventFields DEF ObjectTypes
<1>5. /\ WriteObject(o, row, 1)
      /\ \E rest \in {{}, {f}} : events' = events \cup ({e} \cup rest)
  <2>1. CASE UpsertObject(id, r)
    BY <2>1 DEF UpsertObject
  <2>2. CASE UpsertSameName(id, r)
    BY <2>2 DEF UpsertSameName
  <2> QED  BY <2>1, <2>2
<1> HIDE DEF o, row, e, f
<1> QED  BY <1>1, <1>2, <1>3, <1>4, <1>5, OneRewritten

LEMMA DeleteRewritten ==
  ASSUME TypeOK, NEW id \in CommandIds, NEW r \in Requests, DeleteObject(id, r)
  PROVE  \E W, stamp, added : Rewrites(W, stamp, added)
<1> DEFINE o == r.object
           row == DeletedRow(r)
           e == ObjectEvent(1, id, o, row)
<1>1. o \in Objects
  BY DeleteShape DEF DeleteObject, DeleteRequest
<1>2. row.revision = objects[o].revision + 1
  BY RowsAdvance DEF DeleteObject
<1>3. Announces(e, o, row, latestSequence + 1)
  BY ObjectEventFields DEF Announces
<1> DEFINE rest == {}
<1>4. /\ WriteObject(o, row, 1)
      /\ events' = events \cup ({e} \cup rest)
      /\ \A f \in rest : f.type \notin ObjectTypes
  BY DEF DeleteObject
<1> HIDE DEF o, row, e, rest
<1> QED  BY <1>1, <1>2, <1>3, <1>4, OneRewritten

(* The two ways of closing a conflict that write its object.                *)
LEMMA ResolveRewritten ==
  ASSUME TypeInv, NEW id \in CommandIds, NEW r \in Requests,
         ResolveContent(id, r) \/ ResolveDelete(id, r)
  PROVE  \E W, stamp, added : Rewrites(W, stamp, added)
<1> DEFINE o == conflicts[r.conflict].object
           closed(n) == ConflictEvent(n, id, "conflict.resolved", o, r.conflict)
<1>1. r \in ResolveRequest /\ o \in Objects
  BY ResolveShape DEF ResolveContent, ResolveDelete, Resolvable, ResolveAllowed,
     ResolveRequest, TypeInv, ConflictsNamed
<1>2. \A n : closed(n).type \notin ObjectTypes
  BY ConflictEventFields DEF ObjectTypes
<1> HIDE DEF closed
<1>3. CASE ResolveContent(id, r)
  <2> DEFINE row == ResolvedRow(o, r.content)
             e == ObjectEvent(1, id, o, row)
             baseline == BaselineEvent(id, r, 2)
  <2>1. row.revision = objects[o].revision + 1
    BY <1>1, <1>3, RowsAdvance DEF ResolveContent, ResolveRequest, TypeInv
  <2>2. Announces(e, o, row, latestSequence + 1)
    BY ObjectEventFields DEF Announces
  <2>3. baseline.type \notin ObjectTypes
    BY DocumentEventFields DEF BaselineEvent, ObjectTypes
  <2>4. WriteObject(o, row, 1)
    BY <1>3 DEF ResolveContent
  <2>5. \E rest \in {{closed(2)}, {baseline, closed(3)}} :
          events' = events \cup ({e} \cup rest)
    <3>1. CASE r.baseline = None
      <4>1. events' = events \cup ({e} \cup {closed(2)})
        BY <1>3, <3>1 DEF ResolveContent, CloseConflict, closed
      <4> QED  BY <4>1
    <3>2. CASE r.baseline # None
      <4>1. events' = events \cup ({e} \cup {baseline, closed(3)})
        BY <1>3, <3>2 DEF ResolveContent, CloseConflict, closed
      <4> QED  BY <4>1
    <3> QED  BY <3>1, <3>2
  <2> HIDE DEF o, row, e, baseline
  <2> QED  BY <1>1, <1>2, <2>1, <2>2, <2>3, <2>4, <2>5, OneRewritten DEF TypeInv
<1>4. CASE ResolveDelete(id, r)
  <2> DEFINE row == Tombstone(o)
             e == [ObjectEvent(1, id, o, row) EXCEPT !.parent = None]
  <2>1. row.revision = objects[o].revision + 1 /\ row.deleted
    BY <1>1, RowsAdvance DEF TypeInv
  <2>2. Announces(e, o, row, latestSequence + 1)
    BY <2>1 DEF Announces, ObjectEvent, Event
  <2>3. /\ WriteObject(o, row, 1)
        /\ events' = events \cup ({e} \cup {closed(2)})
    BY <1>4 DEF ResolveDelete, CloseConflict, closed
  <2> HIDE DEF o, row, e
  <2> QED  BY <1>1, <1>2, <2>1, <2>2, <2>3, OneRewritten DEF TypeInv
<1> QED  BY <1>3, <1>4

(* The commands that publish events and leave every object alone.           *)
LEMMA OthersRewriteNothing ==
  ASSUME NEW id \in CommandIds, NEW r \in Requests,
         \/ DeleteVersusEdit(id, r) \/ DeleteSubtreeVersusEdit(id, r)
         \/ AppendUpdate(id, r) \/ CommitCheckpoint(id, r) \/ CreateConflict(id, r)
         \/ ResolveDismiss(id, r) \/ ResolveBaseline(id, r)
  PROVE  \E W, stamp, added : Rewrites(W, stamp, added)
<1>1. CASE \/ DeleteVersusEdit(id, r) \/ DeleteSubtreeVersusEdit(id, r)
           \/ CreateConflict(id, r)
  <2>1. PICK o : /\ events' = events \cup
                      {ConflictEvent(1, id, "conflict.created", o, r.conflict)}
                 /\ UNCHANGED <<objects, versions>>
    BY <1>1 DEF DeleteVersusEdit, DeleteSubtreeVersusEdit, CreateConflict, objectTables
  <2> DEFINE e == ConflictEvent(1, id, "conflict.created", o, r.conflict)
  <2>2. e.type \notin ObjectTypes
    BY ConflictEventFields DEF ObjectTypes
  <2> DEFINE new == {e}
  <2>3. /\ events' = events \cup new
        /\ \A f \in new : f.type \notin ObjectTypes
        /\ UNCHANGED <<objects, versions>>
    BY <2>1, <2>2
  <2> HIDE DEF e, new
  <2> QED  BY <2>2, <2>3, NoneRewritten
<1>2. CASE AppendUpdate(id, r) \/ CommitCheckpoint(id, r)
  <2>1. PICK type, s, u :
          /\ type \in {"document.updated", "document.checkpointed"}
          /\ events' = events \cup
               {DocumentEvent(1, id, type, r.document, r.object, s, u)}
          /\ UNCHANGED <<objects, versions>>
    BY <1>2 DEF AppendUpdate, CommitCheckpoint, objectTables
  <2> DEFINE e == DocumentEvent(1, id, type, r.document, r.object, s, u)
  <2>2. e.type \notin ObjectTypes
    BY <2>1, DocumentEventFields DEF ObjectTypes
  <2> DEFINE new == {e}
  <2>3. /\ events' = events \cup new
        /\ \A f \in new : f.type \notin ObjectTypes
        /\ UNCHANGED <<objects, versions>>
    BY <2>1, <2>2
  <2> HIDE DEF e, new
  <2> QED  BY <2>2, <2>3, NoneRewritten
<1>3. CASE ResolveDismiss(id, r) \/ ResolveBaseline(id, r)
  <2> DEFINE closed(n) == ConflictEvent(n, id, "conflict.resolved",
                            conflicts[r.conflict].object, r.conflict)
             baseline == BaselineEvent(id, r, 1)
  <2>1. \A n : closed(n).type \notin ObjectTypes
    BY ConflictEventFields DEF ObjectTypes
  <2>2. baseline.type \notin ObjectTypes
    BY DocumentEventFields DEF BaselineEvent, ObjectTypes
  <2>3. UNCHANGED <<objects, versions>>
    BY <1>3 DEF ResolveDismiss, ResolveBaseline, objectTables
  <2>4. \E new \in {{closed(1)}, {baseline, closed(2)}} : events' = events \cup new
    BY <1>3 DEF ResolveDismiss, ResolveBaseline, CloseConflict
  <2> HIDE DEF closed, baseline
  <2> QED  BY <2>1, <2>2, <2>3, <2>4, NoneRewritten
<1> QED  BY <1>1, <1>2, <1>3

LEMMA EffectsRewrite ==
  ASSUME TypeInv, NEW id \in CommandIds, NEW r \in Requests, Apply(id, r),
         ~NoEffect(id, r)
  PROVE  \E W, stamp, added : Rewrites(W, stamp, added)
BY CommandCases, UpsertRewritten, DeleteRewritten, ResolveRewritten, SubtreeRewritten,
   OthersRewriteNothing DEF TypeInv

-----------------------------------------------------------------------------
(* VersionHistory and ThreeViewsAgree.                                      *)

(* Every version has been handed out a sequence of the log.                 *)
LEMMA VersionsLogged ==
  ASSUME TypeOK, EventLogComplete, ThreeViewsAgree
  PROVE  \A v \in versions : v.sequence <= latestSequence
BY DEF TypeOK, EventLogComplete, ThreeViewsAgree, ObjectEventsOf

LEMMA HistoryGrows ==
  ASSUME TypeInv, TypeInv', EventLogComplete, VersionHistory, ThreeViewsAgree,
         NEW W, NEW stamp, NEW added, Rewrites(W, stamp, added)
  PROVE  VersionHistory'
<1> DEFINE fresh(o) == VersionAt(o, objects'[o], stamp[o])
<1>1. /\ W \subseteq Objects
      /\ \A o \in Objects \ W : objects'[o] = objects[o]
      /\ \A o \in W : /\ stamp[o] \in Nat
                      /\ stamp[o] > latestSequence
                      /\ objects'[o].revision = objects[o].revision + 1
      /\ versions' = versions \cup {fresh(o) : o \in W}
  BY DEF Rewrites
<1>2. \A o \in W : /\ fresh(o).object = o
                   /\ fresh(o).revision = objects[o].revision + 1
                   /\ fresh(o).sequence = stamp[o]
  BY <1>1 DEF VersionAt
<1>3. \A v \in versions : v.sequence <= latestSequence
  BY VersionsLogged DEF TypeInv
<1>4. \A v \in versions : v.sequence \in Nat /\ v.revision \in Nat /\ v.object \in Objects
  BY DEF TypeInv, TypeOK, VersionRow
<1>5. \A o \in Objects : objects[o].revision \in Nat
  BY DEF TypeInv, TypeOK, ObjectRow
<1> HIDE DEF fresh
<1>6. ASSUME NEW o \in Objects, NEW v \in VersionsOf(o)', NEW w \in VersionsOf(o)'
      PROVE  /\ v.revision = w.revision => v = w
             /\ v.revision < w.revision => v.sequence < w.sequence
  <2>1. /\ v \in VersionsOf(o) \/ (o \in W /\ v = fresh(o))
        /\ w \in VersionsOf(o) \/ (o \in W /\ w = fresh(o))
    BY <1>1, <1>2, <1>6 DEF VersionsOf
  <2>2. \A x \in VersionsOf(o) : x.revision \in 1..objects[o].revision
    BY DEF VersionHistory
  <2>3. CASE v \in VersionsOf(o) /\ w \in VersionsOf(o)
    BY <2>3 DEF VersionHistory
  <2>4. CASE v \in VersionsOf(o) /\ o \in W /\ w = fresh(o)
    <3>1. v.revision < w.revision /\ v.sequence < w.sequence
      BY <1>1, <1>2, <1>3, <1>4, <1>5, <2>2, <2>4 DEF VersionsOf, TypeInv, TypeOK
    <3> QED  BY <1>1, <1>2, <1>4, <1>5, <2>4, <3>1 DEF VersionsOf
  <2>5. CASE w \in VersionsOf(o) /\ o \in W /\ v = fresh(o)
    <3>1. w.revision < v.revision
      BY <1>1, <1>2, <1>4, <1>5, <2>2, <2>5 DEF VersionsOf
    <3> QED  BY <1>1, <1>2, <1>4, <1>5, <2>5, <3>1 DEF VersionsOf
  <2>6. CASE o \in W /\ v = fresh(o) /\ w = fresh(o)
    BY <1>1, <1>2, <1>5, <2>6
  <2> QED  BY <2>1, <2>3, <2>4, <2>5, <2>6
<1>7. ASSUME NEW o \in Objects
      PROVE  {v.revision : v \in VersionsOf(o)'} = 1..objects'[o].revision
  <2>1. {v.revision : v \in VersionsOf(o)} = 1..objects[o].revision
    BY DEF VersionHistory
  <2>2. CASE o \notin W
    <3>1. VersionsOf(o)' = VersionsOf(o)
      BY <1>1, <1>2, <2>2 DEF VersionsOf
    <3> QED  BY <1>1, <2>1, <2>2, <3>1
  <2>3. CASE o \in W
    <3>1. VersionsOf(o)' = VersionsOf(o) \cup {fresh(o)}
      BY <1>1, <1>2, <2>3 DEF VersionsOf
    <3>2. 1..objects'[o].revision
            = (1..objects[o].revision) \cup {objects[o].revision + 1}
      BY <1>1, <1>5, <2>3
    <3> QED  BY <1>2, <2>1, <2>3, <3>1, <3>2
  <2> QED  BY <2>2, <2>3
<1> QED  BY <1>6, <1>7 DEF VersionHistory

LEMMA ViewsGrow ==
  ASSUME TypeInv, TypeInv', ThreeViewsAgree,
         NEW W, NEW stamp, NEW added, Rewrites(W, stamp, added)
  PROVE  ThreeViewsAgree'
<1> DEFINE fresh(o) == VersionAt(o, objects'[o], stamp[o])
<1>1. /\ W \subseteq Objects
      /\ \A o \in Objects \ W : objects'[o] = objects[o]
      /\ \A o \in W : \E e \in added : Announces(e, o, objects'[o], stamp[o])
      /\ versions' = versions \cup {fresh(o) : o \in W}
      /\ events' = events \cup added
  BY DEF Rewrites
<1>2. ASSUME NEW o \in Objects, Exists(o)'
      PROVE  \E v \in VersionsOf(o)' :
               /\ v.revision = objects'[o].revision
               /\ v.kind = objects'[o].kind
               /\ v.parent = objects'[o].parent
               /\ v.name = objects'[o].name
               /\ v.deleted = objects'[o].deleted
  <2>1. CASE o \in W
    <3>1. fresh(o) \in VersionsOf(o)'
      BY <1>1, <2>1 DEF VersionsOf, VersionAt
    <3> QED  BY <3>1 DEF VersionAt
  <2>2. CASE o \notin W
    <3>1. objects'[o] = objects[o] /\ Exists(o)
      BY <1>1, <1>2, <2>2 DEF Exists
    <3>2. VersionsOf(o) \subseteq VersionsOf(o)'
      BY <1>1 DEF VersionsOf
    <3> QED  BY <3>1, <3>2 DEF ThreeViewsAgree
  <2> QED  BY <2>1, <2>2
<1>3. ASSUME NEW v \in versions'
      PROVE  \E e \in ObjectEventsOf(v.object)' :
               /\ e.sequence = v.sequence
               /\ e.revision = v.revision
               /\ v.deleted <=> e.type = "object.deleted"
               /\ ~v.deleted => e.parent = v.parent
  <2>1. CASE v \in versions
    <3>1. ObjectEventsOf(v.object) \subseteq ObjectEventsOf(v.object)'
      BY <1>1 DEF ObjectEventsOf
    <3> QED  BY <2>1, <3>1 DEF ThreeViewsAgree
  <2>2. CASE v \notin versions
    <3>1. PICK o \in W : v = fresh(o)
      BY <1>1, <1>3, <2>2
    <3>2. PICK e \in added : Announces(e, o, objects'[o], stamp[o])
      BY <1>1
    <3>3. /\ v.object = o
          /\ v.sequence = stamp[o]
          /\ v.revision = objects'[o].revision
          /\ v.parent = objects'[o].parent
      BY <3>1 DEF VersionAt
    <3>4. v.deleted = objects'[o].deleted
      BY <3>1 DEF VersionAt
    <3>5. e \in ObjectEventsOf(v.object)'
      BY <1>1, <3>2, <3>3 DEF ObjectEventsOf, Announces
    <3>6. /\ e.sequence = v.sequence
          /\ e.revision = v.revision
      BY <3>2, <3>3 DEF Announces
    <3>7. v.deleted <=> e.type = "object.deleted"
      BY <3>2, <3>4 DEF Announces
    <3>8. ~v.deleted => e.parent = v.parent
      BY <3>2, <3>3, <3>4 DEF Announces
    <3> QED  BY <3>5, <3>6, <3>7, <3>8
  <2> QED  BY <2>1, <2>2
<1> QED  BY <1>2, <1>3 DEF ThreeViewsAgree, VersionsOf, ObjectEventsOf, Exists

-----------------------------------------------------------------------------
(* What a command does to the conflicts, in the rows and in the log.        *)

ConflictEventTypes == {"conflict.created", "conflict.resolved"}

(* The one conflict event of the command is e.                              *)
OnlyConflictEvent(e, new) ==
  /\ events' = events \cup new
  /\ e \in new
  /\ e.sequence \in Nat /\ e.sequence > latestSequence
  /\ \A f \in new : f.type \in ConflictEventTypes => f = e

LeavesConflicts(new) ==
  /\ conflicts' = conflicts
  /\ events' = events \cup new
  /\ \A f \in new : f.type \notin ConflictEventTypes

OpensConflict(c, e, new) ==
  /\ c \in ConflictIds
  /\ ~Exist(c)
  /\ OnlyConflictEvent(e, new)
  /\ e.type = "conflict.created" /\ e.conflict = c
  /\ \A x \in ConflictIds \ {c} : conflicts'[x] = conflicts[x]
  /\ conflicts'[c].status = "unresolved"
  /\ conflicts'[c].created = e.sequence

ClosesConflict(c, e, new) ==
  /\ c \in ConflictIds
  /\ conflicts[c].status = "unresolved"
  /\ OnlyConflictEvent(e, new)
  /\ e.type = "conflict.resolved" /\ e.conflict = c
  /\ \A x \in ConflictIds \ {c} : conflicts'[x] = conflicts[x]
  /\ conflicts'[c].status = "resolved"
  /\ conflicts'[c].resolved = e.sequence
  /\ conflicts'[c].created = conflicts[c].created
  /\ conflicts'[c].object = conflicts[c].object
  /\ conflicts'[c].type = conflicts[c].type

ConflictsFollow ==
  \/ \E new : LeavesConflicts(new)
  \/ \E c, e, new : OpensConflict(c, e, new)
  \/ \E c, e, new : ClosesConflict(c, e, new)

LEMMA ConflictLeft ==
  ASSUME TypeOK, NEW e, e.type \notin ConflictEventTypes,
         events' = events \cup {e}, conflicts' = conflicts
  PROVE  ConflictsFollow
<1> DEFINE new == {e}
<1>1. LeavesConflicts(new)
  BY DEF LeavesConflicts
<1> HIDE DEF new
<1> QED  BY <1>1 DEF ConflictsFollow

(* n is the sequence of the conflict's event within the command.            *)
LEMMA NewConflictFields ==
  ASSUME NEW o, NEW type, NEW revision, NEW seen, NEW n
  PROVE  LET k == NewConflict(o, type, revision, seen, n)
         IN  k.status = "unresolved" /\ k.created = latestSequence + n
BY DEF NewConflict

LEMMA ConflictOpens ==
  ASSUME TypeOK, NEW c \in ConflictIds, ~Exist(c), NEW k, NEW e, NEW others,
         \A f \in others : f.type \notin ConflictEventTypes,
         conflicts' = [conflicts EXCEPT ![c] = k],
         events' = events \cup (others \cup {e}),
         k.status = "unresolved", k.created = e.sequence,
         e.sequence \in Nat, e.sequence > latestSequence,
         e.type = "conflict.created", e.conflict = c
  PROVE  ConflictsFollow
<1> DEFINE new == others \cup {e}
<1>1. /\ events' = events \cup new
      /\ e \in new
      /\ \A f \in new : f.type \in ConflictEventTypes => f = e
  OBVIOUS
<1>2. conflicts'[c] = k /\ \A x \in ConflictIds \ {c} : conflicts'[x] = conflicts[x]
  BY DEF TypeOK
<1> HIDE DEF new
<1>3. OpensConflict(c, e, new)
  BY <1>1, <1>2 DEF OpensConflict, OnlyConflictEvent
<1> QED  BY <1>3 DEF ConflictsFollow

LEMMA ConflictCloses ==
  ASSUME TypeOK, NEW id \in CommandIds, NEW n \in Nat \ {0}, NEW r \in Requests,
         Resolvable(r), NEW others, \A f \in others : f.type \notin ConflictEventTypes,
         CloseConflict(id, r, n, others)
  PROVE  ConflictsFollow
<1> DEFINE c == r.conflict
           e == ConflictEvent(n, id, "conflict.resolved", conflicts[c].object, c)
           new == others \cup {e}
<1>1. c \in ConflictIds /\ conflicts[c].status = "unresolved"
  BY ResolveShape DEF Resolvable, ResolveAllowed, ResolveRequest
<1>2. /\ e.sequence = latestSequence + n
      /\ e.type = "conflict.resolved"
      /\ e.conflict = c
  BY ConflictEventFields
<1>3. events' = events \cup new
  BY DEF CloseConflict
<1>4. conflicts' = [conflicts EXCEPT ![c] =
        [conflicts[c] EXCEPT !.status = "resolved", !.resolved = latestSequence + n]]
  BY DEF CloseConflict, TypeOK
<1> HIDE DEF e, c
<1>5. \A f \in new : f.type \in ConflictEventTypes => f = e
  OBVIOUS
<1>6. \A x \in ConflictIds \ {c} : conflicts'[x] = conflicts[x]
  BY <1>4 DEF TypeOK
<1>7. /\ conflicts'[c].status = "resolved"
      /\ conflicts'[c].resolved = latestSequence + n
      /\ conflicts'[c].created = conflicts[c].created
      /\ conflicts'[c].object = conflicts[c].object
      /\ conflicts'[c].type = conflicts[c].type
  BY <1>1, <1>4 DEF TypeOK, ConflictRow
<1>8. e \in new /\ e.sequence \in Nat /\ e.sequence > latestSequence
  BY <1>2 DEF TypeOK
<1> HIDE DEF new
<1>9. ClosesConflict(c, e, new)
  BY <1>1, <1>2, <1>3, <1>5, <1>6, <1>7, <1>8 DEF ClosesConflict, OnlyConflictEvent
<1> QED  BY <1>9 DEF ConflictsFollow

LEMMA EffectsOnConflicts ==
  ASSUME TypeInv, NEW id \in CommandIds, NEW r \in Requests, Apply(id, r),
         ~NoEffect(id, r)
  PROVE  ConflictsFollow
<1> USE DEF TypeInv
<1>1. CASE UpsertObject(id, r)
  BY <1>1, ObjectEventFields, ConflictLeft DEF UpsertObject, ConflictEventTypes
<1>2. CASE UpsertSameName(id, r)
  <2> DEFINE e == ObjectEvent(1, id, r.object, UpsertedRow(r))
             others == {e}
             revision == UpsertedRow(r).revision
  <2>1. r.conflict \in ConflictIds /\ ~Exist(r.conflict)
    BY <1>2, UpsertShape DEF UpsertSameName, UpsertRequest
  <2>2. \A f \in others : f.type \notin ConflictEventTypes
    BY ObjectEventFields DEF ConflictEventTypes
  <2> DEFINE k == NewConflict(r.object, "same-name", revision, None, 2)
             f == ConflictEvent(2, id, "conflict.created", r.object, r.conflict)
  <2>3. /\ conflicts' = [conflicts EXCEPT ![r.conflict] = k]
        /\ events' = events \cup (others \cup {f})
    BY <1>2 DEF UpsertSameName
  <2>4. /\ k.status = "unresolved" /\ k.created = latestSequence + 2
        /\ f.sequence = latestSequence + 2
        /\ f.type = "conflict.created" /\ f.conflict = r.conflict
    BY NewConflictFields, ConflictEventFields
  <2>5. f.sequence \in Nat /\ f.sequence > latestSequence
    BY <2>4 DEF TypeOK
  <2> HIDE DEF others, revision, k, f
  <2> QED  BY <2>1, <2>2, <2>3, <2>4, <2>5, ConflictOpens
<1>3. CASE DeleteObject(id, r)
  BY <1>3, ObjectEventFields, ConflictLeft DEF DeleteObject, ConflictEventTypes
<1>4. CASE DeleteSubtree(id, r)
  <2>1. PICK order \in DeletionOrders(r.items) :
          events' = events \cup
            {ObjectEvent(n, id, order[n], Tombstone(order[n])) : n \in 1..Cardinality(r.items)}
    BY <1>4 DEF DeleteSubtree
  <2> DEFINE new == {ObjectEvent(n, id, order[n], Tombstone(order[n])) :
                       n \in 1..Cardinality(r.items)}
  <2>2. \A f \in new : f.type \notin ConflictEventTypes
    BY ObjectEventFields DEF ConflictEventTypes
  <2>3. events' = events \cup new /\ conflicts' = conflicts
    BY <1>4, <2>1 DEF DeleteSubtree
  <2> HIDE DEF new
  <2> QED  BY <2>2, <2>3 DEF ConflictsFollow, LeavesConflicts
<1>5. CASE \/ DeleteVersusEdit(id, r) \/ DeleteSubtreeVersusEdit(id, r)
           \/ CreateConflict(id, r)
  <2>1. r.conflict \in ConflictIds /\ ~Exist(r.conflict)
    BY <1>5, DeleteShape, SubtreeShape, ConflictShape DEF DeleteVersusEdit,
       DeleteSubtreeVersusEdit, CreateConflict, DeleteRequest, SubtreeRequest,
       ConflictRequest
  <2>2. PICK o, type, revision, seen :
          /\ conflicts' = [conflicts EXCEPT ![r.conflict] =
                             NewConflict(o, type, revision, seen, 1)]
          /\ events' = events \cup
               {ConflictEvent(1, id, "conflict.created", o, r.conflict)}
    BY <1>5 DEF DeleteVersusEdit, DeleteSubtreeVersusEdit, CreateConflict
  <2> DEFINE others == {}
             k == NewConflict(o, type, revision, seen, 1)
             f == ConflictEvent(1, id, "conflict.created", o, r.conflict)
  <2>3. /\ \A e \in others : e.type \notin ConflictEventTypes
        /\ conflicts' = [conflicts EXCEPT ![r.conflict] = k]
        /\ events' = events \cup (others \cup {f})
    BY <2>2
  <2>4. /\ k.status = "unresolved" /\ k.created = latestSequence + 1
        /\ f.sequence = latestSequence + 1
        /\ f.type = "conflict.created" /\ f.conflict = r.conflict
    BY NewConflictFields, ConflictEventFields
  <2>5. f.sequence \in Nat /\ f.sequence > latestSequence
    BY <2>4 DEF TypeOK
  <2> HIDE DEF others, k, f
  <2> QED  BY <2>1, <2>2, <2>3, <2>4, <2>5, ConflictOpens, ZenonT(60)
<1>6. CASE AppendUpdate(id, r)
  BY <1>6, DocumentEventFields, ConflictLeft DEF AppendUpdate, ConflictEventTypes
<1>7. CASE CommitCheckpoint(id, r)
  BY <1>7, DocumentEventFields, ConflictLeft DEF CommitCheckpoint, ConflictEventTypes
<1> DEFINE o == conflicts[r.conflict].object
           baseline(n) == BaselineEvent(id, r, n)
           written == ObjectEvent(1, id, o, ResolvedRow(o, r.content))
           deleted == [ObjectEvent(1, id, o, Tombstone(o)) EXCEPT !.parent = None]
<1>8. /\ \A n : baseline(n).type \notin ConflictEventTypes
      /\ written.type \notin ConflictEventTypes
      /\ deleted.type \notin ConflictEventTypes
  <2>1. \A n : baseline(n).type = "document.checkpointed"
    BY DocumentEventFields DEF BaselineEvent
  <2>2. written.type \in {"object.deleted", "object.upserted"}
    BY ObjectEventFields
  <2>3. deleted.type \in {"object.deleted", "object.upserted"}
    BY DEF ObjectEvent, Event
  <2> QED  BY <2>1, <2>2, <2>3 DEF ConflictEventTypes
<1> HIDE DEF baseline, written, deleted
<1>9. ASSUME \/ ResolveDismiss(id, r) \/ ResolveBaseline(id, r)
             \/ ResolveContent(id, r) \/ ResolveDelete(id, r)
      PROVE  ConflictsFollow
  <2>1. Resolvable(r)
    BY <1>9 DEF ResolveDismiss, ResolveBaseline, ResolveContent, ResolveDelete
  <2>2. \E n \in {1, 2, 3}, others \in {{}, {baseline(1)}, {written},
                                        {written, baseline(2)}, {deleted}} :
          CloseConflict(id, r, n, others)
    <3>1. CASE ResolveDismiss(id, r)
      BY <3>1 DEF ResolveDismiss
    <3>2. CASE ResolveBaseline(id, r)
      BY <3>2 DEF ResolveBaseline, baseline
    <3>3. CASE ResolveContent(id, r)
      BY <3>3 DEF ResolveContent, baseline, written
    <3>4. CASE ResolveDelete(id, r)
      BY <3>4 DEF ResolveDelete, deleted
    <3> QED  BY <1>9, <3>1, <3>2, <3>3, <3>4
  <2>3. PICK n \in {1, 2, 3}, others \in {{}, {baseline(1)}, {written},
                                          {written, baseline(2)}, {deleted}} :
          CloseConflict(id, r, n, others)
    BY <2>2
  <2>4. n \in Nat \ {0} /\ \A f \in others : f.type \notin ConflictEventTypes
    BY <1>8, <2>3
  <2> QED  BY <2>1, <2>3, <2>4, ConflictCloses
<1> QED
  BY CommandCases, <1>1, <1>2, <1>3, <1>4, <1>5, <1>6, <1>7, <1>9

LEMMA ConflictsGrow ==
  ASSUME TypeInv, TypeInv', EventLogComplete, ConflictsMatchEvents, ConflictsFollow
  PROVE  ConflictsMatchEvents'
<1> DEFINE about(c, type) ==
             {e.sequence : e \in {x \in events : x.conflict = c /\ x.type = type}}
           aboutNext(c, type) ==
             {e.sequence : e \in {x \in events' : x.conflict = c /\ x.type = type}}
           Match(c) ==
             /\ about(c, "conflict.created") =
                  IF Exist(c) THEN {conflicts[c].created} ELSE {}
             /\ about(c, "conflict.resolved") =
                  IF conflicts[c].status = "resolved" THEN {conflicts[c].resolved} ELSE {}
             /\ conflicts[c].status = "resolved" =>
                  conflicts[c].created < conflicts[c].resolved
           MatchNext(c) ==
             /\ aboutNext(c, "conflict.created") =
                  IF Exist(c)' THEN {conflicts'[c].created} ELSE {}
             /\ aboutNext(c, "conflict.resolved") =
                  IF conflicts'[c].status = "resolved" THEN {conflicts'[c].resolved} ELSE {}
             /\ conflicts'[c].status = "resolved" =>
                  conflicts'[c].created < conflicts'[c].resolved
<1>1. \A c \in ConflictIds : Match(c)
  BY DEF ConflictsMatchEvents
<1>2. SUFFICES ASSUME NEW c \in ConflictIds
               PROVE  MatchNext(c)
  BY DEF ConflictsMatchEvents, Exist
<1>3. ASSUME NEW new, events' = events \cup new,
             \A f \in new : f.type \in ConflictEventTypes => f.conflict # c
      PROVE  \A type \in ConflictEventTypes : aboutNext(c, type) = about(c, type)
  BY <1>3
<1>4. ASSUME conflicts'[c] = conflicts[c], NEW new, events' = events \cup new,
             \A f \in new : f.type \in ConflictEventTypes => f.conflict # c
      PROVE  MatchNext(c)
  <2>1. \A type \in ConflictEventTypes : aboutNext(c, type) = about(c, type)
    BY <1>3, <1>4
  <2> HIDE DEF about, aboutNext
  <2>2. /\ aboutNext(c, "conflict.created") = about(c, "conflict.created")
        /\ aboutNext(c, "conflict.resolved") = about(c, "conflict.resolved")
    BY <2>1 DEF ConflictEventTypes
  <2> QED  BY <1>1, <1>4, <2>2 DEF Exist
<1>5. ASSUME NEW e, NEW new, OnlyConflictEvent(e, new), e.conflict = c,
             NEW type \in ConflictEventTypes
      PROVE  aboutNext(c, type) = IF e.type = type THEN about(c, type) \cup {e.sequence}
                                  ELSE about(c, type)
  BY <1>5 DEF OnlyConflictEvent
<1>6. CASE \E new : LeavesConflicts(new)
  BY <1>4, <1>6 DEF LeavesConflicts
<1>7. ASSUME NEW k, NEW e, NEW new, OpensConflict(k, e, new)
      PROVE  MatchNext(c)
  <2>1. CASE c # k
    BY <1>4, <1>7, <2>1 DEF OpensConflict, OnlyConflictEvent
  <2>2. CASE c = k
    <3>1. /\ aboutNext(c, "conflict.created") = about(c, "conflict.created") \cup {e.sequence}
          /\ aboutNext(c, "conflict.resolved") = about(c, "conflict.resolved")
      BY <1>5, <1>7, <2>2 DEF OpensConflict, ConflictEventTypes
    <3> HIDE DEF about, aboutNext
    <3>2. about(c, "conflict.created") = {} /\ about(c, "conflict.resolved") = {}
      BY <1>1, <1>7, <2>2 DEF OpensConflict, Exist
    <3> QED  BY <1>7, <2>2, <3>1, <3>2 DEF OpensConflict, Exist
  <2> QED  BY <2>1, <2>2
<1>8. ASSUME NEW k, NEW e, NEW new, ClosesConflict(k, e, new)
      PROVE  MatchNext(c)
  <2>1. CASE c # k
    BY <1>4, <1>8, <2>1 DEF ClosesConflict, OnlyConflictEvent
  <2>2. CASE c = k
    <3>1. /\ aboutNext(c, "conflict.created") = about(c, "conflict.created")
          /\ aboutNext(c, "conflict.resolved") = about(c, "conflict.resolved") \cup {e.sequence}
      BY <1>5, <1>8, <2>2 DEF ClosesConflict, ConflictEventTypes
    <3>2. conflicts[c].created \in about(c, "conflict.created")
      BY <1>1, <1>8, <2>2 DEF ClosesConflict, Exist
    <3>3. conflicts[c].created <= latestSequence
      BY <3>2 DEF EventLogComplete
    <3> HIDE DEF about, aboutNext
    <3>4. /\ about(c, "conflict.created") = {conflicts[c].created}
          /\ about(c, "conflict.resolved") = {}
      BY <1>1, <1>8, <2>2 DEF ClosesConflict, Exist
    <3>5. conflicts[c].created < e.sequence
      BY <1>8, <2>2, <3>3 DEF ClosesConflict, OnlyConflictEvent, TypeInv, TypeOK, ConflictRow
    <3> QED  BY <1>8, <2>2, <3>1, <3>4, <3>5 DEF ClosesConflict, Exist
  <2> QED  BY <2>1, <2>2
<1> QED  BY <1>6, <1>7, <1>8 DEF ConflictsFollow

-----------------------------------------------------------------------------
LEMMA ViewsStep ==
  ASSUME TypeInv, TypeInv', EventLogComplete, ViewsAgree, [Next]_vars
  PROVE  ViewsAgree'
<1>1. CASE UNCHANGED <<objects, versions, conflicts, events>>
  BY <1>1, ZenonT(60) DEF ViewsAgree, VersionHistory, VersionsOf, ThreeViewsAgree, Exists,
     ObjectEventsOf, ConflictsMatchEvents, Exist
<1>2. ASSUME NEW id \in CommandIds, NEW r \in Requests, Apply(id, r)
      PROVE  ViewsAgree'
  <2>1. CASE NoEffect(id, r)
    BY <1>1, <2>1, NoEffectRecords DEF RecordOnly, objectTables
  <2>2. CASE ~NoEffect(id, r)
    <3>1. VersionHistory' /\ ThreeViewsAgree'
      BY <1>2, <2>2, EffectsRewrite, HistoryGrows, ViewsGrow DEF ViewsAgree
    <3>2. ConflictsMatchEvents'
      BY <1>2, <2>2, EffectsOnConflicts, ConflictsGrow DEF ViewsAgree
    <3> QED  BY <3>1, <3>2 DEF ViewsAgree
  <2> QED  BY <2>1, <2>2
<1> QED
  BY <1>1, <1>2 DEF Next, Command, OpenBootstrap, CloseBootstrap, vars, objectTables

(* Whatever commands are applied, an object's row is the newest version of a
   gapless history, every version is announced by one event that says the
   same, and a conflict row is what its events say (what #apply
   writes to the objects, versions, events and conflicts).                  *)
THEOREM ViewsCorrect == Spec => []ViewsAgree
<1>1. Init => ViewsAgree
  BY DEF Init, NoObjectRow, NoConflictRow, ViewsAgree, VersionHistory, VersionsOf,
     ThreeViewsAgree, Exists, ObjectEventsOf, ConflictsMatchEvents, Exist
<1>2. TypeInv /\ TypeInv' /\ EventLogComplete /\ ViewsAgree /\ [Next]_vars => ViewsAgree'
  BY ViewsStep
<1>3. Spec => []TypeInv
  BY InitTyped, StepTyped, PTL DEF Spec
<1>4. Spec => []EventLogComplete
  BY LogComplete
<1> QED  BY <1>1, <1>2, <1>3, <1>4, PTL DEF Spec

-----------------------------------------------------------------------------
(***************************************************************************)
(* A collaborative document can always be rebuilt from its checkpoint and  *)
(* the updates after it, whatever prunes them, and a bootstrap session     *)
(* reads a snapshot that the events after it complete.                     *)
(***************************************************************************)

(* No update is numbered beyond its document: the next one is new.          *)
UpdatesCounted == \A u \in updates : u.sequence <= documents[u.document].latest

DocumentInv == DocumentRecoverable /\ UpdatesCounted

(* Both ways of writing a checkpoint cover the document to its new end.     *)
LEMMA CheckpointKeeps ==
  ASSUME TypeOK, DocumentInv, NEW d \in Documents, NEW checkpoint,
         NEW covers \in Nat, documents[d].latest <= covers, NEW n \in Nat,
         WriteCheckpoint(d, checkpoint, covers, covers, n)
  PROVE  DocumentInv'
<1> DEFINE new == [checkpoint |-> checkpoint, document |-> d, covers |-> covers,
                   event |-> latestSequence + n]
<1>1. /\ checkpoints' = checkpoints \cup {new}
      /\ updates' \subseteq updates
      /\ \A u \in updates : u.document # d => u \in updates'
  BY DEF WriteCheckpoint, PruneCoveredUpdates
<1>2. /\ documents'[d].latest = covers
      /\ documents'[d].checkpoint = covers
      /\ documents'[d].checkpointId = checkpoint
      /\ \A x \in Documents \ {d} : documents'[x] = documents[x]
  BY DEF WriteCheckpoint, TypeOK, DocumentRow
<1>3. ASSUME NEW x \in Documents
      PROVE  documents'[x].checkpoint <= documents'[x].latest
  BY <1>2 DEF DocumentInv, DocumentRecoverable
<1>4. ASSUME NEW x \in Documents, documents'[x].checkpoint > 0
      PROVE  \E k \in checkpoints' : /\ k.checkpoint = documents'[x].checkpointId
                                     /\ k.document = x
                                     /\ k.covers = documents'[x].checkpoint
  <2>1. CASE x = d
    <3>1. /\ new \in checkpoints'
          /\ new.checkpoint = checkpoint /\ new.document = d /\ new.covers = covers
      BY <1>1
    <3> QED  BY <1>2, <2>1, <3>1
  <2>2. CASE x # d
    BY <1>1, <1>2, <1>4, <2>2 DEF DocumentInv, DocumentRecoverable
  <2> QED  BY <2>1, <2>2
<1>5. ASSUME NEW x \in Documents,
             NEW i \in (documents'[x].checkpoint + 1)..documents'[x].latest
      PROVE  \E u \in updates' : u.document = x /\ u.sequence = i
  <2>1. x # d
    BY <1>2, <1>5
  <2> QED  BY <1>1, <1>2, <1>5, <2>1 DEF DocumentInv, DocumentRecoverable
<1>6. \A x \in Documents, u, w \in updates' :
        u.document = x /\ w.document = x /\ u.sequence = w.sequence => u = w
  BY <1>1 DEF DocumentInv, DocumentRecoverable
<1>7. ASSUME NEW u \in updates'
      PROVE  u.sequence <= documents'[u.document].latest
  <2>1. /\ u \in updates
        /\ u.document \in Documents
        /\ u.sequence \in Nat
        /\ u.sequence <= documents[u.document].latest
        /\ documents[u.document].latest \in Nat
    BY <1>1 DEF TypeOK, UpdateRow, DocumentRow, DocumentInv, UpdatesCounted
  <2> QED  BY <1>2, <2>1
<1> QED
  BY <1>3, <1>4, <1>5, <1>6, <1>7 DEF DocumentInv, DocumentRecoverable, UpdatesCounted

LEMMA AppendKeeps ==
  ASSUME TypeOK, DocumentInv, NEW id \in CommandIds, NEW r \in Requests,
         AppendUpdate(id, r)
  PROVE  DocumentInv'
<1> DEFINE d == r.document
           next == documents[d].latest + 1
           new == [document |-> d, sequence |-> next, update |-> r.update,
                   event |-> latestSequence + 1]
<1>1. d \in Documents /\ documents[d].latest \in Nat /\ documents[d].checkpoint \in Nat
  BY AppendShape DEF AppendUpdate, AppendRequest, TypeOK, DocumentRow
<1>2. updates' = updates \cup {new} /\ new.document = d /\ new.sequence = next
  BY DEF AppendUpdate
<1>3. /\ documents'[d].latest = next
      /\ documents'[d].checkpoint = documents[d].checkpoint
      /\ documents'[d].checkpointId = documents[d].checkpointId
      /\ \A x \in Documents \ {d} : documents'[x] = documents[x]
      /\ checkpoints' = checkpoints
  BY <1>1 DEF AppendUpdate, TypeOK, DocumentRow
<1>4. \A u \in updates : /\ u.document \in Documents
                         /\ u.sequence \in Nat
                         /\ u.sequence <= documents[u.document].latest
  BY DEF TypeOK, UpdateRow, DocumentInv, UpdatesCounted
<1> HIDE DEF d, new
<1>5. \A x \in Documents : documents'[x].checkpoint <= documents'[x].latest
  BY <1>1, <1>3 DEF DocumentInv, DocumentRecoverable
<1>6. \A x \in Documents : documents'[x].checkpoint > 0 =>
        \E k \in checkpoints' : /\ k.checkpoint = documents'[x].checkpointId
                                /\ k.document = x
                                /\ k.covers = documents'[x].checkpoint
  BY <1>3 DEF DocumentInv, DocumentRecoverable
<1>7. ASSUME NEW x \in Documents,
             NEW i \in (documents'[x].checkpoint + 1)..documents'[x].latest
      PROVE  \E u \in updates' : u.document = x /\ u.sequence = i
  <2>1. CASE x = d /\ i = next
    BY <1>2, <2>1
  <2>2. CASE x # d \/ i # next
    <3>1. i \in (documents[x].checkpoint + 1)..documents[x].latest
      BY <1>1, <1>3, <1>7, <2>2
    <3> QED  BY <1>2, <3>1 DEF DocumentInv, DocumentRecoverable
  <2> QED  BY <2>1, <2>2
<1>8. ASSUME NEW u \in updates', NEW w \in updates',
             u.document = w.document, u.sequence = w.sequence
      PROVE  u = w
  <2>1. CASE u \in updates /\ w \in updates
    BY <1>4, <1>8, <2>1 DEF DocumentInv, DocumentRecoverable
  <2>2. \A y \in updates : ~(y.document = d /\ y.sequence = next)
    BY <1>1, <1>4
  <2> QED  BY <1>2, <1>8, <2>1, <2>2
<1>9. ASSUME NEW u \in updates'
      PROVE  u.sequence <= documents'[u.document].latest
  BY <1>1, <1>2, <1>3, <1>4
<1> QED
  BY <1>5, <1>6, <1>7, <1>8, <1>9 DEF DocumentInv, DocumentRecoverable, UpdatesCounted

LEMMA CommitKeeps ==
  ASSUME TypeOK, DocumentInv, NEW id \in CommandIds, NEW r \in Requests,
         CommitCheckpoint(id, r)
  PROVE  DocumentInv'
<1>1. r.document \in Documents /\ r.covers \in Nat
  BY CheckpointShape DEF CommitCheckpoint, CheckpointRequest
<1>2. documents[r.document].latest = r.covers
  BY DEF CommitCheckpoint, CheckpointCurrent
<1> QED  BY <1>1, <1>2, CheckpointKeeps DEF CommitCheckpoint

LEMMA BaselineKeeps ==
  ASSUME TypeOK, DocumentInv, NEW r \in Requests, NEW n \in Nat,
         Resolvable(r), r.baseline # None, WriteBaseline(r, n)
  PROVE  DocumentInv'
<1> DEFINE covers == r.baseline.seen + 1
<1>1. r.baseline.document \in Documents /\ r.baseline.seen \in Nat
  BY ResolveShape DEF Resolvable, ResolveAllowed, ResolveRequest, DocumentResolution
<1>2. documents[r.baseline.document].latest = r.baseline.seen
  BY DEF Resolvable, BaselineCurrent
<1>3. covers \in Nat /\ documents[r.baseline.document].latest <= covers
  BY <1>1, <1>2
<1>4. WriteCheckpoint(r.baseline.document, r.baseline.checkpoint, covers, covers, n)
  BY DEF WriteBaseline
<1> HIDE DEF covers
<1> QED  BY <1>1, <1>3, <1>4, CheckpointKeeps

LEMMA DocumentStep ==
  ASSUME TypeOK, DocumentInv, [Next]_vars
  PROVE  DocumentInv'
<1>1. CASE UNCHANGED documentTables
  BY <1>1 DEF documentTables, DocumentInv, DocumentRecoverable, UpdatesCounted
<1>2. ASSUME NEW id \in CommandIds, NEW r \in Requests, Apply(id, r)
      PROVE  DocumentInv'
  <2>1. CASE NoEffect(id, r)
    BY <1>1, <2>1, NoEffectRecords DEF RecordOnly
  <2>2. CASE AppendUpdate(id, r)
    BY <2>2, AppendKeeps
  <2>3. CASE CommitCheckpoint(id, r)
    BY <2>3, CommitKeeps
  <2>4. CASE ResolveBaseline(id, r)
    BY <2>4, BaselineKeeps DEF ResolveBaseline
  <2>5. CASE ResolveContent(id, r)
    BY <1>1, <2>5, BaselineKeeps DEF ResolveContent
  <2>6. CASE \/ UpsertObject(id, r) \/ UpsertSameName(id, r) \/ DeleteObject(id, r)
             \/ DeleteVersusEdit(id, r) \/ DeleteSubtree(id, r)
             \/ DeleteSubtreeVersusEdit(id, r) \/ CreateConflict(id, r)
             \/ ResolveDismiss(id, r) \/ ResolveDelete(id, r)
    BY <1>1, <2>6 DEF UpsertObject, UpsertSameName, DeleteObject, DeleteVersusEdit,
       DeleteSubtree, DeleteSubtreeVersusEdit, CreateConflict, ResolveDismiss,
       ResolveDelete
  <2> QED
    BY <1>2, <2>1, <2>2, <2>3, <2>4, <2>5, <2>6, CommandCases
<1> QED
  BY <1>1, <1>2 DEF Next, Command, OpenBootstrap, CloseBootstrap, vars, documentTables

(* No checkpoint, resolution or pruning loses an update that is not covered,
   and no two updates share a number.                                       *)
THEOREM DocumentsRecoverable == Spec => []DocumentRecoverable
<1>1. Init => DocumentInv
  BY DEF Init, NoDocumentRow, DocumentInv, DocumentRecoverable, UpdatesCounted
<1>2. TypeOK /\ DocumentInv /\ [Next]_vars => DocumentInv'
  BY DocumentStep
<1>3. DocumentInv => DocumentRecoverable
  BY DEF DocumentInv
<1>4. Spec => []TypeOK
  BY TypeCorrect
<1> QED  BY <1>1, <1>2, <1>3, <1>4, PTL DEF Spec

-----------------------------------------------------------------------------
(* What a command does to the documents, in the rows and in the log.        *)

FollowsDocuments(new) ==
  /\ events' = events \cup new
  /\ \A d \in Documents :
       \/ /\ documents'[d].latest = documents[d].latest
          /\ \A e \in new : e.document # d
       \/ /\ documents'[d].latest >= documents[d].latest
          /\ \E e \in new : /\ e.document = d
                            /\ e.sequence > latestSequence
                            /\ e.documentSequence = documents'[d].latest
                            /\ \A f \in new : f.document = d => f = e

LEMMA DocumentsLeft ==
  ASSUME NEW new, events' = events \cup new, documents' = documents,
         \A f \in new : f.document = None
  PROVE  FollowsDocuments(new)
BY SentinelAssumption DEF FollowsDocuments

LEMMA DocumentGrows ==
  ASSUME TypeOK, NEW d \in Documents, NEW e, NEW others,
         \A f \in others : f.document = None,
         events' = events \cup (others \cup {e}),
         e.document = d, e.sequence \in Nat, e.sequence > latestSequence,
         \A x \in Documents \ {d} : documents'[x].latest = documents[x].latest,
         documents'[d].latest >= documents[d].latest,
         e.documentSequence = documents'[d].latest
  PROVE  FollowsDocuments(others \cup {e})
<1> DEFINE new == others \cup {e}
<1>1. /\ e \in new
      /\ \A f \in new : f = e \/ f.document = None
  OBVIOUS
<1> HIDE DEF new
<1>2. \A f \in new : f.document = d => f = e
  BY <1>1, SentinelAssumption
<1>3. \A x \in Documents \ {d} : \A f \in new : f.document # x
  BY <1>1, SentinelAssumption
<1>4. FollowsDocuments(new)
  BY <1>1, <1>2, <1>3 DEF FollowsDocuments, new
<1> QED  BY <1>4 DEF new

LEMMA CheckpointLength ==
  ASSUME TypeOK, NEW d \in Documents, NEW checkpoint, NEW latest, NEW covers, NEW n,
         WriteCheckpoint(d, checkpoint, latest, covers, n)
  PROVE  /\ documents'[d].latest = latest
         /\ \A x \in Documents \ {d} : documents'[x].latest = documents[x].latest
BY DEF WriteCheckpoint, TypeOK, DocumentRow

LEMMA AppendFollows ==
  ASSUME TypeOK, NEW id \in CommandIds, NEW r \in Requests, AppendUpdate(id, r)
  PROVE  \E new : FollowsDocuments(new)
<1> DEFINE d == r.document
           next == documents[d].latest + 1
           e == DocumentEvent(1, id, "document.updated", d, r.object, next, r.update)
           others == {}
<1>1. d \in Documents /\ documents[d].latest \in Nat
  BY AppendShape DEF AppendUpdate, AppendRequest, TypeOK, DocumentRow
<1>2. /\ documents'[d].latest = next
      /\ \A x \in Documents \ {d} : documents'[x].latest = documents[x].latest
  BY <1>1 DEF AppendUpdate, TypeOK, DocumentRow
<1>3. /\ events' = events \cup (others \cup {e})
      /\ \A f \in others : f.document = None
  BY DEF AppendUpdate
<1>4. /\ e.document = d /\ e.documentSequence = next
      /\ e.sequence \in Nat /\ e.sequence > latestSequence
  BY DocumentEventFields DEF TypeOK
<1>5. next >= documents[d].latest
  BY <1>1
<1> HIDE DEF d, next, e, others
<1>6. FollowsDocuments(others \cup {e})
  BY <1>1, <1>2, <1>3, <1>4, <1>5, DocumentGrows
<1> QED  BY <1>6

LEMMA CommitFollows ==
  ASSUME TypeOK, NEW id \in CommandIds, NEW r \in Requests, CommitCheckpoint(id, r)
  PROVE  \E new : FollowsDocuments(new)
<1> DEFINE d == r.document
           e == DocumentEvent(1, id, "document.checkpointed", d, r.object, r.covers, None)
           others == {}
<1>1. d \in Documents /\ documents[d].latest \in Nat
  BY CheckpointShape DEF CommitCheckpoint, CheckpointRequest, TypeOK, DocumentRow
<1>2. /\ r.covers = documents[d].latest
      /\ WriteCheckpoint(d, r.checkpoint, documents[d].latest, r.covers, 1)
  BY DEF CommitCheckpoint, CheckpointCurrent
<1>3. /\ events' = events \cup (others \cup {e})
      /\ \A f \in others : f.document = None
  BY DEF CommitCheckpoint
<1>4. /\ e.document = d /\ e.documentSequence = r.covers
      /\ e.sequence \in Nat /\ e.sequence > latestSequence
  BY DocumentEventFields DEF TypeOK
<1> HIDE DEF d, e, others
<1>5. /\ documents'[d].latest = documents[d].latest
      /\ \A x \in Documents \ {d} : documents'[x].latest = documents[x].latest
  BY <1>1, <1>2, CheckpointLength
<1>6. /\ documents'[d].latest >= documents[d].latest
      /\ e.documentSequence = documents'[d].latest
  BY <1>1, <1>2, <1>4, <1>5
<1>7. FollowsDocuments(others \cup {e})
  BY <1>1, <1>3, <1>4, <1>5, <1>6, DocumentGrows
<1> QED  BY <1>7

(* A resolution that brings a baseline, with the events of the rest of it.   *)
LEMMA BaselineFollows ==
  ASSUME TypeOK, NEW id \in CommandIds, NEW r \in Requests, Resolvable(r),
         r.baseline # None, NEW n \in {1, 2}, WriteBaseline(r, n),
         NEW others, \A f \in others : f.document = None,
         events' = events \cup (others \cup {BaselineEvent(id, r, n)})
  PROVE  \E new : FollowsDocuments(new)
<1> DEFINE d == r.baseline.document
           covers == r.baseline.seen + 1
           e == BaselineEvent(id, r, n)
<1>1. d \in Documents /\ r.baseline.seen \in Nat
  BY ResolveShape DEF Resolvable, ResolveAllowed, ResolveRequest, DocumentResolution
<1>2. /\ documents[d].latest = r.baseline.seen
      /\ WriteCheckpoint(d, r.baseline.checkpoint, covers, covers, n)
  BY DEF Resolvable, BaselineCurrent, WriteBaseline
<1>3. /\ e.document = d /\ e.documentSequence = covers
      /\ e.sequence \in Nat /\ e.sequence > latestSequence
  BY DocumentEventFields DEF BaselineEvent, TypeOK
<1>4. covers >= documents[d].latest
  BY <1>1, <1>2
<1> HIDE DEF d, covers, e
<1>5. /\ documents'[d].latest = covers
      /\ \A x \in Documents \ {d} : documents'[x].latest = documents[x].latest
  BY <1>1, <1>2, CheckpointLength
<1>6. FollowsDocuments(others \cup {e})
  BY <1>1, <1>3, <1>4, <1>5, DocumentGrows DEF e
<1> QED  BY <1>6

LEMMA ResolveFollows ==
  ASSUME TypeInv, NEW id \in CommandIds, NEW r \in Requests,
         \/ ResolveDismiss(id, r) \/ ResolveBaseline(id, r)
         \/ ResolveContent(id, r) \/ ResolveDelete(id, r)
  PROVE  \E new : FollowsDocuments(new)
<1> USE DEF TypeInv
<1> DEFINE o == conflicts[r.conflict].object
           closed(n) == ConflictEvent(n, id, "conflict.resolved", o, r.conflict)
           written == ObjectEvent(1, id, o, ResolvedRow(o, r.content))
           deleted == [ObjectEvent(1, id, o, Tombstone(o)) EXCEPT !.parent = None]
<1>1. /\ \A n : closed(n).document = None
      /\ written.document = None
      /\ deleted.document = None
  <2>1. \A n : closed(n).document = None
    BY ConflictEventFields
  <2>2. written.document = None
    BY ObjectEventFields
  <2>3. deleted.document = None
    BY DEF ObjectEvent, Event
  <2> QED  BY <2>1, <2>2, <2>3
<1>2. CASE ResolveDismiss(id, r)
  <2> DEFINE new == {closed(1)}
  <2>1. events' = events \cup new /\ documents' = documents
    BY <1>2 DEF ResolveDismiss, CloseConflict, documentTables
  <2>2. \A f \in new : f.document = None
    BY <1>1
  <2> HIDE DEF new
  <2> QED  BY <2>1, <2>2, DocumentsLeft
<1>3. CASE ResolveDelete(id, r)
  <2> DEFINE new == {deleted, closed(2)}
  <2>1. events' = events \cup new /\ documents' = documents
    BY <1>3 DEF ResolveDelete, CloseConflict, documentTables
  <2>2. \A f \in new : f.document = None
    BY <1>1
  <2> HIDE DEF new
  <2> QED  BY <2>1, <2>2, DocumentsLeft
<1>4. CASE ResolveContent(id, r) /\ r.baseline = None
  <2> DEFINE new == {written, closed(2)}
  <2>1. events' = events \cup new /\ documents' = documents
    BY <1>4 DEF ResolveContent, CloseConflict, documentTables
  <2>2. \A f \in new : f.document = None
    BY <1>1
  <2> HIDE DEF new
  <2> QED  BY <2>1, <2>2, DocumentsLeft
<1>5. CASE ResolveBaseline(id, r)
  <2> DEFINE others == {closed(2)}
  <2>1. /\ events' = events \cup (others \cup {BaselineEvent(id, r, 1)})
        /\ Resolvable(r) /\ r.baseline # None /\ WriteBaseline(r, 1)
    BY <1>5 DEF ResolveBaseline, CloseConflict
  <2>2. \A f \in others : f.document = None
    BY <1>1
  <2> HIDE DEF others
  <2> QED  BY <2>1, <2>2, BaselineFollows
<1>6. CASE ResolveContent(id, r) /\ r.baseline # None
  <2> DEFINE others == {written, closed(3)}
  <2>1. /\ events' = events \cup (others \cup {BaselineEvent(id, r, 2)})
        /\ Resolvable(r) /\ WriteBaseline(r, 2)
    BY <1>6 DEF ResolveContent, CloseConflict
  <2>2. \A f \in others : f.document = None
    BY <1>1
  <2> HIDE DEF others
  <2> QED  BY <1>6, <2>1, <2>2, BaselineFollows
<1> QED  BY <1>2, <1>3, <1>4, <1>5, <1>6

LEMMA EffectsOnDocuments ==
  ASSUME TypeInv, NEW id \in CommandIds, NEW r \in Requests, Apply(id, r),
         ~NoEffect(id, r)
  PROVE  \E new : FollowsDocuments(new)
<1>1. CASE \/ UpsertObject(id, r) \/ UpsertSameName(id, r) \/ DeleteObject(id, r)
           \/ DeleteVersusEdit(id, r) \/ DeleteSubtreeVersusEdit(id, r)
           \/ CreateConflict(id, r) \/ DeleteSubtree(id, r)
  <2>1. documents' = documents
    BY <1>1 DEF UpsertObject, UpsertSameName, DeleteObject, DeleteVersusEdit,
       DeleteSubtreeVersusEdit, CreateConflict, DeleteSubtree, documentTables
  <2>2. \E new : events' = events \cup new /\ \A f \in new : f.document = None
    <3>1. CASE DeleteSubtree(id, r)
      <4>1. PICK order \in DeletionOrders(r.items) :
              events' = events \cup {ObjectEvent(n, id, order[n], Tombstone(order[n])) :
                                       n \in 1..Cardinality(r.items)}
        BY <3>1 DEF DeleteSubtree
      <4> DEFINE new == {ObjectEvent(n, id, order[n], Tombstone(order[n])) :
                           n \in 1..Cardinality(r.items)}
      <4>2. events' = events \cup new
        BY <4>1
      <4>3. \A f \in new : f.document = None
        BY ObjectEventFields
      <4> HIDE DEF new
      <4> QED  BY <4>2, <4>3
    <3>2. CASE UpsertObject(id, r) \/ UpsertSameName(id, r) \/ DeleteObject(id, r)
      <4> DEFINE e(row) == ObjectEvent(1, id, r.object, row)
                 f == ConflictEvent(2, id, "conflict.created", r.object, r.conflict)
      <4>1. (\A row : e(row).document = None) /\ f.document = None
        BY ObjectEventFields, ConflictEventFields
      <4>2. \E new \in {{e(UpsertedRow(r))}, {e(UpsertedRow(r)), f}, {e(DeletedRow(r))}} :
              events' = events \cup new
        BY <3>2 DEF UpsertObject, UpsertSameName, DeleteObject
      <4> HIDE DEF e, f
      <4> QED  BY <4>1, <4>2
    <3>3. CASE \/ DeleteVersusEdit(id, r) \/ DeleteSubtreeVersusEdit(id, r)
               \/ CreateConflict(id, r)
      <4>1. PICK o : events' = events \cup
                       {ConflictEvent(1, id, "conflict.created", o, r.conflict)}
        BY <3>3 DEF DeleteVersusEdit, DeleteSubtreeVersusEdit, CreateConflict
      <4> DEFINE new == {ConflictEvent(1, id, "conflict.created", o, r.conflict)}
      <4>2. events' = events \cup new
        BY <4>1
      <4>3. \A f \in new : f.document = None
        BY ConflictEventFields
      <4> HIDE DEF new
      <4> QED  BY <4>2, <4>3
    <3> QED  BY <1>1, <3>1, <3>2, <3>3
  <2> QED  BY <2>1, <2>2, DocumentsLeft
<1> QED
  BY <1>1, CommandCases, AppendFollows, CommitFollows, ResolveFollows DEF TypeInv

-----------------------------------------------------------------------------
(* Bootstrap sessions.                                                      *)

(* A snapshot is a moment of the past.                                      *)
SnapshotsPast ==
  \A s \in Sessions : sessions[s].open => sessions[s].snapshot <= latestSequence

BootstrapInv == BootstrapExact /\ SnapshotsPast

LEMMA LogFinite ==
  ASSUME TypeOK, EventLogComplete
  PROVE  IsFiniteSet(events)
<1> DEFINE f == [e \in events |-> e.sequence]
<1>1. f \in Injection(events, 1..latestSequence)
  BY DEF EventLogComplete, Injection, IsInjective
<1>2. IsFiniteSet(1..latestSequence)
  BY FS_Interval DEF TypeOK
<1> QED  BY <1>1, <1>2, FS_Injection

(* An effect leaves sessions alone and takes sequences.                     *)
LEMMA EffectsAdvance ==
  ASSUME TypeOK, NEW id \in CommandIds, NEW r \in Requests, Apply(id, r),
         ~NoEffect(id, r)
  PROVE  latestSequence' >= latestSequence /\ sessions' = sessions
<1>1. latestSequence' >= latestSequence
  BY EffectsPublish DEF Publishes, NextSequence, TypeOK
<1>2. sessions' = sessions
  BY CommandCases DEF UpsertObject, UpsertSameName, DeleteObject, DeleteVersusEdit,
     DeleteSubtree, DeleteSubtreeVersusEdit, AppendUpdate, CommitCheckpoint,
     CreateConflict, ResolveDismiss, ResolveBaseline, ResolveContent, ResolveDelete,
     CloseConflict
<1> QED  BY <1>1, <1>2

(* No update goes while a session is open.                                  *)
LEMMA UpdatesKept ==
  ASSUME NEW id \in CommandIds, NEW r \in Requests, Apply(id, r), ~NoEffect(id, r),
         NEW s \in Sessions, sessions[s].open
  PROVE  updates \subseteq updates'
<1>1. \A d, covers : PruneCoveredUpdates(d, covers) = updates
  BY DEF PruneCoveredUpdates
<1>2. CASE \/ UpsertObject(id, r) \/ UpsertSameName(id, r) \/ DeleteObject(id, r)
           \/ DeleteVersusEdit(id, r) \/ DeleteSubtree(id, r)
           \/ DeleteSubtreeVersusEdit(id, r) \/ CreateConflict(id, r)
           \/ ResolveDismiss(id, r) \/ ResolveDelete(id, r)
  BY <1>2 DEF UpsertObject, UpsertSameName, DeleteObject, DeleteVersusEdit,
     DeleteSubtree, DeleteSubtreeVersusEdit, CreateConflict, ResolveDismiss,
     ResolveDelete, documentTables
<1>3. CASE AppendUpdate(id, r)
  BY <1>3 DEF AppendUpdate
<1>4. CASE CommitCheckpoint(id, r)
  BY <1>1, <1>4 DEF CommitCheckpoint, WriteCheckpoint
<1>5. CASE ResolveBaseline(id, r)
  BY <1>1, <1>5 DEF ResolveBaseline, WriteBaseline, WriteCheckpoint
<1>6. CASE ResolveContent(id, r)
  BY <1>1, <1>6 DEF ResolveContent, WriteBaseline, WriteCheckpoint, documentTables
<1> QED  BY <1>2, <1>3, <1>4, <1>5, <1>6, CommandCases

(* An object that is rewritten has exactly one more event to replay.        *)
LEMMA OneMoreEvent ==
  ASSUME TypeInv, EventLogComplete, NEW W, NEW stamp, NEW new, Rewrites(W, stamp, new),
         NEW o \in Objects, NEW n \in Nat, n <= latestSequence
  PROVE  Cardinality({e \in ObjectEventsOf(o)' : e.sequence > n}) =
           Cardinality({e \in ObjectEventsOf(o) : e.sequence > n})
             + objects'[o].revision - objects[o].revision
<1> DEFINE old == {e \in ObjectEventsOf(o) : e.sequence > n}
           next == {e \in ObjectEventsOf(o)' : e.sequence > n}
<1>1. objects[o].revision \in Nat /\ latestSequence \in Nat
  BY DEF TypeInv, TypeOK, ObjectRow
<1>2. IsFiniteSet(old) /\ Cardinality(old) \in Nat
  <2>1. old \in SUBSET events
    BY DEF ObjectEventsOf
  <2> QED  BY <2>1, LogFinite, FS_Subset, FS_CardinalityType DEF TypeInv
<1>3. \A e \in events : e.sequence <= latestSequence
  BY DEF EventLogComplete, TypeInv, TypeOK
<1>4. events' = events \cup new
  BY DEF Rewrites
<1>5. CASE o \in W
  <2>1. objects'[o].revision = objects[o].revision + 1
    BY <1>5 DEF Rewrites
  <2>2. PICK e \in new : Announces(e, o, objects'[o], stamp[o])
    BY <1>5 DEF Rewrites
  <2>3. e.object = o /\ e.type \in ObjectTypes /\ e.sequence > latestSequence
        /\ e.sequence \in Nat
    BY <1>5, <2>2 DEF Rewrites, Announces, ObjectTypes
  <2>4. \A f \in new : f.type \in ObjectTypes /\ f.object = o => f = e
    BY <2>3 DEF Rewrites
  <2>5. e \notin old
    BY <1>1, <1>3, <2>3 DEF ObjectEventsOf
  <2>6. next = old \cup {e}
    BY <1>1, <1>4, <2>3, <2>4 DEF ObjectEventsOf, ObjectTypes
  <2>7. Cardinality(old \cup {e}) = Cardinality(old) + 1
    BY <1>2, <2>5, FS_AddElement
  <2> HIDE DEF old, next
  <2>8. Cardinality(next) = Cardinality(old) + objects'[o].revision - objects[o].revision
    BY <1>1, <1>2, <2>1, <2>6, <2>7
  <2> QED  BY <2>8 DEF old, next
<1>6. CASE o \notin W
  <2>1. objects'[o] = objects[o]
    BY <1>6 DEF Rewrites
  <2>2. \A f \in new : f.type \in ObjectTypes => f.object # o
    BY <1>6 DEF Rewrites
  <2>3. next = old
    BY <1>4, <2>2 DEF ObjectEventsOf, ObjectTypes
  <2> HIDE DEF old, next
  <2>4. Cardinality(next) = Cardinality(old) + objects'[o].revision - objects[o].revision
    BY <1>1, <1>2, <2>1, <2>3
  <2> QED  BY <2>4 DEF old, next
<1> QED  BY <1>5, <1>6

LEMMA ReadableKept ==
  ASSUME TypeInv, BootstrapReadable, NEW id \in CommandIds, NEW r \in Requests,
         Apply(id, r), ~NoEffect(id, r)
  PROVE  BootstrapReadable'
<1>1. sessions' = sessions
  BY EffectsAdvance DEF TypeInv
<1>2. versions \subseteq versions'
  BY EffectsRewrite DEF Rewrites
<1>3. ASSUME NEW s \in Sessions, sessions[s].open, NEW o \in Objects,
             sessions[s].revisions[o] > 0
      PROVE  \E v \in VersionsOf(o)' : /\ v.revision = sessions[s].revisions[o]
                                       /\ v.sequence <= sessions[s].snapshot
  <2>1. PICK v \in VersionsOf(o) : /\ v.revision = sessions[s].revisions[o]
                                   /\ v.sequence <= sessions[s].snapshot
    BY <1>3 DEF BootstrapReadable
  <2>2. v \in VersionsOf(o)'
    BY <1>2 DEF VersionsOf
  <2> QED  BY <2>1, <2>2
<1>4. ASSUME NEW s \in Sessions, sessions[s].open, NEW d \in Documents,
             NEW n \in (sessions[s].documents[d].checkpoint + 1)
                         ..sessions[s].documents[d].latest
      PROVE  \E u \in updates' : u.document = d /\ u.sequence = n
  <2>1. updates \subseteq updates'
    BY <1>4, UpdatesKept
  <2> QED  BY <1>4, <2>1 DEF BootstrapReadable
<1> QED  BY <1>1, <1>3, <1>4 DEF BootstrapReadable

(* A conflict that opens or closes does so after every open snapshot.       *)
LEMMA ListingKept ==
  ASSUME TypeInv, TypeInv', ConflictsFollow, NEW n \in Nat, n <= latestSequence
  PROVE  BootstrapListing(n)' = BootstrapListing(n)
<1>1. /\ latestSequence \in Nat
      /\ \A c \in ConflictIds : conflicts[c].created \in Nat /\ conflicts[c].resolved \in Nat
      /\ \A c \in ConflictIds : conflicts'[c].created \in Nat /\ conflicts'[c].resolved \in Nat
  BY DEF TypeInv, TypeOK, ConflictRow
<1>2. ASSUME NEW new, LeavesConflicts(new)
      PROVE  BootstrapListing(n)' = BootstrapListing(n)
  BY <1>2 DEF LeavesConflicts, BootstrapListing, Exist
<1>3. ASSUME NEW c, NEW e, NEW new, OpensConflict(c, e, new)
      PROVE  BootstrapListing(n)' = BootstrapListing(n)
  <2>1. /\ c \in ConflictIds /\ conflicts[c].status = "absent"
        /\ conflicts'[c].created > latestSequence
        /\ \A x \in ConflictIds \ {c} : conflicts'[x] = conflicts[x]
    BY <1>3 DEF OpensConflict, OnlyConflictEvent, Exist
  <2> QED  BY <1>1, <2>1 DEF BootstrapListing, Exist
<1>4. ASSUME NEW c, NEW e, NEW new, ClosesConflict(c, e, new)
      PROVE  BootstrapListing(n)' = BootstrapListing(n)
  <2>1. /\ c \in ConflictIds /\ conflicts[c].status = "unresolved"
        /\ conflicts'[c].status = "resolved"
        /\ conflicts'[c].resolved > latestSequence
        /\ conflicts'[c].created = conflicts[c].created
        /\ \A x \in ConflictIds \ {c} : conflicts'[x] = conflicts[x]
    BY <1>4 DEF ClosesConflict, OnlyConflictEvent
  <2> QED  BY <1>1, <2>1 DEF BootstrapListing, Exist
<1> QED  BY <1>2, <1>3, <1>4 DEF ConflictsFollow

(* What a device that replays log after the n-th sequence sees of d, from a
   document it holds up to m.                                               *)
Seen(l, d, n, m) ==
  {e.documentSequence : e \in {f \in {g \in l : g.document = d} : f.sequence > n}}
    \cup {m}

LEMMA SeenGrows ==
  ASSUME TypeInv, TypeInv', NEW new, FollowsDocuments(new), NEW d \in Documents,
         NEW n \in Nat, n <= latestSequence, NEW m \in Nat,
         documents[d].latest \in Seen(events, d, n, m),
         \A k \in Seen(events, d, n, m) : k <= documents[d].latest
  PROVE  /\ documents'[d].latest \in Seen(events', d, n, m)
         /\ \A k \in Seen(events', d, n, m) : k <= documents'[d].latest
<1>1. /\ documents[d].latest \in Nat /\ documents'[d].latest \in Nat
      /\ latestSequence \in Nat
      /\ \A e \in events' : e.documentSequence \in Nat /\ e.sequence \in Nat
  BY DEF TypeInv, TypeOK, DocumentRow, EventRow
<1>2. events' = events \cup new
  BY DEF FollowsDocuments
<1>3. Seen(events, d, n, m) \subseteq Seen(events', d, n, m)
  BY <1>2 DEF Seen
<1>4. CASE /\ documents'[d].latest = documents[d].latest
           /\ \A e \in new : e.document # d
  <2>1. Seen(events', d, n, m) = Seen(events, d, n, m)
    BY <1>2, <1>4 DEF Seen
  <2> QED  BY <1>4, <2>1
<1>5. CASE /\ documents'[d].latest >= documents[d].latest
           /\ \E e \in new : /\ e.document = d
                             /\ e.sequence > latestSequence
                             /\ e.documentSequence = documents'[d].latest
                             /\ \A f \in new : f.document = d => f = e
  <2>1. PICK e \in new : /\ e.document = d
                         /\ e.sequence > latestSequence
                         /\ e.documentSequence = documents'[d].latest
                         /\ \A f \in new : f.document = d => f = e
    BY <1>5
  <2>2. e \in events' /\ e.sequence > n
    BY <1>1, <1>2, <2>1
  <2>3. documents'[d].latest \in Seen(events', d, n, m)
    BY <2>1, <2>2 DEF Seen
  <2>4. ASSUME NEW k \in Seen(events', d, n, m)
        PROVE  k \in Seen(events, d, n, m) \/ k = documents'[d].latest
    BY <1>2, <2>1, <2>4 DEF Seen
  <2>5. Seen(events, d, n, m) \subseteq Nat
    BY <1>1, <1>2 DEF Seen
  <2> QED  BY <1>1, <1>5, <2>3, <2>4, <2>5
<1> QED  BY <1>4, <1>5 DEF FollowsDocuments

LEMMA ReplayKept ==
  ASSUME TypeInv, TypeInv', EventLogComplete, SnapshotsPast, SnapshotPlusEventsIsCurrent,
         NEW id \in CommandIds, NEW r \in Requests, Apply(id, r), ~NoEffect(id, r)
  PROVE  SnapshotPlusEventsIsCurrent'
<1>1. sessions' = sessions
  BY EffectsAdvance DEF TypeInv
<1>2. ASSUME NEW s \in Sessions, sessions[s].open
      PROVE  sessions[s].snapshot \in Nat /\ sessions[s].snapshot <= latestSequence
  BY <1>2 DEF SnapshotsPast, TypeInv, TypeOK, SessionRow
<1>3. ASSUME NEW s \in Sessions, sessions[s].open, NEW o \in Objects
      PROVE  objects'[o].revision = sessions[s].revisions[o]
               + Cardinality({e \in ObjectEventsOf(o)' : e.sequence > sessions[s].snapshot})
  <2> DEFINE n == sessions[s].snapshot
             old == Cardinality({e \in ObjectEventsOf(o) : e.sequence > n})
             next == Cardinality({e \in ObjectEventsOf(o)' : e.sequence > n})
  <2>1. objects[o].revision = sessions[s].revisions[o] + old
    BY <1>3 DEF SnapshotPlusEventsIsCurrent
  <2>2. PICK W, stamp, new : Rewrites(W, stamp, new)
    BY EffectsRewrite
  <2>3. n \in Nat /\ n <= latestSequence
    BY <1>2, <1>3
  <2> HIDE DEF n
  <2>4. next = old + objects'[o].revision - objects[o].revision
    BY <2>2, <2>3, OneMoreEvent
  <2>5. {e \in ObjectEventsOf(o) : e.sequence > n} \in SUBSET events
    BY DEF ObjectEventsOf
  <2>6. old \in Nat
    BY <2>5, LogFinite, FS_Subset, FS_CardinalityType DEF TypeInv
  <2>7. /\ objects[o].revision \in Nat /\ objects'[o].revision \in Nat
        /\ sessions[s].revisions[o] \in Nat
    BY DEF TypeInv, TypeOK, ObjectRow, SessionRow
  <2> HIDE DEF old, next
  <2>8. objects'[o].revision = sessions[s].revisions[o] + next
    BY <2>1, <2>4, <2>6, <2>7
  <2> QED  BY <2>8 DEF next, n
<1>4. ASSUME NEW s \in Sessions, sessions[s].open, NEW d \in Documents
      PROVE  LET seen == Seen(events', d, sessions[s].snapshot,
                              sessions[s].documents[d].latest)
             IN  /\ documents'[d].latest \in seen
                 /\ \A k \in seen : k <= documents'[d].latest
  <2> DEFINE n == sessions[s].snapshot
             m == sessions[s].documents[d].latest
  <2>1. /\ documents[d].latest \in Seen(events, d, n, m)
        /\ \A k \in Seen(events, d, n, m) : k <= documents[d].latest
    BY <1>4 DEF SnapshotPlusEventsIsCurrent, Seen
  <2>2. PICK new : FollowsDocuments(new)
    BY EffectsOnDocuments
  <2>3. n \in Nat /\ n <= latestSequence /\ m \in Nat
    BY <1>2, <1>4 DEF TypeInv, TypeOK, SessionRow, DocumentRow
  <2> HIDE DEF n, m
  <2>4. /\ documents'[d].latest \in Seen(events', d, n, m)
        /\ \A k \in Seen(events', d, n, m) : k <= documents'[d].latest
    BY <2>1, <2>2, <2>3, SeenGrows
  <2> QED  BY <2>4 DEF n, m
<1> QED  BY <1>1, <1>3, <1>4 DEF SnapshotPlusEventsIsCurrent, Seen

LEMMA CommandKeepsSnapshots ==
  ASSUME TypeInv, TypeInv', EventLogComplete, BootstrapInv,
         NEW id \in CommandIds, NEW r \in Requests, Apply(id, r), ~NoEffect(id, r)
  PROVE  BootstrapInv'
<1>1. sessions' = sessions /\ latestSequence' >= latestSequence
  BY EffectsAdvance DEF TypeInv
<1>2. SnapshotsPast'
  BY <1>1 DEF BootstrapInv, SnapshotsPast, TypeInv, TypeOK, SessionRow
<1>3. BootstrapReadable'
  BY ReadableKept DEF BootstrapInv, BootstrapExact
<1>4. ASSUME NEW s \in Sessions, sessions[s].open
      PROVE  BootstrapListing(sessions[s].snapshot)' = sessions[s].unresolved
  <2> DEFINE n == sessions[s].snapshot
  <2>1. n \in Nat /\ n <= latestSequence
    BY <1>4 DEF BootstrapInv, SnapshotsPast, TypeInv, TypeOK, SessionRow
  <2>2. n' = n
    BY <1>1
  <2>3. BootstrapListing(n) = sessions[s].unresolved
    BY <1>4 DEF BootstrapInv, BootstrapExact, BootstrapConflictsFixed
  <2>4. {c \in ConflictIds :
           /\ Exist(c)'
           /\ conflicts'[c].created <= n
           /\ conflicts'[c].status = "unresolved" \/ conflicts'[c].resolved > n}
          = {c \in ConflictIds :
               /\ Exist(c)
               /\ conflicts[c].created <= n
               /\ conflicts[c].status = "unresolved" \/ conflicts[c].resolved > n}
    <3> HIDE DEF n
    <3> QED  BY <2>1, EffectsOnConflicts, ListingKept DEF BootstrapListing
  <2> QED  BY <2>2, <2>3, <2>4 DEF BootstrapListing
<1>5. BootstrapConflictsFixed'
  BY <1>1, <1>4 DEF BootstrapConflictsFixed
<1>6. SnapshotPlusEventsIsCurrent'
  BY ReplayKept DEF BootstrapInv, BootstrapExact
<1> QED  BY <1>2, <1>3, <1>5, <1>6 DEF BootstrapInv, BootstrapExact

(* A new snapshot is exact because the tables are, at that moment.          *)
LEMMA SnapshotTaken ==
  ASSUME TypeInv, TypeInv', EventLogComplete, ViewsAgree, DocumentRecoverable, BootstrapInv,
         NEW s \in Sessions, OpenBootstrap(s)
  PROVE  BootstrapInv'
<1> DEFINE now == [open |-> TRUE, snapshot |-> latestSequence,
                   revisions |-> [o \in Objects |-> objects[o].revision],
                   documents |-> documents,
                   unresolved |-> {c \in ConflictIds : conflicts[c].status = "unresolved"}]
<1>1. /\ sessions'[s] = now
      /\ \A x \in Sessions \ {s} : sessions'[x] = sessions[x]
      /\ UNCHANGED <<latestSequence, objects, versions, documents, updates, conflicts, events>>
  BY DEF OpenBootstrap, TypeInv, TypeOK, objectTables, documentTables
<1>2. /\ sessions'[s].snapshot = latestSequence
      /\ sessions'[s].documents = documents
      /\ sessions'[s].unresolved = {c \in ConflictIds : conflicts[c].status = "unresolved"}
      /\ \A o \in Objects : sessions'[s].revisions[o] = objects[o].revision
  BY <1>1
<1>3. latestSequence \in Nat
  BY DEF TypeInv, TypeOK
<1> HIDE DEF now
<1>4. SnapshotsPast'
  BY <1>1, <1>2, <1>3 DEF BootstrapInv, SnapshotsPast
<1>5. BootstrapReadable'
  <2>1. ASSUME NEW o \in Objects, objects[o].revision > 0
        PROVE  \E v \in VersionsOf(o) : /\ v.revision = objects[o].revision
                                        /\ v.sequence <= latestSequence
    <3>1. objects[o].revision \in {v.revision : v \in VersionsOf(o)}
      BY <2>1 DEF ViewsAgree, VersionHistory, TypeInv, TypeOK, ObjectRow
    <3>2. \A v \in VersionsOf(o) : v.sequence <= latestSequence
      BY VersionsLogged DEF ViewsAgree, TypeInv, VersionsOf
    <3> QED  BY <3>1, <3>2
  <2>2. ASSUME NEW d \in Documents,
               NEW n \in (documents[d].checkpoint + 1)..documents[d].latest
        PROVE  \E u \in updates : u.document = d /\ u.sequence = n
    BY <2>2 DEF DocumentRecoverable
  <2>3. \A o \in Objects : VersionsOf(o)' = VersionsOf(o)
    BY <1>1 DEF VersionsOf
  <2> QED  BY <1>1, <1>2, <2>1, <2>2, <2>3 DEF BootstrapInv, BootstrapExact, BootstrapReadable
<1>6. BootstrapConflictsFixed'
  <2>1. ASSUME NEW c \in ConflictIds, Exist(c)
        PROVE  /\ conflicts[c].created <= latestSequence
               /\ conflicts[c].status = "resolved" => conflicts[c].resolved <= latestSequence
    <3> DEFINE about(type) ==
                 {e.sequence : e \in {x \in events : x.conflict = c /\ x.type = type}}
    <3>1. \A type : \A n \in about(type) : n <= latestSequence
      BY <1>3 DEF EventLogComplete
    <3>2. /\ conflicts[c].created \in about("conflict.created")
          /\ conflicts[c].status = "resolved" =>
               conflicts[c].resolved \in about("conflict.resolved")
      BY <2>1 DEF ViewsAgree, ConflictsMatchEvents
    <3> HIDE DEF about
    <3> QED  BY <3>1, <3>2
  <2>2. \A c \in ConflictIds :
          /\ conflicts[c].status \in {"absent", "unresolved", "resolved"}
          /\ conflicts[c].resolved \in Nat
    BY DEF TypeInv, TypeOK, ConflictRow
  <2>3. BootstrapListing(latestSequence) =
          {c \in ConflictIds : conflicts[c].status = "unresolved"}
    BY <1>3, <2>1, <2>2 DEF BootstrapListing, Exist
  <2> QED
    BY <1>1, <1>2, <2>3 DEF BootstrapInv, BootstrapExact, BootstrapConflictsFixed,
       BootstrapListing, Exist
<1>7. SnapshotPlusEventsIsCurrent'
  <2>1. \A e \in events : ~(e.sequence > latestSequence)
    BY <1>3 DEF EventLogComplete
  <2>2. ASSUME NEW o \in Objects
        PROVE  objects[o].revision = objects[o].revision
                 + Cardinality({e \in ObjectEventsOf(o) : e.sequence > latestSequence})
    <3>1. {e \in ObjectEventsOf(o) : e.sequence > latestSequence} = {}
      BY <2>1 DEF ObjectEventsOf
    <3>2. objects[o].revision \in Nat
      BY DEF TypeInv, TypeOK, ObjectRow
    <3> DEFINE n == Cardinality({e \in ObjectEventsOf(o) : e.sequence > latestSequence})
    <3>3. n = 0
      BY <3>1, FS_EmptySet
    <3> HIDE DEF n
    <3>4. objects[o].revision = objects[o].revision + n
      BY <3>2, <3>3
    <3> QED  BY <3>4 DEF n
  <2>3. ASSUME NEW d \in Documents
        PROVE  LET seen == Seen(events, d, latestSequence, documents[d].latest)
               IN  /\ documents[d].latest \in seen
                   /\ \A k \in seen : k <= documents[d].latest
    <3>1. Seen(events, d, latestSequence, documents[d].latest) = {documents[d].latest}
      BY <2>1 DEF Seen
    <3>2. documents[d].latest \in Nat
      BY DEF TypeInv, TypeOK, DocumentRow
    <3> QED  BY <3>1, <3>2
  <2>4. \A o \in Objects : ObjectEventsOf(o)' = ObjectEventsOf(o)
    BY <1>1 DEF ObjectEventsOf
  <2> QED
    BY <1>1, <1>2, <2>2, <2>3, <2>4
    DEF BootstrapInv, BootstrapExact, SnapshotPlusEventsIsCurrent, Seen
<1> QED  BY <1>4, <1>5, <1>6, <1>7 DEF BootstrapInv, BootstrapExact

LEMMA SnapshotStep ==
  ASSUME TypeInv, TypeInv', EventLogComplete, ViewsAgree, DocumentRecoverable, BootstrapInv,
         [Next]_vars
  PROVE  BootstrapInv'
<1>1. CASE UNCHANGED <<latestSequence, objects, versions, documents, updates, conflicts,
                       events, sessions>>
  BY <1>1 DEF BootstrapInv, BootstrapExact, SnapshotsPast, BootstrapReadable, VersionsOf,
     BootstrapConflictsFixed, BootstrapListing, Exist, SnapshotPlusEventsIsCurrent,
     ObjectEventsOf
<1>2. ASSUME NEW id \in CommandIds, NEW r \in Requests, Apply(id, r)
      PROVE  BootstrapInv'
  <2>1. CASE NoEffect(id, r)
    BY <1>1, <2>1, NoEffectRecords DEF RecordOnly, objectTables, documentTables
  <2>2. CASE ~NoEffect(id, r)
    BY <1>2, <2>2, CommandKeepsSnapshots
  <2> QED  BY <2>1, <2>2
<1>3. ASSUME NEW s \in Sessions, OpenBootstrap(s)
      PROVE  BootstrapInv'
  BY <1>3, SnapshotTaken
<1>4. ASSUME NEW s \in Sessions, CloseBootstrap(s)
      PROVE  BootstrapInv'
  <2>1. /\ \A x \in Sessions : sessions'[x].open => sessions[x].open /\ sessions'[x] = sessions[x]
        /\ UNCHANGED <<latestSequence, objects, versions, documents, updates, conflicts, events>>
    BY <1>4 DEF CloseBootstrap, NoSession, TypeInv, TypeOK, objectTables, documentTables
  <2>2. SnapshotsPast' /\ BootstrapReadable'
    BY <2>1 DEF BootstrapInv, BootstrapExact, SnapshotsPast, BootstrapReadable, VersionsOf
  <2>3. BootstrapConflictsFixed'
    BY <2>1 DEF BootstrapInv, BootstrapExact, BootstrapConflictsFixed, BootstrapListing, Exist
  <2>4. SnapshotPlusEventsIsCurrent'
    BY <2>1 DEF BootstrapInv, BootstrapExact, SnapshotPlusEventsIsCurrent, ObjectEventsOf
  <2> QED  BY <2>2, <2>3, <2>4 DEF BootstrapInv, BootstrapExact
<1> QED
  BY <1>1, <1>2, <1>3, <1>4 DEF Next, Command, vars

(* While a bootstrap session is open, whatever is written meanwhile: all its
   pages can be read, its list of conflicts is that of the snapshot, and the
   events after it lead from the snapshot to the present.                   *)
THEOREM BootstrapCorrect == Spec => []BootstrapExact
<1>1. Init => BootstrapInv
  BY DEF Init, NoSession, BootstrapInv, BootstrapExact, SnapshotsPast, BootstrapReadable,
     BootstrapConflictsFixed, SnapshotPlusEventsIsCurrent
<1>2. /\ TypeInv /\ TypeInv' /\ EventLogComplete /\ ViewsAgree /\ DocumentRecoverable
      /\ BootstrapInv /\ [Next]_vars
      => BootstrapInv'
  BY SnapshotStep
<1>3. BootstrapInv => BootstrapExact
  BY DEF BootstrapInv
<1>4. Spec => []TypeInv
  BY InitTyped, StepTyped, PTL DEF Spec
<1>5. Spec => [](EventLogComplete /\ ViewsAgree /\ DocumentRecoverable)
  BY LogComplete, ViewsCorrect, DocumentsRecoverable, PTL
<1> QED  BY <1>1, <1>2, <1>3, <1>4, <1>5, PTL DEF Spec

-----------------------------------------------------------------------------
(***************************************************************************)
(* The active objects stay one forest, and two of them share a name only   *)
(* where a conflict says so.                                               *)
(***************************************************************************)

(* Ancestry(p) is the least set that holds p and is closed under parents.   *)

LEMMA AncestryHolds ==
  ASSUME TypeOK, NEW p \in Objects
  PROVE  /\ p \in Ancestry(p)
         /\ \A y \in Ancestry(p) :
              objects[y].parent # None => objects[y].parent \in Ancestry(p)
<1>1. p \in Ancestry(p)
  BY DEF Ancestry
<1>2. ASSUME NEW y \in Ancestry(p), objects[y].parent # None
      PROVE  objects[y].parent \in Ancestry(p)
  <2>1. y \in Objects /\ objects[y].parent \in Objects
    BY <1>2 DEF Ancestry, TypeOK, ObjectRow
  <2>2. ASSUME NEW S \in SUBSET Objects,
               p \in S /\ \A z \in S : objects[z].parent # None => objects[z].parent \in S
        PROVE  objects[y].parent \in S
    BY <1>2, <2>2 DEF Ancestry
  <2> QED  BY <2>1, <2>2 DEF Ancestry
<1> QED  BY <1>1, <1>2

LEMMA AncestryLeast ==
  ASSUME NEW p \in Objects, NEW S \in SUBSET Objects, p \in S,
         \A y \in S : objects[y].parent # None => objects[y].parent \in S
  PROVE  Ancestry(p) \subseteq S
BY DEF Ancestry

(* Subtree(o) is closed under active children.                              *)
LEMMA SubtreeHolds ==
  ASSUME NEW o \in Objects
  PROVE  /\ o \in Subtree(o)
         /\ \A y \in Objects :
              Active(y) /\ objects[y].parent \in Subtree(o) => y \in Subtree(o)
<1>1. o \in Subtree(o)
  BY DEF Subtree
<1>2. ASSUME NEW y \in Objects, Active(y), objects[y].parent \in Subtree(o)
      PROVE  y \in Subtree(o)
  <2>1. ASSUME NEW S \in SUBSET Objects,
               o \in S /\ \A z \in Objects : Active(z) /\ objects[z].parent \in S => z \in S
        PROVE  y \in S
    <3>1. objects[y].parent \in S
      BY <1>2, <2>1 DEF Subtree
    <3> QED  BY <1>2, <2>1, <3>1
  <2> QED  BY <2>1 DEF Subtree
<1> QED  BY <1>1, <1>2

(* In a sound hierarchy the walk up from an active folder meets only active
   folders, and none that has no active child.                              *)
LEMMA AncestorsActive ==
  ASSUME TypeOK, HierarchySound, NEW p \in Objects, ActiveFolder(p)
  PROVE  \A y \in Ancestry(p) : ActiveFolder(y)
<1> DEFINE S == {y \in Objects : ActiveFolder(y)}
<1>1. \A y \in S : objects[y].parent # None => objects[y].parent \in S
  BY DEF HierarchySound, ActiveFolder, TypeOK, ObjectRow
<1>2. Ancestry(p) \subseteq S
  BY <1>1, AncestryLeast
<1> QED  BY <1>2

LEMMA ChildlessIsNoAncestor ==
  ASSUME TypeOK, HierarchySound, NEW o \in Objects, NEW p \in Objects,
         ActiveFolder(p), p # o,
         \A y \in Objects : Active(y) => objects[y].parent # o
  PROVE  o \notin Ancestry(p)
<1> DEFINE S == {y \in Objects : ActiveFolder(y) /\ y # o}
<1>1. \A y \in S : objects[y].parent # None => objects[y].parent \in S
  BY DEF HierarchySound, ActiveFolder, TypeOK, ObjectRow
<1>2. Ancestry(p) \subseteq S
  BY <1>1, AncestryLeast
<1> QED  BY <1>2

-----------------------------------------------------------------------------
(* What a command does to the tree.                                         *)

(* One object is written, below a valid parent.                             *)
Places(o) ==
  /\ o \in Objects
  /\ \A x \in Objects \ {o} : objects'[x] = objects[x]
  /\ Active(o)'
  /\ Exists(o) => objects'[o].kind = objects[o].kind
  /\ ValidParent(o, objects'[o].parent)

(* One object that is not an active folder with children is deleted.        *)
Removes(o) ==
  /\ o \in Objects
  /\ \A x \in Objects \ {o} : objects'[x] = objects[x]
  /\ ~Active(o)'
  /\ Active(o)
  /\ objects'[o].kind = objects[o].kind
  /\ objects[o].kind = "folder" => FolderEmpty(o)

(* A whole subtree is deleted where it stands.                              *)
Fells(o) ==
  /\ o \in Objects
  /\ \A x \in Objects \ Subtree(o) : objects'[x] = objects[x]
  /\ \A x \in Subtree(o) : /\ ~Active(x)'
                           /\ objects'[x].parent = objects[x].parent
                           /\ objects'[x].kind = objects[x].kind

LEMMA PlacingKeepsHierarchy ==
  ASSUME TypeOK, TypeOK', HierarchySound, NEW o \in Objects, Places(o)
  PROVE  HierarchySound'
<1>1. PICK p \in Objects \cup {None} : objects'[o].parent = p
  BY DEF TypeOK, ObjectRow
<1> DEFINE walk == IF p = None THEN {} ELSE Ancestry(p)
<1>2. /\ walk \in SUBSET Objects
      /\ p # None => p \in walk
      /\ \A y \in walk : objects[y].parent # None => objects[y].parent \in walk
  BY AncestryHolds, SentinelAssumption DEF Ancestry
<1>3. o \notin walk /\ \A y \in walk : ActiveFolder(y)
  BY <1>1 DEF Places, ValidParent
<1> HIDE DEF walk
<1>4. \A y \in Objects : y # o /\ ActiveFolder(y) => ActiveFolder(y)'
  BY DEF Places, ActiveFolder, Active, Exists
<1>5. ActiveFolder(o) => ActiveFolder(o)'
  BY DEF Places, ActiveFolder, Active, Exists
<1>6. \A y \in walk : objects'[y].parent # None => objects'[y].parent \in walk
  BY <1>2, <1>3 DEF Places
<1> SUFFICES ASSUME NEW x \in Objects, NEW q \in Objects,
                    Active(x)', objects'[x].parent = q
             PROVE  ActiveFolder(q)' /\ x \notin Ancestry(q)'
  BY DEF HierarchySound, TypeOK, ObjectRow
<1>7. CASE x = o
  <2>1. q = p /\ p # None
    BY <1>1, <1>7, SentinelAssumption
  <2>2. ActiveFolder(q)'
    BY <1>2, <1>3, <1>4, <2>1
  <2>3. Ancestry(q)' \subseteq walk
    BY <1>2, <1>6, <2>1 DEF Ancestry
  <2> QED  BY <1>3, <1>7, <2>2, <2>3
<1>8. CASE x # o
  <2>1. objects[x].parent = q /\ Active(x)
    BY <1>8 DEF Places, Active, Exists
  <2>2. ActiveFolder(q) /\ x \notin Ancestry(q)
    BY <2>1, SentinelAssumption DEF HierarchySound
  <2>3. ActiveFolder(q)'
    BY <1>4, <1>5, <2>2
  <2> DEFINE S == Ancestry(q) \cup walk
  <2>4. /\ q \in Ancestry(q)
        /\ \A y \in Ancestry(q) :
             y # o /\ objects'[y].parent # None => objects'[y].parent \in Ancestry(q)
    BY AncestryHolds DEF Places, Ancestry
  <2>5. CASE o \notin Ancestry(q)
    <3> DEFINE up == Ancestry(q)
    <3>1. /\ up \in SUBSET Objects /\ q \in up
          /\ \A y \in up : objects'[y].parent # None => objects'[y].parent \in up
      BY <2>4, <2>5 DEF Ancestry
    <3> HIDE DEF up
    <3>2. Ancestry(q)' \subseteq up
      BY <3>1 DEF Ancestry
    <3> QED  BY <2>2, <2>3, <3>2 DEF up
  <2>6. CASE o \in Ancestry(q)
    <3>1. x \notin walk
      <4>1. SUFFICES ASSUME x \in walk PROVE q \notin walk
        BY <1>2, <2>1, SentinelAssumption
      <4>2. SUFFICES ASSUME q \in walk PROVE FALSE
        OBVIOUS
      <4>3. Ancestry(q) \subseteq walk
        BY <1>2, <4>2, AncestryLeast
      <4> QED  BY <1>3, <2>6, <4>3
    <3>2. S \in SUBSET Objects /\ q \in S
      BY <1>2, <2>4 DEF Ancestry
    <3>3. \A y \in S : objects'[y].parent # None => objects'[y].parent \in S
      BY <1>1, <1>2, <1>6, <2>4
    <3> HIDE DEF S
    <3>4. Ancestry(q)' \subseteq S
      BY <3>2, <3>3 DEF Ancestry
    <3> QED  BY <2>2, <2>3, <3>1, <3>4 DEF S
  <2> QED  BY <2>5, <2>6
<1> QED  BY <1>7, <1>8

LEMMA RemovingKeepsHierarchy ==
  ASSUME TypeOK, TypeOK', HierarchySound, NEW o \in Objects, Removes(o)
  PROVE  HierarchySound'
<1>1. \A y \in Objects : Active(y) => objects[y].parent # o
  BY SentinelAssumption
  DEF Removes, HierarchySound, ActiveFolder, FolderEmpty, TypeOK, ObjectRow
<1> SUFFICES ASSUME NEW x \in Objects, NEW q \in Objects,
                    Active(x)', objects'[x].parent = q
             PROVE  ActiveFolder(q)' /\ x \notin Ancestry(q)'
  BY DEF HierarchySound, TypeOK, ObjectRow
<1>2. x # o
  BY DEF Removes
<1>3. Active(x) /\ objects[x].parent = q
  BY <1>2 DEF Removes, Active, Exists
<1>4. q # o /\ ActiveFolder(q) /\ x \notin Ancestry(q)
  BY <1>1, <1>3, SentinelAssumption DEF HierarchySound
<1>5. ActiveFolder(q)'
  BY <1>4 DEF Removes, ActiveFolder, Active, Exists
<1>6. o \notin Ancestry(q)
  BY <1>1, <1>4, ChildlessIsNoAncestor
<1>7. /\ q \in Ancestry(q)
      /\ \A y \in Ancestry(q) :
           objects'[y].parent # None => objects'[y].parent \in Ancestry(q)
  BY <1>6, AncestryHolds DEF Removes, Ancestry
<1>8. Ancestry(q)' \subseteq Ancestry(q)
  BY <1>7 DEF Ancestry
<1> QED  BY <1>4, <1>5, <1>8

LEMMA FellingKeepsHierarchy ==
  ASSUME TypeOK, TypeOK', HierarchySound, NEW o \in Objects, Fells(o)
  PROVE  HierarchySound'
<1> SUFFICES ASSUME NEW x \in Objects, NEW q \in Objects,
                    Active(x)', objects'[x].parent = q
             PROVE  ActiveFolder(q)' /\ x \notin Ancestry(q)'
  BY DEF HierarchySound, TypeOK, ObjectRow
<1>1. x \notin Subtree(o)
  BY DEF Fells
<1>2. Active(x) /\ objects[x].parent = q
  BY <1>1 DEF Fells, Active, Exists
<1>3. q \notin Subtree(o)
  BY <1>1, <1>2, SubtreeHolds
<1>4. ActiveFolder(q) /\ x \notin Ancestry(q)
  BY <1>2, SentinelAssumption DEF HierarchySound
<1>5. ActiveFolder(q)'
  BY <1>3, <1>4 DEF Fells, ActiveFolder, Active, Exists
<1>6. /\ q \in Ancestry(q)
      /\ \A y \in Ancestry(q) :
           objects'[y].parent # None => objects'[y].parent \in Ancestry(q)
  BY AncestryHolds DEF Fells, Ancestry
<1>7. Ancestry(q)' \subseteq Ancestry(q)
  BY <1>6 DEF Ancestry
<1> QED  BY <1>4, <1>5, <1>7

-----------------------------------------------------------------------------
(* Which command does what to the tree, and what it leaves behind for the
   name of an object it wrote.                                              *)

NameSettled(o) ==
  objects'[o] # objects[o] =>
    \/ ~Active(o)'
    \/ Rivals(o, objects[o].parent, objects[o].name)' = {}
    \/ OpenSameName(o)' # {}

LEMMA UpsertShapesTree ==
  ASSUME TypeInv, TypeInv', NEW id \in CommandIds, NEW r \in Requests,
         UpsertObject(id, r) \/ UpsertSameName(id, r)
  PROVE  /\ r.object \in Objects /\ Places(r.object)
         /\ \A o \in Objects : NameSettled(o)
<1> DEFINE o == r.object
           row == UpsertedRow(r)
<1>1. r \in UpsertRequest /\ o \in Objects
  BY UpsertShape DEF UpsertObject, UpsertSameName, UpsertRequest
<1>2. /\ objects'[o] = row
      /\ \A x \in Objects \ {o} : objects'[x] = objects[x]
      /\ UpsertAllowed(r)
  BY <1>1 DEF UpsertObject, UpsertSameName, WriteObject, TypeInv, TypeOK
<1>3. /\ row.revision = objects[o].revision + 1
      /\ ~row.deleted
      /\ row.kind = r.kind
      /\ row.parent = Field(r.parent, objects[o].parent)
  BY <1>1 DEF UpsertedRow, UpsertRequest
<1>4. objects[o].revision \in Nat
  BY <1>1 DEF TypeInv, TypeOK, ObjectRow
<1> HIDE DEF row
<1>5. Places(o)
  BY <1>1, <1>2, <1>3, <1>4 DEF Places, Active, Exists, UpsertAllowed, KindMatches
<1>6. NameSettled(o)
  <2>1. Rivals(o, objects[o].parent, objects[o].name)' = Rivals(o, row.parent, row.name)
    BY <1>1, <1>2 DEF Rivals, Active, Exists
  <2>2. CASE UpsertObject(id, r)
    BY <2>1, <2>2 DEF UpsertObject, OpenSameName, NameSettled, row
  <2>3. CASE UpsertSameName(id, r)
    <3>1. r.conflict \in ConflictIds
      BY <1>1, <2>3 DEF UpsertSameName, UpsertRequest
    <3>2. conflicts'[r.conflict] = NewConflict(o, "same-name", row.revision, None, 2)
      BY <2>3, <3>1 DEF UpsertSameName, row, TypeInv, TypeOK
    <3>3. r.conflict \in OpenSameName(o)'
      BY <3>1, <3>2 DEF OpenSameName, NewConflict
    <3> QED  BY <3>3 DEF NameSettled
  <2> QED  BY <2>2, <2>3
<1> QED  BY <1>1, <1>2, <1>5, <1>6 DEF NameSettled

LEMMA ContentShapesTree ==
  ASSUME TypeInv, TypeInv', NEW id \in CommandIds, NEW r \in Requests,
         ResolveContent(id, r)
  PROVE  \E o \in Objects : Places(o) /\ \A x \in Objects : NameSettled(x)
<1>0. PICK o \in Objects : o = conflicts[r.conflict].object
  BY ResolveShape DEF ResolveContent, Resolvable, ResolveAllowed, ResolveRequest,
     TypeInv, ConflictsNamed
<1>1. r \in ResolveRequest /\ r.content \in ObjectResolution
  BY ResolveShape DEF ResolveContent, Resolvable, ResolveAllowed, ResolveRequest
<1> DEFINE row == ResolvedRow(o, r.content)
<1>2. /\ objects'[o] = row
      /\ \A x \in Objects \ {o} : objects'[x] = objects[x]
      /\ ContentAllowed(o, r.content) /\ NameFree(o, r.content)
  BY <1>0 DEF ResolveContent, WriteObject, TypeInv, TypeOK
<1>3. /\ row.revision = objects[o].revision + 1
      /\ ~row.deleted
      /\ row.kind = objects[o].kind
  BY <1>1 DEF ResolvedRow, TypeInv, TypeOK, ObjectRow
<1>4. objects[o].revision \in Nat
  BY <1>1 DEF TypeInv, TypeOK, ObjectRow
<1>5. ValidParent(o, row.parent) /\ Rivals(o, row.parent, row.name) = {}
  BY <1>2 DEF ContentAllowed, NameFree
<1> HIDE DEF row
<1>6. Places(o)
  BY <1>1, <1>2, <1>3, <1>4, <1>5 DEF Places, Active, Exists
<1>7. Rivals(o, objects[o].parent, objects[o].name)' = {}
  BY <1>1, <1>2, <1>5 DEF Rivals, Active, Exists
<1> QED  BY <1>1, <1>2, <1>6, <1>7 DEF NameSettled

LEMMA DeleteShapesTree ==
  ASSUME TypeInv, TypeInv', NEW id \in CommandIds, NEW r \in Requests,
         DeleteObject(id, r)
  PROVE  \E o \in Objects : Removes(o) /\ \A x \in Objects : NameSettled(x)
<1> DEFINE o == r.object
           row == DeletedRow(r)
<1>1. r \in DeleteRequest /\ o \in Objects
  BY DeleteShape DEF DeleteObject, DeleteRequest
<1>2. /\ objects'[o] = row
      /\ \A x \in Objects \ {o} : objects'[x] = objects[x]
      /\ DeleteAllowed(r)
  BY <1>1 DEF DeleteObject, WriteObject, TypeInv, TypeOK
<1>3. row.deleted /\ row.kind = objects[o].kind
  BY <1>1 DEF DeletedRow, TypeInv, TypeOK, ObjectRow
<1> HIDE DEF row
<1>4. Removes(o)
  BY <1>1, <1>2, <1>3 DEF Removes, DeleteAllowed, KindMatches, Active
<1> QED  BY <1>1, <1>2, <1>4 DEF NameSettled, Removes

LEMMA ClosingDeleteShapesTree ==
  ASSUME TypeInv, TypeInv', NEW id \in CommandIds, NEW r \in Requests,
         ResolveDelete(id, r)
  PROVE  \E o \in Objects : Removes(o) /\ \A x \in Objects : NameSettled(x)
<1>1. PICK o \in Objects : o = conflicts[r.conflict].object
  BY ResolveShape DEF ResolveDelete, Resolvable, ResolveAllowed, ResolveRequest,
     TypeInv, ConflictsNamed
<1>2. /\ objects'[o] = Tombstone(o)
      /\ \A x \in Objects \ {o} : objects'[x] = objects[x]
      /\ Active(o)
      /\ objects[o].kind = "folder" => FolderEmpty(o)
  BY <1>1 DEF ResolveDelete, DeleteCurrent, WriteObject, TypeInv, TypeOK
<1>3. Tombstone(o).deleted /\ Tombstone(o).kind = objects[o].kind
  BY <1>1 DEF Tombstone, TypeInv, TypeOK, ObjectRow
<1>4. Removes(o)
  BY <1>1, <1>2, <1>3 DEF Removes, Active
<1> QED  BY <1>1, <1>2, <1>4 DEF NameSettled, Removes

LEMMA SubtreeShapesTree ==
  ASSUME TypeInv, TypeInv', NEW id \in CommandIds, NEW r \in Requests,
         DeleteSubtree(id, r)
  PROVE  \E o \in Objects : Fells(o) /\ \A x \in Objects : NameSettled(x)
<1>1. r.root \in Objects /\ r.items = Subtree(r.root) /\ r.items \subseteq Objects
  BY SubtreeShape DEF DeleteSubtree, SubtreeMatches, SubtreeRequest, Subtree
<1>2. objects' = [o \in Objects |->
                    IF o \in r.items THEN Tombstone(o) ELSE objects[o]]
  BY DEF DeleteSubtree
<1>3. ASSUME NEW x \in r.items
      PROVE  /\ objects'[x] = Tombstone(x)
             /\ Tombstone(x).deleted
             /\ Tombstone(x).parent = objects[x].parent
             /\ Tombstone(x).kind = objects[x].kind
  <2>1. objects'[x] = Tombstone(x) /\ x \in Objects
    BY <1>1, <1>2
  <2>2. Tombstone(x).kind = objects[x].kind
    BY <2>1 DEF TypeInv, TypeOK, ObjectRow, Tombstone
  <2> QED  BY <2>1, <2>2, RowsAdvance DEF TypeInv
<1>4. \A x \in Objects \ r.items : objects'[x] = objects[x]
  BY <1>2
<1>5. Fells(r.root)
  BY <1>1, <1>3, <1>4 DEF Fells, Active
<1> QED  BY <1>1, <1>3, <1>4, <1>5 DEF NameSettled, Active

LEMMA EffectsOnTree ==
  ASSUME TypeInv, TypeInv', NEW id \in CommandIds, NEW r \in Requests, Apply(id, r),
         ~NoEffect(id, r)
  PROVE  /\ \/ UNCHANGED objects
            \/ \E o \in Objects : Places(o) \/ Removes(o) \/ Fells(o)
         /\ \A o \in Objects : NameSettled(o)
<1>1. CASE \/ DeleteVersusEdit(id, r) \/ DeleteSubtreeVersusEdit(id, r)
           \/ AppendUpdate(id, r) \/ CommitCheckpoint(id, r) \/ CreateConflict(id, r)
           \/ ResolveDismiss(id, r) \/ ResolveBaseline(id, r)
  <2>1. UNCHANGED objects
    BY <1>1 DEF DeleteVersusEdit, DeleteSubtreeVersusEdit, AppendUpdate,
       CommitCheckpoint, CreateConflict, ResolveDismiss, ResolveBaseline, objectTables
  <2> QED  BY <2>1 DEF NameSettled
<1> QED
  BY <1>1, CommandCases, UpsertShapesTree, ContentShapesTree, DeleteShapesTree,
     ClosingDeleteShapesTree, SubtreeShapesTree

-----------------------------------------------------------------------------
(* Same names.                                                              *)

(* A conflict id without a row reads as no same-name conflict.              *)
AbsentBlank == \A c \in ConflictIds : ~Exist(c) => conflicts[c].type = "client"

(* A command that closes a conflict does it with its last sequence.         *)
LEMMA ClosingIsLast ==
  ASSUME TypeInv, NEW id \in CommandIds, NEW r \in Requests, Apply(id, r),
         ~NoEffect(id, r), NEW c \in ConflictIds, Closes(c)
  PROVE  conflicts'[c].resolved = latestSequence'
<1>1. ASSUME NEW x, NEW k, k.status = "unresolved",
             conflicts' = [conflicts EXCEPT ![x] = k] \/ conflicts' = conflicts
      PROVE  FALSE
  BY <1>1 DEF Closes, TypeInv, TypeOK
<1>2. ASSUME NEW n, NEW others, CloseConflict(id, r, n, others)
      PROVE  conflicts'[c].resolved = latestSequence'
  <2>1. conflicts' = [conflicts EXCEPT ![r.conflict] =
          [conflicts[r.conflict] EXCEPT !.status = "resolved",
                                        !.resolved = latestSequence + n]]
    BY <1>2 DEF CloseConflict, TypeInv, TypeOK
  <2>2. c = r.conflict
    BY <2>1 DEF Closes, TypeInv, TypeOK
  <2>3. latestSequence' = latestSequence + n
    BY <1>2 DEF CloseConflict, NextSequence
  <2> QED  BY <2>1, <2>2, <2>3 DEF TypeInv, TypeOK, ConflictRow
<1>3. CASE \/ ResolveDismiss(id, r) \/ ResolveBaseline(id, r)
           \/ ResolveContent(id, r) \/ ResolveDelete(id, r)
  BY <1>2, <1>3 DEF ResolveDismiss, ResolveBaseline, ResolveContent, ResolveDelete
<1>4. CASE \/ UpsertObject(id, r) \/ DeleteObject(id, r) \/ DeleteSubtree(id, r)
           \/ AppendUpdate(id, r) \/ CommitCheckpoint(id, r)
  BY <1>4 DEF Closes, UpsertObject, DeleteObject, DeleteSubtree, AppendUpdate, CommitCheckpoint
<1>5. CASE \/ UpsertSameName(id, r) \/ DeleteVersusEdit(id, r)
           \/ DeleteSubtreeVersusEdit(id, r) \/ CreateConflict(id, r)
  BY <1>1, <1>5, NewConflictFields
  DEF UpsertSameName, DeleteVersusEdit, DeleteSubtreeVersusEdit, CreateConflict
<1> QED  BY <1>3, <1>4, <1>5, CommandCases

(* A conflict row outlives every command; closing only adds its sequence.   *)
LEMMA ConflictKept ==
  ASSUME TypeInv, NEW id \in CommandIds, NEW r \in Requests, Apply(id, r),
         ~NoEffect(id, r), NEW c \in ConflictIds, Exist(c)
  PROVE  \/ conflicts'[c] = conflicts[c]
         \/ /\ conflicts'[c].object = conflicts[c].object
            /\ conflicts'[c].type = conflicts[c].type
            /\ conflicts'[c].status = "resolved"
            /\ conflicts'[c].resolved = latestSequence'
<1>1. ConflictsFollow
  BY EffectsOnConflicts
<1>2. ASSUME NEW x, NEW e, NEW new, ClosesConflict(x, e, new)
      PROVE  \/ conflicts'[c] = conflicts[c]
             \/ /\ conflicts'[c].object = conflicts[c].object
                /\ conflicts'[c].type = conflicts[c].type
                /\ conflicts'[c].status = "resolved"
                /\ Closes(c)
  BY <1>2 DEF ClosesConflict, Closes
<1> QED
  BY <1>1, <1>2, ClosingIsLast DEF ConflictsFollow, LeavesConflicts, OpensConflict

(* No version shares its sequence with the closing of a conflict.           *)
LEMMA ClosingIsNoVersion ==
  ASSUME EventLogComplete', ViewsAgree', NEW c \in ConflictIds,
         conflicts'[c].status = "resolved",
         conflicts'[c].resolved = latestSequence', TypeInv',
         NEW v \in versions'
  PROVE  v.sequence < conflicts'[c].resolved
<1>1. PICK e \in events' : /\ e.type \in {"object.upserted", "object.deleted"}
                           /\ e.sequence = v.sequence
  BY DEF ViewsAgree, ThreeViewsAgree, ObjectEventsOf
<1>2. PICK f \in events' : /\ f.type = "conflict.resolved"
                           /\ f.sequence = conflicts'[c].resolved
  <2> DEFINE closings == {x \in events' : x.conflict = c /\ x.type = "conflict.resolved"}
  <2>1. {x.sequence : x \in closings} = {conflicts'[c].resolved}
    BY DEF ViewsAgree, ConflictsMatchEvents
  <2>2. \A x \in closings : x \in events' /\ x.type = "conflict.resolved"
    OBVIOUS
  <2> HIDE DEF closings
  <2> QED  BY <2>1, <2>2
<1>3. e.sequence # f.sequence
  BY <1>1, <1>2 DEF EventLogComplete
<1>4. e.sequence \in 1..latestSequence' /\ latestSequence' \in Nat
  BY DEF EventLogComplete, TypeInv, TypeOK
<1> QED  BY <1>1, <1>2, <1>3, <1>4

LEMMA NamesFollow ==
  ASSUME TypeInv, TypeInv', EventLogComplete', ViewsAgree', SameNameRecorded,
         AbsentBlank, NEW id \in CommandIds, NEW r \in Requests, Apply(id, r),
         ~NoEffect(id, r)
  PROVE  SameNameRecorded'
<1> SUFFICES ASSUME NEW o \in Objects, NEW x \in Objects, Active(o)',
                    x \in Rivals(o, objects[o].parent, objects[o].name)'
             PROVE  \E c \in ConflictIds :
                      /\ conflicts'[c].object \in {o, x}
                      /\ conflicts'[c].type = "same-name"
                      /\ \/ conflicts'[c].status = "unresolved"
                         \/ \A v \in versions' :
                              (v.object \in {o, x} /\ v.revision = objects'[v.object].revision)
                                => v.sequence < conflicts'[c].resolved
  BY DEF SameNameRecorded
<1>1. o \in Rivals(x, objects[x].parent, objects[x].name)' /\ Active(x)'
  BY DEF Rivals
<1>2. CASE objects'[o] # objects[o]
  <2>1. OpenSameName(o)' # {}
    BY <1>2, EffectsOnTree DEF NameSettled
  <2> QED  BY <2>1 DEF OpenSameName
<1>3. CASE objects'[x] # objects[x]
  <2>1. OpenSameName(x)' # {}
    BY <1>1, <1>3, EffectsOnTree DEF NameSettled
  <2> QED  BY <2>1 DEF OpenSameName
<1>4. CASE objects'[o] = objects[o] /\ objects'[x] = objects[x]
  <2>1. Active(o) /\ x \in Rivals(o, objects[o].parent, objects[o].name)
    BY <1>4 DEF Rivals, Active, Exists
  <2>2. PICK c \in ConflictIds :
          /\ conflicts[c].object \in {o, x}
          /\ conflicts[c].type = "same-name"
          /\ \/ conflicts[c].status = "unresolved"
             \/ \A v \in versions :
                  (v.object \in {o, x} /\ v.revision = objects[v.object].revision)
                    => v.sequence < conflicts[c].resolved
    BY <2>1 DEF SameNameRecorded
  <2>3. Exist(c)
    BY <2>2 DEF AbsentBlank
  <2>4. CASE conflicts'[c] = conflicts[c]
    <3>1. PICK W, stamp, added : Rewrites(W, stamp, added)
      BY EffectsRewrite
    <3>2. o \notin W /\ x \notin W
      BY <1>4, <3>1 DEF Rewrites, TypeInv, TypeOK, ObjectRow
    <3>3. \A v \in versions' : v.object \in {o, x} => v \in versions
      BY <3>1, <3>2 DEF Rewrites, VersionAt
    <3> QED  BY <1>4, <2>2, <2>4, <3>3
  <2>5. CASE /\ conflicts'[c].object = conflicts[c].object
             /\ conflicts'[c].type = conflicts[c].type
             /\ conflicts'[c].status = "resolved"
             /\ conflicts'[c].resolved = latestSequence'
    BY <2>2, <2>5, ClosingIsNoVersion
  <2> QED  BY <2>3, <2>4, <2>5, ConflictKept
<1> QED  BY <1>2, <1>3, <1>4

-----------------------------------------------------------------------------
TreeInv == OneTree /\ AbsentBlank

LEMMA TreeStep ==
  ASSUME TypeInv, TypeInv', EventLogComplete', ViewsAgree', TreeInv, [Next]_vars
  PROVE  TreeInv'
<1>1. CASE UNCHANGED <<objects, versions, conflicts>>
  BY <1>1 DEF TreeInv, OneTree, HierarchySound, SameNameRecorded, AbsentBlank, ActiveFolder,
     Active, Exists, Exist, Ancestry, Rivals
<1>2. ASSUME NEW id \in CommandIds, NEW r \in Requests, Apply(id, r)
      PROVE  TreeInv'
  <2>1. CASE NoEffect(id, r)
    BY <1>1, <2>1, NoEffectRecords DEF RecordOnly, objectTables
  <2>2. CASE ~NoEffect(id, r)
    <3>1. HierarchySound'
      <4>1. CASE UNCHANGED objects
        BY <4>1 DEF TreeInv, OneTree, HierarchySound, ActiveFolder, Active, Exists, Ancestry
      <4>2. CASE \E o \in Objects : Places(o) \/ Removes(o) \/ Fells(o)
        BY <4>2, PlacingKeepsHierarchy, RemovingKeepsHierarchy, FellingKeepsHierarchy
        DEF TreeInv, OneTree, TypeInv
      <4> QED  BY <1>2, <2>2, <4>1, <4>2, EffectsOnTree
    <3>2. SameNameRecorded'
      BY <1>2, <2>2, NamesFollow DEF TreeInv, OneTree
    <3>3. AbsentBlank'
      <4> SUFFICES ASSUME NEW c \in ConflictIds, ~Exist(c)'
                   PROVE  conflicts'[c].type = "client"
        BY DEF AbsentBlank
      <4>1. conflicts'[c] = conflicts[c] /\ ~Exist(c)
        BY <1>2, <2>2, EffectsOnConflicts
        DEF ConflictsFollow, LeavesConflicts, OpensConflict, ClosesConflict, Exist
      <4> QED  BY <4>1 DEF TreeInv, AbsentBlank
    <3> QED  BY <3>1, <3>2, <3>3 DEF TreeInv, OneTree
  <2> QED  BY <2>1, <2>2
<1> QED
  BY <1>1, <1>2 DEF Next, Command, OpenBootstrap, CloseBootstrap, vars, objectTables

(* Whatever is created, moved, renamed, deleted or revived, no live object
   hangs below a missing folder, a document or itself, and two live siblings
   share a name only where a same-name conflict is open or was closed after
   both took their present form (assertValidParent, assertFolderEmpty,
   upsert-object and resolve-conflict in #apply).                           *)
THEOREM OneTreeCorrect == Spec => []OneTree
<1>1. Init => TreeInv
  BY DEF Init, NoObjectRow, NoConflictRow, TreeInv, OneTree, HierarchySound,
     SameNameRecorded, AbsentBlank, Active, Exists, Exist
<1>2. TypeInv /\ TypeInv' /\ EventLogComplete' /\ ViewsAgree' /\ TreeInv /\ [Next]_vars
        => TreeInv'
  BY TreeStep
<1>3. TreeInv => OneTree
  BY DEF TreeInv
<1>4. Spec => []TypeInv
  BY InitTyped, StepTyped, PTL DEF Spec
<1>5. Spec => []EventLogComplete
  BY LogComplete
<1>6. Spec => []ViewsAgree
  BY ViewsCorrect
<1> QED  BY <1>1, <1>2, <1>3, <1>4, <1>5, <1>6, PTL DEF Spec

-----------------------------------------------------------------------------
(* The ledger of the commands, which decides whether a command is executed at
   all (CommandLedger): the commands above seen from outside, and what failures,
   repetitions and restores do to their rows and answers.                   *)

(* A request carries at least one command; what a command requires is one of
   the commands (sync_commands, requires).                                  *)
BatchesOK ==
  /\ \A r \in Ledger!Senders :
       Batches[r] # <<>> /\ Batches[r] \in Seq([id : Ledger!Ids, body : Ledger!Bodies])
  /\ RequiredBy \in [DOMAIN RequiredBy -> Ledger!Ids] /\ DOMAIN RequiredBy \subseteq Ledger!Ids

BoundsOK ==
  MaxRestores \in Nat /\ MaxIncidents \in Nat /\ \A r \in Ledger!Senders : MaxSends[r] \in Nat

-----------------------------------------------------------------------------
(* The parts of the invariant that speak of a database hold of the dump too. *)

EffectsRecorded(d) ==
  \A c \in Ledger!Ids :
    d.effects[c] = IF d.entry[c].status \in {"applied", "conflict"}
                   THEN <<<<d.entry[c].status, d.entry[c].body>>>> ELSE <<>>

RequirementsHeld(d) ==
  \A c \in DOMAIN RequiredBy :
    d.effects[c] # <<>> =>
      LET e == d.effects[RequiredBy[c]] IN e # <<>> /\ e[1][1] = "applied"

(* No request is ahead of the server.                                       *)
EpochsPast == \A r \in Ledger!Senders : request[r].epoch <= epoch

LedgerInv ==
  /\ Ledger!TypeOK
  /\ EffectsRecorded(log) /\ EffectsRecorded(saved)
  /\ RequirementsHeld(log) /\ RequirementsHeld(saved)
  /\ Ledger!ToldIsTrue /\ EpochsPast

-----------------------------------------------------------------------------
(* The command at hand is one of the batch's.                               *)
LEMMA CommandAtHand ==
  ASSUME BatchesOK, Ledger!TypeOK, NEW r \in Ledger!Senders
  PROVE  /\ request[r].next \in DOMAIN Batches[r]
         /\ Ledger!Command(r) = Batches[r][request[r].next]
         /\ Ledger!Command(r).id \in Ledger!Ids /\ Ledger!Command(r).body \in Ledger!Bodies
         /\ DOMAIN Batches[r] = 1..Len(Batches[r])
         /\ Len(Batches[r]) \in Nat \ {0}
<1>1. request[r].next \in DOMAIN Batches[r]
  BY DEF Ledger!TypeOK, Ledger!RequestRow
<1>2. Batches[r] # <<>> /\ Batches[r] \in Seq([id : Ledger!Ids, body : Ledger!Bodies])
  BY DEF BatchesOK
<1> DEFINE T == [id : Ledger!Ids, body : Ledger!Bodies]
           b == Batches[r]
<1>3. b \in Seq(T) /\ request[r].next \in DOMAIN b
  BY <1>1, <1>2
<1> HIDE DEF T, b
<1>4. DOMAIN b = 1..Len(b) /\ Len(b) \in Nat
  BY <1>3, LenProperties
<1>5. b[request[r].next] \in T
  BY <1>3, <1>4, ElementOfSeq
<1>6. Batches[r][request[r].next] \in [id : Ledger!Ids, body : Ledger!Bodies]
  BY <1>5 DEF T, b
<1> QED  BY <1>1, <1>3, <1>4, <1>6 DEF Ledger!Command, b

(* An answer changes what is told of the command at hand, and goes on.      *)
LEMMA ToldMoves ==
  ASSUME BatchesOK, Ledger!TypeOK, NEW r \in Ledger!Senders, NEW answer \in Ledger!Answers,
         Ledger!Told(r, answer)
  PROVE  /\ DOMAIN request' = Ledger!Senders
         /\ \A s \in Ledger!Senders \ {r} : request'[s] = request[s]
         /\ request'[r].at \in {"idle", "running"}
         /\ request'[r].next \in DOMAIN Batches[r]
         /\ request'[r].sends = request[r].sends
         /\ request'[r].epoch = request[r].epoch
         /\ request'[r].told = [request[r].told EXCEPT ![request[r].next] = answer]
         /\ request'[r] \in Ledger!RequestRow(r)
<1>1. request[r] \in Ledger!RequestRow(r) /\ DOMAIN request = Ledger!Senders
  BY DEF Ledger!TypeOK
<1> DEFINE last == request[r].next = Len(Batches[r])
           next == IF last THEN 1 ELSE request[r].next + 1
<1>2. next \in DOMAIN Batches[r]
  BY CommandAtHand
<1> HIDE DEF next
<1>3. request' = [request EXCEPT ![r].told[request[r].next] = answer,
                                 ![r].next = next,
                                 ![r].at = IF last THEN "idle" ELSE "running"]
  BY DEF Ledger!Told, next
<1>4. request'[r] = [request[r] EXCEPT !.told[request[r].next] = answer, !.next = next,
                                       !.at = IF last THEN "idle" ELSE "running"]
  BY <1>1, <1>3
<1>5. \A s \in Ledger!Senders \ {r} : request'[s] = request[s]
  BY <1>1, <1>3
<1>6. DOMAIN request' = Ledger!Senders
  BY <1>1, <1>3
<1>7. request'[r].told = [request[r].told EXCEPT ![request[r].next] = answer]
  BY <1>1, <1>4
<1>8. request'[r].told \in [DOMAIN Batches[r] -> Ledger!Answers]
  BY <1>1, <1>7 DEF Ledger!RequestRow
<1>9. request'[r] \in Ledger!RequestRow(r)
  <2>1. request'[r] = [at |-> request'[r].at, next |-> request'[r].next, sends |-> request'[r].sends,
                       epoch |-> request'[r].epoch, told |-> request'[r].told]
    BY <1>1, <1>4 DEF Ledger!RequestRow
  <2> QED  BY <1>1, <1>2, <1>4, <1>8, <2>1 DEF Ledger!RequestRow
<1> QED  BY <1>1, <1>2, <1>4, <1>5, <1>6, <1>7, <1>9

-----------------------------------------------------------------------------
(* Two kinds of change to what requests know, whatever happens to the database,
   as long as an effect that is there stays as it is.                       *)

EffectsStay == \A c \in Ledger!Ids : log.effects[c] # <<>> => log'.effects[c] = log.effects[c]

RequestsTyped ==
  /\ DOMAIN request = Ledger!Senders
  /\ \A r \in Ledger!Senders : request[r] \in Ledger!RequestRow(r)

(* An answer that is true leaves the requests in order.                     *)
LEMMA AnswerKeeps ==
  ASSUME BatchesOK, LedgerInv, NEW r \in Ledger!Senders, NEW answer \in Ledger!Answers,
         Ledger!Told(r, answer), EffectsStay, epoch' = epoch,
         answer \in {"applied", "conflict"} /\ request[r].epoch = epoch =>
           log'.effects[Ledger!Command(r).id] = <<<<answer, Ledger!Command(r).body>>>>
  PROVE  RequestsTyped' /\ Ledger!ToldIsTrue' /\ EpochsPast'
<1>1. Ledger!TypeOK /\ Ledger!ToldIsTrue /\ EpochsPast
  BY DEF LedgerInv
<1>2. /\ DOMAIN request' = Ledger!Senders
      /\ \A s \in Ledger!Senders \ {r} : request'[s] = request[s]
      /\ request'[r].epoch = request[r].epoch
      /\ request'[r].told = [request[r].told EXCEPT ![request[r].next] = answer]
      /\ request'[r] \in Ledger!RequestRow(r)
  BY <1>1, ToldMoves
<1>3. RequestsTyped'
  BY <1>1, <1>2 DEF RequestsTyped, Ledger!TypeOK
<1>4. EpochsPast'
  BY <1>1, <1>2 DEF EpochsPast
<1>5. ASSUME NEW s \in Ledger!Senders, NEW i \in DOMAIN Batches[s], request'[s].epoch = epoch,
             request'[s].told[i] \in {"applied", "conflict"}
      PROVE  log'.effects[Batches[s][i].id] = <<<<request'[s].told[i], Batches[s][i].body>>>>
  <2>1. CASE s = r /\ i = request[r].next
    <3>1. request'[r].told[i] = answer
      BY <1>1, <1>2, <2>1 DEF Ledger!TypeOK, Ledger!RequestRow
    <3> QED  BY <1>2, <1>5, <2>1, <3>1, <1>1, CommandAtHand
  <2>2. CASE ~(s = r /\ i = request[r].next)
    <3>1. request'[s].told[i] = request[s].told[i] /\ request'[s].epoch = request[s].epoch
      BY <1>1, <1>2, <2>2 DEF Ledger!TypeOK, Ledger!RequestRow
    <3>2. log.effects[Batches[s][i].id] = <<<<request[s].told[i], Batches[s][i].body>>>>
      BY <1>1, <1>5, <3>1 DEF Ledger!ToldIsTrue
    <3>3. Batches[s][i].id \in Ledger!Ids
      BY DEF Ledger!Ids
    <3>4. log.effects[Batches[s][i].id] # <<>>
      BY <3>2
    <3> QED  BY <3>1, <3>2, <3>3, <3>4 DEF EffectsStay
  <2> QED  BY <2>1, <2>2
<1>6. Ledger!ToldIsTrue'
  BY <1>5 DEF Ledger!ToldIsTrue
<1> QED  BY <1>3, <1>4, <1>6

(* So does a request that begins again, ends, or waits to record a refusal. *)
LEMMA RequestKeeps ==
  ASSUME BatchesOK, LedgerInv, NEW r \in Ledger!Senders, NEW row,
         request' = [request EXCEPT ![r] = row],
         row \in Ledger!RequestRow(r),
         row.epoch <= epoch,
         row.told = Ledger!Untold(r) \/ (row.told = request[r].told /\ row.epoch = request[r].epoch),
         log' = log, epoch' = epoch
  PROVE  RequestsTyped' /\ Ledger!ToldIsTrue' /\ EpochsPast'
<1>1. Ledger!TypeOK /\ Ledger!ToldIsTrue /\ EpochsPast
  BY DEF LedgerInv
<1>2. /\ DOMAIN request' = Ledger!Senders
      /\ \A s \in Ledger!Senders \ {r} : request'[s] = request[s]
      /\ request'[r] = row
  BY <1>1 DEF Ledger!TypeOK
<1>3. RequestsTyped'
  BY <1>1, <1>2 DEF RequestsTyped, Ledger!TypeOK
<1>4. EpochsPast'
  BY <1>1, <1>2 DEF EpochsPast
<1>5. ASSUME NEW s \in Ledger!Senders, NEW i \in DOMAIN Batches[s], request'[s].epoch = epoch,
             request'[s].told[i] \in {"applied", "conflict"}
      PROVE  log.effects[Batches[s][i].id] = <<<<request'[s].told[i], Batches[s][i].body>>>>
  <2>1. request'[s].told = request[s].told /\ request[s].epoch = epoch
    BY <1>2, <1>5 DEF Ledger!Untold
  <2> QED  BY <1>1, <1>5, <2>1 DEF Ledger!ToldIsTrue
<1> QED  BY <1>3, <1>4, <1>5 DEF Ledger!ToldIsTrue

-----------------------------------------------------------------------------
(* A row is written once; what it says and what the command did agree.      *)
LEMMA ExecuteKeeps ==
  ASSUME BatchesOK, LedgerInv, NEW r \in Ledger!Senders, NEW outcome \in {"applied", "conflict"},
         Ledger!Execute(r, outcome)
  PROVE  /\ log' \in Ledger!Database /\ EffectsRecorded(log') /\ RequirementsHeld(log')
         /\ EffectsStay
         /\ log'.effects[Ledger!Command(r).id] = <<<<outcome, Ledger!Command(r).body>>>>
<1> DEFINE c == Ledger!Command(r).id
           b == Ledger!Command(r).body
<1>1. c \in Ledger!Ids /\ b \in Ledger!Bodies /\ epoch \in Ledger!Epochs /\ log \in Ledger!Database
  BY CommandAtHand DEF LedgerInv, Ledger!TypeOK
<1>2. log.entry[c].status = "none" /\ Ledger!RequirementMet(c)
  BY DEF Ledger!Execute, Ledger!Entry
<1>3. log.effects[c] = <<>>
  BY <1>1, <1>2 DEF LedgerInv, EffectsRecorded
<1>4. log' = [entry   |-> [log.entry EXCEPT ![c] = [status |-> outcome, body |-> b, epoch |-> epoch]],
              effects |-> [log.effects EXCEPT ![c] = Append(@, <<outcome, b>>)]]
  BY DEF Ledger!Execute
<1> HIDE DEF c, b
<1>5. Append(<<>>, <<outcome, b>>) = <<<<outcome, b>>>>
  OBVIOUS
<1>6. /\ log'.entry = [log.entry EXCEPT ![c] = [status |-> outcome, body |-> b, epoch |-> epoch]]
      /\ log'.effects = [log.effects EXCEPT ![c] = <<<<outcome, b>>>>]
  BY <1>3, <1>4, <1>5
<1>7. /\ \A d \in Ledger!Ids \ {c} :
           log'.entry[d] = log.entry[d] /\ log'.effects[d] = log.effects[d]
      /\ log'.entry[c] = [status |-> outcome, body |-> b, epoch |-> epoch]
      /\ log'.effects[c] = <<<<outcome, b>>>>
  BY <1>1, <1>6 DEF Ledger!Database
<1>8. log' \in Ledger!Database
  <2>1. <<<<outcome, b>>>> \in Seq({"applied", "conflict"} \X Ledger!Bodies)
    BY <1>1
  <2>2. log'.effects \in [Ledger!Ids -> Seq({"applied", "conflict"} \X Ledger!Bodies)]
    BY <1>1, <1>6, <2>1 DEF Ledger!Database
  <2>3. log'.entry \in [Ledger!Ids -> [status : {"none", "applied", "conflict", "rejected"},
                                body : Ledger!Bodies \cup {0}, epoch : Ledger!Epochs \cup {0}]]
    BY <1>1, <1>6 DEF Ledger!Database
  <2> QED  BY <1>4, <1>6, <2>2, <2>3 DEF Ledger!Database
<1>9. EffectsRecorded(log')
  BY <1>7 DEF LedgerInv, EffectsRecorded
<1>10. RequirementsHeld(log')
  <2> SUFFICES ASSUME NEW d \in DOMAIN RequiredBy, log'.effects[d] # <<>>
               PROVE  log'.effects[RequiredBy[d]] # <<>> /\ log'.effects[RequiredBy[d]][1][1] = "applied"
    BY DEF RequirementsHeld
  <2>1. RequiredBy[d] \in Ledger!Ids /\ d \in Ledger!Ids
    BY DEF BatchesOK
  <2>2. log.effects[RequiredBy[d]] # <<>> /\ log.effects[RequiredBy[d]][1][1] = "applied"
    <3>1. CASE d = c
      <4>1. log.entry[RequiredBy[d]].status = "applied"
        BY <1>2, <3>1 DEF Ledger!RequirementMet
      <4>2. log.effects[RequiredBy[d]] = <<<<"applied", log.entry[RequiredBy[d]].body>>>>
        BY <2>1, <4>1 DEF LedgerInv, EffectsRecorded
      <4> QED  BY <4>2
    <3>2. CASE d # c
      BY <1>7, <2>1, <3>2 DEF LedgerInv, RequirementsHeld
    <3> QED  BY <3>1, <3>2
  <2>3. RequiredBy[d] # c
    BY <1>3, <2>2
  <2> QED  BY <1>7, <2>1, <2>2, <2>3
<1>11. EffectsStay
  BY <1>3, <1>7 DEF EffectsStay
<1> QED  BY <1>7, <1>8, <1>9, <1>10, <1>11 DEF c, b

(* A refusal is recorded only where there is no row.                        *)
LEMMA RecordKeeps ==
  ASSUME BatchesOK, LedgerInv, NEW r \in Ledger!Senders, Ledger!Record(r)
  PROVE  /\ log' \in Ledger!Database /\ EffectsRecorded(log') /\ RequirementsHeld(log')
         /\ EffectsStay
<1> DEFINE c == Ledger!Command(r).id
           row == [status |-> "rejected", body |-> Ledger!Command(r).body, epoch |-> epoch]
<1>1. /\ c \in Ledger!Ids /\ Ledger!Command(r).body \in Ledger!Bodies
      /\ epoch \in Ledger!Epochs /\ log \in Ledger!Database
  BY CommandAtHand DEF LedgerInv, Ledger!TypeOK
<1>2. CASE Ledger!RecordIfNone(r) /\ log' = [log EXCEPT !.entry[c] = row]
  <2>1. log.entry[c].status = "none" /\ log.effects[c] = <<>>
    BY <1>1, <1>2 DEF Ledger!RecordIfNone, Ledger!Entry, LedgerInv, EffectsRecorded
  <2>2. log'.effects = log.effects /\ log'.entry = [log.entry EXCEPT ![c] = row]
    BY <1>1, <1>2 DEF Ledger!Database
  <2>3. log' \in Ledger!Database
    <3>1. log'.entry \in [Ledger!Ids -> [status : {"none", "applied", "conflict", "rejected"},
                                  body : Ledger!Bodies \cup {0}, epoch : Ledger!Epochs \cup {0}]]
      BY <1>1, <2>2 DEF Ledger!Database
    <3> QED  BY <1>1, <1>2, <2>2, <3>1 DEF Ledger!Database
  <2>4. EffectsRecorded(log')
    BY <1>1, <2>1, <2>2 DEF LedgerInv, EffectsRecorded, Ledger!Database
  <2> QED  BY <2>2, <2>3, <2>4 DEF LedgerInv, RequirementsHeld, EffectsStay
<1>3. CASE UNCHANGED log
  BY <1>1, <1>3 DEF LedgerInv, EffectsStay
<1> QED  BY <1>2, <1>3 DEF Ledger!Record

-----------------------------------------------------------------------------
LEMMA LedgerInit == ASSUME BatchesOK, BoundsOK, Ledger!Init PROVE LedgerInv
<1>1. /\ log \in Ledger!Database
      /\ \A c \in Ledger!Ids : log.entry[c] = Ledger!NoEntry /\ log.effects[c] = <<>>
  <2>1. /\ log.entry = [c \in Ledger!Ids |-> Ledger!NoEntry]
        /\ log.effects = [c \in Ledger!Ids |-> <<>>]
    BY DEF Ledger!Init
  <2>2. log.entry \in [Ledger!Ids -> [status : {"none", "applied", "conflict", "rejected"},
                               body : Ledger!Bodies \cup {0}, epoch : Ledger!Epochs \cup {0}]]
    BY <2>1 DEF Ledger!NoEntry
  <2>3. <<>> \in Seq({"applied", "conflict"} \X Ledger!Bodies)
    OBVIOUS
  <2>4. log.effects \in [Ledger!Ids -> Seq({"applied", "conflict"} \X Ledger!Bodies)]
    BY <2>1, <2>3
  <2> QED  BY <2>1, <2>2, <2>4 DEF Ledger!Init, Ledger!Database
<1>2. saved = log /\ epoch = 1 /\ 1 \in Ledger!Epochs /\ lowered = TRUE /\ incidents = 0
  BY DEF Ledger!Init, Ledger!Epochs, BoundsOK
<1>3. ASSUME NEW r \in Ledger!Senders
      PROVE  /\ request[r] \in Ledger!RequestRow(r) /\ request[r].epoch = 1
             /\ \A i \in DOMAIN Batches[r] : request[r].told[i] = "nothing"
  <2> DEFINE T == [id : Ledger!Ids, body : Ledger!Bodies]
             b == Batches[r]
  <2>1. b # <<>> /\ b \in Seq(T)
    BY DEF BatchesOK
  <2> HIDE DEF T, b
  <2>2. 1 \in DOMAIN b
    BY <2>1, LenProperties, EmptySeq
  <2>3. Ledger!Untold(r) \in [DOMAIN Batches[r] -> Ledger!Answers]
    BY DEF Ledger!Untold, Ledger!Answers
  <2>4. request[r] = [at |-> "idle", next |-> 1, sends |-> 0, epoch |-> 1, told |-> Ledger!Untold(r)]
    BY DEF Ledger!Init
  <2> QED  BY <1>2, <2>2, <2>3, <2>4 DEF Ledger!RequestRow, BoundsOK, b, Ledger!Untold
<1>4. DOMAIN request = Ledger!Senders
  BY DEF Ledger!Init
<1>5. Ledger!TypeOK
  BY <1>1, <1>2, <1>3, <1>4 DEF Ledger!TypeOK, BoundsOK
<1>6. EffectsRecorded(log)
  BY <1>1 DEF EffectsRecorded, Ledger!NoEntry
<1>7. RequirementsHeld(log)
  BY <1>1 DEF RequirementsHeld, BatchesOK
<1>8. Ledger!ToldIsTrue
  BY <1>3 DEF Ledger!ToldIsTrue
<1>9. EpochsPast
  BY <1>2, <1>3 DEF EpochsPast, Ledger!Epochs
<1> QED  BY <1>2, <1>5, <1>6, <1>7, <1>8, <1>9 DEF LedgerInv

(* What is left of a step once the database and the requests are in order.  *)
LEMMA Assembled ==
  ASSUME LedgerInv, log' \in Ledger!Database, EffectsRecorded(log'), RequirementsHeld(log'),
         RequestsTyped', Ledger!ToldIsTrue', EpochsPast', saved' = saved,
         epoch' \in Ledger!Epochs, lowered' \in BOOLEAN, incidents' \in 0..MaxIncidents
  PROVE  LedgerInv'
BY DEF LedgerInv, Ledger!TypeOK, RequestsTyped, EffectsRecorded, RequirementsHeld,
       Ledger!Database, Ledger!Epochs,
       Ledger!RequestRow

LEMMA LedgerStep ==
  ASSUME BatchesOK, BoundsOK, LedgerInv, [Ledger!Next]_(Ledger!ledgerVars)
  PROVE  LedgerInv'
<1>0. /\ Ledger!TypeOK /\ EffectsRecorded(log) /\ RequirementsHeld(log) /\ Ledger!ToldIsTrue
      /\ EpochsPast
      /\ log \in Ledger!Database /\ epoch \in Ledger!Epochs /\ lowered \in BOOLEAN
      /\ incidents \in 0..MaxIncidents
  BY DEF LedgerInv, Ledger!TypeOK
<1>1. ASSUME NEW r \in Ledger!Senders, Ledger!Send(r) PROVE LedgerInv'
  <2> DEFINE row == [at |-> "running", next |-> 1, sends |-> request[r].sends + 1,
                     epoch |-> epoch, told |-> Ledger!Untold(r)]
  <2>1. request' = [request EXCEPT ![r] = row] /\ request[r].sends < MaxSends[r]
    BY <1>0, <1>1 DEF Ledger!Send, Ledger!TypeOK
  <2>2. Ledger!Untold(r) \in [DOMAIN Batches[r] -> Ledger!Answers]
    BY DEF Ledger!Untold, Ledger!Answers
  <2>3. 1 \in DOMAIN Batches[r]
    BY <1>0, CommandAtHand
  <2>4. request[r].sends + 1 \in 0..MaxSends[r]
    BY <1>0, <2>1 DEF Ledger!TypeOK, Ledger!RequestRow, BoundsOK
  <2>5. row \in Ledger!RequestRow(r)
    BY <1>0, <2>2, <2>3, <2>4 DEF Ledger!RequestRow
  <2>6. row.told = Ledger!Untold(r) /\ row.epoch <= epoch
    BY <1>0 DEF Ledger!Epochs
  <2> HIDE DEF row
  <2>7. UNCHANGED <<log, saved, epoch, lowered, incidents>>
    BY <1>1 DEF Ledger!Send
  <2>8. RequestsTyped' /\ Ledger!ToldIsTrue' /\ EpochsPast'
    BY <2>1, <2>5, <2>6, <2>7, RequestKeeps
  <2> QED  BY <1>0, <2>7, <2>8, Assembled
<1>2. ASSUME NEW r \in Ledger!Senders, NEW answer \in Ledger!Answers \ {"applied", "conflict"},
             Ledger!Told(r, answer),
             UNCHANGED <<log, saved, epoch, lowered, incidents>>
      PROVE  LedgerInv'
  <2>1. RequestsTyped' /\ Ledger!ToldIsTrue' /\ EpochsPast'
    BY <1>0, <1>2, AnswerKeeps DEF EffectsStay
  <2> QED  BY <1>0, <1>2, <2>1, Assembled
<1>3. ASSUME NEW r \in Ledger!Senders, request' = [request EXCEPT ![r].at = "recording"],
             UNCHANGED <<log, saved, epoch, lowered, incidents>>
      PROVE  LedgerInv'
  <2> DEFINE row == [request[r] EXCEPT !.at = "recording"]
  <2>1. request' = [request EXCEPT ![r] = row]
    BY <1>3
  <2>2. row \in Ledger!RequestRow(r) /\ row.told = request[r].told /\ row.epoch = request[r].epoch
    BY <1>0 DEF Ledger!TypeOK, Ledger!RequestRow
  <2>3. request[r].epoch <= epoch
    BY <1>0 DEF EpochsPast
  <2> HIDE DEF row
  <2>4. RequestsTyped' /\ Ledger!ToldIsTrue' /\ EpochsPast'
    BY <1>3, <2>1, <2>2, <2>3, RequestKeeps
  <2> QED  BY <1>0, <1>3, <2>4, Assembled
<1>4. ASSUME NEW r \in Ledger!Senders, Ledger!Denied(r) PROVE LedgerInv'
  BY <1>2, <1>4 DEF Ledger!Denied, Ledger!Answers
<1>5. ASSUME NEW r \in Ledger!Senders, Ledger!TooLarge(r) PROVE LedgerInv'
  BY <1>3, <1>5 DEF Ledger!TooLarge
<1>6. ASSUME NEW r \in Ledger!Senders, Ledger!AnswerKnown(r) PROVE LedgerInv'
  <2> DEFINE e == Ledger!Entry(r)
  <2>1. e = log.entry[Ledger!Command(r).id] /\ e.status \in {"applied", "conflict", "rejected"}
        /\ Ledger!Command(r).id \in Ledger!Ids
    BY <1>0, <1>6, CommandAtHand DEF Ledger!AnswerKnown, Ledger!Entry, Ledger!Database
  <2>2. UNCHANGED <<log, saved, epoch, lowered, incidents>>
    BY <1>6 DEF Ledger!AnswerKnown
  <2>3. CASE e.epoch # epoch \/ e.body # Ledger!Command(r).body
    BY <1>2, <1>6, <2>2, <2>3 DEF Ledger!AnswerKnown, Ledger!Answers
  <2>4. CASE ~(e.epoch # epoch \/ e.body # Ledger!Command(r).body) /\ e.status = "rejected"
    BY <1>2, <1>6, <2>2, <2>4 DEF Ledger!AnswerKnown, Ledger!Answers
  <2>5. CASE /\ e.body = Ledger!Command(r).body /\ e.epoch = epoch
             /\ e.status \in {"applied", "conflict"}
    <3>1. Ledger!Told(r, e.status)
      BY <1>6, <2>5 DEF Ledger!AnswerKnown
    <3>2. log'.effects[Ledger!Command(r).id] = <<<<e.status, Ledger!Command(r).body>>>>
      BY <1>0, <2>1, <2>2, <2>5 DEF EffectsRecorded
    <3>3. e.status \in Ledger!Answers
      BY <2>5 DEF Ledger!Answers
    <3> HIDE DEF e
    <3>4. RequestsTyped' /\ Ledger!ToldIsTrue' /\ EpochsPast'
      BY <2>2, <3>1, <3>2, <3>3, AnswerKeeps DEF EffectsStay
    <3> QED  BY <1>0, <2>2, <3>4, Assembled
  <2> QED  BY <2>1, <2>3, <2>4, <2>5
<1>7. ASSUME NEW r \in Ledger!Senders, Ledger!Refuse(r) PROVE LedgerInv'
  BY <1>2, <1>3, <1>7 DEF Ledger!Refuse, Ledger!Answers
<1>8. ASSUME NEW r \in Ledger!Senders, NEW outcome \in {"applied", "conflict"}, Ledger!Execute(r,
             outcome)
      PROVE  LedgerInv'
  <2>1. /\ log' \in Ledger!Database /\ EffectsRecorded(log') /\ RequirementsHeld(log')
        /\ EffectsStay
        /\ log'.effects[Ledger!Command(r).id] = <<<<outcome, Ledger!Command(r).body>>>>
    BY <1>8, ExecuteKeeps
  <2>2. /\ outcome \in Ledger!Answers /\ Ledger!Told(r, outcome)
        /\ UNCHANGED <<saved, epoch, lowered, incidents>>
    BY <1>8 DEF Ledger!Execute, Ledger!Answers
  <2>3. RequestsTyped' /\ Ledger!ToldIsTrue' /\ EpochsPast'
    BY <2>1, <2>2, AnswerKeeps
  <2> QED  BY <1>0, <2>1, <2>2, <2>3, Assembled
<1>9. ASSUME NEW r \in Ledger!Senders, Ledger!Record(r) PROVE LedgerInv'
  <2>1. log' \in Ledger!Database /\ EffectsRecorded(log') /\ RequirementsHeld(log') /\ EffectsStay
    BY <1>9, RecordKeeps
  <2>2. "final" \in Ledger!Answers \ {"applied", "conflict"}
    BY DEF Ledger!Answers
  <2>3. Ledger!Told(r, "final") /\ UNCHANGED <<saved, epoch, lowered>> /\ incidents' \in 0..MaxIncidents
    BY <1>0, <1>9 DEF Ledger!Record, BoundsOK
  <2>4. RequestsTyped' /\ Ledger!ToldIsTrue' /\ EpochsPast'
    BY <2>1, <2>2, <2>3, AnswerKeeps
  <2> QED  BY <1>0, <2>1, <2>3, <2>4, Assembled
<1>10. ASSUME NEW r \in Ledger!Senders, Ledger!Fail(r) PROVE LedgerInv'
  <2> DEFINE row == [request[r] EXCEPT !.at = "idle", !.told = Ledger!Untold(r)]
  <2>1. request' = [request EXCEPT ![r] = row]
    BY <1>0, <1>10 DEF Ledger!Fail, Ledger!TypeOK
  <2>2. Ledger!Untold(r) \in [DOMAIN Batches[r] -> Ledger!Answers]
    BY DEF Ledger!Untold, Ledger!Answers
  <2>3. row \in Ledger!RequestRow(r) /\ row.told = Ledger!Untold(r) /\ row.epoch = request[r].epoch
    BY <1>0, <2>2 DEF Ledger!TypeOK, Ledger!RequestRow
  <2>4. request[r].epoch <= epoch
    BY <1>0 DEF EpochsPast
  <2> HIDE DEF row
  <2>5. UNCHANGED <<log, saved, epoch, lowered>> /\ incidents' \in 0..MaxIncidents
    BY <1>0, <1>10 DEF Ledger!Fail, BoundsOK
  <2>6. RequestsTyped' /\ Ledger!ToldIsTrue' /\ EpochsPast'
    BY <2>1, <2>3, <2>4, <2>5, RequestKeeps
  <2> QED  BY <1>0, <2>5, <2>6, Assembled
<1>11. CASE Ledger!ChangeLimit
  <2>1. RequestsTyped' /\ Ledger!ToldIsTrue' /\ EpochsPast'
    BY <1>0, <1>11 DEF Ledger!ChangeLimit, RequestsTyped, Ledger!TypeOK, Ledger!ToldIsTrue,
                       EpochsPast
  <2> QED  BY <1>0, <1>11, <2>1, Assembled DEF Ledger!ChangeLimit, BoundsOK
<1>12. CASE Ledger!Dump
  BY <1>12 DEF Ledger!Dump, LedgerInv, Ledger!TypeOK, EffectsRecorded, RequirementsHeld,
               Ledger!ToldIsTrue, EpochsPast
<1>13. CASE Ledger!Restore
  <2>1. epoch' = epoch + 1 /\ epoch' \in Ledger!Epochs /\ log' = saved
    BY <1>0, <1>13 DEF Ledger!Restore, Ledger!NextEpoch, Ledger!Epochs, BoundsOK
  <2>2. \A r \in Ledger!Senders : request'[r] = [request[r] EXCEPT !.at = "idle"]
    BY <1>13 DEF Ledger!Restore
  <2>3. RequestsTyped'
    <3>1. DOMAIN request' = Ledger!Senders
      BY <1>13 DEF Ledger!Restore
    <3>2. ASSUME NEW r \in Ledger!Senders PROVE request'[r] \in Ledger!RequestRow(r)
      <4>1. request[r] \in Ledger!RequestRow(r)
        BY <1>0 DEF Ledger!TypeOK
      <4>2. [request[r] EXCEPT !.at = "idle"] \in Ledger!RequestRow(r)
        BY <4>1 DEF Ledger!RequestRow
      <4> QED  BY <2>2, <4>2
    <3>3. \A r \in Ledger!Senders : request'[r] \in Ledger!RequestRow(r)
      BY <3>2
    <3> QED  BY <3>1, <3>3 DEF RequestsTyped
  <2>4. \A r \in Ledger!Senders : request'[r].epoch = request[r].epoch /\ request[r].epoch <= epoch
                           /\ request[r].epoch \in Nat
    <3>1. \A r \in Ledger!Senders : request[r].epoch \in Ledger!Epochs
      BY <1>0 DEF Ledger!TypeOK, Ledger!RequestRow
    <3>2. \A r \in Ledger!Senders : request[r].epoch \in Nat
      BY <3>1 DEF Ledger!Epochs, BoundsOK
    <3>3. \A r \in Ledger!Senders : request'[r].epoch = request[r].epoch
      BY <1>0, <2>2 DEF Ledger!TypeOK, Ledger!RequestRow
    <3> QED  BY <1>0, <3>2, <3>3 DEF EpochsPast
  <2>5. EpochsPast' /\ Ledger!ToldIsTrue'
    BY <1>0, <2>1, <2>4 DEF EpochsPast, Ledger!ToldIsTrue, Ledger!Epochs
  <2>6. log' \in Ledger!Database /\ EffectsRecorded(log') /\ RequirementsHeld(log')
    BY <2>1 DEF LedgerInv, Ledger!TypeOK
  <2> QED  BY <1>0, <1>13, <2>1, <2>3, <2>5, <2>6, Assembled DEF Ledger!Restore
<1>14. CASE UNCHANGED Ledger!ledgerVars
  BY <1>14 DEF Ledger!ledgerVars, LedgerInv, Ledger!TypeOK, EffectsRecorded, RequirementsHeld,
               Ledger!ToldIsTrue, EpochsPast
<1> QED  BY <1>1, <1>4, <1>5, <1>6, <1>7, <1>8, <1>9, <1>10, <1>11, <1>12, <1>13, <1>14
         DEF Ledger!Next, Ledger!Attempt

(* A command takes effect at most once, as its row says, only after what it
   requires was applied, and what a client was told in the present epoch is
   what the database holds: for any requests that carry any commands, across
   failures between any two statements, dumps and restores (commands, #command,
   #recordRejectedCommand).                                                 *)
THEOREM LedgerCorrect ==
  ASSUME BatchesOK, BoundsOK
  PROVE  Ledger!Spec => []LedgerSound
<1>1. Ledger!Init => LedgerInv
  BY LedgerInit
<1>2. LedgerInv /\ [Ledger!Next]_(Ledger!ledgerVars) => LedgerInv'
  BY LedgerStep
<1>3. LedgerInv => LedgerSound
  BY DEF LedgerInv, EffectsRecorded, RequirementsHeld, Ledger!EffectsAsRecorded,
         Ledger!RequiredApplied, LedgerSound
<1> QED  BY <1>1, <1>2, <1>3, PTL DEF Ledger!Spec

===============================================================================
