------------------------------- MODULE MCSync -------------------------------
(***************************************************************************)
(* The command log on small instances.  A scenario is a set of requests    *)
(* that belong together; the initial state chooses one, so that one run    *)
(* checks every property in every scenario without the product of them:    *)
(*   tree    creating, moving, deleting and reviving two folders and a     *)
(*           note, subtree deletes, and a document edit they race with     *)
(*   docs    a note and its document: updates, checkpoints that prune,     *)
(*           deletes that meet edits, resolutions, a bootstrap session     *)
(*   names   two notes that take each other's names, and every way of      *)
(*           closing the conflicts this opens                              *)
(*   assets  a note that binds an asset, and the ways the asset goes away  *)
(*   ledger  the requests around the commands: three of them, two commands,*)
(*           one required by the other, a dump and a restore               *)
(***************************************************************************)
EXTENDS SyncCommands, LedgerPromise, TLC

CONSTANTS outer, second, note, doc, u1, c1, c2, x, y,
          MaxUpdates, MaxSequence, MaxRevision, Scenarios

VARIABLE scenario

ledger == <<log, saved, epoch, lowered, request, incidents>>

(* The second object is a folder in the tree, a note among the names and   *)
(* the asset of the last scenario.                                         *)
Upsert(o, k, n, p, w, resources, c) ==
  [type |-> "upsert-object", object |-> o, kind |-> k, base |-> n,
   parent |-> p, name |-> w, resources |-> resources, conflict |-> c]

Delete(o, k, n, p, seen) ==
  [type |-> "delete-object", object |-> o, kind |-> k, base |-> n,
   parent |-> p, seen |-> seen, conflict |-> c1]

Append(t, u) ==
  [type |-> t, object |-> note, kind |-> "note", document |-> doc, update |-> u]

Report(o, k, c, t, n) ==
  [type |-> "create-conflict", object |-> o, kind |-> k, conflict |-> c,
   conflictType |-> t, revision |-> n, seen |-> None]

Resolution(c, created, requires, delete, content, baseline) ==
  [type |-> "resolve-conflict", conflict |-> c, created |-> created,
   requires |-> requires, delete |-> delete, content |-> content,
   baseline |-> baseline]

Content(w, resources) == [parent |-> Inherit, name |-> w, resources |-> resources]

-----------------------------------------------------------------------------
TreeKind == (outer :> "folder") @@ (second :> "folder") @@ (note :> "note")

TreeRequests ==
  {Upsert(o, TreeKind[o], n, p, None, {}, None) :
     o \in Objects, n \in 0..2, p \in {None, outer, second}} \cup
  {Delete(o, TreeKind[o], n, p, 0) :
     o \in Objects, n \in 1..2, p \in {Inherit, second}} \cup
  {[type |-> "delete-subtree", root |-> o, items |-> S \cup {o}, bases |-> B,
    seen |-> [z \in Objects |-> 0], conflict |-> c1] :
     o \in {outer, second}, S \in SUBSET Objects, B \in [Objects -> 1..2]} \cup
  {Append("append-update", u1)}

-----------------------------------------------------------------------------
DocRequests ==
  {Upsert(note, "note", n, None, None, {}, None) : n \in 0..2} \cup
  {Delete(note, "note", n, Inherit, seen) : n \in 1..2, seen \in 0..MaxUpdates} \cup
  {Append(t, u) : t \in {"initialize-document", "append-update"}, u \in UpdateIds} \cup
  {[type |-> "commit-checkpoint", object |-> note, kind |-> "note",
    document |-> doc, checkpoint |-> k, covers |-> n] :
     k \in CheckpointIds, n \in 1..MaxUpdates} \cup
  {Resolution(c1, n, None, TRUE, None, None) : n \in 1..MaxSequence} \cup
  {Resolution(c1, n, None, FALSE, z, baseline) :
     n \in 1..MaxSequence, z \in {None, Content(Inherit, Inherit)},
     baseline \in {None} \cup
       {[document |-> doc, checkpoint |-> k, seen |-> m] :
          k \in CheckpointIds, m \in 1..MaxUpdates}}

-----------------------------------------------------------------------------
NameRequests ==
  {Upsert(o, "note", n, None, w, {}, c) :
     o \in {note, second}, n \in 0..MaxRevision, w \in Names \cup {Inherit},
     c \in ConflictIds} \cup
  {Delete(second, "note", n, Inherit, 0) : n \in 1..MaxRevision} \cup
  {Report(second, "note", c2, t, n) : t \in {"client", "same-name"}, n \in {None, 1}} \cup
  {Resolution(c, n, q, FALSE, z, None) :
     c \in ConflictIds, n \in 1..(MaxSequence + 2), q \in {None, 1},
     z \in {None} \cup {Content(w, Inherit) : w \in Names \cup {Inherit}}}

-----------------------------------------------------------------------------
AssetKind == (outer :> "folder") @@ (second :> "asset") @@ (note :> "note")

AssetRequests ==
  {Upsert(outer, "folder", 0, None, None, {}, None)} \cup
  {Upsert(second, "asset", n, p, None, {}, None) : n \in 0..2, p \in {None, outer}} \cup
  {Upsert(note, "note", n, None, None, s, None) : n \in 0..2, s \in {{}, {second}}} \cup
  {Delete(o, AssetKind[o], n, Inherit, 0) : o \in {note, second}, n \in 1..2} \cup
  {[type |-> "delete-subtree", root |-> outer, items |-> {outer} \cup s,
    bases |-> [z \in Objects |-> n], seen |-> [z \in Objects |-> 0],
    conflict |-> c1] : s \in {{}, {second}}, n \in 1..2} \cup
  {Append("append-update", u1)} \cup
  {Report(o, AssetKind[o], c1, "client", n) : o \in {note, second}, n \in 1..2} \cup
  {Resolution(c1, n, None, d, None, None) : n \in 1..4, d \in BOOLEAN} \cup
  {Resolution(c1, n, None, FALSE, Content(Inherit, s), None) :
     n \in 1..4, s \in {Inherit, {second}}}

AllRequests == TreeRequests \cup DocRequests \cup NameRequests \cup AssetRequests

-----------------------------------------------------------------------------
(* A scenario has its own requests and uses some of the command ids; only  *)
(* the documents are also read through a bootstrap session.                *)
Tree   == INSTANCE SyncCommands WITH Requests <- TreeRequests, Sessions <- {},
                                     CommandIds <- CommandIds \ {6}
Docs   == INSTANCE SyncCommands WITH Requests <- DocRequests
Naming == INSTANCE SyncCommands WITH Requests <- NameRequests, Sessions <- {},
                                     CommandIds <- CommandIds \ {6}
Assets == INSTANCE SyncCommands WITH Requests <- AssetRequests, Sessions <- {},
                                     CommandIds <- CommandIds \ {6}

(* The third request reuses the first command's id for another body.        *)
Sent(c, b) == [id |-> c, body |-> b]
ThreeBatches == <<<<Sent(1, 1)>>, <<Sent(1, 1), Sent(2, 2)>>, <<Sent(1, 3)>>>>
TheirSends   == <<1, 2, 1>>
TheSecondRequiresTheFirst == 2 :> 1

MCInit == Init /\ Ledger!Init /\ scenario \in Scenarios

MCNext ==
  \/ scenario = "tree"   /\ Tree!Next   /\ UNCHANGED <<scenario, ledger>>
  \/ scenario = "docs"   /\ Docs!Next   /\ UNCHANGED <<scenario, ledger>>
  \/ scenario = "names"  /\ Naming!Next /\ UNCHANGED <<scenario, ledger>>
  \/ scenario = "assets" /\ Assets!Next /\ UNCHANGED <<scenario, ledger>>
  \/ scenario = "ledger" /\ Ledger!Next /\ UNCHANGED <<scenario, vars>>

MCSpec == MCInit /\ [][MCNext]_<<vars, scenario, ledger>>

(* Command ids are interchangeable: it is enough to use them in order.      *)
IdsInOrder ==
  \A i, j \in CommandIds :
    i < j /\ commands'[j] # "absent" => commands'[i] # "absent"
=============================================================================
