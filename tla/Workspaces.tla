----------------------------- MODULE Workspaces -----------------------------
(***************************************************************************)
(* The workspaces of one account: WorkspaceService (workspaces/service.ts) *)
(* and their final removal by maintenance (#cleanupDeletedWorkspaces).     *)
(*                                                                         *)
(* Every write takes the advisory lock of its account in its transaction   *)
(* (assertAccountWriteAllowedInTransaction), so a transaction is one       *)
(* action; what a request has checked before it is remembered.  The final  *)
(* removal holds the same lock, and the workspace's, across several        *)
(* statements and calls to the blob storage.                               *)
(*                                                                         *)
(* Whether WorkspaceService is given a UsageService (counted) is chosen    *)
(* when the server is put together: server.ts gives it none, and one to    *)
(* AdminService, which always counts.                                      *)
(***************************************************************************)
EXTENDS Integers, FiniteSets

CONSTANTS
  MaxWorkspaces, \* bound: workspaces, numbered in the order of their creation
  Creatable,     \* bound: those of them that are created
  Limit,         \* the account's workspace limit, where it has
  CreationKeys,  \* idempotency keys of creations
  DefaultKey,    \* notegen.default-library.v1
  Versions,      \* key versions
  Rekeyed,       \* bound: workspaces whose keys are changed
  Batch,         \* candidates of one run of maintenance, of all accounts
  Placed,        \* bound: what stands in the way of a removal at times
  MaxActions,    \* bound: workspaces an administrator removes or recovers
  MaxFailures,   \* bound: storage failures, crashes, locks not obtained
  None           \* a null column

VARIABLES
  ws,         \* workspaces
  keys,       \* workspace_keys
  envelope,   \* workspace_key_envelopes: types of the active ones
  stored,     \* the stored bytes of the workspace's blobs
  counted,    \* WorkspaceService has a UsageService
  count,      \* account_usage.active_workspaces
  removing,   \* requests to remove each, whose access has been checked
  expired,    \* the removal's candidates
  purge,      \* the workspace the removal has locked, and its next step
  hold,       \* a legal hold of the account is active
  deleting,   \* a deletion case of the account is open and not due
  ahead,      \* older candidates of other accounts
  actions,    \* what administrators did so far
  failures    \* failures so far

wsVars == <<ws, keys, envelope, stored, counted, count, removing, expired, purge, hold,
            deleting, ahead, actions, failures>>

Slots == 1..MaxWorkspaces
AnyKey == CreationKeys \cup {DefaultKey}
NoPurge == [at |-> "idle", ws |-> 0]
NoWorkspace == [state |-> "none", type |-> "library", key |-> None, old |-> FALSE]

(* Every row has its columns' types (all of Workspaces).                    *)
TypeOK ==
  /\ ws \in [Slots -> [state : {"none", "active", "deleted", "purged"},
                       type : {"library", "account-data"},
                       key : AnyKey \cup {None}, old : BOOLEAN]]
  /\ keys \in [Slots -> SUBSET Versions]
  /\ envelope \in [Slots -> [Versions -> SUBSET {"passphrase", "recovery", "device", "managed"}]]
  /\ stored \in [Slots -> {"whole", "interrupted", "removed"}]
  /\ counted \in BOOLEAN /\ count \in Nat
  /\ removing \in [Slots -> 0..2] /\ expired \subseteq Slots
  /\ purge \in [at : {"idle", "bytes", "row"}, ws : {0} \cup Slots]
  /\ hold \in BOOLEAN /\ deleting \in BOOLEAN /\ ahead \in 0..Batch
  /\ actions \in 0..MaxActions /\ failures \in 0..MaxFailures

Init ==
  /\ ws = [s \in Slots |-> NoWorkspace]
  /\ keys = [s \in Slots |-> {}]
  /\ envelope = [s \in Slots |-> [v \in Versions |-> {}]]
  /\ stored = [s \in Slots |-> "whole"]
  /\ counted \in BOOLEAN /\ count = 0 /\ removing = [s \in Slots |-> 0] /\ expired = {} /\ purge = NoPurge
  /\ hold = FALSE /\ deleting = FALSE /\ ahead = 0 /\ actions = 0 /\ failures = 0

keying   == <<keys, envelope>>
shielded == <<hold, deleting, ahead>>
cleaning == <<expired, purge, shielded, actions, failures>>

Active(s) == ws[s].state = "active"
Exists(s) == ws[s].state \in {"active", "deleted"}
Libraries == {s \in Slots : Active(s) /\ ws[s].type = "library"}
Oldest(S) == CHOOSE s \in S : \A t \in S : s <= t

(* The account's lock is free: the final removal does not hold it.          *)
Unlocked == purge.at = "idle"

(* And the account may write: its deletion is not under way.                *)
WriteAllowed == Unlocked /\ ~deleting

(***************************************************************************)
(* Creation.  A key that is known already answers with its workspace.      *)
(***************************************************************************)
Known(k) == k # None /\ \E s \in Slots : Exists(s) /\ ws[s].key = k

Admit ==
  IF counted THEN count < Limit /\ count' = count + 1 ELSE UNCHANGED count

(* Fault: the count goes below zero where it was not kept before.           *)
Decrease == count' = count - 1

ReleaseWorkspace == count' = IF count > 0 THEN count - 1 ELSE 0

Release == IF counted THEN ReleaseWorkspace ELSE UNCHANGED count

(* A managed library, or one whose key only its members can unwrap.        *)
FirstEnvelopes ==
  IF Rekeyed = {} THEN {{"managed"}} ELSE {{"managed"}, {"passphrase", "recovery"}}

Insert(type, k, types) ==
  LET free == {s \in Slots \cap Creatable : ws[s].state = "none"} IN
  /\ free # {}
  /\ ws' = [ws EXCEPT ![Oldest(free)] =
              [NoWorkspace EXCEPT !.state = "active", !.type = type, !.key = k]]
  /\ keys' = [keys EXCEPT ![Oldest(free)] = {1}]
  /\ envelope' = [envelope EXCEPT ![Oldest(free)][1] = types]

CreateLibrary(k) ==
  /\ WriteAllowed /\ ~Known(k) /\ (k = DefaultKey => Libraries = {})
  /\ Admit /\ (\E types \in FirstEnvelopes : Insert("library", k, types))
  /\ UNCHANGED <<stored, removing, cleaning>>

(* The first device to ask for the default library takes over the oldest
   library there is, whatever key that was created with.                    *)
AdoptDefault ==
  /\ WriteAllowed /\ ~Known(DefaultKey) /\ Libraries # {}
  /\ ws' = [ws EXCEPT ![Oldest(Libraries)].key = DefaultKey]
  /\ UNCHANGED <<keying, stored, count, removing, cleaning>>

GetOrCreateManagedDefault ==
  /\ WriteAllowed /\ ~\E s \in Slots : Active(s) /\ ws[s].type = "account-data"
  /\ Admit /\ Insert("account-data", None, {"managed"})
  /\ UNCHANGED <<stored, removing, cleaning>>

(***************************************************************************)
(* Keys.  That the workspace is owned and active is checked before the     *)
(* transaction.                                                            *)
(***************************************************************************)
KeyChange(s) ==
  s \in Rekeyed /\ WriteAllowed /\ Exists(s) /\ UNCHANGED <<ws, stored, count, removing, cleaning>>

AddKey(s, v, device) ==
  /\ KeyChange(s) /\ v \notin keys[s]
  /\ keys' = [keys EXCEPT ![s] = @ \cup {v}]
  /\ envelope' = [envelope EXCEPT ![s][v] = {"passphrase", "recovery"} \cup device]

AddEnvelope(s, v, t) ==
  /\ KeyChange(s) /\ v \in keys[s] /\ t \notin envelope[s][v]
  /\ envelope' = [envelope EXCEPT ![s][v] = @ \cup {t}] /\ UNCHANGED keys

(* The active recovery envelope is revoked and a new one inserted.          *)
Renewed(types) == (types \ {"recovery"}) \cup {"recovery"}

ReplaceRecoveryEnvelope(s, v) ==
  /\ KeyChange(s) /\ v \in keys[s]
  /\ envelope' = [envelope EXCEPT ![s][v] = Renewed(@)] /\ UNCHANGED keys

EnableEndToEndEncryption(s, v) ==
  /\ KeyChange(s) /\ v \in keys[s]
  /\ envelope' = [envelope EXCEPT ![s][v] = {"passphrase", "recovery"}] /\ UNCHANGED keys

(* Fault: keys that have come up since the client listed them are let pass. *)
SomeOf(s, given) == given \subseteq keys[s]

OneForEach(s, given) == given = keys[s]

EnableManagedEncryption(s, given) ==
  /\ KeyChange(s) /\ Active(s) /\ ws[s].type = "account-data" /\ OneForEach(s, given)
  /\ envelope' = [envelope EXCEPT ![s] =
                    [v \in Versions |-> IF v \in given THEN {"managed"} ELSE {}]]
  /\ UNCHANGED keys

(***************************************************************************)
(* Removal and recovery.  remove checks the access, then locks the row.  A *)
(* member who may delete takes the lock of its own account.  Two requests, *)
(* for one workspace at a time, are the bound.                             *)
(***************************************************************************)
CheckRemoval(s) ==
  /\ Active(s) /\ removing[s] < 2 /\ \A t \in Slots \ {s} : removing[t] = 0
  /\ removing' = [removing EXCEPT ![s] = @ + 1]
  /\ UNCHANGED <<ws, keying, stored, count, cleaning>>

(* Fault: the state is trusted as it was when the access was checked.       *)
AsChecked(s) == ws[s].type = "library" /\ ws[s].key # DefaultKey

(* Fault: the workspace may have become the default one since the check.    *)
StillUndeleted(s) == Active(s) /\ ws[s].type = "library"

Removable(s) == Active(s) /\ ws[s].type = "library" /\ ws[s].key # DefaultKey

Remove(s) ==
  /\ removing[s] > 0 /\ removing' = [removing EXCEPT ![s] = @ - 1]
  /\ IF Removable(s)
     THEN ws' = [ws EXCEPT ![s].state = "deleted", ![s].old = FALSE] /\ Release
     ELSE UNCHANGED <<ws, count>>
  /\ UNCHANGED <<keying, stored, cleaning>>

(* Fault: recovery does not wait for a removal that is under way.           *)
Unhindered(s) == TRUE

Free(s) == purge.at = "idle" \/ purge.ws # s

Recover(s) ==
  /\ Free(s) /\ ws[s].state = "deleted"
  /\ ws' = [ws EXCEPT ![s].state = "active", ![s].old = FALSE]
  /\ UNCHANGED <<keying, stored, removing>>

Restore(s) == WriteAllowed /\ Admit /\ Recover(s) /\ UNCHANGED cleaning

(***************************************************************************)
(* An administrator has a count of any account, without a limit, looks at  *)
(* neither its lock nor a deletion case, and of the default workspaces at  *)
(* is_default, which no library has.                                       *)
(***************************************************************************)
Administers == actions < MaxActions /\ actions' = actions + 1

AdminDelete(s) ==
  /\ Administers /\ Active(s) /\ ws[s].type = "library"
  /\ ws' = [ws EXCEPT ![s].state = "deleted", ![s].old = FALSE] /\ ReleaseWorkspace
  /\ UNCHANGED <<keying, stored, removing, expired, purge, shielded, failures>>

AdminRestore(s) ==
  /\ Administers /\ Recover(s) /\ count' = count + 1
  /\ UNCHANGED <<expired, purge, shielded, failures>>

ReconcileUsage ==
  /\ count' = Cardinality({s \in Slots : Active(s)})
  /\ UNCHANGED <<ws, keying, stored, removing, cleaning>>

(***************************************************************************)
(* What stands in the way of a final removal.  The request to delete the   *)
(* account marks all its workspaces as deleted, and its cancellation       *)
(* recovers all of them; that a case becomes due is AccountDeletion's.     *)
(***************************************************************************)
PlaceHold ==
  /\ "hold" \in Placed /\ Unlocked /\ hold' = ~hold
  /\ UNCHANGED <<ws, keying, stored, count, removing, expired, purge, deleting, ahead>>
  /\ UNCHANGED <<actions, failures>>

(* All workspaces that have a row go from one state to the other.           *)
Turn(state) ==
  LET turned == [s \in Slots |->
                   IF Exists(s) THEN [ws[s] EXCEPT !.state = state, !.old = FALSE] ELSE ws[s]]
  IN  /\ ws' = turned
      /\ IF counted
         THEN count' = Cardinality({s \in Slots : turned[s].state = "active"})
         ELSE UNCHANGED count
      /\ UNCHANGED <<keying, stored, removing, expired, purge, hold, ahead, actions, failures>>

RequestDeletion == "case" \in Placed /\ WriteAllowed /\ deleting' = TRUE /\ Turn("deleted")
CancelDeletion  == Unlocked /\ deleting /\ deleting' = FALSE /\ Turn("active")

(* Workspaces of other accounts expire, are recovered, held or removed.     *)
OthersInBatch ==
  /\ "others" \in Placed /\ ahead' \in 0..Batch
  /\ UNCHANGED <<ws, keying, stored, count, removing, expired, purge, hold, deleting>>
  /\ UNCHANGED <<actions, failures>>

(***************************************************************************)
(* The final removal.                                                      *)
(***************************************************************************)
Ages(s) ==
  /\ ws[s].state = "deleted" /\ ~ws[s].old
  /\ ws' = [ws EXCEPT ![s].old = TRUE]
  /\ UNCHANGED <<keying, stored, count, removing, cleaning>>

Expired(s) == ws[s].state = "deleted" /\ ws[s].old

(* Fault: a removal that was interrupted is not taken up again.             *)
CandidateOnce(s) == Expired(s) /\ ~deleting /\ stored[s] = "whole"

Candidate(s) == Expired(s) /\ ~deleting

(* The oldest candidates of all accounts, held or not: which of the account's
   own are the older ones is left open.                                     *)
FindExpired ==
  LET own == {s \in Slots : Candidate(s)} IN
  /\ Unlocked /\ expired = {} /\ own # {} /\ ahead < Batch
  /\ \E S \in SUBSET own :
       /\ Cardinality(S) <= Batch - ahead /\ (S = own \/ Cardinality(S) = Batch - ahead)
       /\ expired' = S
  /\ UNCHANGED <<ws, keying, stored, count, removing, purge, shielded, actions, failures>>

StillExpired(s) == Expired(s) /\ ~hold /\ ~deleting

LockExpired(s) ==
  /\ s \in expired /\ Unlocked
  /\ expired' = expired \ {s}
  /\ purge' = IF StillExpired(s) THEN [at |-> "bytes", ws |-> s] ELSE NoPurge
  /\ UNCHANGED <<ws, keying, stored, count, removing, shielded, actions, failures>>

DeleteBytes ==
  /\ purge.at = "bytes"
  /\ stored' = [stored EXCEPT ![purge.ws] = "removed"]
  /\ purge' = [purge EXCEPT !.at = "row"]
  /\ UNCHANGED <<ws, keying, count, removing, expired, shielded, actions, failures>>

DeleteRow ==
  /\ purge.at = "row" /\ purge' = NoPurge
  /\ IF Expired(purge.ws)
     THEN /\ ws' = [ws EXCEPT ![purge.ws].state = "purged", ![purge.ws].key = None]
          /\ keys' = [keys EXCEPT ![purge.ws] = {}]
          /\ envelope' = [envelope EXCEPT ![purge.ws] = [v \in Versions |-> {}]]
     ELSE UNCHANGED <<ws, keying>>
  /\ UNCHANGED <<stored, count, removing, expired, shielded, actions, failures>>

(* A blob cannot be deleted, or the process dies: what is deleted is gone,
   the workspace remains, with its locks released, and may be recovered.    *)
PurgeFails ==
  /\ purge.at # "idle" /\ failures < MaxFailures /\ failures' = failures + 1
  /\ stored' = [stored EXCEPT ![purge.ws] = "interrupted"]
  /\ purge' = NoPurge /\ expired' = {}
  /\ UNCHANGED <<ws, keying, count, removing, shielded, actions>>

(* Somebody else holds a lock at the moment it is tried.                    *)
SkipExpired(s) ==
  /\ s \in expired /\ failures < MaxFailures /\ failures' = failures + 1
  /\ expired' = expired \ {s}
  /\ UNCHANGED <<ws, keying, stored, count, removing, purge, shielded, actions>>

MaintenanceStep ==
  /\ FindExpired \/ DeleteBytes \/ DeleteRow \/ \E s \in Slots : LockExpired(s)
  /\ UNCHANGED counted

Operation ==
  \/ \E k \in AnyKey \cup {None} : CreateLibrary(k)
  \/ AdoptDefault \/ GetOrCreateManagedDefault
  \/ \E s \in Slots, v \in Versions :
       \/ \E device \in SUBSET {"device"} : AddKey(s, v, device)
       \/ \E t \in {"passphrase", "recovery", "device"} : AddEnvelope(s, v, t)
       \/ ReplaceRecoveryEnvelope(s, v) \/ EnableEndToEndEncryption(s, v)
  \/ \E s \in Slots, given \in SUBSET Versions : EnableManagedEncryption(s, given)
  \/ \E s \in Slots : CheckRemoval(s) \/ Remove(s) \/ Restore(s) \/ Ages(s) \/ SkipExpired(s)
  \/ \E s \in Slots : AdminDelete(s) \/ AdminRestore(s)
  \/ ReconcileUsage \/ PlaceHold \/ RequestDeletion \/ CancelDeletion \/ OthersInBatch
  \/ PurgeFails

Next == MaintenanceStep \/ (Operation /\ UNCHANGED counted)

Spec == Init /\ [][Next]_wsVars

(***************************************************************************)
(* Properties.                                                             *)
(***************************************************************************)
(* However creations, removals that were checked together, recoveries, the
   deletion of the account and its cancellation interleave, the usage counts
   the active workspaces, where it is kept (admitWorkspace, releaseWorkspace).*)
ActiveCounted == counted => count = Cardinality({s \in Slots : Active(s)})

(* No sequence of key changes leaves a version of the workspace key that
   nobody can open: it has a managed or a recovery envelope.                *)
EveryKeyOpens ==
  \A s \in Slots : Exists(s) =>
    \A v \in keys[s] : {"managed", "recovery"} \cap envelope[s][v] # {}

(* While maintenance removes a workspace for good, nobody recovers it, and its
   account has neither a hold nor an open deletion; so what it emptied in a
   removal that did not fail is never in use again.  The blobs of one whose
   removal failed half-way are not promised (stored is "interrupted").       *)
RemovalAlone ==
  /\ purge.at # "idle" => ws[purge.ws].state = "deleted" /\ ~hold /\ ~deleting
  /\ \A s \in Slots : Active(s) => stored[s] # "removed"

(* The libraries of an account: what is counted against its limit, where it
   has one, is what is active, also when two requests create, remove or
   restore at once; a key opens every library that its devices may have,
   across rotations; and a final removal is alone with what it removes.     *)
LibrariesSound == ActiveCounted /\ EveryKeyOpens /\ RemovalAlone

(* A request of the account or of a member leaves its default library where
   it is, also a removal that was checked before it became the default
   (remove), and so does maintenance.  An administrator may remove it, and
   the deletion of the account does.                                        *)
DefaultStays ==
  \A s \in Slots : ws[s].key = DefaultKey /\ Active(s) =>
    ws'[s].state = "active" \/ AdminDelete(s) \/ RequestDeletion

(* Nothing stands in the way of a removal: neither hold nor case, and no more
   candidates, of this account and older ones of others, than maintenance
   looks at.                                                                *)
Unopposed ==
  ~hold /\ ~deleting /\ ahead + Cardinality({s \in Slots : Candidate(s)}) <= Batch
=============================================================================
