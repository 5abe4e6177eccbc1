---------------------------- MODULE WorkspacesProofs ----------------------------
(***************************************************************************)
(* What the workspaces of an account guarantee for every limit, number of  *)
(* workspaces and of key versions, what the members of a library may do,   *)
(* for any people and requests, and what the realtime channel of a         *)
(* workspace shows, for any sockets and messages; checked by TLAPS.        *)
(***************************************************************************)
EXTENDS LibraryPromises, FiniteSetTheorems, WellFoundedInduction, TLAPS

(* The bounds are numbers; the first version of a key is 1.                 *)
WorkspacesAssumption ==
  MaxWorkspaces \in Nat /\ Limit \in Nat /\ Batch \in Nat /\ MaxActions \in Nat
  /\ MaxFailures \in Nat /\ 1 \in Versions

WorkspaceRow == [state : {"none", "active", "deleted", "purged"},
                 type : {"library", "account-data"}, key : AnyKey \cup {None}, old : BOOLEAN]

EnvelopeTypes == {"passphrase", "recovery", "device", "managed"}

(* What the final removal has locked stays deleted and expired.             *)
PurgeHolds ==
  purge.at # "idle" => purge.ws \in Slots /\ Expired(purge.ws) /\ ~hold /\ ~deleting

(* Bytes are removed only of what is gone or about to go.                   *)
RemovedGone ==
  \A s \in Slots : stored[s] = "removed" =>
    ws[s].state = "purged" \/ (purge.at = "row" /\ purge.ws = s)

WsInv == TypeOK /\ ActiveCounted /\ EveryKeyOpens /\ PurgeHolds /\ RemovedGone

-----------------------------------------------------------------------------
(* The oldest of some workspaces is one of them.                            *)
LEMMA OldestOf ==
  ASSUME NEW S \in SUBSET Slots, S # {}
  PROVE  Oldest(S) \in S
<1>1. S \subseteq Nat
  BY DEF Slots
<1>2. PICK x \in S : \A y \in S : <<y, x>> \notin OpToRel(<, Nat)
  BY <1>1, NatLessThanWellFounded, WFMin
<1>3. \A y \in S : x <= y
  <2> TAKE y \in S
  <2>1. <<y, x>> \in Nat \X Nat /\ <<y, x>>[1] = y /\ <<y, x>>[2] = x
    BY <1>1
  <2>2. ~(y < x)
    BY <1>2, <2>1 DEF OpToRel
  <2> QED  BY <1>1, <2>2
<1> QED  BY <1>2, <1>3 DEF Oldest

(* The workspaces that are active in a table.                               *)
ActiveIn(w) == {s \in Slots : w[s].state = "active"}

LEMMA ActiveFinite ==
  ASSUME WorkspacesAssumption, NEW w
  PROVE  IsFiniteSet(ActiveIn(w)) /\ Cardinality(ActiveIn(w)) \in Nat
<1>1. IsFiniteSet(Slots)
  BY FS_Interval DEF Slots, WorkspacesAssumption
<1>2. ActiveIn(w) \in SUBSET Slots
  BY DEF ActiveIn
<1>3. IsFiniteSet(ActiveIn(w))
  BY <1>1, <1>2, FS_Subset
<1> QED  BY <1>3, FS_CardinalityType

LEMMA CountSame ==
  ASSUME ActiveCounted, UNCHANGED <<count, counted>>,
         \A s \in Slots : ws'[s].state = "active" <=> ws[s].state = "active"
  PROVE  ActiveCounted'
<1>1. {s \in Slots : Active(s)} = {s \in Slots : Active(s)}'
  BY DEF Active
<1> QED  BY <1>1 DEF ActiveCounted

LEMMA CountUp ==
  ASSUME WorkspacesAssumption, ActiveCounted, counted => count' = count + 1, UNCHANGED counted,
         NEW o \in Slots, ws[o].state # "active", ws'[o].state = "active",
         \A s \in Slots \ {o} : ws'[s].state = ws[s].state
  PROVE  ActiveCounted'
<1>1. ActiveIn(ws') = ActiveIn(ws) \cup {o} /\ o \notin ActiveIn(ws)
  BY DEF ActiveIn
<1>2. Cardinality(ActiveIn(ws')) = Cardinality(ActiveIn(ws)) + 1
  BY <1>1, ActiveFinite, FS_AddElement
<1>3. counted => count = Cardinality(ActiveIn(ws))
  BY DEF ActiveCounted, Active, ActiveIn
<1> QED  BY <1>2, <1>3 DEF ActiveCounted, Active, ActiveIn

LEMMA CountDown ==
  ASSUME WorkspacesAssumption, ActiveCounted, counted => ReleaseWorkspace, UNCHANGED counted,
         NEW o \in Slots, ws[o].state = "active", ws'[o].state # "active",
         \A s \in Slots \ {o} : ws'[s].state = ws[s].state
  PROVE  ActiveCounted'
<1>1. ActiveIn(ws') = ActiveIn(ws) \ {o} /\ o \in ActiveIn(ws)
  BY DEF ActiveIn
<1>2. Cardinality(ActiveIn(ws')) = Cardinality(ActiveIn(ws)) - 1
  BY <1>1, ActiveFinite, FS_RemoveElement
<1>3. Cardinality(ActiveIn(ws)) \in Nat /\ Cardinality(ActiveIn(ws')) \in Nat
  BY ActiveFinite
<1>4. counted => count = Cardinality(ActiveIn(ws))
  BY DEF ActiveCounted, Active, ActiveIn
<1>5. counted => count' = count - 1
  BY <1>2, <1>3, <1>4 DEF ReleaseWorkspace
<1> QED  BY <1>2, <1>4, <1>5 DEF ActiveCounted, Active, ActiveIn

(* The count is taken anew.                                                 *)
LEMMA CountAnew ==
  ASSUME WorkspacesAssumption, UNCHANGED counted,
         counted => count' = Cardinality(ActiveIn(ws'))
  PROVE  ActiveCounted'
  BY DEF ActiveCounted, Active, ActiveIn

-----------------------------------------------------------------------------
(* Creation.                                                                *)
LEMMA InsertKeeps ==
  ASSUME WsInv, WorkspacesAssumption, UNCHANGED counted, WriteAllowed, Admit,
         NEW type \in {"library", "account-data"}, NEW k \in AnyKey \cup {None},
         NEW types \in SUBSET EnvelopeTypes, {"managed", "recovery"} \cap types # {},
         Insert(type, k, types), UNCHANGED <<stored, removing, cleaning>>
  PROVE  WsInv'
<1> DEFINE free == {s \in Slots \cap Creatable : ws[s].state = "none"}
           o == Oldest(free)
           row == [NoWorkspace EXCEPT !.state = "active", !.type = type, !.key = k]
<1>1. o \in Slots /\ ws[o].state = "none"
  <2>1. free # {} /\ free \in SUBSET Slots
    BY DEF Insert
  <2> QED  BY <2>1, OldestOf
<1>2. /\ ws' = [ws EXCEPT ![o] = row]
      /\ keys' = [keys EXCEPT ![o] = {1}]
      /\ envelope' = [envelope EXCEPT ![o][1] = types]
  BY DEF Insert
<1>3. /\ UNCHANGED <<stored, removing, expired, purge, hold, deleting, ahead, actions, failures>>
      /\ purge.at = "idle" /\ (counted => count' = count + 1) /\ count' \in Nat
  BY DEF cleaning, shielded, Admit, WriteAllowed, Unlocked, WsInv, TypeOK
<1> HIDE DEF o
<1>4. row \in WorkspaceRow /\ row.state = "active"
  <2>1. NoWorkspace \in WorkspaceRow
    BY DEF NoWorkspace, WorkspaceRow
  <2> QED  BY <2>1 DEF WorkspaceRow
<1> HIDE DEF row
<1>5. /\ ws' \in [Slots -> WorkspaceRow] /\ ws'[o] = row
      /\ \A s \in Slots \ {o} : ws'[s] = ws[s]
  BY <1>1, <1>2, <1>4 DEF WsInv, TypeOK, WorkspaceRow
<1>6. /\ keys' \in [Slots -> SUBSET Versions] /\ keys'[o] = {1}
      /\ \A s \in Slots \ {o} : keys'[s] = keys[s]
  BY <1>1, <1>2 DEF WsInv, TypeOK, WorkspacesAssumption
<1>7. /\ envelope' \in [Slots -> [Versions -> SUBSET EnvelopeTypes]] /\ envelope'[o][1] = types
      /\ \A s \in Slots \ {o} : envelope'[s] = envelope[s]
  <2>1. envelope[o] \in [Versions -> SUBSET EnvelopeTypes]
    BY <1>1 DEF WsInv, TypeOK, EnvelopeTypes
  <2>2. envelope' = [envelope EXCEPT ![o] = [envelope[o] EXCEPT ![1] = types]]
    BY <1>2
  <2> QED  BY <1>1, <2>1, <2>2 DEF WsInv, TypeOK, EnvelopeTypes, WorkspacesAssumption
<1>8. TypeOK'
  BY <1>3, <1>5, <1>6, <1>7 DEF WsInv, TypeOK, WorkspaceRow, EnvelopeTypes
<1>9. ActiveCounted'
  BY <1>1, <1>3, <1>4, <1>5, CountUp DEF WsInv
<1>10. EveryKeyOpens'
  BY <1>5, <1>6, <1>7 DEF WsInv, EveryKeyOpens, Exists
<1>11. PurgeHolds' /\ RemovedGone'
  BY <1>1, <1>3, <1>5 DEF WsInv, PurgeHolds, RemovedGone
<1> QED  BY <1>8, <1>9, <1>10, <1>11 DEF WsInv

LEMMA CreateKeeps ==
  ASSUME WsInv, WorkspacesAssumption, UNCHANGED counted,
         (\E k \in AnyKey \cup {None} : CreateLibrary(k)) \/ GetOrCreateManagedDefault
  PROVE  WsInv'
<1>1. CASE GetOrCreateManagedDefault
  BY <1>1, InsertKeeps DEF GetOrCreateManagedDefault, EnvelopeTypes
<1>2. ASSUME NEW k \in AnyKey \cup {None}, CreateLibrary(k) PROVE WsInv'
  <2>1. PICK types \in FirstEnvelopes : Insert("library", k, types)
    BY <1>2 DEF CreateLibrary
  <2>2. types \in SUBSET EnvelopeTypes /\ {"managed", "recovery"} \cap types # {}
    BY DEF FirstEnvelopes, EnvelopeTypes
  <2> QED  BY <1>2, <2>1, <2>2, InsertKeeps DEF CreateLibrary
<1> QED  BY <1>1, <1>2

(* The states of all workspaces and what is stored of them stay.            *)
LEMMA StatesKept ==
  ASSUME WsInv, TypeOK',
         UNCHANGED <<keys, envelope, stored, counted, count, purge, hold, deleting>>,
         \A s \in Slots : ws'[s].state = ws[s].state /\ (ws[s].old => ws'[s].old)
  PROVE  WsInv'
<1>1. ActiveCounted'
  BY CountSame DEF WsInv
<1>2. EveryKeyOpens'
  BY DEF WsInv, EveryKeyOpens, Exists
<1>3. PurgeHolds' /\ RemovedGone'
  BY DEF WsInv, PurgeHolds, RemovedGone, Expired
<1> QED  BY <1>1, <1>2, <1>3 DEF WsInv

LEMMA AdoptKeeps ==
  ASSUME WsInv, WorkspacesAssumption, UNCHANGED counted, AdoptDefault
  PROVE  WsInv'
<1> DEFINE o == Oldest(Libraries)
<1>1. o \in Slots
  <2>1. Libraries # {} /\ Libraries \in SUBSET Slots
    BY DEF AdoptDefault, Libraries
  <2> QED  BY <2>1, OldestOf
<1>2. /\ ws' = [ws EXCEPT ![o].key = DefaultKey]
      /\ UNCHANGED <<keys, envelope, stored, count, removing, expired, purge>>
      /\ UNCHANGED <<hold, deleting, ahead, actions, failures>>
  BY DEF AdoptDefault, keying, cleaning, shielded
<1> HIDE DEF o
<1> DEFINE row == [ws[o] EXCEPT !.key = DefaultKey]
<1>3. row \in WorkspaceRow /\ row.state = ws[o].state /\ row.old = ws[o].old
  <2>1. ws[o] \in WorkspaceRow
    BY <1>1 DEF WsInv, TypeOK, WorkspaceRow
  <2> QED  BY <2>1 DEF WorkspaceRow, AnyKey
<1>4. ws' = [ws EXCEPT ![o] = row]
  BY <1>2
<1> HIDE DEF row
<1>5. /\ ws' \in [Slots -> WorkspaceRow]
      /\ \A s \in Slots : ws'[s].state = ws[s].state /\ (ws[s].old => ws'[s].old)
  BY <1>1, <1>3, <1>4 DEF WsInv, TypeOK, WorkspaceRow
<1>6. TypeOK'
  BY <1>2, <1>5 DEF WsInv, TypeOK, WorkspaceRow
<1> QED  BY <1>2, <1>5, <1>6, StatesKept

-----------------------------------------------------------------------------
(* Keys.                                                                    *)
LEMMA KeyChangeKeeps ==
  ASSUME WsInv, UNCHANGED counted, NEW s \in Slots, KeyChange(s),
         keys' \in [Slots -> SUBSET Versions],
         envelope' \in [Slots -> [Versions -> SUBSET EnvelopeTypes]],
         \A t \in Slots \ {s} : keys'[t] = keys[t] /\ envelope'[t] = envelope[t],
         \A v \in keys'[s] : {"managed", "recovery"} \cap envelope'[s][v] # {}
  PROVE  WsInv'
<1>1. UNCHANGED <<ws, stored, count, removing, expired, purge, hold, deleting, ahead, actions,
                  failures>>
  BY DEF KeyChange, cleaning, shielded
<1>2. TypeOK'
  BY <1>1 DEF WsInv, TypeOK, EnvelopeTypes
<1>3. ActiveCounted'
  BY <1>1, CountSame DEF WsInv
<1>4. EveryKeyOpens'
  BY <1>1 DEF WsInv, EveryKeyOpens, Exists
<1> QED  BY <1>1, <1>2, <1>3, <1>4 DEF WsInv, PurgeHolds, RemovedGone, Expired

(* One version gets these envelopes.                                        *)
LEMMA VersionKeeps ==
  ASSUME WsInv, UNCHANGED counted, NEW s \in Slots, KeyChange(s), NEW v \in Versions,
         NEW types \in SUBSET EnvelopeTypes, {"managed", "recovery"} \cap types # {},
         envelope' = [envelope EXCEPT ![s][v] = types],
         keys' = [keys EXCEPT ![s] = @ \cup {v}] \/ UNCHANGED keys
  PROVE  WsInv'
<1>1. envelope[s] \in [Versions -> SUBSET EnvelopeTypes]
  BY DEF WsInv, TypeOK, EnvelopeTypes
<1>2. envelope' = [envelope EXCEPT ![s] = [envelope[s] EXCEPT ![v] = types]]
  OBVIOUS
<1>3. /\ envelope' \in [Slots -> [Versions -> SUBSET EnvelopeTypes]]
      /\ envelope'[s] = [envelope[s] EXCEPT ![v] = types]
      /\ \A t \in Slots \ {s} : envelope'[t] = envelope[t]
  BY <1>1, <1>2 DEF WsInv, TypeOK, EnvelopeTypes
<1>4. /\ keys' \in [Slots -> SUBSET Versions] /\ keys'[s] \subseteq keys[s] \cup {v}
      /\ \A t \in Slots \ {s} : keys'[t] = keys[t]
  BY DEF WsInv, TypeOK
<1>5. \A w \in keys[s] : {"managed", "recovery"} \cap envelope[s][w] # {}
  BY DEF KeyChange, WsInv, EveryKeyOpens
<1>6. ASSUME NEW w \in keys'[s] PROVE {"managed", "recovery"} \cap envelope'[s][w] # {}
  BY <1>1, <1>3, <1>4, <1>5
<1> QED  BY <1>3, <1>4, <1>6, KeyChangeKeeps

LEMMA KeysKeep ==
  ASSUME WsInv, WorkspacesAssumption, UNCHANGED counted, NEW s \in Slots, NEW v \in Versions,
         \/ \E device \in SUBSET {"device"} : AddKey(s, v, device)
         \/ \E t \in {"passphrase", "recovery", "device"} : AddEnvelope(s, v, t)
         \/ ReplaceRecoveryEnvelope(s, v) \/ EnableEndToEndEncryption(s, v)
  PROVE  WsInv'
<1>1. envelope[s] \in [Versions -> SUBSET EnvelopeTypes] /\ envelope[s][v] \in SUBSET EnvelopeTypes
  BY DEF WsInv, TypeOK, EnvelopeTypes
<1>2. ASSUME NEW device \in SUBSET {"device"}, AddKey(s, v, device) PROVE WsInv'
  <2> DEFINE types == {"passphrase", "recovery"} \cup device
  <2>1. types \in SUBSET EnvelopeTypes /\ {"managed", "recovery"} \cap types # {}
    BY DEF EnvelopeTypes
  <2>2. KeyChange(s) /\ envelope' = [envelope EXCEPT ![s][v] = types]
        /\ keys' = [keys EXCEPT ![s] = @ \cup {v}]
    BY <1>2 DEF AddKey
  <2> QED  BY <2>1, <2>2, VersionKeeps
<1>3. ASSUME NEW t \in {"passphrase", "recovery", "device"}, AddEnvelope(s, v, t) PROVE WsInv'
  <2> DEFINE types == envelope[s][v] \cup {t}
  <2>1. KeyChange(s) /\ v \in keys[s] /\ UNCHANGED keys
        /\ envelope' = [envelope EXCEPT ![s][v] = types]
    BY <1>3 DEF AddEnvelope
  <2>2. types \in SUBSET EnvelopeTypes
    BY <1>1 DEF EnvelopeTypes
  <2>3. {"managed", "recovery"} \cap types # {}
    BY <2>1 DEF KeyChange, WsInv, EveryKeyOpens
  <2> QED  BY <2>1, <2>2, <2>3, VersionKeeps
<1>4. CASE ReplaceRecoveryEnvelope(s, v)
  <2> DEFINE types == Renewed(envelope[s][v])
  <2>1. KeyChange(s) /\ UNCHANGED keys /\ envelope' = [envelope EXCEPT ![s][v] = types]
    BY <1>4 DEF ReplaceRecoveryEnvelope
  <2>2. types \in SUBSET EnvelopeTypes /\ {"managed", "recovery"} \cap types # {}
    BY <1>1 DEF EnvelopeTypes, Renewed
  <2> QED  BY <2>1, <2>2, VersionKeeps
<1>5. CASE EnableEndToEndEncryption(s, v)
  <2> DEFINE types == {"passphrase", "recovery"}
  <2>1. KeyChange(s) /\ UNCHANGED keys /\ envelope' = [envelope EXCEPT ![s][v] = types]
    BY <1>5 DEF EnableEndToEndEncryption
  <2>2. types \in SUBSET EnvelopeTypes /\ {"managed", "recovery"} \cap types # {}
    BY DEF EnvelopeTypes
  <2> QED  BY <2>1, <2>2, VersionKeeps
<1> QED  BY <1>2, <1>3, <1>4, <1>5

LEMMA ManagedKeeps ==
  ASSUME WsInv, UNCHANGED counted, NEW s \in Slots, NEW given \in SUBSET Versions, EnableManagedEncryption(s, given)
  PROVE  WsInv'
<1> DEFINE types == [v \in Versions |-> IF v \in given THEN {"managed"} ELSE {}]
<1>1. KeyChange(s) /\ given = keys[s] /\ UNCHANGED keys
      /\ envelope' = [envelope EXCEPT ![s] = types]
  BY DEF EnableManagedEncryption, OneForEach
<1>2. types \in [Versions -> SUBSET EnvelopeTypes]
  BY DEF EnvelopeTypes
<1>3. \A v \in given : {"managed", "recovery"} \cap types[v] # {}
  OBVIOUS
<1> HIDE DEF types
<1>4. /\ envelope' \in [Slots -> [Versions -> SUBSET EnvelopeTypes]] /\ envelope'[s] = types
      /\ \A t \in Slots \ {s} : envelope'[t] = envelope[t]
  BY <1>1, <1>2 DEF WsInv, TypeOK, EnvelopeTypes
<1>5. keys' \in [Slots -> SUBSET Versions]
  BY <1>1 DEF WsInv, TypeOK
<1> QED  BY <1>1, <1>3, <1>4, <1>5, KeyChangeKeeps

-----------------------------------------------------------------------------
(* Removal and recovery.                                                    *)

(* A workspace changes its state.                                           *)
LEMMA RowWith ==
  ASSUME WsInv, NEW s \in Slots, NEW state \in {"active", "deleted"},
         ws' = [ws EXCEPT ![s].state = state, ![s].old = FALSE]
  PROVE  /\ ws' \in [Slots -> WorkspaceRow] /\ ws'[s].state = state
         /\ ws'[s].key = ws[s].key /\ ~ws'[s].old
         /\ \A t \in Slots \ {s} : ws'[t] = ws[t]
<1> DEFINE row == [ws[s] EXCEPT !.state = state, !.old = FALSE]
<1>1. ws[s] \in WorkspaceRow /\ ws \in [Slots -> WorkspaceRow]
  BY DEF WsInv, TypeOK, WorkspaceRow
<1>2. row \in WorkspaceRow /\ row.state = state /\ row.key = ws[s].key /\ ~row.old
  BY <1>1 DEF WorkspaceRow
<1>3. ws' = [ws EXCEPT ![s] = row]
  BY <1>1
<1> HIDE DEF row
<1> QED  BY <1>1, <1>2, <1>3

LEMMA RemoveKeeps ==
  ASSUME WsInv, WorkspacesAssumption, UNCHANGED counted, NEW s \in Slots, CheckRemoval(s) \/ Remove(s)
  PROVE  WsInv'
<1>1. /\ UNCHANGED <<keys, envelope, stored, expired, purge, hold, deleting, ahead, actions, failures>>
      /\ removing' \in [Slots -> 0..2]
  <2>1. removing \in [Slots -> 0..2]
    BY DEF WsInv, TypeOK
  <2>2. CASE CheckRemoval(s)
    <3>1. removing[s] + 1 \in 0..2 /\ removing' = [removing EXCEPT ![s] = @ + 1]
      BY <2>1, <2>2 DEF CheckRemoval
    <3> QED  BY <2>1, <2>2, <3>1 DEF CheckRemoval, keying, cleaning, shielded
  <2>3. CASE Remove(s)
    <3>1. removing[s] - 1 \in 0..2 /\ removing' = [removing EXCEPT ![s] = @ - 1]
      BY <2>1, <2>3 DEF Remove
    <3> QED  BY <2>1, <2>3, <3>1 DEF Remove, keying, cleaning, shielded
  <2> QED  BY <2>2, <2>3
<1>2. CASE UNCHANGED <<ws, count>>
  <2>1. TypeOK'
    BY <1>1, <1>2 DEF WsInv, TypeOK
  <2> QED  BY <1>1, <1>2, <2>1, StatesKept
<1>3. CASE Removable(s) /\ ws' = [ws EXCEPT ![s].state = "deleted", ![s].old = FALSE] /\ Release
  <2>1. /\ ws' \in [Slots -> WorkspaceRow] /\ ws'[s].state = "deleted"
        /\ \A t \in Slots \ {s} : ws'[t] = ws[t]
    BY <1>3, RowWith
  <2>2. ws[s].state = "active"
    BY <1>3 DEF Removable, Active
  <2>3. TypeOK'
    BY <1>1, <1>3, <2>1 DEF WsInv, TypeOK, WorkspaceRow, Release, ReleaseWorkspace
  <2>4. ActiveCounted'
    BY <1>3, <2>1, <2>2, CountDown DEF WsInv, Release
  <2>5. EveryKeyOpens'
    BY <1>1, <2>1, <2>2 DEF WsInv, EveryKeyOpens, Exists
  <2>6. PurgeHolds' /\ RemovedGone'
    BY <1>1, <2>1, <2>2 DEF WsInv, PurgeHolds, RemovedGone, Expired
  <2> QED  BY <2>3, <2>4, <2>5, <2>6 DEF WsInv
<1> QED  BY <1>2, <1>3 DEF CheckRemoval, Remove

LEMMA RecoverKeeps ==
  ASSUME WsInv, WorkspacesAssumption, UNCHANGED <<counted, expired, purge, hold, deleting, ahead>>,
         NEW s \in Slots, Recover(s), counted => count' = count + 1, count' \in Nat,
         actions' \in 0..MaxActions, failures' \in 0..MaxFailures
  PROVE  WsInv'
<1>1. /\ UNCHANGED <<keys, envelope, stored, removing>> /\ ws[s].state = "deleted"
      /\ purge.at # "idle" => purge.ws # s
  BY DEF Recover, keying, Free
<1>2. /\ ws' \in [Slots -> WorkspaceRow] /\ ws'[s].state = "active"
      /\ \A t \in Slots \ {s} : ws'[t] = ws[t]
  BY RowWith DEF Recover
<1>3. TypeOK'
  BY <1>1, <1>2 DEF WsInv, TypeOK, WorkspaceRow
<1>4. ActiveCounted'
  BY <1>1, <1>2, CountUp DEF WsInv
<1>5. EveryKeyOpens'
  BY <1>1, <1>2 DEF WsInv, EveryKeyOpens, Exists
<1>6. PurgeHolds' /\ RemovedGone'
  BY <1>1, <1>2 DEF WsInv, PurgeHolds, RemovedGone, Expired
<1> QED  BY <1>3, <1>4, <1>5, <1>6 DEF WsInv

LEMMA RestoreKeeps ==
  ASSUME WsInv, WorkspacesAssumption, UNCHANGED counted, NEW s \in Slots, Restore(s)
  PROVE  WsInv'
<1>1. /\ UNCHANGED <<expired, purge, hold, deleting, ahead, actions, failures>>
      /\ (counted => count' = count + 1) /\ count' \in Nat
  BY DEF Restore, cleaning, shielded, Admit, WsInv, TypeOK
<1>2. actions' \in 0..MaxActions /\ failures' \in 0..MaxFailures /\ Recover(s)
  BY <1>1 DEF WsInv, TypeOK, Restore
<1> QED  BY <1>1, <1>2, RecoverKeeps

(* An administrator.                                                        *)
LEMMA AdminKeeps ==
  ASSUME WsInv, WorkspacesAssumption, UNCHANGED counted, NEW s \in Slots,
         AdminDelete(s) \/ AdminRestore(s)
  PROVE  WsInv'
<1>1. actions' \in 0..MaxActions
  BY DEF AdminDelete, AdminRestore, Administers, WsInv, TypeOK, WorkspacesAssumption
<1>2. CASE AdminRestore(s)
  <2>1. /\ UNCHANGED <<expired, purge, hold, deleting, ahead, failures>>
        /\ (counted => count' = count + 1) /\ count' \in Nat /\ failures' \in 0..MaxFailures
    BY <1>2 DEF AdminRestore, shielded, WsInv, TypeOK
  <2> QED  BY <1>1, <1>2, <2>1, RecoverKeeps DEF AdminRestore
<1>3. CASE AdminDelete(s)
  <2>1. /\ UNCHANGED <<keys, envelope, stored, removing, expired, purge, hold, deleting, ahead, failures>>
        /\ ws[s].state = "active" /\ ReleaseWorkspace /\ count' \in Nat
    BY <1>3 DEF AdminDelete, keying, shielded, Active, ReleaseWorkspace, WsInv, TypeOK
  <2>2. /\ ws' \in [Slots -> WorkspaceRow] /\ ws'[s].state = "deleted"
        /\ \A t \in Slots \ {s} : ws'[t] = ws[t]
    BY <1>3, RowWith DEF AdminDelete
  <2>3. TypeOK'
    BY <1>1, <2>1, <2>2 DEF WsInv, TypeOK, WorkspaceRow
  <2>4. ActiveCounted'
    BY <2>1, <2>2, CountDown DEF WsInv
  <2>5. EveryKeyOpens'
    BY <2>1, <2>2 DEF WsInv, EveryKeyOpens, Exists
  <2>6. PurgeHolds' /\ RemovedGone'
    BY <2>1, <2>2 DEF WsInv, PurgeHolds, RemovedGone, Expired
  <2> QED  BY <2>3, <2>4, <2>5, <2>6 DEF WsInv
<1> QED  BY <1>2, <1>3

LEMMA ReconcileKeeps ==
  ASSUME WsInv, WorkspacesAssumption, UNCHANGED counted, ReconcileUsage
  PROVE  WsInv'
<1>1. /\ UNCHANGED <<ws, keys, envelope, stored, removing, expired, purge>>
      /\ UNCHANGED <<hold, deleting, ahead, actions, failures>>
      /\ count' = Cardinality(ActiveIn(ws))
  BY DEF ReconcileUsage, keying, cleaning, shielded, ActiveIn, Active
<1>2. count' \in Nat
  BY <1>1, ActiveFinite
<1>3. TypeOK'
  BY <1>1, <1>2 DEF WsInv, TypeOK
<1>4. ActiveCounted'
  BY <1>1, CountAnew
<1> QED  BY <1>1, <1>3, <1>4 DEF WsInv, EveryKeyOpens, Exists, PurgeHolds, RemovedGone, Expired

(* Deletion of the account and its cancellation, holds, other accounts.     *)
LEMMA TurnKeeps ==
  ASSUME WsInv, WorkspacesAssumption, UNCHANGED counted, Unlocked, deleting' \in BOOLEAN,
         NEW state \in {"active", "deleted"}, Turn(state)
  PROVE  WsInv'
<1> DEFINE turned == [s \in Slots |->
                        IF Exists(s) THEN [ws[s] EXCEPT !.state = state, !.old = FALSE] ELSE ws[s]]
<1>1. /\ ws' = turned /\ purge.at = "idle"
      /\ count' = IF counted THEN Cardinality({s \in Slots : turned[s].state = "active"}) ELSE count
      /\ UNCHANGED <<keys, envelope, stored, removing, expired, purge, hold, ahead, actions, failures>>
  BY DEF Turn, keying, Unlocked
<1>2. ws \in [Slots -> WorkspaceRow]
  BY DEF WsInv, TypeOK, WorkspaceRow
<1>3. turned \in [Slots -> WorkspaceRow]
  BY <1>2 DEF WorkspaceRow
<1>4. \A s \in Slots : /\ Exists(s) => turned[s].state = state
                       /\ ~Exists(s) => turned[s] = ws[s]
  BY <1>2 DEF WorkspaceRow
<1> HIDE DEF turned
<1>5. {s \in Slots : turned[s].state = "active"} = ActiveIn(ws')
  BY <1>1 DEF ActiveIn
<1>6. count' \in Nat
  BY <1>1, <1>5, ActiveFinite DEF WsInv, TypeOK
<1>7. TypeOK'
  BY <1>1, <1>3, <1>6 DEF WsInv, TypeOK, WorkspaceRow
<1>8. ActiveCounted'
  BY <1>1, <1>5, CountAnew
<1>9. EveryKeyOpens'
  BY <1>1, <1>4 DEF WsInv, EveryKeyOpens, Exists
<1>10. PurgeHolds' /\ RemovedGone'
  BY <1>1, <1>4 DEF WsInv, PurgeHolds, RemovedGone, Exists
<1> QED  BY <1>7, <1>8, <1>9, <1>10 DEF WsInv

LEMMA ShieldKeeps ==
  ASSUME WsInv, WorkspacesAssumption, UNCHANGED counted,
         PlaceHold \/ RequestDeletion \/ CancelDeletion \/ OthersInBatch
  PROVE  WsInv'
<1>1. CASE RequestDeletion \/ CancelDeletion
  BY <1>1, TurnKeeps DEF RequestDeletion, CancelDeletion, WriteAllowed
<1>2. CASE PlaceHold \/ OthersInBatch
  <2>1. /\ UNCHANGED <<ws, keys, envelope, stored, count, removing, expired, purge, deleting, actions, failures>>
        /\ hold' \in BOOLEAN /\ ahead' \in 0..Batch
        /\ purge.at # "idle" => hold' = hold
    BY <1>2 DEF PlaceHold, OthersInBatch, keying, Unlocked, WsInv, TypeOK
  <2>2. TypeOK'
    BY <2>1 DEF WsInv, TypeOK
  <2>3. ActiveCounted'
    BY <2>1, CountSame DEF WsInv
  <2> QED  BY <2>1, <2>2, <2>3 DEF WsInv, EveryKeyOpens, Exists, PurgeHolds, RemovedGone, Expired
<1> QED  BY <1>1, <1>2

-----------------------------------------------------------------------------
(* The final removal.                                                       *)
LEMMA AgesKeeps ==
  ASSUME WsInv, UNCHANGED counted, NEW s \in Slots, Ages(s)
  PROVE  WsInv'
<1>1. UNCHANGED <<keys, envelope, stored, count, removing, expired, purge, hold, deleting, ahead,
                  actions, failures>>
  BY DEF Ages, keying, cleaning, shielded
<1> DEFINE row == [ws[s] EXCEPT !.old = TRUE]
<1>2. row \in WorkspaceRow /\ row.state = ws[s].state /\ row.old
  <2>1. ws[s] \in WorkspaceRow
    BY DEF WsInv, TypeOK, WorkspaceRow
  <2> QED  BY <2>1 DEF WorkspaceRow
<1>3. ws' = [ws EXCEPT ![s] = row]
  BY DEF Ages
<1> HIDE DEF row
<1>4. /\ ws' \in [Slots -> WorkspaceRow]
      /\ \A t \in Slots : ws'[t].state = ws[t].state /\ (ws[t].old => ws'[t].old)
  BY <1>2, <1>3 DEF WsInv, TypeOK, WorkspaceRow
<1>5. TypeOK'
  BY <1>1, <1>4 DEF WsInv, TypeOK, WorkspaceRow
<1> QED  BY <1>1, <1>4, <1>5, StatesKept

LEMMA CandidatesKeep ==
  ASSUME WsInv, WorkspacesAssumption, UNCHANGED counted, FindExpired \/ \E s \in Slots : SkipExpired(s)
  PROVE  WsInv'
<1>1. UNCHANGED <<ws, keys, envelope, stored, count, removing, purge, hold, deleting, ahead, actions>>
  BY DEF FindExpired, SkipExpired, keying, shielded
<1>2. expired' \subseteq Slots /\ failures' \in 0..MaxFailures
  BY DEF FindExpired, SkipExpired, WsInv, TypeOK, WorkspacesAssumption
<1>3. TypeOK'
  BY <1>1, <1>2 DEF WsInv, TypeOK
<1> QED  BY <1>1, <1>3, StatesKept

LEMMA LockKeeps ==
  ASSUME WsInv, UNCHANGED counted, NEW s \in Slots, LockExpired(s)
  PROVE  WsInv'
<1>1. /\ UNCHANGED <<ws, keys, envelope, stored, count, removing, hold, deleting, ahead, actions, failures>>
      /\ expired' \subseteq Slots /\ purge.at = "idle"
      /\ purge' = IF StillExpired(s) THEN [at |-> "bytes", ws |-> s] ELSE NoPurge
  BY DEF LockExpired, keying, shielded, Unlocked, WsInv, TypeOK
<1>2. /\ purge' \in [at : {"idle", "bytes", "row"}, ws : {0} \cup Slots]
      /\ purge'.at # "idle" => purge'.ws = s /\ Expired(s) /\ ~hold /\ ~deleting
  BY <1>1 DEF NoPurge, StillExpired
<1>3. TypeOK'
  BY <1>1, <1>2 DEF WsInv, TypeOK
<1>4. ActiveCounted'
  BY <1>1, CountSame DEF WsInv
<1>5. PurgeHolds' /\ RemovedGone' /\ EveryKeyOpens'
  BY <1>1, <1>2 DEF WsInv, PurgeHolds, RemovedGone, EveryKeyOpens, Exists, Expired
<1> QED  BY <1>3, <1>4, <1>5 DEF WsInv

LEMMA DeleteBytesKeeps ==
  ASSUME WsInv, UNCHANGED counted, DeleteBytes
  PROVE  WsInv'
<1>1. /\ UNCHANGED <<ws, keys, envelope, count, removing, expired, hold, deleting, ahead, actions, failures>>
      /\ purge.at = "bytes" /\ stored' = [stored EXCEPT ![purge.ws] = "removed"]
      /\ purge' = [purge EXCEPT !.at = "row"]
  BY DEF DeleteBytes, keying, shielded
<1>2. purge.ws \in Slots /\ Expired(purge.ws) /\ ~hold /\ ~deleting
  BY <1>1 DEF WsInv, PurgeHolds
<1>3. /\ purge' \in [at : {"idle", "bytes", "row"}, ws : {0} \cup Slots]
      /\ purge'.at = "row" /\ purge'.ws = purge.ws
  BY <1>1 DEF WsInv, TypeOK
<1>4. TypeOK'
  BY <1>1, <1>3 DEF WsInv, TypeOK
<1>5. ActiveCounted'
  BY <1>1, CountSame DEF WsInv
<1>6. PurgeHolds' /\ EveryKeyOpens'
  BY <1>1, <1>2, <1>3 DEF WsInv, PurgeHolds, EveryKeyOpens, Exists, Expired
<1>7. RemovedGone'
  BY <1>1, <1>2, <1>3 DEF WsInv, TypeOK, RemovedGone
<1> QED  BY <1>4, <1>5, <1>6, <1>7 DEF WsInv

LEMMA DeleteRowKeeps ==
  ASSUME WsInv, UNCHANGED counted, DeleteRow
  PROVE  WsInv'
<1> DEFINE s == purge.ws
           row == [ws[s] EXCEPT !.state = "purged", !.key = None]
           nothing == [v \in Versions |-> {}]
<1>1. /\ UNCHANGED <<stored, count, removing, expired, hold, deleting, ahead, actions, failures>>
      /\ purge.at = "row" /\ purge' = NoPurge
  BY DEF DeleteRow, shielded
<1>2. s \in Slots /\ Expired(s)
  BY <1>1 DEF WsInv, PurgeHolds
<1>3. /\ ws' = [ws EXCEPT ![s].state = "purged", ![s].key = None]
      /\ keys' = [keys EXCEPT ![s] = {}] /\ envelope' = [envelope EXCEPT ![s] = nothing]
  BY <1>2 DEF DeleteRow
<1>4. ws[s] \in WorkspaceRow /\ ws \in [Slots -> WorkspaceRow]
  BY <1>2 DEF WsInv, TypeOK, WorkspaceRow
<1>5. ws' = [ws EXCEPT ![s] = row]
  BY <1>3, <1>4
<1>6. row \in WorkspaceRow /\ row.state = "purged"
  BY <1>4 DEF WorkspaceRow
<1>7. nothing \in [Versions -> SUBSET EnvelopeTypes]
  OBVIOUS
<1> HIDE DEF s, row, nothing
<1>8. /\ ws' \in [Slots -> WorkspaceRow] /\ ws'[s].state = "purged"
      /\ \A t \in Slots \ {s} : ws'[t] = ws[t]
  BY <1>2, <1>4, <1>5, <1>6
<1>9. /\ keys' \in [Slots -> SUBSET Versions]
      /\ envelope' \in [Slots -> [Versions -> SUBSET EnvelopeTypes]]
      /\ \A t \in Slots \ {s} : keys'[t] = keys[t] /\ envelope'[t] = envelope[t]
  BY <1>2, <1>3, <1>7 DEF WsInv, TypeOK, EnvelopeTypes
<1>10. NoPurge \in [at : {"idle", "bytes", "row"}, ws : {0} \cup Slots] /\ NoPurge.at = "idle"
  BY DEF NoPurge
<1>11. TypeOK'
  BY <1>1, <1>8, <1>9, <1>10 DEF WsInv, TypeOK, WorkspaceRow, EnvelopeTypes
<1>12. ActiveCounted'
  BY <1>1, <1>2, <1>8, CountSame DEF WsInv, Expired
<1>13. EveryKeyOpens'
  BY <1>8, <1>9 DEF WsInv, EveryKeyOpens, Exists
<1>14. PurgeHolds' /\ RemovedGone'
  BY <1>1, <1>8, <1>10 DEF WsInv, PurgeHolds, RemovedGone, s
<1> QED  BY <1>11, <1>12, <1>13, <1>14 DEF WsInv

LEMMA PurgeFailsKeeps ==
  ASSUME WsInv, WorkspacesAssumption, UNCHANGED counted, PurgeFails
  PROVE  WsInv'
<1>1. /\ UNCHANGED <<ws, keys, envelope, count, removing, hold, deleting, ahead, actions>>
      /\ expired' = {} /\ purge' = NoPurge
      /\ purge.at # "idle" /\ stored' = [stored EXCEPT ![purge.ws] = "interrupted"]
      /\ failures' \in 0..MaxFailures
  BY DEF PurgeFails, keying, shielded, WsInv, TypeOK, WorkspacesAssumption
<1>2. purge.ws \in Slots
  BY <1>1 DEF WsInv, PurgeHolds
<1>3. NoPurge \in [at : {"idle", "bytes", "row"}, ws : {0} \cup Slots] /\ NoPurge.at = "idle"
  BY DEF NoPurge
<1>4. TypeOK'
  BY <1>1, <1>3 DEF WsInv, TypeOK
<1>5. ActiveCounted'
  BY <1>1, CountSame DEF WsInv
<1>6. PurgeHolds' /\ EveryKeyOpens'
  BY <1>1, <1>3 DEF WsInv, PurgeHolds, EveryKeyOpens, Exists
<1>7. RemovedGone'
  BY <1>1, <1>2 DEF WsInv, TypeOK, RemovedGone
<1> QED  BY <1>4, <1>5, <1>6, <1>7 DEF WsInv

-----------------------------------------------------------------------------
LEMMA WsInit ==
  ASSUME WorkspacesAssumption, Init
  PROVE  WsInv
<1>1. NoWorkspace \in WorkspaceRow /\ NoWorkspace.state = "none"
  BY DEF NoWorkspace, WorkspaceRow
<1>2. TypeOK
  <2>1. /\ ws \in [Slots -> WorkspaceRow] /\ keys \in [Slots -> SUBSET Versions]
        /\ envelope \in [Slots -> [Versions -> SUBSET EnvelopeTypes]]
        /\ stored \in [Slots -> {"whole", "interrupted", "removed"}] /\ removing \in [Slots -> 0..2]
    BY <1>1 DEF Init
  <2>2. counted \in BOOLEAN /\ count \in Nat /\ expired \subseteq Slots /\ hold \in BOOLEAN /\ deleting \in BOOLEAN
    BY DEF Init
  <2>3. /\ purge \in [at : {"idle", "bytes", "row"}, ws : {0} \cup Slots]
        /\ ahead \in 0..Batch /\ actions \in 0..MaxActions /\ failures \in 0..MaxFailures
    BY DEF Init, NoPurge, WorkspacesAssumption
  <2> QED  BY <2>1, <2>2, <2>3 DEF TypeOK, WorkspaceRow, EnvelopeTypes
<1>3. ActiveCounted
  <2>1. {s \in Slots : Active(s)} = {}
    BY <1>1 DEF Init, Active
  <2> QED  BY <2>1, FS_EmptySet DEF Init, ActiveCounted
<1>4. EveryKeyOpens /\ PurgeHolds /\ RemovedGone
  BY DEF Init, EveryKeyOpens, PurgeHolds, RemovedGone, NoPurge
<1> QED  BY <1>2, <1>3, <1>4 DEF WsInv

LEMMA WsStep ==
  ASSUME WsInv, WorkspacesAssumption, [Next]_wsVars
  PROVE  WsInv'
<1>1. CASE MaintenanceStep
  BY <1>1, CandidatesKeep, LockKeeps, DeleteBytesKeeps, DeleteRowKeeps DEF MaintenanceStep
<1>2. CASE Operation /\ UNCHANGED counted
  <2>1. CASE (\E k \in AnyKey \cup {None} : CreateLibrary(k)) \/ GetOrCreateManagedDefault
    BY <1>2, <2>1, CreateKeeps
  <2>2. CASE AdoptDefault
    BY <1>2, <2>2, AdoptKeeps
  <2>3. ASSUME NEW s \in Slots, NEW v \in Versions,
               \/ \E device \in SUBSET {"device"} : AddKey(s, v, device)
               \/ \E t \in {"passphrase", "recovery", "device"} : AddEnvelope(s, v, t)
               \/ ReplaceRecoveryEnvelope(s, v) \/ EnableEndToEndEncryption(s, v)
        PROVE  WsInv'
    BY <1>2, <2>3, KeysKeep
  <2>4. ASSUME NEW s \in Slots, NEW given \in SUBSET Versions, EnableManagedEncryption(s, given)
        PROVE  WsInv'
    BY <1>2, <2>4, ManagedKeeps
  <2>5. ASSUME NEW s \in Slots,
               CheckRemoval(s) \/ Remove(s) \/ Restore(s) \/ Ages(s) \/ SkipExpired(s)
        PROVE  WsInv'
    BY <1>2, <2>5, RemoveKeeps, RestoreKeeps, AgesKeeps, CandidatesKeep
  <2>6. ASSUME NEW s \in Slots, AdminDelete(s) \/ AdminRestore(s) PROVE WsInv'
    BY <1>2, <2>6, AdminKeeps
  <2>7. CASE \/ ReconcileUsage \/ PlaceHold \/ RequestDeletion \/ CancelDeletion
             \/ OthersInBatch \/ PurgeFails
    BY <1>2, <2>7, ReconcileKeeps, ShieldKeeps, PurgeFailsKeeps
  <2> QED  BY <1>2, <2>1, <2>2, <2>3, <2>4, <2>5, <2>6, <2>7 DEF Operation
<1>3. CASE UNCHANGED wsVars
  <2>1. TypeOK'
    BY <1>3 DEF wsVars, WsInv, TypeOK
  <2> QED  BY <1>3, <2>1, StatesKept DEF wsVars
<1> QED  BY <1>1, <1>2, <1>3 DEF Next

LEMMA WsInvariant ==
  ASSUME WorkspacesAssumption
  PROVE  Spec => []WsInv
<1>1. Init => WsInv
  BY WsInit
<1>2. WsInv /\ [Next]_wsVars => WsInv'
  BY WsStep
<1> QED  BY <1>1, <1>2, PTL DEF Spec

(* However creations, removals, recoveries, the deletion of the account and
   the final removal interleave, the usage counts the active workspaces,
   where every service keeps it; every version of a key can be opened; and a
   final removal is alone with what it removes, so that what it emptied is
   not recovered, unless it failed half-way.                                *)
THEOREM WorkspacesCorrect ==
  ASSUME WorkspacesAssumption
  PROVE  Spec => [](TypeOK /\ LibrariesSound)
<1>1. WsInv => RemovalAlone
  BY DEF WsInv, RemovedGone, PurgeHolds, Expired, RemovalAlone, Active
<1>2. WsInv => TypeOK /\ ActiveCounted /\ EveryKeyOpens
  BY DEF WsInv
<1> QED  BY <1>1, <1>2, WsInvariant, PTL DEF LibrariesSound

(* A step leaves the default library where it is.                           *)
LEMMA DefaultStaysByStep ==
  ASSUME WsInv, [Next]_wsVars
  PROVE  DefaultStays
<1> SUFFICES ASSUME NEW s \in Slots, ws[s].key = DefaultKey, ws[s].state = "active",
                    ~AdminDelete(s), ~RequestDeletion
             PROVE  ws'[s].state = "active"
  BY DEF DefaultStays, Active
<1>1. ws \in [Slots -> WorkspaceRow] /\ ws[s] \in WorkspaceRow
  BY DEF WsInv, TypeOK, WorkspaceRow
<1>2. CASE UNCHANGED ws
  BY <1>2
<1>3. ASSUME NEW type, NEW k, NEW types, Insert(type, k, types)
      PROVE  ws'[s].state = "active"
  <2> DEFINE free == {t \in Slots \cap Creatable : ws[t].state = "none"}
  <2>1. Oldest(free) \in free
    <3>1. free # {} /\ free \in SUBSET Slots
      BY <1>3 DEF Insert
    <3> QED  BY <3>1, OldestOf
  <2>2. Oldest(free) # s
    BY <2>1
  <2> QED  BY <1>1, <1>3, <2>2 DEF Insert
<1>4. CASE (\E k \in AnyKey \cup {None} : CreateLibrary(k)) \/ GetOrCreateManagedDefault
  BY <1>3, <1>4 DEF CreateLibrary, GetOrCreateManagedDefault
<1>5. CASE AdoptDefault
  <2>1. ws' = [ws EXCEPT ![Oldest(Libraries)] = [ws[Oldest(Libraries)] EXCEPT !.key = DefaultKey]]
    BY <1>5 DEF AdoptDefault
  <2>2. [ws[s] EXCEPT !.key = DefaultKey].state = ws[s].state
    BY <1>1 DEF WorkspaceRow
  <2> QED  BY <1>1, <2>1, <2>2
<1>6. ASSUME NEW t \in Slots, Remove(t) PROVE ws'[s].state = "active"
  <2>1. CASE t = s
    BY <1>2, <1>6, <2>1 DEF Remove, Removable
  <2>2. CASE t # s
    BY <1>1, <1>6, <2>2 DEF Remove
  <2> QED  BY <2>1, <2>2
<1>7. ASSUME NEW t \in Slots, Recover(t) \/ Ages(t) PROVE ws'[s].state = "active"
  BY <1>1, <1>7 DEF Recover, Ages
<1>8. CASE DeleteRow
  <2>1. purge.ws # s \/ ~Expired(purge.ws)
    BY DEF Expired
  <2> QED  BY <1>1, <1>2, <1>8, <2>1 DEF DeleteRow
<1>9. ASSUME NEW t \in Slots, NEW v \in Versions,
             \/ \E device \in SUBSET {"device"} : AddKey(t, v, device)
             \/ \E e \in {"passphrase", "recovery", "device"} : AddEnvelope(t, v, e)
             \/ ReplaceRecoveryEnvelope(t, v) \/ EnableEndToEndEncryption(t, v)
      PROVE  UNCHANGED ws
  BY <1>9 DEF AddKey, AddEnvelope, ReplaceRecoveryEnvelope, EnableEndToEndEncryption, KeyChange
<1>10. ASSUME NEW t \in Slots, NEW given \in SUBSET Versions, EnableManagedEncryption(t, given)
       PROVE  UNCHANGED ws
  BY <1>10 DEF EnableManagedEncryption, KeyChange
<1>11. ASSUME NEW t \in Slots, CheckRemoval(t) \/ SkipExpired(t) \/ LockExpired(t)
       PROVE  UNCHANGED ws
  BY <1>11 DEF CheckRemoval, SkipExpired, LockExpired
<1>12. CASE FindExpired \/ DeleteBytes \/ PurgeFails \/ UNCHANGED wsVars
  BY <1>2, <1>12 DEF FindExpired, DeleteBytes, PurgeFails, wsVars
<1>13. ASSUME NEW t \in Slots, AdminDelete(t) PROVE ws'[s].state = "active"
  <2>1. t # s
    BY <1>13
  <2> QED  BY <1>1, <1>13, <2>1 DEF AdminDelete
<1>14. CASE CancelDeletion
  BY <1>1, <1>14 DEF CancelDeletion, Turn, Exists, WorkspaceRow
<1>15. CASE ReconcileUsage \/ PlaceHold \/ OthersInBatch
  BY <1>2, <1>15 DEF ReconcileUsage, PlaceHold, OthersInBatch
<1>16. CASE MaintenanceStep
  BY <1>8, <1>11, <1>12, <1>16 DEF MaintenanceStep
<1>17. CASE Operation
  <2>1. ASSUME NEW t \in Slots, CheckRemoval(t) \/ Remove(t) \/ Restore(t) \/ Ages(t) \/ SkipExpired(t)
        PROVE  ws'[s].state = "active"
    BY <1>2, <1>6, <1>7, <1>11, <2>1 DEF Restore
  <2>2. ASSUME NEW t \in Slots, AdminDelete(t) \/ AdminRestore(t) PROVE ws'[s].state = "active"
    BY <1>7, <1>13, <2>2 DEF AdminRestore
  <2> QED  BY <1>2, <1>4, <1>5, <1>9, <1>10, <1>12, <1>14, <1>15, <1>17, <2>1, <2>2 DEF Operation
<1> QED  BY <1>12, <1>16, <1>17 DEF Next

(* No request of the account, checked before or after the library became its
   default, and no maintenance deletes the default library; only an
   administrator and the deletion of the account do.                        *)
THEOREM DefaultLibraryStays ==
  ASSUME WorkspacesAssumption
  PROVE  Spec => [][DefaultStays]_wsVars
<1>1. WsInv /\ [Next]_wsVars => [DefaultStays]_wsVars
  BY DefaultStaysByStep
<1> QED  BY <1>1, WsInvariant, PTL DEF Spec

-----------------------------------------------------------------------------
(* The members of a library.                                                *)

(* A request goes on with what its actor held: of a member, what the owner
   has given.                                                               *)
RequestsGiven ==
  \A c \in Callers : request[c].actor # Owner => request[c].can \subseteq granted

(* An invitation that is open has let in nobody, any other at most one.     *)
AdmittedOnce ==
  \A i \in Invitations :
    /\ invitation[i].status \in {"none", "pending"} => admitted[i] = {}
    /\ admitted[i] = {} \/ \E p \in People : admitted[i] = {p}

(* What a request goes on with its actor held while it was under way.       *)
RequestsSeen ==
  \A c \in Callers : request[c].op # "none" => request[c].can \subseteq held[c]

ShareInv ==
  Sharing!TypeOK /\ Sharing!BackToOwner /\ RequestsGiven /\ RequestsSeen /\ AdmittedOnce

InvitationRow == [status : {"none", "pending", "accepted", "revoked", "expired"},
                  invitee : People \cup {"link", None}, can : SUBSET Capabilities]

RequestRow == [op : {"invite", "update", "remove"}, actor : People \cup {Owner},
               can : SUBSET Capabilities] \cup {Sharing!NoRequest}

LEMMA ShareTypes ==
  Sharing!TypeOK <=>
    /\ members \in [People -> (SUBSET Capabilities) \cup {None}]
    /\ invitation \in [Invitations -> InvitationRow]
    /\ request \in [Callers -> RequestRow]
    /\ granted \subseteq Capabilities
    /\ held \in [Callers -> SUBSET Capabilities]
    /\ admitted \in [Invitations -> SUBSET People]
BY DEF Sharing!TypeOK, InvitationRow, RequestRow

(* A request that ends, or an invitation that is settled without anybody.   *)
LEMMA DoneKeeps ==
  ASSUME ShareInv, NEW c \in Callers, request' = [request EXCEPT ![c] = Sharing!NoRequest],
         granted \subseteq granted'
  PROVE  /\ request' \in [Callers -> RequestRow] /\ RequestsGiven'
         /\ \A d \in Callers : request'[d] = request[d] \/ request'[d].op = "none"
<1>1. /\ Sharing!NoRequest \in RequestRow /\ Sharing!NoRequest.can = {}
      /\ Sharing!NoRequest.op = "none"
  BY DEF Sharing!NoRequest, RequestRow
<1>2. request \in [Callers -> RequestRow]
  BY ShareTypes DEF ShareInv
<1> QED  BY <1>1, <1>2 DEF ShareInv, RequestsGiven

(* A request that goes on, or is checked now, keeps what it has seen.        *)
LEMMA WatchKeeps ==
  ASSUME ShareInv, Sharing!Watch, request' \in [Callers -> RequestRow],
         members' \in [People -> (SUBSET Capabilities) \cup {None}],
         \A c \in Callers : \/ request'[c] = request[c] \/ request'[c].op = "none"
                            \/ request'[c].can = Sharing!Held(request[c].actor)'
  PROVE  held' \in [Callers -> SUBSET Capabilities] /\ RequestsSeen'
<1> DEFINE now(c) == IF request'[c].actor = Owner THEN Capabilities
                     ELSE IF members'[request'[c].actor] # None THEN members'[request'[c].actor]
                          ELSE {}
<1>1. \A c \in Callers : Sharing!Held(request[c].actor)' = now(c)
  BY DEF Sharing!Held, Sharing!Member
<1>2. \A c \in Callers : request'[c].op # "none" => now(c) \in SUBSET Capabilities
  BY DEF RequestRow, Sharing!NoRequest
<1>3. held' = [c \in Callers |-> IF request'[c].op = "none" THEN {} ELSE held[c] \cup now(c)]
  BY <1>1 DEF Sharing!Watch
<1>4. held \in [Callers -> SUBSET Capabilities]
  BY ShareTypes DEF ShareInv
<1>5. \A c \in Callers : held'[c] = IF request'[c].op = "none" THEN {} ELSE held[c] \cup now(c)
  BY <1>3
<1>6. held' \in [Callers -> SUBSET Capabilities]
  BY <1>2, <1>3, <1>4
<1> HIDE DEF now
<1> QED  BY <1>1, <1>5, <1>6 DEF ShareInv, RequestsSeen

(* What may be granted has been given, or is given by the owner now.        *)
LEMMA GrantsGiven ==
  ASSUME ShareInv, NEW c \in Callers, NEW can \in SUBSET Capabilities,
         Sharing!AssertGrantable(c, can), Sharing!ByOwner(c, can)
  PROVE  can \subseteq granted' /\ granted \subseteq granted' /\ granted' \subseteq Capabilities
BY ShareTypes DEF ShareInv, RequestsGiven, Sharing!AssertGrantable, Sharing!ByOwner

LEMMA AssertKeeps ==
  ASSUME ShareInv, NEW c \in Callers, NEW a \in People \cup {Owner},
         NEW op \in {"invite", "update", "remove"}, Sharing!AssertCapability(c, a, op)
  PROVE  ShareInv'
<1> DEFINE row == [op |-> op, actor |-> a, can |-> Sharing!Held(a)]
<1>1. request' = [request EXCEPT ![c] = row]
      /\ UNCHANGED <<members, invitation, granted, admitted>>
  BY DEF Sharing!AssertCapability
<1>2. /\ members \in [People -> (SUBSET Capabilities) \cup {None}]
      /\ request \in [Callers -> RequestRow]
  BY ShareTypes DEF ShareInv
<1>3. Sharing!Held(a) \in SUBSET Capabilities /\ (a # Owner => Sharing!Held(a) \subseteq granted)
  BY <1>2 DEF Sharing!Held, Sharing!Member, ShareInv, Sharing!BackToOwner
<1>4. row \in RequestRow
  BY <1>3 DEF RequestRow
<1>5. request' \in [Callers -> RequestRow] /\ RequestsGiven'
  BY <1>1, <1>2, <1>3, <1>4 DEF ShareInv, RequestsGiven
<1>6. \A d \in Callers : request'[d] = request[d] \/ request'[d].can = Sharing!Held(request[d].actor)'
  <2>1. request'[c].can = Sharing!Held(a) /\ request'[c].actor = a
    BY <1>1, <1>2, <1>4
  <2>2. Sharing!Held(request[c].actor)' = Sharing!Held(a)
    BY <1>1, <2>1 DEF Sharing!Held, Sharing!Member
  <2> QED  BY <1>1, <1>2, <2>1, <2>2
<1>7. held' \in [Callers -> SUBSET Capabilities] /\ RequestsSeen'
  BY <1>1, <1>2, <1>5, <1>6, WatchKeeps DEF Sharing!AssertCapability
<1>8. Sharing!TypeOK'
  BY <1>1, <1>5, <1>7, ShareTypes DEF ShareInv, Sharing!TypeOK, RequestRow
<1> QED  BY <1>1, <1>5, <1>7, <1>8
         DEF ShareInv, Sharing!BackToOwner, Sharing!Member, Sharing!Acceptable, AdmittedOnce

LEMMA InviteKeeps ==
  ASSUME ShareInv, NEW c \in Callers, NEW i \in Invitations, NEW invitee \in People \cup {"link"},
         NEW can \in SUBSET Capabilities, Sharing!Invite(c, i, invitee, can)
  PROVE  ShareInv'
<1> DEFINE row == [status |-> "pending", invitee |-> invitee, can |-> can]
<1>1. /\ request' = [request EXCEPT ![c] = Sharing!NoRequest]
      /\ invitation' = [invitation EXCEPT ![i] = row] /\ UNCHANGED <<members, admitted>>
      /\ Sharing!AssertGrantable(c, can) /\ Sharing!ByOwner(c, can)
      /\ invitation[i].status \in {"none", "pending"}
  BY DEF Sharing!Invite, Sharing!Doing, Sharing!Pending
<1>2. can \subseteq granted' /\ granted \subseteq granted' /\ granted' \subseteq Capabilities
  BY <1>1, GrantsGiven
<1>3. /\ request' \in [Callers -> RequestRow] /\ RequestsGiven'
      /\ held' \in [Callers -> SUBSET Capabilities] /\ RequestsSeen'
  BY <1>1, <1>2, DoneKeeps, WatchKeeps, ShareTypes DEF ShareInv, Sharing!Invite
<1>4. invitation \in [Invitations -> InvitationRow] /\ row \in InvitationRow
  BY ShareTypes DEF ShareInv, InvitationRow
<1>5. /\ invitation' \in [Invitations -> InvitationRow] /\ invitation'[i] = row
      /\ \A j \in Invitations \ {i} : invitation'[j] = invitation[j]
  BY <1>1, <1>4
<1>6. Sharing!TypeOK'
  BY <1>1, <1>2, <1>3, <1>5 DEF ShareInv, Sharing!TypeOK, RequestRow, InvitationRow
<1>7. Sharing!BackToOwner'
  BY <1>1, <1>2, <1>5 DEF ShareInv, Sharing!BackToOwner, Sharing!Member, Sharing!Acceptable
<1>8. AdmittedOnce'
  BY <1>1, <1>5 DEF ShareInv, AdmittedOnce
<1> QED  BY <1>3, <1>6, <1>7, <1>8 DEF ShareInv

(* An invitation changes its state.                                         *)
LEMMA SettledInvitation ==
  ASSUME ShareInv, NEW i \in Invitations, NEW status \in {"accepted", "revoked", "expired"},
         invitation' = [invitation EXCEPT ![i].status = status]
  PROVE  /\ invitation' \in [Invitations -> InvitationRow] /\ invitation'[i].status = status
         /\ \A j \in Invitations \ {i} : invitation'[j] = invitation[j]
<1> DEFINE row == [invitation[i] EXCEPT !.status = status]
<1>1. invitation \in [Invitations -> InvitationRow] /\ invitation[i] \in InvitationRow
  BY ShareTypes DEF ShareInv
<1>2. row \in InvitationRow /\ row.status = status
  BY <1>1 DEF InvitationRow
<1>3. invitation' = [invitation EXCEPT ![i] = row]
  BY <1>1
<1> HIDE DEF row
<1> QED  BY <1>1, <1>2, <1>3

LEMMA AcceptKeeps ==
  ASSUME ShareInv, NEW i \in Invitations, NEW p \in People, Sharing!Accept(i, p)
  PROVE  ShareInv'
<1>1. /\ members' = [members EXCEPT ![p] = invitation[i].can]
      /\ invitation' = [invitation EXCEPT ![i].status = "accepted"]
      /\ admitted' = [admitted EXCEPT ![i] = @ \cup {p}]
      /\ UNCHANGED <<request, granted>> /\ invitation[i].status = "pending"
  BY DEF Sharing!Accept, Sharing!Acceptable
<1>2. /\ invitation' \in [Invitations -> InvitationRow] /\ invitation'[i].status = "accepted"
      /\ \A j \in Invitations \ {i} : invitation'[j] = invitation[j]
  BY <1>1, SettledInvitation
<1>3. /\ members \in [People -> (SUBSET Capabilities) \cup {None}]
      /\ admitted \in [Invitations -> SUBSET People] /\ invitation[i] \in InvitationRow
  BY ShareTypes DEF ShareInv
<1>4. invitation[i].can \in SUBSET Capabilities /\ invitation[i].can \subseteq granted
  BY <1>1, <1>3 DEF InvitationRow, ShareInv, Sharing!BackToOwner, Sharing!Acceptable
<1>5. /\ members' \in [People -> (SUBSET Capabilities) \cup {None}]
      /\ members'[p] = invitation[i].can /\ \A q \in People \ {p} : members'[q] = members[q]
  BY <1>1, <1>3, <1>4
<1>6. admitted[i] = {}
  BY <1>1 DEF ShareInv, AdmittedOnce
<1>7. /\ admitted' \in [Invitations -> SUBSET People] /\ admitted'[i] = {p}
      /\ \A j \in Invitations \ {i} : admitted'[j] = admitted[j]
  BY <1>1, <1>3, <1>6
<1>11. held' \in [Callers -> SUBSET Capabilities] /\ RequestsSeen'
  BY <1>1, <1>5, WatchKeeps, ShareTypes DEF ShareInv, Sharing!Accept
<1>8. Sharing!TypeOK'
  BY <1>1, <1>2, <1>5, <1>7, <1>11 DEF ShareInv, Sharing!TypeOK, InvitationRow
<1>9. Sharing!BackToOwner'
  BY <1>1, <1>2, <1>4, <1>5
     DEF ShareInv, Sharing!BackToOwner, Sharing!Member, Sharing!Acceptable
<1>10. AdmittedOnce'
  BY <1>2, <1>7 DEF ShareInv, AdmittedOnce
<1> QED  BY <1>1, <1>8, <1>9, <1>10, <1>11 DEF ShareInv, RequestsGiven

LEMMA SettleKeeps ==
  ASSUME ShareInv, NEW i \in Invitations,
         Sharing!Expire(i) \/ \E c \in Callers : Sharing!RevokeInvitation(c, i)
  PROVE  ShareInv'
<1>1. /\ UNCHANGED <<members, granted, admitted>>
      /\ \E status \in {"revoked", "expired"} : invitation' = [invitation EXCEPT ![i].status = status]
  BY DEF Sharing!Expire, Sharing!RevokeInvitation
<1>2. /\ request' \in [Callers -> RequestRow] /\ RequestsGiven'
      /\ held' \in [Callers -> SUBSET Capabilities] /\ RequestsSeen'
  <2>1. CASE UNCHANGED request
    BY <1>1, <2>1, ShareTypes, WatchKeeps
       DEF ShareInv, RequestsGiven, Sharing!Expire, Sharing!RevokeInvitation
  <2>2. ASSUME NEW c \in Callers, request' = [request EXCEPT ![c] = Sharing!NoRequest]
        PROVE  /\ request' \in [Callers -> RequestRow] /\ RequestsGiven'
               /\ held' \in [Callers -> SUBSET Capabilities] /\ RequestsSeen'
    BY <1>1, <2>2, DoneKeeps, ShareTypes, WatchKeeps
       DEF ShareInv, Sharing!Expire, Sharing!RevokeInvitation
  <2> QED  BY <2>1, <2>2 DEF Sharing!Expire, Sharing!RevokeInvitation, Sharing!Doing
<1>3. /\ invitation' \in [Invitations -> InvitationRow]
      /\ invitation'[i].status \in {"revoked", "expired"}
      /\ \A j \in Invitations \ {i} : invitation'[j] = invitation[j]
  BY <1>1, SettledInvitation
<1>4. Sharing!TypeOK'
  BY <1>1, <1>2, <1>3 DEF ShareInv, Sharing!TypeOK, InvitationRow, RequestRow
<1>5. Sharing!BackToOwner'
  BY <1>1, <1>3 DEF ShareInv, Sharing!BackToOwner, Sharing!Member, Sharing!Acceptable
<1>6. AdmittedOnce'
  BY <1>1, <1>3 DEF ShareInv, AdmittedOnce
<1> QED  BY <1>2, <1>4, <1>5, <1>6 DEF ShareInv

LEMMA UpdateKeeps ==
  ASSUME ShareInv, NEW c \in Callers, NEW p \in People, NEW can \in SUBSET Capabilities,
         Sharing!UpdateMember(c, p, can) \/ Sharing!RemoveMember(c, p)
  PROVE  ShareInv'
<1>1. PICK new \in {can, None} :
        /\ members' = [members EXCEPT ![p] = new]
        /\ new = None \/ new \subseteq granted'
        /\ granted \subseteq granted' /\ granted' \subseteq Capabilities
  <2>1. CASE Sharing!UpdateMember(c, p, can)
    BY <2>1, GrantsGiven DEF Sharing!UpdateMember
  <2>2. CASE Sharing!RemoveMember(c, p)
    BY <2>2, ShareTypes DEF Sharing!RemoveMember, ShareInv
  <2> QED  BY <2>1, <2>2
<1>2. /\ UNCHANGED <<invitation, admitted>>
      /\ request' = [request EXCEPT ![c] = Sharing!NoRequest]
  BY DEF Sharing!UpdateMember, Sharing!RemoveMember, Sharing!Doing
<1>4. /\ members' \in [People -> (SUBSET Capabilities) \cup {None}] /\ members'[p] = new
      /\ \A q \in People \ {p} : members'[q] = members[q]
  BY <1>1, ShareTypes DEF ShareInv
<1>3. /\ request' \in [Callers -> RequestRow] /\ RequestsGiven'
      /\ held' \in [Callers -> SUBSET Capabilities] /\ RequestsSeen'
  BY <1>1, <1>2, <1>4, DoneKeeps, WatchKeeps DEF Sharing!UpdateMember, Sharing!RemoveMember
<1>5. Sharing!TypeOK'
  BY <1>1, <1>2, <1>3, <1>4 DEF ShareInv, Sharing!TypeOK, RequestRow
<1>6. Sharing!BackToOwner'
  BY <1>1, <1>2, <1>4 DEF ShareInv, Sharing!BackToOwner, Sharing!Member, Sharing!Acceptable
<1> QED  BY <1>2, <1>3, <1>5, <1>6 DEF ShareInv, AdmittedOnce

LEMMA AbandonKeeps ==
  ASSUME ShareInv, (\E c \in Callers : Sharing!Abandon(c)) \/ UNCHANGED Sharing!memberVars
  PROVE  ShareInv'
<1>1. UNCHANGED <<members, invitation, granted, admitted>>
  BY DEF Sharing!Abandon, Sharing!memberVars
<1>2. /\ request' \in [Callers -> RequestRow] /\ RequestsGiven'
      /\ held' \in [Callers -> SUBSET Capabilities] /\ RequestsSeen'
  <2>1. CASE UNCHANGED Sharing!memberVars
    BY <2>1, ShareTypes DEF ShareInv, RequestsGiven, RequestsSeen, Sharing!memberVars
  <2>2. ASSUME NEW c \in Callers, Sharing!Abandon(c)
        PROVE  /\ request' \in [Callers -> RequestRow] /\ RequestsGiven'
               /\ held' \in [Callers -> SUBSET Capabilities] /\ RequestsSeen'
    BY <2>2, DoneKeeps, ShareTypes, WatchKeeps DEF ShareInv, Sharing!Abandon
  <2> QED  BY <2>1, <2>2
<1>3. Sharing!TypeOK'
  BY <1>1, <1>2 DEF ShareInv, Sharing!TypeOK, RequestRow
<1> QED  BY <1>1, <1>2, <1>3
         DEF ShareInv, Sharing!BackToOwner, Sharing!Member, Sharing!Acceptable, AdmittedOnce

LEMMA ShareInit ==
  ASSUME Sharing!Init
  PROVE  ShareInv
<1>1. Sharing!NoInvitation \in InvitationRow /\ Sharing!NoRequest \in RequestRow
  BY DEF Sharing!NoInvitation, InvitationRow, Sharing!NoRequest, RequestRow
<1>2. Sharing!TypeOK
  BY <1>1, ShareTypes DEF Sharing!Init
<1>3. Sharing!BackToOwner
  BY DEF Sharing!Init, Sharing!BackToOwner, Sharing!Member, Sharing!Acceptable,
         Sharing!NoInvitation
<1>4. RequestsGiven /\ RequestsSeen /\ AdmittedOnce
  BY DEF Sharing!Init, RequestsGiven, RequestsSeen, AdmittedOnce, Sharing!NoRequest
<1> QED  BY <1>2, <1>3, <1>4 DEF ShareInv

LEMMA ShareStep ==
  ASSUME ShareInv, [Sharing!Next]_(Sharing!memberVars)
  PROVE  ShareInv'
BY AssertKeeps, InviteKeeps, AcceptKeeps, SettleKeeps, UpdateKeeps, AbandonKeeps
   DEF Sharing!Next

(* A step that gives a member or an invitation anything is the end of the
   request of one who held it, or the acceptance of an invitation.          *)
LEMMA HandedOn ==
  ASSUME ShareInv, [Sharing!Next]_(Sharing!memberVars)
  PROVE  Sharing!NothingOutOfThinAir
<1> USE DEF Sharing!NothingOutOfThinAir
<1>1. /\ members \in [People -> (SUBSET Capabilities) \cup {None}]
      /\ invitation \in [Invitations -> InvitationRow] /\ request \in [Callers -> RequestRow]
  BY ShareTypes DEF ShareInv
<1>2. ASSUME NEW c \in Callers, NEW can \in SUBSET Capabilities, NEW op,
             Sharing!Doing(c, op), op # "none", Sharing!AssertGrantable(c, can)
      PROVE  Sharing!HandsOn(c, can)
  BY <1>1, <1>2 DEF ShareInv, RequestsSeen, Sharing!HandsOn, Sharing!Doing,
                    Sharing!AssertGrantable, Sharing!NoRequest
<1>3. ASSUME NEW c \in Callers, NEW i \in Invitations, NEW p \in People \cup {"link"},
             NEW can \in SUBSET Capabilities, Sharing!Invite(c, i, p, can)
      PROVE  Sharing!NothingOutOfThinAir
  <2>1. Sharing!HandsOn(c, can)
    BY <1>2, <1>3 DEF Sharing!Invite
  <2>2. \A j \in Invitations : invitation'[j].can \in {can, invitation[j].can}
    BY <1>1, <1>3 DEF Sharing!Invite, InvitationRow
  <2> QED  BY <1>3, <2>1, <2>2 DEF Sharing!Invite
<1>4. ASSUME NEW c \in Callers, NEW p \in People, NEW can \in SUBSET Capabilities,
             Sharing!UpdateMember(c, p, can)
      PROVE  Sharing!NothingOutOfThinAir
  <2>1. Sharing!HandsOn(c, can)
    BY <1>2, <1>4 DEF Sharing!UpdateMember
  <2> QED  BY <1>1, <1>4, <2>1 DEF Sharing!UpdateMember
<1>5. ASSUME NEW c \in Callers, NEW p \in People, Sharing!RemoveMember(c, p)
      PROVE  Sharing!NothingOutOfThinAir
  BY <1>1, <1>5 DEF Sharing!RemoveMember
<1>6. ASSUME NEW i \in Invitations, NEW p \in People, Sharing!Accept(i, p)
      PROVE  Sharing!NothingOutOfThinAir
  <2>1. \A j \in Invitations : invitation'[j].can = invitation[j].can
    BY <1>1, <1>6 DEF Sharing!Accept, InvitationRow
  <2> QED  BY <1>1, <1>6, <2>1 DEF Sharing!Accept
<1>7. ASSUME NEW i \in Invitations, Sharing!Expire(i) \/ \E c \in Callers : Sharing!RevokeInvitation(c, i)
      PROVE  Sharing!NothingOutOfThinAir
  <2>1. \A j \in Invitations : invitation'[j].can = invitation[j].can
    BY <1>1, <1>7 DEF Sharing!Expire, Sharing!RevokeInvitation, InvitationRow
  <2> QED  BY <1>7, <2>1 DEF Sharing!Expire, Sharing!RevokeInvitation
<1>8. ASSUME UNCHANGED <<members, invitation>>
      PROVE  Sharing!NothingOutOfThinAir
  BY <1>8
<1> QED  BY <1>3, <1>4, <1>5, <1>6, <1>7, <1>8
         DEF Sharing!Next, Sharing!AssertCapability, Sharing!Abandon, Sharing!memberVars

(* Members hand on capabilities, have them changed, are removed and return,
   and requests go on with what they read before: what is handed on is handed
   on by one who held it during his request, nobody holds what the owner has
   not given to somebody, and a link lets in one account.                   *)
THEOREM MembershipCorrect ==
  Sharing!Spec => []Sharing!TypeOK /\ MembershipSound
<1>1. Sharing!Init => ShareInv
  BY ShareInit
<1>2. ShareInv /\ [Sharing!Next]_(Sharing!memberVars) => ShareInv'
  BY ShareStep
<1>3. ShareInv => Sharing!TypeOK /\ Sharing!BackToOwner /\ Sharing!LinkAdmitsOne
  BY DEF ShareInv, AdmittedOnce, Sharing!LinkAdmitsOne
<1>4. ShareInv /\ [Sharing!Next]_(Sharing!memberVars)
        => [Sharing!NothingOutOfThinAir]_(Sharing!memberVars)
  BY HandedOn
<1> QED  BY <1>1, <1>2, <1>3, <1>4, PTL DEF Sharing!Spec, MembershipSound

-----------------------------------------------------------------------------
(* The realtime channel of a workspace (Realtime): what its sockets show, and
   when a client has to pull.                                               *)

(* Null is no document (the columns and fields of routes/events.ts), and the
   bounds are numbers.                                                      *)
RealtimeAssumption == None \notin Documents /\ MaxMessages \in Nat /\ MaxCommits \in Nat

SocketStates == {"unused", "connected", "verifying", "authenticated", "closing", "closed"}

Typed ==
  /\ socket \in [Sockets -> SocketStates]
  /\ connection \subseteq Sockets /\ subscribed = connection
  /\ presence \in [Sockets -> Documents \cup {None}]
  /\ follows \in [Sockets -> SUBSET Documents]
  /\ handling \in [Sockets -> SUBSET (Channel!Messages \cup {Channel!Hello})]
  /\ shown \in [Sockets -> SUBSET (Documents \X Channel!Devices)]
  /\ asked \subseteq Sockets \X Sockets \X Documents
  /\ checking \subseteq Sockets /\ probing \subseteq Sockets /\ stalled \subseteq Sockets
  /\ woken \in [Sockets -> BOOLEAN] /\ pulled \in [Sockets -> Nat]
  /\ committed \in Nat /\ publishing \in Nat

(* Neither is ahead of what was committed.                                  *)
Behind == publishing <= committed /\ \A c \in Sockets : pulled[c] <= committed

(* The room of the workspace are the sockets that were authenticated and whose
   end has not been handled; no other has a cursor, follows or shows
   anything, and messages come from sockets that were authenticated.        *)
InRoom ==
  \A c \in Sockets :
    /\ c \in connection => socket[c] \in {"authenticated", "closing"}
    /\ socket[c] = "authenticated" => c \in connection
    /\ c \notin connection => presence[c] = None /\ follows[c] = {} /\ shown[c] = {}
    /\ \A m \in handling[c] : m # Channel!Hello => socket[c] \in {"authenticated", "closing", "closed"}

(* What a client shows is the cursor of another socket.                     *)
ShownByOthers ==
  \A c \in Sockets : socket[c] = "authenticated" =>
    \A s \in shown[c] : \E p \in connection \ {c} : s = <<presence[p], DeviceOf[p]>>

(* A client that has not pulled everything is about to, or a notice is on its
   way, or one was lost.                                                    *)
Waking ==
  \A c \in Sockets : socket[c] = "authenticated" =>
    \/ woken[c] \/ publishing > 0 \/ lost \/ "workspace.changed" \in notices
    \/ pulled[c] = committed

RoomInv == InRoom /\ ShownByOthers /\ Channel!PresentIsShown /\ Channel!FollowersMeet

RealtimeInv == Typed /\ Behind /\ RoomInv /\ Waking

-----------------------------------------------------------------------------
(* A socket is opened once and closed once, and only the verification of its
   first message authenticates it.                                          *)
MovesOn(p) ==
  /\ socket'[p] = "authenticated" => socket[p] = "authenticated"
  /\ socket'[p] = "unused" => socket[p] = "unused"
  /\ socket[p] \in {"authenticated", "closing"} => socket'[p] \in {"authenticated", "closing"}
  /\ socket[p] = "closed" => socket'[p] = "closed"

LEMMA ClosingMoves ==
  ASSUME socket \in [Sockets -> SocketStates], NEW S, socket' = Channel!Closing(S)
  PROVE  /\ socket' \in [Sockets -> SocketStates]
         /\ \A p \in Sockets : MovesOn(p) /\ (p \in S => socket'[p] # "authenticated")
BY DEF Channel!Closing, Channel!Open, SocketStates, MovesOn

LEMMA SameMoves ==
  ASSUME UNCHANGED socket
  PROVE  \A p \in Sockets : MovesOn(p)
BY DEF MovesOn

(* What happens outside of the room keeps what the room knows.              *)
LEMMA OutsideKeeps ==
  ASSUME RoomInv, \A p \in Sockets : MovesOn(p),
         UNCHANGED <<connection, Channel!presenceVars>>,
         \A c \in Sockets : \A m \in handling'[c] :
           m # Channel!Hello => m \in handling[c] \/ socket[c] = "authenticated"
  PROVE  RoomInv'
<1>1. /\ connection' = connection /\ presence' = presence /\ follows' = follows
      /\ shown' = shown /\ asked' = asked
  BY DEF Channel!presenceVars
<1>2. InRoom'
  <2> SUFFICES ASSUME NEW c \in Sockets
               PROVE  /\ c \in connection => socket'[c] \in {"authenticated", "closing"}
                      /\ socket'[c] = "authenticated" => c \in connection
                      /\ c \notin connection =>
                           presence[c] = None /\ follows[c] = {} /\ shown[c] = {}
                      /\ \A m \in handling'[c] :
                           m # Channel!Hello => socket'[c] \in {"authenticated", "closing", "closed"}
    BY <1>1 DEF InRoom
  <2> QED  BY DEF RoomInv, InRoom, MovesOn
<1>3. ShownByOthers'
  BY <1>1 DEF RoomInv, ShownByOthers, MovesOn
<1>4. Channel!PresentIsShown'
  BY <1>1 DEF RoomInv, Channel!PresentIsShown, MovesOn
<1>5. Channel!FollowersMeet'
  BY <1>1 DEF RoomInv, Channel!FollowersMeet, MovesOn
<1> QED  BY <1>2, <1>3, <1>4, <1>5 DEF RoomInv

LEMMA StillWaking ==
  ASSUME Waking, \A p \in Sockets : MovesOn(p),
         UNCHANGED <<committed, publishing, notices, lost, woken, pulled>>
  PROVE  Waking'
BY DEF Waking, MovesOn

-----------------------------------------------------------------------------
LEMMA RealtimeInitially ==
  ASSUME RealtimeAssumption, Channel!Init
  PROVE  RealtimeInv
<1>1. /\ \A c \in Sockets : /\ socket[c] = "unused" /\ presence[c] = None /\ follows[c] = {}
                            /\ handling[c] = {} /\ shown[c] = {}
      /\ connection = {}
  BY DEF Channel!Init
<1>2. Typed
  BY DEF Channel!Init, Typed, SocketStates
<1>3. Behind
  BY DEF Channel!Init, Behind
<1>4. RoomInv
  BY <1>1 DEF RoomInv, InRoom, ShownByOthers, Channel!PresentIsShown, Channel!FollowersMeet
<1>5. Waking
  BY <1>1 DEF Waking
<1> QED  BY <1>2, <1>3, <1>4, <1>5 DEF RealtimeInv

(* Steps that only move a socket, or only add a message to one.             *)
LEMMA ConnectKeeps ==
  ASSUME RealtimeInv, NEW c \in Sockets, Channel!Connect(c) \/ Channel!Authenticate(c)
  PROVE  RealtimeInv'
<1>1. /\ UNCHANGED <<connection, subscribed, checking, probing,
                     Channel!presenceVars, Channel!wakeVars, stalled>>
      /\ \E s \in {"connected", "verifying", "closing"} :
           socket' = [socket EXCEPT ![c] = s]
      /\ socket[c] \in {"unused", "connected", "verifying"}
      /\ handling' \in {handling, [handling EXCEPT ![c] = @ \cup {Channel!Hello}]}
  BY DEF Channel!Connect, Channel!Authenticate
<1>2. Typed'
  BY <1>1, Zenon DEF RealtimeInv, Typed, Channel!presenceVars, Channel!wakeVars, SocketStates
<1>3. \A p \in Sockets : MovesOn(p)
  BY <1>1 DEF RealtimeInv, Typed, MovesOn
<1>4. RoomInv'
  <2>1. \A q \in Sockets : \A m \in handling'[q] : m # Channel!Hello => m \in handling[q]
    BY <1>1 DEF RealtimeInv, Typed
  <2> QED  BY <1>1, <1>3, <2>1, OutsideKeeps DEF RealtimeInv
<1>5. Behind' /\ Waking'
  BY <1>1, <1>3, StillWaking DEF RealtimeInv, Behind, Channel!wakeVars
<1> QED  BY <1>2, <1>4, <1>5 DEF RealtimeInv

LEMMA ReceiveKeeps ==
  ASSUME RealtimeInv, NEW c \in Sockets, NEW m \in Channel!Messages, Channel!Receive(c, m)
  PROVE  RealtimeInv'
<1>1. /\ UNCHANGED <<socket, connection, subscribed, checking, probing,
                     Channel!presenceVars, Channel!wakeVars,
                     stalled>>
      /\ socket[c] = "authenticated" /\ handling' = [handling EXCEPT ![c] = @ \cup {m}]
  BY DEF Channel!Receive
<1>2. Typed'
  BY <1>1 DEF RealtimeInv, Typed, Channel!presenceVars, Channel!wakeVars
<1>3. \A p \in Sockets : MovesOn(p)
  BY <1>1, SameMoves
<1>4. RoomInv'
  <2>1. \A q \in Sockets : \A n \in handling'[q] :
          n # Channel!Hello => n \in handling[q] \/ socket[q] = "authenticated"
    BY <1>1 DEF RealtimeInv, Typed
  <2> QED  BY <1>1, <1>3, <2>1, OutsideKeeps DEF RealtimeInv
<1>5. Behind' /\ Waking'
  BY <1>1, <1>3, StillWaking DEF RealtimeInv, Behind, Channel!wakeVars
<1> QED  BY <1>2, <1>4, <1>5 DEF RealtimeInv

LEMMA AsideKeeps ==
  ASSUME RealtimeInv, NEW S \in SUBSET Sockets, socket' = Channel!Closing(S),
         UNCHANGED <<connection, subscribed, handling, Channel!presenceVars, Channel!wakeVars>>,
         checking' \subseteq Sockets, probing' \subseteq Sockets, stalled' \subseteq Sockets
  PROVE  RealtimeInv'
<1>1. socket' \in [Sockets -> SocketStates] /\ \A p \in Sockets : MovesOn(p)
  BY ClosingMoves DEF RealtimeInv, Typed
<1>2. Typed'
  BY <1>1 DEF RealtimeInv, Typed, Channel!presenceVars, Channel!wakeVars
<1>3. RoomInv'
  BY <1>1, OutsideKeeps DEF RealtimeInv
<1>4. Behind' /\ Waking'
  BY <1>1, StillWaking DEF RealtimeInv, Behind, Channel!wakeVars
<1> QED  BY <1>2, <1>3, <1>4 DEF RealtimeInv

LEMMA NobodyClosing ==
  ASSUME RealtimeInv, UNCHANGED socket
  PROVE  socket' = Channel!Closing({})
BY DEF RealtimeInv, Typed, Channel!Closing

LEMMA CheckKeeps ==
  ASSUME RealtimeInv, NEW c \in Sockets,
         \/ Channel!Close(c) \/ Channel!Terminate(c) \/ Channel!Stall(c)
         \/ Channel!StartCheck(c) \/ Channel!FinishCheck(c) \/ Channel!FinishProbe(c)
  PROVE  RealtimeInv'
<1>1. CASE Channel!Close(c) \/ Channel!Terminate(c)
  <2>1. socket' = Channel!Closing({c}) /\ {c} \in SUBSET Sockets
        /\ UNCHANGED <<connection, subscribed, handling, Channel!presenceVars, Channel!wakeVars>>
        /\ UNCHANGED <<checking, probing, stalled>>
    BY <1>1 DEF Channel!Close, Channel!Terminate
  <2> QED  BY <2>1, AsideKeeps DEF RealtimeInv, Typed
<1>2. CASE Channel!Stall(c) \/ Channel!StartCheck(c)
  <2>1. UNCHANGED <<socket, connection, subscribed, handling,
                   Channel!presenceVars, Channel!wakeVars>>
        /\ checking' \subseteq Sockets /\ probing' \subseteq Sockets /\ stalled' \subseteq Sockets
    BY <1>2 DEF Channel!Stall, Channel!StartCheck, Channel!socketVars, RealtimeInv, Typed
  <2> QED  BY <2>1, NobodyClosing, AsideKeeps
<1>3. CASE Channel!FinishCheck(c)
  <2> DEFINE S == IF Channel!ConnectionActive(c) THEN {} ELSE {c}
  <2>1. socket' = Channel!Closing(S) /\ S \in SUBSET Sockets
        /\ UNCHANGED <<connection, subscribed, handling, Channel!presenceVars, Channel!wakeVars>>
        /\ checking' \subseteq Sockets /\ probing' \subseteq Sockets /\ stalled' \subseteq Sockets
    BY <1>3 DEF Channel!FinishCheck, RealtimeInv, Typed
  <2> HIDE DEF S
  <2> QED  BY <2>1, AsideKeeps
<1>4. CASE Channel!FinishProbe(c)
  <2> DEFINE S == IF Channel!Reads(c) THEN {} ELSE {c}
  <2>1. socket' = Channel!Closing(S) /\ S \in SUBSET Sockets
        /\ UNCHANGED <<connection, subscribed, handling, Channel!presenceVars, Channel!wakeVars>>
        /\ checking' \subseteq Sockets /\ probing' \subseteq Sockets /\ stalled' \subseteq Sockets
    BY <1>4 DEF Channel!FinishProbe, RealtimeInv, Typed
  <2> HIDE DEF S
  <2> QED  BY <2>1, AsideKeeps
<1> QED  BY <1>1, <1>2, <1>3, <1>4

(* Authorization that ends, and the notices of commits.                     *)
LEMMA DisallowKeeps ==
  ASSUME RealtimeInv, NEW d \in Channel!Devices, Channel!Disallow(d)
  PROVE  RealtimeInv'
<1>1. /\ UNCHANGED <<Channel!socketVars, Channel!presenceVars,
                     committed, publishing, lost, woken, pulled, stalled>>
      /\ "workspace.changed" \in notices => "workspace.changed" \in notices'
  BY DEF Channel!Disallow
<1>2. Typed' /\ Behind'
  BY <1>1 DEF RealtimeInv, Typed, Behind, Channel!socketVars, Channel!presenceVars
<1>3. RoomInv'
  BY <1>1, SameMoves, OutsideKeeps DEF RealtimeInv, Channel!socketVars
<1>4. Waking'
  BY <1>1 DEF RealtimeInv, Waking, Channel!socketVars
<1> QED  BY <1>2, <1>3, <1>4 DEF RealtimeInv

LEMMA CommitKeeps ==
  ASSUME RealtimeInv, Channel!Commit
  PROVE  RealtimeInv'
<1>1. /\ UNCHANGED <<Channel!socketVars, Channel!presenceVars,
                     notices, lost, woken, pulled, stalled>>
      /\ committed' = committed + 1 /\ publishing' = publishing + 1
  BY DEF Channel!Commit
<1>2. Typed'
  BY <1>1 DEF RealtimeInv, Typed, Channel!socketVars, Channel!presenceVars
<1>3. Behind'
  BY <1>1 DEF RealtimeInv, Typed, Behind
<1>4. RoomInv'
  BY <1>1, SameMoves, OutsideKeeps DEF RealtimeInv, Channel!socketVars
<1>5. Waking'
  <2>1. publishing' > 0
    BY <1>1 DEF RealtimeInv, Typed
  <2> QED  BY <2>1 DEF Waking
<1> QED  BY <1>2, <1>3, <1>4, <1>5 DEF RealtimeInv

LEMMA PublishKeeps ==
  ASSUME RealtimeInv, Channel!Publish
  PROVE  RealtimeInv'
<1>1. /\ UNCHANGED <<Channel!socketVars, Channel!presenceVars, committed, woken, pulled, stalled>>
      /\ publishing > 0 /\ publishing' = publishing - 1
      /\ "workspace.changed" \in notices' \/ lost'
  BY DEF Channel!Publish
<1>2. Typed'
  BY <1>1 DEF RealtimeInv, Typed, Channel!socketVars, Channel!presenceVars
<1>3. Behind'
  BY <1>1 DEF RealtimeInv, Typed, Behind
<1>4. RoomInv'
  BY <1>1, SameMoves, OutsideKeeps DEF RealtimeInv, Channel!socketVars
<1>5. Waking'
  BY <1>1 DEF Waking
<1> QED  BY <1>2, <1>3, <1>4, <1>5 DEF RealtimeInv

(* A notice wakes every open socket that listens, or closes it.             *)
LEMMA DispatchKeeps ==
  ASSUME RealtimeInv, NEW n \in notices, Channel!Dispatch(n)
  PROVE  RealtimeInv'
<1> DEFINE to == {c \in subscribed : Channel!Open(c)}
<1>1. /\ UNCHANGED <<connection, subscribed, handling, checking, Channel!presenceVars, committed,
                     publishing, lost, pulled, stalled>>
      /\ notices' = notices \ {n} /\ socket' = Channel!Closing(Channel!Overrun(to))
      /\ woken' = [c \in Sockets |->
                     woken[c] \/ (n = "workspace.changed" /\ c \in to \ stalled)]
      /\ probing' \subseteq Sockets
  BY DEF Channel!Dispatch, RealtimeInv, Typed
<1>2. /\ socket' \in [Sockets -> SocketStates]
      /\ \A p \in Sockets : MovesOn(p) /\ (p \in Channel!Overrun(to) => socket'[p] # "authenticated")
  BY <1>1, ClosingMoves DEF RealtimeInv, Typed
<1>3. woken' \in [Sockets -> BOOLEAN]
  BY <1>1
<1>4. Typed' /\ Behind'
  BY <1>1, <1>2, <1>3 DEF RealtimeInv, Typed, Behind, Channel!presenceVars
<1>5. RoomInv'
  BY <1>1, <1>2, OutsideKeeps DEF RealtimeInv
<1>6. Waking'
  <2> SUFFICES ASSUME NEW c \in Sockets, socket'[c] = "authenticated"
               PROVE  \/ woken'[c] \/ publishing > 0 \/ lost \/ "workspace.changed" \in notices'
                      \/ pulled[c] = committed
    BY <1>1 DEF Waking
  <2>1. socket[c] = "authenticated" /\ c \notin Channel!Overrun(to)
    BY <1>2 DEF MovesOn
  <2>2. c \in to \ stalled
    BY <2>1 DEF Channel!Overrun, Channel!Open, RealtimeInv, RoomInv, InRoom, Typed
  <2>3. CASE n = "workspace.changed"
    <3>1. woken'[c] = (woken[c] \/ (n = "workspace.changed" /\ c \in to \ stalled))
      BY <1>1
    <3> HIDE DEF to
    <3> QED  BY <2>2, <2>3, <3>1
  <2>4. CASE n # "workspace.changed"
    <3>1. woken[c] => woken'[c]
      BY <1>1
    <3>2. "workspace.changed" \in notices => "workspace.changed" \in notices'
      BY <1>1, <2>4
    <3> QED  BY <2>1, <3>1, <3>2 DEF RealtimeInv, Waking
  <2> QED  BY <2>3, <2>4
<1> QED  BY <1>4, <1>5, <1>6 DEF RealtimeInv

LEMMA PullKeeps ==
  ASSUME RealtimeInv, NEW c \in Sockets, Channel!Pull(c)
  PROVE  RealtimeInv'
<1>1. /\ UNCHANGED <<Channel!socketVars, Channel!presenceVars,
                     committed, publishing, notices, lost, stalled>>
      /\ woken' = [woken EXCEPT ![c] = FALSE] /\ pulled' = [pulled EXCEPT ![c] = committed]
  BY DEF Channel!Pull
<1>2. Typed'
  BY <1>1 DEF RealtimeInv, Typed, Channel!socketVars, Channel!presenceVars
<1>3. Behind'
  BY <1>1 DEF RealtimeInv, Typed, Behind
<1>4. RoomInv'
  BY <1>1, SameMoves, OutsideKeeps DEF RealtimeInv, Channel!socketVars
<1>5. Waking'
  BY <1>1 DEF RealtimeInv, Typed, Waking, Channel!socketVars
<1> QED  BY <1>2, <1>3, <1>4, <1>5 DEF RealtimeInv

(* A socket that is still open joins the room, with nothing in it yet.      *)
LEMMA VerifiedKeeps ==
  ASSUME RealtimeInv, NEW c \in Sockets, Channel!Verified(c)
  PROVE  RealtimeInv'
<1>1. /\ handling' = [handling EXCEPT ![c] = @ \ {Channel!Hello}]
      /\ UNCHANGED <<Channel!presenceVars, checking, probing, committed, publishing, notices, lost,
                     pulled, stalled>>
  BY DEF Channel!Verified
<1>2. handling' \in [Sockets -> SUBSET (Channel!Messages \cup {Channel!Hello})]
      /\ \A q \in Sockets : handling'[q] \subseteq handling[q]
  BY <1>1 DEF RealtimeInv, Typed
<1>3. Behind'
  BY <1>1 DEF RealtimeInv, Behind
<1>4. CASE Channel!Reads(c) /\ Channel!StillOpen(c)
  <2>1. /\ socket[c] = "verifying" /\ socket' = [socket EXCEPT ![c] = "authenticated"]
        /\ connection' = connection \cup {c} /\ subscribed' = subscribed \cup {c}
        /\ woken' = [woken EXCEPT ![c] = TRUE]
    BY <1>4 DEF Channel!Verified, Channel!StillOpen
  <2>2. Typed'
    BY <1>1, <1>2, <2>1 DEF RealtimeInv, Typed, Channel!presenceVars, SocketStates
  <2>3. /\ socket'[c] = "authenticated" /\ woken'[c]
        /\ \A p \in Sockets \ {c} : socket'[p] = socket[p] /\ woken'[p] = woken[p]
    BY <2>1 DEF RealtimeInv, Typed
  <2>4. c \notin connection /\ presence[c] = None /\ follows[c] = {} /\ shown[c] = {}
    BY <2>1 DEF RealtimeInv, RoomInv, InRoom
  <2>5. /\ presence' = presence /\ follows' = follows /\ shown' = shown /\ asked' = asked
    BY <1>1 DEF Channel!presenceVars
  <2>6. InRoom'
    BY <1>2, <2>1, <2>3, <2>5 DEF RealtimeInv, RoomInv, InRoom
  <2>7. ShownByOthers'
    BY <2>1, <2>3, <2>4, <2>5 DEF RealtimeInv, RoomInv, ShownByOthers
  <2>8. Channel!PresentIsShown'
    <3> SUFFICES ASSUME NEW q \in Sockets, NEW p \in Sockets, q # p,
                        socket'[q] = "authenticated", socket'[p] = "authenticated",
                        presence[q] # None, presence[q] = presence[p],
                        \A o \in Sockets \ {p} : DeviceOf[o] = DeviceOf[p] => socket'[o] = "unused"
                 PROVE  <<presence[p], DeviceOf[p]>> \in shown[q]
      BY <2>5 DEF Channel!PresentIsShown
    <3>1. q # c /\ p # c
      BY <2>4
    <3>2. socket[q] = "authenticated" /\ socket[p] = "authenticated"
      BY <2>3, <3>1
    <3>3. \A o \in Sockets \ {p} : DeviceOf[o] = DeviceOf[p] => socket[o] = "unused"
      BY <2>3
    <3> QED  BY <3>2, <3>3 DEF RealtimeInv, RoomInv, Channel!PresentIsShown
  <2>9. Channel!FollowersMeet'
    BY <2>3, <2>4, <2>5 DEF RealtimeInv, RoomInv, Channel!FollowersMeet
  <2>10. Waking'
    BY <1>1, <2>3 DEF RealtimeInv, Waking
  <2> QED  BY <1>3, <2>2, <2>6, <2>7, <2>8, <2>9, <2>10 DEF RealtimeInv, RoomInv
<1>5. CASE ~(Channel!Reads(c) /\ Channel!StillOpen(c))
  <2>1. /\ UNCHANGED <<connection, subscribed, woken>>
        /\ socket' = Channel!Closing({c}) \/ UNCHANGED socket
    BY <1>5 DEF Channel!Verified
  <2>2. socket' \in [Sockets -> SocketStates] /\ \A p \in Sockets : MovesOn(p)
    BY <2>1, ClosingMoves, SameMoves DEF RealtimeInv, Typed
  <2>3. Typed'
    BY <1>1, <1>2, <2>1, <2>2 DEF RealtimeInv, Typed, Channel!presenceVars
  <2>4. RoomInv'
    BY <1>1, <1>2, <2>1, <2>2, OutsideKeeps DEF RealtimeInv
  <2>5. Waking'
    BY <1>1, <2>1, <2>2, StillWaking DEF RealtimeInv
  <2> QED  BY <1>3, <2>3, <2>4, <2>5 DEF RealtimeInv
<1> QED  BY <1>4, <1>5

-----------------------------------------------------------------------------
(* presence.cleared takes one cursor from the clients of the others.        *)
LEMMA ClearedTakes ==
  ASSUME Typed, NEW c \in Sockets
  PROVE  /\ Channel!Cleared(c) \in [Sockets -> SUBSET (Documents \X Channel!Devices)]
         /\ \A p \in Sockets :
              /\ Channel!Cleared(c)[p] \subseteq shown[p]
              /\ \A s \in shown[p] \ Channel!Cleared(c)[p] : s = <<presence[c], DeviceOf[c]>>
              /\ p \in Channel!Peers(c) /\ presence[c] # None
                   => <<presence[c], DeviceOf[c]>> \notin Channel!Cleared(c)[p]
BY DEF Channel!Cleared, Channel!Peers, Typed

(* A client that is authenticated is a peer of every other in the room.     *)
LEMMA OthersArePeers ==
  ASSUME InRoom, NEW c \in Sockets, NEW p \in Sockets, socket[p] = "authenticated", p # c,
         Typed
  PROVE  p \in Channel!Peers(c)
BY DEF InRoom, Channel!Peers, Channel!Open, Typed

Onward(p) ==
  /\ socket'[p] = "authenticated" => socket[p] = "authenticated"
  /\ socket'[p] = "unused" => socket[p] = "unused"

(* A cursor that is taken back, by its client or with its socket.           *)
LEMMA ClearKeeps ==
  ASSUME RealtimeInv, RealtimeAssumption, NEW c \in connection, \A p \in Sockets : Onward(p),
         presence' = [presence EXCEPT ![c] = None],
         connection' = connection \/ (connection' = connection \ {c} /\ socket'[c] = "closed"),
         \A q \in Sockets : socket'[q] = "authenticated" => shown'[q] = Channel!Cleared(c)[q]
  PROVE  ShownByOthers' /\ Channel!PresentIsShown'
<1>1. Typed /\ InRoom /\ ShownByOthers /\ Channel!PresentIsShown /\ c \in Sockets
  BY DEF RealtimeInv, RoomInv, Typed
<1>2. presence'[c] = None /\ \A p \in Sockets \ {c} : presence'[p] = presence[p]
  BY <1>1 DEF Typed
<1>3. ShownByOthers'
  <2> SUFFICES ASSUME NEW q \in Sockets, socket'[q] = "authenticated", NEW s \in shown'[q]
               PROVE  \E p \in connection' \ {q} : s = <<presence'[p], DeviceOf[p]>>
    BY DEF ShownByOthers
  <2>1. socket[q] = "authenticated" /\ s \in shown[q] /\ s \in Channel!Cleared(c)[q]
    BY <1>1, ClearedTakes DEF Onward
  <2>2. PICK p \in connection \ {q} : s = <<presence[p], DeviceOf[p]>>
    BY <1>1, <2>1 DEF ShownByOthers
  <2>3. s[1] # None
    BY <1>1, <2>1 DEF Typed, RealtimeAssumption
  <2>4. p # c
    <3> SUFFICES ASSUME p = c PROVE FALSE
      OBVIOUS
    <3>1. q \in Channel!Peers(c) /\ presence[c] # None
      BY <1>1, <2>1, <2>2, <2>3, OthersArePeers
    <3> QED  BY <1>1, <2>1, <2>2, <3>1, ClearedTakes
  <2>5. p \in connection' /\ presence'[p] = presence[p]
    BY <1>1, <1>2, <2>2, <2>4 DEF Typed
  <2> QED  BY <2>2, <2>5
<1>4. Channel!PresentIsShown'
  <2> SUFFICES ASSUME NEW q \in Sockets, NEW p \in Sockets, q # p,
                      socket'[q] = "authenticated", socket'[p] = "authenticated",
                      presence'[q] # None, presence'[q] = presence'[p],
                      \A o \in Sockets \ {p} : DeviceOf[o] = DeviceOf[p] => socket'[o] = "unused"
               PROVE  <<presence'[p], DeviceOf[p]>> \in shown'[q]
    BY DEF Channel!PresentIsShown
  <2>1. q # c /\ p # c /\ presence'[q] = presence[q] /\ presence'[p] = presence[p]
    BY <1>2
  <2>2. /\ socket[q] = "authenticated" /\ socket[p] = "authenticated"
        /\ \A o \in Sockets \ {p} : DeviceOf[o] = DeviceOf[p] => socket[o] = "unused"
    BY DEF Onward
  <2>3. <<presence[p], DeviceOf[p]>> \in shown[q]
    BY <1>1, <2>1, <2>2 DEF Channel!PresentIsShown
  <2>4. DeviceOf[c] # DeviceOf[p]
    BY <1>1, <2>1, <2>2 DEF InRoom
  <2>5. <<presence[p], DeviceOf[p]>> \in Channel!Cleared(c)[q]
    BY <1>1, <2>3, <2>4, ClearedTakes
  <2> QED  BY <2>1, <2>5
<1> QED  BY <1>3, <1>4

(* A cursor that enters a document, or moves in it.                         *)
LEMMA EnterKeeps ==
  ASSUME RealtimeInv, RealtimeAssumption, NEW c \in connection, socket[c] = "authenticated",
         NEW d \in Documents, Channel!EnterDocument(c, d), \A p \in Sockets : MovesOn(p),
         UNCHANGED connection
  PROVE  /\ presence' \in [Sockets -> Documents \cup {None}]
         /\ shown' \in [Sockets -> SUBSET (Documents \X Channel!Devices)]
         /\ \A p \in Sockets \ connection : presence'[p] = presence[p] /\ shown'[p] = {}
         /\ ShownByOthers' /\ Channel!PresentIsShown'
<1> DEFINE present == {<<d, DeviceOf[p]>> : p \in Channel!Present(c, d)}
           kept == Channel!Left(c, d)
<1>1. Typed /\ InRoom /\ ShownByOthers /\ Channel!PresentIsShown /\ c \in Sockets
  BY DEF RealtimeInv, RoomInv, Typed
<1>2. /\ presence' = [presence EXCEPT ![c] = d]
      /\ shown' = [p \in Sockets |->
           kept[p] \cup (IF p = c /\ presence[c] # d THEN present ELSE {})
                   \cup (IF p \in Channel!Peers(c) THEN {<<d, DeviceOf[c]>>} ELSE {})]
  BY DEF Channel!EnterDocument
<1>3. presence'[c] = d /\ \A p \in Sockets \ {c} : presence'[p] = presence[p]
  BY <1>1, <1>2 DEF Typed
<1>4. /\ \A p \in Sockets : kept[p] \subseteq shown[p]
      /\ \A p \in Sockets : \A s \in shown[p] \ kept[p] :
           presence[c] # d /\ s = <<presence[c], DeviceOf[c]>>
      /\ presence[c] # d /\ presence[c] # None
           => \A p \in Channel!Peers(c) : <<presence[c], DeviceOf[c]>> \notin kept[p]
  <2>1. CASE presence[c] = d
    BY <2>1 DEF Channel!Left
  <2>2. CASE presence[c] # d
    <3>1. kept = Channel!Cleared(c)
      BY <2>2 DEF Channel!Left
    <3>2. \A p \in Channel!Peers(c) : p \in Sockets
      BY <1>1 DEF Channel!Peers, Typed
    <3> HIDE DEF kept
    <3> QED  BY <1>1, <2>2, <3>1, <3>2, ClearedTakes
  <2> QED  BY <2>1, <2>2
<1>5. /\ present \subseteq Documents \X Channel!Devices
      /\ \A s \in present : \E p \in connection \ {c} : presence[p] = d /\ s = <<d, DeviceOf[p]>>
      /\ \A p \in connection \ {c} : presence[p] = d => <<d, DeviceOf[p]>> \in present
  BY <1>1 DEF Channel!Present, Channel!Devices, Typed
<1>6. <<d, DeviceOf[c]>> \in Documents \X Channel!Devices
  BY <1>1 DEF Channel!Devices
<1> HIDE DEF present, kept
<1>7. \A p \in Sockets : shown'[p] =
        kept[p] \cup (IF p = c /\ presence[c] # d THEN present ELSE {})
                \cup (IF p \in Channel!Peers(c) THEN {<<d, DeviceOf[c]>>} ELSE {})
  BY <1>2
<1>8. shown' \in [Sockets -> SUBSET (Documents \X Channel!Devices)]
  <2>1. \A p \in Sockets : shown'[p] \subseteq Documents \X Channel!Devices
    <3> SUFFICES ASSUME NEW p \in Sockets PROVE shown'[p] \subseteq Documents \X Channel!Devices
      OBVIOUS
    <3>1. kept[p] \subseteq Documents \X Channel!Devices
      BY <1>1, <1>4 DEF Typed
    <3> QED  BY <1>5, <1>6, <1>7, <3>1
  <2> QED  BY <1>2, <2>1
<1>9. presence' \in [Sockets -> Documents \cup {None}]
  BY <1>1, <1>2 DEF Typed
<1>10. ASSUME NEW p \in Sockets \ connection PROVE presence'[p] = presence[p] /\ shown'[p] = {}
  <2>1. p # c /\ p \notin Channel!Peers(c) /\ shown[p] = {}
    BY <1>1, <1>10 DEF Channel!Peers, InRoom
  <2>2. kept[p] = {}
    BY <1>4, <2>1
  <2> QED  BY <1>3, <1>7, <2>1, <2>2
<1>11. ShownByOthers'
  <2> SUFFICES ASSUME NEW q \in Sockets, socket'[q] = "authenticated", NEW s \in shown'[q]
               PROVE  \E p \in connection \ {q} : s = <<presence'[p], DeviceOf[p]>>
    BY DEF ShownByOthers
  <2>1. socket[q] = "authenticated"
    BY DEF MovesOn
  <2>2. CASE s \in kept[q]
    <3>1. s \in shown[q]
      BY <1>4, <2>2
    <3>2. PICK p \in connection \ {q} : s = <<presence[p], DeviceOf[p]>>
      BY <1>1, <2>1, <3>1 DEF ShownByOthers
    <3>3. s[1] # None
      BY <1>1, <3>1 DEF Typed, RealtimeAssumption
    <3>4. CASE p = c
      <4>1. q \in Channel!Peers(c) /\ presence[c] # None
        BY <1>1, <2>1, <3>2, <3>3, <3>4, OthersArePeers
      <4>2. presence[c] = d
        BY <1>4, <2>2, <3>2, <3>4, <4>1
      <4> QED  BY <1>3, <3>2, <3>4, <4>2
    <3>5. CASE p # c
      BY <1>1, <1>3, <3>2, <3>5 DEF Typed
    <3> QED  BY <3>4, <3>5
  <2>3. CASE q = c /\ s \in present
    <3>1. PICK p \in connection \ {c} : presence[p] = d /\ s = <<d, DeviceOf[p]>>
      BY <1>5, <2>3
    <3>2. presence'[p] = d
      BY <1>1, <1>3, <3>1 DEF Typed
    <3> QED  BY <2>3, <3>1, <3>2
  <2>4. CASE q \in Channel!Peers(c) /\ s = <<d, DeviceOf[c]>>
    <3>1. q # c
      BY <2>4 DEF Channel!Peers
    <3> QED  BY <1>3, <2>4, <3>1
  <2> QED  BY <1>7, <2>2, <2>3, <2>4
<1>12. Channel!PresentIsShown'
  <2> SUFFICES ASSUME NEW q \in Sockets, NEW p \in Sockets, q # p,
                      socket'[q] = "authenticated", socket'[p] = "authenticated",
                      presence'[q] # None, presence'[q] = presence'[p],
                      \A o \in Sockets \ {p} : DeviceOf[o] = DeviceOf[p] => socket'[o] = "unused"
               PROVE  <<presence'[p], DeviceOf[p]>> \in shown'[q]
    BY DEF Channel!PresentIsShown
  <2>1. /\ socket[q] = "authenticated" /\ socket[p] = "authenticated"
        /\ \A o \in Sockets \ {p} : DeviceOf[o] = DeviceOf[p] => socket[o] = "unused"
    BY DEF MovesOn
  <2>2. q \in connection /\ p \in connection
    BY <1>1, <2>1 DEF InRoom
  <2>3. CASE q = c /\ presence[c] # d
    <3>1. presence'[p] = d /\ presence[p] = d
      BY <1>3, <2>3
    <3>2. <<d, DeviceOf[p]>> \in present
      BY <1>5, <2>2, <2>3, <3>1
    <3> QED  BY <1>7, <2>3, <3>1, <3>2
  <2>4. CASE p = c
    <3>1. q \in Channel!Peers(c)
      BY <1>1, <2>1, <2>4, OthersArePeers
    <3> QED  BY <1>3, <1>7, <2>4, <3>1
  <2>5. CASE p # c /\ (q # c \/ presence[c] = d)
    <3>1. presence'[p] = presence[p] /\ presence[q] = presence[p] /\ presence[q] # None
      BY <1>3, <2>5
    <3>2. <<presence[p], DeviceOf[p]>> \in shown[q]
      BY <1>1, <2>1, <3>1 DEF Channel!PresentIsShown
    <3>3. DeviceOf[c] # DeviceOf[p]
      BY <1>1, <2>1, <2>5
    <3>4. <<presence[p], DeviceOf[p]>> \in kept[q]
      BY <1>4, <3>2, <3>3
    <3> QED  BY <1>7, <3>1, <3>4
  <2> QED  BY <2>3, <2>4, <2>5
<1> QED  BY <1>8, <1>9, <1>10, <1>11, <1>12

-----------------------------------------------------------------------------
(* Messages.  What is handled in a room stays in the room.                  *)
LEMMA RoomKept ==
  ASSUME InRoom, \A p \in Sockets : MovesOn(p), UNCHANGED connection,
         \A p \in Sockets : handling'[p] \subseteq handling[p],
         \A p \in Sockets \ connection :
           presence'[p] = presence[p] /\ follows'[p] = follows[p] /\ shown'[p] = {}
  PROVE  InRoom'
<1> SUFFICES ASSUME NEW c \in Sockets
             PROVE  /\ c \in connection => socket'[c] \in {"authenticated", "closing"}
                    /\ socket'[c] = "authenticated" => c \in connection
                    /\ c \notin connection =>
                         presence'[c] = None /\ follows'[c] = {} /\ shown'[c] = {}
                    /\ \A m \in handling'[c] :
                         m # Channel!Hello => socket'[c] \in {"authenticated", "closing", "closed"}
  BY DEF InRoom
<1>1. MovesOn(c)
  OBVIOUS
<1> QED  BY <1>1 DEF InRoom, MovesOn

(* Of two that follow one document the later was announced to the other.    *)
LEMMA SubscribeKeeps ==
  ASSUME RealtimeInv, NEW c \in connection, NEW d \in Documents, Channel!Subscribe(c, d),
         \A p \in Sockets : MovesOn(p)
  PROVE  /\ follows' \in [Sockets -> SUBSET Documents]
         /\ asked' \subseteq Sockets \X Sockets \X Documents
         /\ \A p \in Sockets \ {c} : follows'[p] = follows[p]
         /\ Channel!FollowersMeet'
<1>1. Typed /\ InRoom /\ Channel!FollowersMeet /\ c \in Sockets
  BY DEF RealtimeInv, RoomInv, Typed
<1>2. follows' = [follows EXCEPT ![c] = @ \cup {d}]
  BY DEF Channel!Subscribe
<1>3. /\ follows'[c] = follows[c] \cup {d} /\ \A p \in Sockets \ {c} : follows'[p] = follows[p]
      /\ follows' \in [Sockets -> SUBSET Documents]
  BY <1>1, <1>2 DEF Typed
<1>4. IF d \in follows[c] THEN asked' = asked
      ELSE asked' = asked \cup {<<p, c, d>> : p \in Channel!Followers(c, d)}
  BY DEF Channel!Subscribe
<1>5. Channel!Followers(c, d) \subseteq Sockets
  BY <1>1 DEF Channel!Followers, Channel!Peers, Typed
<1>6. asked' \subseteq Sockets \X Sockets \X Documents
  BY <1>1, <1>4, <1>5 DEF Typed
<1>7. Channel!FollowersMeet'
  <2> SUFFICES ASSUME NEW q \in Sockets, NEW p \in Sockets, q # p, socket'[q] = "authenticated",
                      socket'[p] = "authenticated", NEW e \in follows'[q] \cap follows'[p]
               PROVE  <<q, p, e>> \in asked' \/ <<p, q, e>> \in asked'
    BY DEF Channel!FollowersMeet
  <2>1. socket[q] = "authenticated" /\ socket[p] = "authenticated" /\ asked \subseteq asked'
    BY <1>4 DEF MovesOn
  <2>2. CASE e \in follows[q] \cap follows[p]
    BY <1>1, <2>1, <2>2 DEF Channel!FollowersMeet
  <2>3. CASE e \notin follows[q]
    <3>1. q = c /\ e = d /\ d \notin follows[c] /\ e \in follows[p]
      BY <1>3, <2>3
    <3>2. p \in Channel!Followers(c, d)
      BY <1>1, <2>1, <3>1, OthersArePeers DEF Channel!Followers
    <3> QED  BY <1>4, <3>1, <3>2
  <2>4. CASE e \notin follows[p]
    <3>1. p = c /\ e = d /\ d \notin follows[c] /\ e \in follows[q]
      BY <1>3, <2>4
    <3>2. q \in Channel!Followers(c, d)
      BY <1>1, <2>1, <3>1, OthersArePeers DEF Channel!Followers
    <3> QED  BY <1>4, <3>1, <3>2
  <2> QED  BY <2>2, <2>3, <2>4
<1> QED  BY <1>3, <1>6, <1>7

LEMMA UnsubscribeKeeps ==
  ASSUME RealtimeInv, NEW c \in connection, NEW d,
         follows' = [follows EXCEPT ![c] = @ \ {d}],
         asked' = {a \in asked : a[3] # d \/ c \notin {a[1], a[2]}},
         \A p \in Sockets : MovesOn(p)
  PROVE  /\ follows' \in [Sockets -> SUBSET Documents]
         /\ asked' \subseteq Sockets \X Sockets \X Documents
         /\ \A p \in Sockets \ {c} : follows'[p] = follows[p]
         /\ Channel!FollowersMeet'
<1>1. Typed /\ Channel!FollowersMeet /\ c \in Sockets
  BY DEF RealtimeInv, RoomInv, Typed
<1>2. /\ follows'[c] = follows[c] \ {d} /\ \A p \in Sockets \ {c} : follows'[p] = follows[p]
      /\ follows' \in [Sockets -> SUBSET Documents]
      /\ asked' \subseteq Sockets \X Sockets \X Documents
  BY <1>1 DEF Typed
<1>3. Channel!FollowersMeet'
  <2> SUFFICES ASSUME NEW q \in Sockets, NEW p \in Sockets, q # p, socket'[q] = "authenticated",
                      socket'[p] = "authenticated", NEW e \in follows'[q] \cap follows'[p]
               PROVE  <<q, p, e>> \in asked' \/ <<p, q, e>> \in asked'
    BY DEF Channel!FollowersMeet
  <2>1. socket[q] = "authenticated" /\ socket[p] = "authenticated"
    BY DEF MovesOn
  <2>2. e \in follows[q] \cap follows[p] /\ (e # d \/ c \notin {q, p})
    BY <1>2
  <2>3. <<q, p, e>> \in asked \/ <<p, q, e>> \in asked
    BY <1>1, <2>1, <2>2 DEF Channel!FollowersMeet
  <2> QED  BY <2>2, <2>3
<1> QED  BY <1>2, <1>3

LEMMA HandleKeeps ==
  ASSUME RealtimeInv, RealtimeAssumption, NEW c \in Sockets,
         NEW m \in handling[c], Channel!Handle(c, m)
  PROVE  RealtimeInv'
<1>1. /\ m # Channel!Hello /\ handling' = [handling EXCEPT ![c] = @ \ {m}]
      /\ UNCHANGED <<connection, subscribed, checking, probing, Channel!wakeVars, stalled>>
  BY DEF Channel!Handle
<1>2. Typed /\ InRoom /\ m \in Channel!Messages
  BY <1>1 DEF RealtimeInv, RoomInv, Typed
<1>3. handling' \in [Sockets -> SUBSET (Channel!Messages \cup {Channel!Hello})]
      /\ \A q \in Sockets : handling'[q] \subseteq handling[q]
  BY <1>1, <1>2 DEF Typed
<1>4. Behind'
  BY <1>1 DEF RealtimeInv, Behind, Channel!wakeVars
<1>5. CASE ~(Channel!Active(c) /\ Channel!Open(c))
  <2>1. UNCHANGED Channel!presenceVars /\ (socket' = Channel!Closing({c}) \/ UNCHANGED socket)
    BY <1>5 DEF Channel!Handle
  <2>2. socket' \in [Sockets -> SocketStates] /\ \A p \in Sockets : MovesOn(p)
    BY <1>2, <2>1, ClosingMoves, SameMoves DEF Typed
  <2>3. Typed'
    BY <1>1, <1>2, <1>3, <2>1, <2>2 DEF Typed, Channel!presenceVars, Channel!wakeVars
  <2>4. RoomInv'
    BY <1>1, <1>3, <2>1, <2>2, OutsideKeeps DEF RealtimeInv
  <2>5. Waking'
    BY <1>1, <2>2, StillWaking DEF RealtimeInv, Channel!wakeVars
  <2> QED  BY <1>4, <2>3, <2>4, <2>5 DEF RealtimeInv
<1>6. CASE Channel!Active(c) /\ Channel!Open(c)
  <2>1. Channel!Apply(c, m)
    BY <1>6 DEF Channel!Handle
  <2>2. socket[c] = "authenticated" /\ c \in connection
    BY <1>1, <1>2, <1>6 DEF InRoom, Channel!Open
  <2>3. \/ m.type = "presence.clear" \/ m.document \in Documents
    BY <1>2 DEF Channel!Messages
  <2>4. socket' \in [Sockets -> SocketStates] /\ \A p \in Sockets : MovesOn(p)
    <3>1. UNCHANGED socket \/ \E S : socket' = Channel!Closing(S)
      BY <2>1 DEF Channel!Apply, Channel!EnterDocument, Channel!ClearPresence, Channel!Subscribe
    <3> QED  BY <1>2, <3>1, ClosingMoves, SameMoves DEF Typed
  <2>5. Waking'
    BY <1>1, <2>4, StillWaking DEF RealtimeInv, Channel!wakeVars
  <2> DEFINE Kept ==
        /\ presence' \in [Sockets -> Documents \cup {None}]
        /\ follows' \in [Sockets -> SUBSET Documents]
        /\ shown' \in [Sockets -> SUBSET (Documents \X Channel!Devices)]
        /\ asked' \subseteq Sockets \X Sockets \X Documents
        /\ \A p \in Sockets \ connection :
             presence'[p] = presence[p] /\ follows'[p] = follows[p] /\ shown'[p] = {}
        /\ ShownByOthers' /\ Channel!PresentIsShown' /\ Channel!FollowersMeet'
  <2>6. UNCHANGED <<follows, asked>> => Channel!FollowersMeet'
    BY <2>4 DEF RealtimeInv, RoomInv, Channel!FollowersMeet, MovesOn
  <2>7. UNCHANGED <<presence, shown>> => ShownByOthers' /\ Channel!PresentIsShown'
    BY <1>1, <2>4 DEF RealtimeInv, RoomInv, ShownByOthers, Channel!PresentIsShown, MovesOn
  <2>8. \A p \in Sockets \ connection : shown[p] = {}
    BY <1>2 DEF InRoom
  <2>9. CASE m.type = "presence.update" /\ Channel!EnterDocument(c, m.document)
             /\ UNCHANGED <<follows, asked>>
    <3>1. m.document \in Documents
      BY <2>3, <2>9
    <3>2. Kept
      BY <1>1, <1>2, <2>2, <2>4, <2>6, <2>9, <3>1, EnterKeeps DEF Typed
    <3> QED  BY <1>1, <1>2, <1>3, <1>4, <2>4, <2>5, <3>2, RoomKept
             DEF RealtimeInv, RoomInv, Typed, Channel!wakeVars
  <2>10. CASE Channel!ClearPresence(c) /\ UNCHANGED <<follows, asked>>
    <3>1. presence' = [presence EXCEPT ![c] = None] /\ shown' = Channel!Cleared(c)
      BY <2>10 DEF Channel!ClearPresence
    <3>2. \A p \in Sockets : Onward(p)
      BY <2>4 DEF MovesOn, Onward
    <3>3. ShownByOthers' /\ Channel!PresentIsShown'
      BY <1>1, <2>2, <3>1, <3>2, ClearKeeps
    <3>4. /\ shown' \in [Sockets -> SUBSET (Documents \X Channel!Devices)]
          /\ \A p \in Sockets : shown'[p] \subseteq shown[p]
      BY <1>2, <3>1, ClearedTakes
    <3>5. /\ presence' \in [Sockets -> Documents \cup {None}]
          /\ \A p \in Sockets \ {c} : presence'[p] = presence[p]
      BY <1>2, <3>1 DEF Typed
    <3>6. Kept
      BY <1>2, <2>2, <2>6, <2>8, <2>10, <3>3, <3>4, <3>5 DEF Typed
    <3> QED  BY <1>1, <1>2, <1>3, <1>4, <2>4, <2>5, <3>6, RoomKept
             DEF RealtimeInv, RoomInv, Typed, Channel!wakeVars
  <2>11. CASE m.type = "document.subscribe" /\ Channel!Subscribe(c, m.document)
              /\ UNCHANGED <<presence, shown>>
    <3>1. m.document \in Documents
      BY <2>3, <2>11
    <3>2. /\ follows' \in [Sockets -> SUBSET Documents]
          /\ asked' \subseteq Sockets \X Sockets \X Documents
          /\ \A p \in Sockets \ {c} : follows'[p] = follows[p]
          /\ Channel!FollowersMeet'
      BY <2>2, <2>4, <2>11, <3>1, SubscribeKeeps
    <3>3. Kept
      BY <1>2, <2>2, <2>7, <2>8, <2>11, <3>2 DEF Typed
    <3> QED  BY <1>1, <1>2, <1>3, <1>4, <2>4, <2>5, <3>3, RoomKept
             DEF RealtimeInv, RoomInv, Typed, Channel!wakeVars
  <2>12. CASE /\ follows' = [follows EXCEPT ![c] = @ \ {m.document}]
              /\ asked' = {a \in asked : a[3] # m.document \/ c \notin {a[1], a[2]}}
              /\ UNCHANGED <<presence, shown>>
    <3>1. /\ follows' \in [Sockets -> SUBSET Documents]
          /\ asked' \subseteq Sockets \X Sockets \X Documents
          /\ \A p \in Sockets \ {c} : follows'[p] = follows[p]
          /\ Channel!FollowersMeet'
      BY <2>2, <2>4, <2>12, UnsubscribeKeeps
    <3>2. Kept
      BY <1>2, <2>2, <2>7, <2>8, <2>12, <3>1 DEF Typed
    <3> QED  BY <1>1, <1>2, <1>3, <1>4, <2>4, <2>5, <3>2, RoomKept
             DEF RealtimeInv, RoomInv, Typed, Channel!wakeVars
  <2> QED  BY <2>1, <2>9, <2>10, <2>11, <2>12 DEF Channel!Apply
<1> QED  BY <1>5, <1>6

-----------------------------------------------------------------------------
(* The end of a socket, whether it was in the room or not.                  *)
LEMMA ClosedKeeps ==
  ASSUME RealtimeInv, RealtimeAssumption, NEW c \in Sockets, Channel!Closed(c)
  PROVE  RealtimeInv'
<1> DEFINE S == IF presence[c] # None THEN Channel!Overrun(Channel!Peers(c)) ELSE {}
<1>1. /\ socket[c] = "closing" /\ socket' = [Channel!Closing(S) EXCEPT ![c] = "closed"]
      /\ connection' = connection \ {c} /\ subscribed' = subscribed \ {c}
      /\ follows' = [follows EXCEPT ![c] = {}] /\ presence' = [presence EXCEPT ![c] = None]
      /\ asked' = {a \in asked : c \notin {a[1], a[2]}}
      /\ shown' = [Channel!Cleared(c) EXCEPT ![c] = {}]
      /\ UNCHANGED <<handling, checking, probing, Channel!wakeVars, stalled>>
  BY DEF Channel!Closed, Channel!Cleanup, Channel!Unsubscribed
<1>2. Typed /\ InRoom /\ ShownByOthers /\ Channel!PresentIsShown /\ Channel!FollowersMeet
  BY DEF RealtimeInv, RoomInv
<1>3. /\ socket' \in [Sockets -> SocketStates] /\ socket'[c] = "closed"
      /\ \A p \in Sockets \ {c} : MovesOn(p)
      /\ \A p \in Sockets : Onward(p)
  <2> HIDE DEF S
  <2>1. Channel!Closing(S) \in [Sockets -> SocketStates]
        /\ \A p \in Sockets : Channel!Closing(S)[p] = socket[p] \/ (Channel!Open(p) /\ Channel!Closing(S)[p] = "closing")
    BY <1>2 DEF Typed, Channel!Closing, SocketStates
  <2>2. socket' \in [Sockets -> SocketStates] /\ socket'[c] = "closed"
        /\ \A p \in Sockets \ {c} : socket'[p] = Channel!Closing(S)[p]
    BY <1>1, <2>1 DEF SocketStates
  <2> QED  BY <2>1, <2>2 DEF MovesOn, Onward, Channel!Open
<1>4. /\ Channel!Cleared(c) \in [Sockets -> SUBSET (Documents \X Channel!Devices)]
      /\ \A p \in Sockets : Channel!Cleared(c)[p] \subseteq shown[p]
  BY <1>2, ClearedTakes
<1>5. /\ shown' \in [Sockets -> SUBSET (Documents \X Channel!Devices)] /\ shown'[c] = {}
      /\ \A p \in Sockets \ {c} : shown'[p] = Channel!Cleared(c)[p]
  BY <1>1, <1>4
<1>6. /\ presence' \in [Sockets -> Documents \cup {None}] /\ presence'[c] = None
      /\ follows' \in [Sockets -> SUBSET Documents] /\ follows'[c] = {}
      /\ \A p \in Sockets \ {c} : presence'[p] = presence[p] /\ follows'[p] = follows[p]
  BY <1>1, <1>2 DEF Typed
<1>7. Typed'
  BY <1>1, <1>2, <1>3, <1>5, <1>6 DEF Typed, Channel!wakeVars
<1>8. Behind'
  BY <1>1 DEF RealtimeInv, Behind, Channel!wakeVars
<1>9. InRoom'
  <2> SUFFICES ASSUME NEW p \in Sockets
               PROVE  /\ p \in connection' => socket'[p] \in {"authenticated", "closing"}
                      /\ socket'[p] = "authenticated" => p \in connection'
                      /\ p \notin connection' =>
                           presence'[p] = None /\ follows'[p] = {} /\ shown'[p] = {}
                      /\ \A m \in handling[p] :
                           m # Channel!Hello => socket'[p] \in {"authenticated", "closing", "closed"}
    BY <1>1 DEF InRoom
  <2>1. CASE p = c
    BY <1>1, <1>3, <1>5, <1>6, <2>1
  <2>2. CASE p # c
    <3>1. MovesOn(p) /\ (p \in connection' <=> p \in connection)
      BY <1>1, <1>3, <2>2
    <3>2. p \notin connection => shown'[p] = {}
      BY <1>2, <1>4, <1>5, <2>2 DEF InRoom
    <3> QED  BY <1>2, <1>6, <2>2, <3>1, <3>2 DEF InRoom, MovesOn
  <2> QED  BY <2>1, <2>2
<1>10. \A q \in Sockets : socket'[q] = "authenticated" => q # c /\ shown'[q] = Channel!Cleared(c)[q]
  BY <1>3, <1>5
<1>11. ShownByOthers' /\ Channel!PresentIsShown'
  <2>1. CASE c \in connection
    BY <1>1, <1>3, <1>10, <2>1, ClearKeeps
  <2>2. CASE c \notin connection
    <3>1. presence[c] = None /\ connection' = connection
      BY <1>1, <1>2, <2>2 DEF InRoom
    <3>2. Channel!Cleared(c) = shown
      BY <1>2, <3>1 DEF Channel!Cleared, Typed
    <3>3. presence' = presence
      BY <1>1, <1>2, <3>1 DEF Typed
    <3>4. ShownByOthers'
      BY <1>2, <1>3, <1>10, <3>1, <3>2, <3>3 DEF ShownByOthers, Onward
    <3>5. Channel!PresentIsShown'
      BY <1>2, <1>3, <1>10, <3>2, <3>3 DEF Channel!PresentIsShown, Onward
    <3> QED  BY <3>4, <3>5
  <2> QED  BY <2>1, <2>2
<1>12. Channel!FollowersMeet'
  <2> SUFFICES ASSUME NEW q \in Sockets, NEW p \in Sockets, q # p, socket'[q] = "authenticated",
                      socket'[p] = "authenticated", NEW e \in follows'[q] \cap follows'[p]
               PROVE  <<q, p, e>> \in asked' \/ <<p, q, e>> \in asked'
    BY DEF Channel!FollowersMeet
  <2>1. q # c /\ p # c /\ socket[q] = "authenticated" /\ socket[p] = "authenticated"
    BY <1>3 DEF Onward
  <2>2. <<q, p, e>> \in asked \/ <<p, q, e>> \in asked
    BY <1>2, <1>6, <2>1 DEF Channel!FollowersMeet
  <2> QED  BY <1>1, <2>1, <2>2
<1>13. Waking'
  BY <1>1, <1>3 DEF RealtimeInv, Waking, Channel!wakeVars, Onward
<1> QED  BY <1>7, <1>8, <1>9, <1>11, <1>12, <1>13 DEF RealtimeInv, RoomInv

-----------------------------------------------------------------------------
LEMMA RealtimeStep ==
  ASSUME RealtimeInv, RealtimeAssumption, [Channel!Next]_(Channel!rtVars)
  PROVE  RealtimeInv'
<1>1. ASSUME NEW c \in Sockets, Channel!Connect(c) \/ Channel!Authenticate(c) PROVE RealtimeInv'
  BY <1>1, ConnectKeeps
<1>2. ASSUME NEW c \in Sockets, Channel!Verified(c) \/ Channel!Closed(c) \/ Channel!Pull(c)
      PROVE  RealtimeInv'
  BY <1>2, VerifiedKeeps, ClosedKeeps, PullKeeps
<1>3. ASSUME NEW c \in Sockets,
             Channel!Close(c) \/ Channel!Terminate(c) \/ Channel!Stall(c) \/ Channel!Recheck(c) \/ Channel!FinishProbe(c)
      PROVE  RealtimeInv'
  BY <1>3, CheckKeeps DEF Channel!Recheck
<1>4. ASSUME NEW c \in Sockets, NEW m \in Channel!Messages, Channel!Receive(c, m) PROVE RealtimeInv'
  BY <1>4, ReceiveKeeps
<1>5. ASSUME NEW c \in Sockets, NEW m \in handling[c], Channel!Handle(c, m) PROVE RealtimeInv'
  BY <1>5, HandleKeeps
<1>6. ASSUME NEW d \in Channel!Devices, Channel!Disallow(d) PROVE RealtimeInv'
  BY <1>6, DisallowKeeps
<1>7. CASE Channel!Commit \/ Channel!Publish
  BY <1>7, CommitKeeps, PublishKeeps
<1>8. ASSUME NEW n \in notices, Channel!Dispatch(n) PROVE RealtimeInv'
  BY <1>8, DispatchKeeps
<1>9. CASE UNCHANGED Channel!rtVars
  <2>1. UNCHANGED <<Channel!socketVars, Channel!presenceVars, Channel!wakeVars, stalled>>
    BY <1>9 DEF Channel!rtVars
  <2>2. Typed' /\ Behind' /\ Waking'
    BY <2>1 DEF RealtimeInv, Typed, Behind, Waking, Channel!socketVars, Channel!presenceVars,
         Channel!wakeVars
  <2>3. RoomInv'
    BY <2>1, SameMoves, OutsideKeeps DEF RealtimeInv, Channel!socketVars
  <2> QED  BY <2>2, <2>3 DEF RealtimeInv
<1> QED  BY <1>1, <1>2, <1>3, <1>4, <1>5, <1>6, <1>7, <1>8, <1>9 DEF Channel!Next, Channel!End

(* The realtime channel (routes/events.ts, sync/notifier.ts): whatever sockets
   open, close, stall and reconnect while their messages await the database,
   a socket that has closed leaves neither listener nor cursor, clients show
   the cursors that are there and no others, two that follow one document are
   brought together, and a client that missed no notice has every command.  *)
THEOREM RealtimeCorrect ==
  ASSUME RealtimeAssumption
  PROVE  Channel!Init /\ [][Channel!Next]_(Channel!rtVars) =>
           [](Channel!TypeOK /\ RealtimeSound)
<1>1. Channel!Init => RealtimeInv
  BY RealtimeInitially
<1>2. RealtimeInv /\ [Channel!Next]_(Channel!rtVars) => RealtimeInv'
  BY RealtimeStep
<1>3. ASSUME RealtimeInv
      PROVE  Channel!TypeOK /\ RealtimeSound
  <2>1. /\ Typed /\ Behind /\ InRoom /\ ShownByOthers
        /\ Channel!PresentIsShown /\ Channel!FollowersMeet /\ Waking
    BY <1>3 DEF RealtimeInv, RoomInv
  <2>2. Channel!TypeOK
    BY <2>1 DEF Channel!TypeOK, Typed, Behind, SocketStates
  <2>3. Channel!ClosedLeavesNothing
    BY <2>1 DEF Channel!ClosedLeavesNothing, InRoom, Typed
  <2>4. Channel!ShownIsPresent
    BY <2>1 DEF Channel!ShownIsPresent, ShownByOthers
  <2>5. Channel!QuietMeansCurrent
    BY <2>1 DEF Channel!QuietMeansCurrent, Waking
  <2> QED  BY <2>1, <2>2, <2>3, <2>4, <2>5 DEF RealtimeSound
<1> QED  BY <1>1, <1>2, <1>3, PTL
=============================================================================
