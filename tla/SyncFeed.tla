------------------------------ MODULE SyncFeed ------------------------------
(***************************************************************************)
(* The event feed of one workspace and the devices that follow it: the     *)
(* session, events, acknowledge and bootstrap requests of                  *)
(* DurableSyncService, the commands that append events, the maintenance    *)
(* run that forgets them and the restore command that goes back to a       *)
(* backup.  SyncCommands says what the events contain; here an event is    *)
(* its sequence, its created_at and the restore epoch it was written in.   *)
(*                                                                         *)
(* The device is the client of docs/client-protocol.md, which is not in    *)
(* this repository: session, bootstrap if it is required, pull, apply,     *)
(* acknowledge.  Pushing is the commands of the module.                    *)
(***************************************************************************)
EXTENDS Integers, Sequences, FiniteSets, FiniteSetsExt

CONSTANTS
  Devices,
  Transactions,     \* command transactions that may be open at once
  MaxSequence,      \* bound: events ever written
  MaxClock,         \* bound: time
  MaxEpoch,         \* bound: restores
  MaxInterruptions, \* bound: requests that fail, snapshots that time out
  Retention,        \* config.changeRetentionDays
  Patience,         \* the longest a transaction or a request stays open
  PruneLimit,       \* events one maintenance run removes (10000)
  PageSize,         \* events per page
  MaxLag,           \* maxLibraryIncrementalLag, maxAccountDataIncrementalLag
  Slots,            \* places for open bootstrap sessions (8 per workspace)
  None

ASSUME BoundsAssumption ==
  /\ {MaxSequence, MaxClock, MaxEpoch, MaxInterruptions, Retention} \subseteq Nat
  /\ Patience \in Nat /\ 2 * Patience <= Retention
  /\ {PruneLimit, PageSize, MaxLag} \subseteq Nat \ {0}
ASSUME NoneAssumption == None \notin Int

VARIABLES
  clock,
  epoch,         \* the sync epoch
  history,       \* what the workspace has been through: the epoch each of
                 \* its latestSequence events was written in
  events,        \* sync_events
  started,       \* when each open command transaction began, or None
  cursors,       \* sync_device_cursors
  snapshots,     \* sync_bootstrap_sessions
  cutoff,        \* the retention limit of the maintenance run under way
  backup,        \* the tables in the last backup
  lost,          \* histories a restore has cut
  device,        \* what each device stores and where its request stands
  acks,          \* acknowledge requests ever sent
  interruptions

server == <<clock, epoch, history, events, started, cursors, snapshots, cutoff,
            backup, lost>>
vars == <<server, device, acks, interruptions>>

latestSequence == Len(history)

Steps == {"idle", "asking", "rebuild", "copying", "pull", "reading", "received"}

EventRow == [sequence : 1..MaxSequence, createdAt : 0..MaxClock, epoch : 0..MaxEpoch]
CursorRow == [acknowledged : 0..MaxSequence, updatedAt : 0..MaxClock]
SnapshotRow == [device : Devices, sequence : 0..MaxSequence]
Backup == [history : Seq(0..MaxEpoch), events : SUBSET EventRow,
           cursors : [Devices -> CursorRow \cup {None}]]

Reads == {"latest", "oldest", "row"}

(* epoch, cursor and copy are what the device stores; carries is the epoch
   its requests carry, ahead of epoch while it starts over.  latest, oldest
   and known (it has a row in cursors) are what the reads of its session request
   returned, unread the ones still under way; page is the events it was
   answered, more if there are others; snapshot is the bootstrap session it
   reads, since the time its pull began.                                    *)
DeviceState ==
  [step : Steps, epoch : 0..MaxEpoch, carries : 0..MaxEpoch,
   cursor : 0..MaxSequence,
   copy : UNION {[S -> 0..MaxEpoch] : S \in SUBSET (1..MaxSequence)},
   since : 0..MaxClock, unread : SUBSET Reads, latest : 0..MaxSequence,
   oldest : 1..MaxSequence \cup {None}, known : BOOLEAN,
   page : SUBSET EventRow, more : BOOLEAN, snapshot : Slots \cup {None}]

(* The tables and what the devices store have their types; the cursor of a
   device is a number even when the page it was answered is empty.          *)
TypeOK ==
  /\ clock \in 0..MaxClock
  /\ epoch \in 0..MaxEpoch
  /\ history \in Seq(0..MaxEpoch)
  /\ events \subseteq EventRow
  /\ started \in [Transactions -> 0..MaxClock \cup {None}]
  /\ cursors \in [Devices -> CursorRow \cup {None}]
  /\ snapshots \in [Slots -> SnapshotRow \cup {None}]
  /\ cutoff \in Int \cup {None}
  /\ backup \in Backup
  /\ device \in [Devices -> DeviceState]
  /\ interruptions \in 0..MaxInterruptions

Offline == [step |-> "idle", epoch |-> 0, carries |-> 0, cursor |-> 0,
            copy |-> <<>>, since |-> 0, unread |-> {}, latest |-> 0, oldest |-> None, known |-> FALSE,
            page |-> {}, more |-> FALSE, snapshot |-> None]

NoCursors == [d \in Devices |-> None]

Init ==
  /\ clock = 0
  /\ epoch = 0
  /\ history = <<>>
  /\ events = {}
  /\ started = [t \in Transactions |-> None]
  /\ cursors = NoCursors
  /\ snapshots = [s \in Slots |-> None]
  /\ cutoff = None
  /\ backup = [history |-> <<>>, events |-> {}, cursors |-> NoCursors]
  /\ lost = {}
  /\ device = [d \in Devices |-> Offline]
  /\ acks = {}
  /\ interruptions = 0

-----------------------------------------------------------------------------
(* Commands.  created_at is the time the transaction began; the sequence is
   handed out under the workspace lock, which a transaction may wait for.   *)

BeginCommand(t) ==
  /\ started[t] = None
  /\ latestSequence < MaxSequence
  /\ started' = [started EXCEPT ![t] = clock]
  /\ UNCHANGED <<clock, epoch, history, events, cursors, snapshots, cutoff,
                 backup, lost, device, acks, interruptions>>

CommitCommand(t) ==
  /\ started[t] # None
  /\ latestSequence < MaxSequence
  /\ history' = Append(history, epoch)
  /\ events' = events \cup {[sequence |-> latestSequence + 1,
                             createdAt |-> started[t], epoch |-> epoch]}
  /\ started' = [started EXCEPT ![t] = None]
  /\ UNCHANGED <<clock, epoch, cursors, snapshots, cutoff, backup, lost,
                 device, acks, interruptions>>

(* The unit is a fraction of the retention period, days at the least:
   transactions and requests, bounded by the pool's and the proxy's timeouts,
   do not stay open that long.                                              *)
Tick ==
  /\ clock < MaxClock
  /\ \A t \in Transactions : started[t] # None => clock - started[t] < Patience
  /\ \A d \in Devices :
       device[d].step = "reading" => clock - device[d].since < Patience
  /\ clock' = clock + 1
  /\ UNCHANGED <<epoch, history, events, started, cursors, snapshots, cutoff,
                 backup, lost, device, acks, interruptions>>

-----------------------------------------------------------------------------
(* The maintenance run: events first, in one transaction, the first
   PruneLimit of them by id, which is the order they were written in; the
   cursors of silent devices in a statement of its own.                     *)

Older(e, f) == e.sequence < f.sequence

PruneEvents ==
  /\ cutoff = None
  /\ cutoff' = clock - Retention
  /\ LET old == {e \in events : e.createdAt < cutoff'}
         first == {e \in old : Cardinality({f \in old : Older(f, e)}) < PruneLimit}
     IN  events' = events \ first
  /\ UNCHANGED <<clock, epoch, history, started, cursors, snapshots, backup,
                 lost, device, acks, interruptions>>

PruneCursors ==
  /\ cutoff # None
  /\ cursors' = [d \in Devices |->
       IF cursors[d] # None /\ cursors[d].updatedAt < cutoff THEN None
       ELSE cursors[d]]
  /\ cutoff' = None
  /\ UNCHANGED <<clock, epoch, history, events, started, snapshots, backup,
                 lost, device, acks, interruptions>>

-----------------------------------------------------------------------------
(* A device whose request is interrupted: only what it stores is left.      *)
Interrupted(v) ==
  [step |-> "idle", epoch |-> v.epoch, carries |-> v.epoch, cursor |-> v.cursor,
   copy |-> v.copy, since |-> 0, unread |-> {}, latest |-> 0, oldest |-> None,
   known |-> FALSE, page |-> {}, more |-> FALSE, snapshot |-> None]

(* Backup and restore.  The server is offline while a backup is restored:
   no transaction and no request survives, requests that a client or the
   network still holds do.                                                  *)

TakeBackup ==
  /\ epoch < MaxEpoch
  /\ backup' = [history |-> history, events |-> events, cursors |-> cursors]
  /\ UNCHANGED <<clock, epoch, history, events, started, cursors, snapshots,
                 cutoff, lost, device, acks, interruptions>>

Restore ==
  /\ epoch < MaxEpoch
  /\ epoch' = epoch + 1
  /\ history' = backup.history
  /\ events' = backup.events
  /\ cursors' = backup.cursors
  /\ lost' = lost \cup {history}
  /\ started' = [t \in Transactions |-> None]
  /\ snapshots' = [s \in Slots |-> None]
  /\ cutoff' = None
  /\ device' = [d \in Devices |->
       IF device[d].step \in {"asking", "reading"} THEN Interrupted(device[d])
       ELSE device[d]]
  /\ UNCHANGED <<clock, backup, acks, interruptions>>

-----------------------------------------------------------------------------
(* The requests of a device.                                                *)

(* Fault: the epoch a request carries is not looked at.                     *)
AnyEpoch(e) == TRUE

(* #assertSyncEpoch                                                         *)
SyncEpochCurrent(e) == e = epoch

(* A request that carries an older epoch is refused before anything is read;
   the device starts over from a snapshot, and accepts the new epoch with it. *)
Refused(d) ==
  /\ device[d].step \in {"idle", "rebuild", "copying", "pull"}
  /\ ~SyncEpochCurrent(device[d].carries)
  /\ device' = [device EXCEPT ![d].carries = epoch, ![d].step = "rebuild"]
  /\ UNCHANGED <<server, acks, interruptions>>

Ask(d) ==
  /\ device[d].step = "idle"
  /\ SyncEpochCurrent(device[d].carries)
  /\ device' = [device EXCEPT ![d].step = "asking", ![d].unread = Reads]
  /\ UNCHANGED <<server, acks, interruptions>>

Sequences(S) == {e.sequence : e \in S}

ReadLatest(d) ==
  /\ device[d].step = "asking" /\ "latest" \in device[d].unread
  /\ device' = [device EXCEPT ![d].latest = latestSequence,
                              ![d].unread = @ \ {"latest"}]
  /\ UNCHANGED <<server, acks, interruptions>>

ReadOldest(d) ==
  /\ device[d].step = "asking" /\ "oldest" \in device[d].unread
  /\ device' = [device EXCEPT
       ![d].oldest = IF events = {} THEN None ELSE Min(Sequences(events)),
       ![d].unread = @ \ {"oldest"}]
  /\ UNCHANGED <<server, acks, interruptions>>

ReadCursorRow(d) ==
  /\ device[d].step = "asking" /\ "row" \in device[d].unread
  /\ device' = [device EXCEPT ![d].known = cursors[d] # None,
                              ![d].unread = @ \ {"row"}]
  /\ UNCHANGED <<server, acks, interruptions>>

(* Fault: a cursor next to the oldest event is taken for an expired one.    *)
ExpiredTooEarly(cursor, oldest) == oldest # None /\ cursor < oldest

Expired(cursor, oldest) == oldest # None /\ cursor + 1 < oldest

BootstrapRequired(s) ==
  \/ s.cursor > s.latest
  \/ Expired(s.cursor, s.oldest)
  \/ ~s.known /\ s.latest > 0
  \/ s.latest - s.cursor > MaxLag

(* The answer of the session request, once its three reads have returned.   *)
Answer(d) ==
  /\ device[d].step = "asking" /\ device[d].unread = {}
  /\ device' = [device EXCEPT
       ![d].step = IF BootstrapRequired(device[d]) THEN "rebuild" ELSE "pull",
       ![d].latest = 0, ![d].oldest = None, ![d].known = FALSE]
  /\ UNCHANGED <<server, acks, interruptions>>

(* The first page of a bootstrap opens a session, if there is place for one.
   A session that a device left behind keeps its place until it times out.  *)
OpenSnapshot(d) ==
  /\ device[d].step = "rebuild"
  /\ SyncEpochCurrent(device[d].carries)
  /\ \E s \in Slots :
       /\ snapshots[s] = None
       /\ snapshots' = [snapshots EXCEPT
            ![s] = [device |-> d, sequence |-> latestSequence]]
       /\ device' = [device EXCEPT ![d].step = "copying", ![d].snapshot = s]
  /\ UNCHANGED <<clock, epoch, history, events, started, cursors, cutoff,
                 backup, lost, acks, interruptions>>

SessionLives(d) ==
  LET s == device[d].snapshot IN snapshots[s] # None /\ snapshots[s].device = d

(* The last page: the device replaces what it stores by the snapshot and
   releases the session.                                                    *)
FinishSnapshot(d) ==
  LET s == device[d].snapshot
  IN  /\ device[d].step = "copying"
      /\ SyncEpochCurrent(device[d].carries)
      /\ SessionLives(d)
      /\ snapshots' = [snapshots EXCEPT ![s] = None]
      /\ device' = [device EXCEPT
           ![d].step = "pull",
           ![d].epoch = device[d].carries,
           ![d].cursor = snapshots[s].sequence,
           ![d].copy = SubSeq(history, 1, snapshots[s].sequence),
           ![d].snapshot = None]
      /\ UNCHANGED <<clock, epoch, history, events, started, cursors, cutoff,
                     backup, lost, acks, interruptions>>

(* bootstrap_expired: a later page of a session that has timed out.         *)
SnapshotGone(d) ==
  /\ device[d].step = "copying"
  /\ SyncEpochCurrent(device[d].carries)
  /\ ~SessionLives(d)
  /\ device' = [device EXCEPT ![d].step = "rebuild", ![d].snapshot = None]
  /\ UNCHANGED <<server, acks, interruptions>>

(* A session that no device reads any more times out.                       *)
ExpireSnapshot(s) ==
  /\ snapshots[s] # None
  /\ \A d \in Devices : ~(device[d].step = "copying" /\ device[d].snapshot = s)
  /\ snapshots' = [snapshots EXCEPT ![s] = None]
  /\ UNCHANGED <<clock, epoch, history, events, started, cursors, cutoff,
                 backup, lost, device, acks, interruptions>>

(* events: first the latest sequence ...                                    *)
Pull(d) ==
  /\ device[d].step = "pull"
  /\ SyncEpochCurrent(device[d].carries)
  /\ device' = [device EXCEPT
       ![d].step = IF device[d].cursor > latestSequence THEN "idle" ELSE "reading",
       ![d].latest = IF device[d].cursor > latestSequence THEN 0 ELSE latestSequence,
       ![d].since = IF device[d].cursor > latestSequence THEN 0 ELSE clock]
  /\ UNCHANGED <<server, acks, interruptions>>

(* Fault: an empty answer is not taken for a gap.                           *)
GapIfAny(cursor, latest, found) ==
  cursor < latest /\ found # {} /\ Min(Sequences(found)) # cursor + 1

(* Fault: a gap is not looked for.                                          *)
NeverGap(cursor, latest, found) == FALSE

Gap(cursor, latest, found) ==
  cursor < latest /\ (found = {} \/ Min(Sequences(found)) # cursor + 1)

(* ... then the events after the cursor, refused as cursor_expired when the
   next one is missing.                                                     *)
ReadEvents(d) ==
  LET found == {e \in events : e.sequence > device[d].cursor}
      page == {e \in found : Cardinality({f \in found : Older(f, e)}) < PageSize}
  IN  /\ device[d].step = "reading"
      /\ device' = IF Gap(device[d].cursor, device[d].latest, found)
                   THEN [device EXCEPT ![d].step = "rebuild",
                                       ![d].latest = 0, ![d].since = 0]
                   ELSE [device EXCEPT ![d].step = "received", ![d].page = page,
                                       ![d].more = page # found,
                                       ![d].latest = 0, ![d].since = 0]
      /\ UNCHANGED <<server, acks, interruptions>>

(* Fault: the cursor of an empty page is not the one the request carried.   *)
LastOfPage(after, page) == IF page = {} THEN None ELSE Max(Sequences(page))

NextCursor(after, page) == IF page = {} THEN after ELSE Max(Sequences(page))

Applied(copy, page) ==
  [i \in DOMAIN copy \cup Sequences(page) |->
     IF i \in Sequences(page) THEN (CHOOSE e \in page : e.sequence = i).epoch
     ELSE copy[i]]

(* The device commits the page and its cursor, acknowledges them, and goes on
   with the next page if there is one.                                      *)
Apply(d) ==
  LET cursor == NextCursor(device[d].cursor, device[d].page)
  IN  /\ device[d].step = "received"
      /\ device' = [device EXCEPT
           ![d].step = IF device[d].more THEN "pull" ELSE "idle",
           ![d].cursor = cursor,
           ![d].copy = Applied(device[d].copy, device[d].page),
           ![d].page = {}, ![d].more = FALSE]
      /\ acks' = acks \cup {[device |-> d, epoch |-> device[d].epoch,
                             through |-> cursor]}
      /\ UNCHANGED <<server, interruptions>>

-----------------------------------------------------------------------------
(* Acknowledgements travel on their own: delayed, reordered, sent again, or
   never to arrive.                                                         *)

(* Fault: the last acknowledgement to arrive wins.                          *)
LastThrough(row, through) == through

Greatest(row, through) ==
  IF row # None /\ row.acknowledged > through THEN row.acknowledged ELSE through

(* acknowledge.  It refuses an older epoch and a sequence the workspace has
   not reached.                                                             *)
Acknowledge(a) ==
  /\ a \in acks
  /\ SyncEpochCurrent(a.epoch)
  /\ a.through <= latestSequence
  /\ cursors' = [cursors EXCEPT ![a.device] =
       [acknowledged |-> Greatest(cursors[a.device], a.through),
        updatedAt |-> clock]]
  /\ UNCHANGED <<clock, epoch, history, events, started, snapshots, cutoff,
                 backup, lost, device, acks, interruptions>>

(* A request is interrupted, or a client stalls longer than its bootstrap
   session lives.                                                           *)
Disconnect(d) ==
  /\ interruptions < MaxInterruptions
  /\ device[d].step # "idle"
  /\ device' = [device EXCEPT ![d] = Interrupted(device[d])]
  /\ interruptions' = interruptions + 1
  /\ UNCHANGED <<server, acks>>

Stall(d) ==
  /\ interruptions < MaxInterruptions
  /\ device[d].step = "copying"
  /\ SessionLives(d)
  /\ snapshots' = [snapshots EXCEPT ![device[d].snapshot] = None]
  /\ interruptions' = interruptions + 1
  /\ UNCHANGED <<clock, epoch, history, events, started, cursors, cutoff,
                 backup, lost, device, acks>>

-----------------------------------------------------------------------------
Commands == \E t \in Transactions : BeginCommand(t) \/ CommitCommand(t)

Maintenance == PruneEvents \/ PruneCursors

Session(d) ==
  Ask(d) \/ ReadLatest(d) \/ ReadOldest(d) \/ ReadCursorRow(d) \/ Answer(d)

Bootstrap(d) == OpenSnapshot(d) \/ FinishSnapshot(d) \/ SnapshotGone(d)

Events(d) == Pull(d) \/ ReadEvents(d) \/ Apply(d)

Request(d) == Refused(d) \/ Session(d) \/ Bootstrap(d) \/ Events(d)

Acknowledgements == \E a \in acks : Acknowledge(a)

Next ==
  \/ Commands \/ Tick \/ Maintenance \/ TakeBackup \/ Restore
  \/ \E d \in Devices : Request(d) \/ Disconnect(d) \/ Stall(d)
  \/ \E s \in Slots : ExpireSnapshot(s)
  \/ Acknowledgements

(* A device goes on with its requests, and a session that nobody reads times
   out; nothing obliges the commands, maintenance or acknowledgements.      *)
Fairness ==
  /\ \A d \in Devices : WF_vars(Request(d))
  /\ \A s \in Slots : WF_vars(ExpireSnapshot(s))

Spec == Init /\ [][Next]_vars /\ Fairness

-----------------------------------------------------------------------------
(* What a device stores is always the beginning of a history the server
   served: prune, page, snapshot and restore never make it miss an event or
   mix two histories.                                                       *)
Delivery ==
  INSTANCE EventDelivery WITH
    Epochs <- 0..MaxEpoch, copy <- [d \in Devices |-> device[d].copy]

Delivered == Delivery!Spec

(* docs/sync-server-spec.md:481: a cursor outside the retained window is
   answered cursor_expired "rather than silently missing data".             *)
NoSilentGap == \A d \in Devices : DOMAIN device[d].copy = 1..device[d].cursor

(* The server never believes that a device has an event it does not have:
   the acknowledged events are the beginning of the server's own history,
   whatever acknowledgements from before a restore still arrive.            *)
AcknowledgedHeld ==
  \A d \in Devices : cursors[d] # None =>
    \A i \in 1..cursors[d].acknowledged :
      i \in DOMAIN device[d].copy /\ device[d].copy[i] = history[i]

(* Late and repeated acknowledgements never take one back.                  *)
AcknowledgedMonotone ==
  [][\A d \in Devices :
       (cursors[d] # None /\ cursors'[d] # None /\ epoch' = epoch)
         => cursors'[d].acknowledged >= cursors[d].acknowledged]_vars

(* A device the server knows is told to start over only when the event
   after its cursor is gone or it is too far behind.                        *)
BootstrapJustified ==
  [][\A d \in Devices :
       (device[d].step = "asking" /\ device'[d].step = "rebuild" /\ device[d].known)
         => \/ latestSequence - device[d].cursor > MaxLag
            \/ device[d].cursor + 1 \notin Sequences(events)
               /\ device[d].cursor < latestSequence]_vars

(* What a device acknowledged it holds, also after a restore of the server;
   its acknowledgement never goes back within an epoch, and it is sent to a
   bootstrap only when it cannot continue (session, events, acknowledge).     *)
CursorsKept == []AcknowledgedHeld /\ AcknowledgedMonotone /\ BootstrapJustified

(* Every device ends up with the whole history, whatever was pruned while
   it was away and however its requests were interrupted.                   *)
CaughtUp(d) == device[d].cursor = latestSequence /\ device[d].copy = history

EventuallyCaughtUp == \A d \in Devices : <>[]CaughtUp(d)
=============================================================================
