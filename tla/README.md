# A verification development for note-gen-server

NoteGen Server is an end-to-end encrypted synchronisation server: a Fastify
process over PostgreSQL and a blob store. It never sees plaintext. What it does
guarantee is *order and custody*: every device of an account sees one log of
events per workspace, nothing that was accepted disappears, what two devices did
concurrently is reported as a conflict and not overwritten, and only those who
proved who they are get at it.

This directory states those guarantees in TLA+, checks them with TLC on small
instances and proves the central ones with TLAPS for every size. All paths
below are relative to `src/`; `…` stands for `apps/server/src`.

Contents: 1 inventory · 2 modules · 3 runs · 4 proofs · 5 findings · 6 what the
models assume · 7 not modelled · 8 plan.

## 1. Inventory

### 1.1 Components, their state and operations

| component (source) | state (tables) | operations | modules |
| --- | --- | --- | --- |
| **Durable sync commands** (`…/durable-sync/service.ts`) | `workspaces.latest_sequence`, `objects`, `object_versions`, `sync_resource_bindings`, `sync_documents`, `sync_updates`, `sync_checkpoints`, `sync_conflicts`, `sync_events` | upsert, delete, delete-subtree, initialize-document, append-update, commit-checkpoint, create-conflict, resolve-conflict | `SyncCommands` |
| **Command ledger** (same file: `commands`, `#command`, `#recordRejectedCommand`) | `sync_commands` | batch, retry, record a rejection | `CommandLedger` |
| **Event feed** (same file: `session`, `events`, `acknowledge`, `bootstrap`) | `sync_events`, `sync_device_cursors`, `sync_bootstrap_sessions` | session, pull, acknowledge, bootstrap, release | `SyncFeed`, `EventDelivery` |
| **Maintenance** (`…/maintenance/service.ts`, `coordinator.ts`) | deletes from nearly every table; `maintenance_state` | one run behind an advisory lock; modes normal, read_only, write_drain, offline | a part in each module |
| **Blobs** (`…/blobs/service.ts`) and **usage** (`…/usage/service.ts`) | `blob_uploads`, `blob_upload_parts`, `blobs`, `usage_reservations` | create, put part, complete, abort, download; reserve, commit, release | `BlobUpload` |
| **Background jobs** (`…/jobs`) | `background_jobs` | enqueue, claim, succeed, fail, dead-letter | `JobQueue`, `LeasedWork` |
| **Mail outbox** (`…/mail`) | `outbox_messages`, `mail_secret_payloads` | enqueue, claim, deliver, discard | `MailOutbox`, `LeasedWork` |
| **Authentication** (`…/auth`, `…/identity`) | `accounts`, `devices`, `refresh_tokens`, `web_sessions`, `device_authorizations`, `device_pairings` | sign in, refresh, log out, revoke, change or reset a password, authorize or pair a device | `AuthSessions` |
| **Workspaces** (`…/workspaces`) | `workspaces`, `workspace_keys`, `workspace_key_envelopes`, `workspace_members`, invitations | create, remove, restore, rotate keys, change encryption, invite, accept, leave | `Workspaces`, `WorkspaceMembers` |
| **Account deletion** (`…/compliance`) | `account_deletion_cases`, `account_deletion_fences`, `legal_holds`, deletion ledger | request, cancel, purge, hold, release, replay | `AccountDeletion` |
| **Backup and restore** (`…/backup`, `…/cli/restore.ts`, `…/restore-fence`) | packages, `restore_markers`, epochs, blob inventory | write, verify, import, sanitize, reconcile | `OfflineBackup`, `Restore` |
| **Realtime events** (`…/routes/events.ts`, `…/sync/notifier.ts`) | per-process sockets and presence | authenticate, subscribe, presence, notify, recheck | `Realtime` |
| **Registration** (`…/bootstrap`, `…/invitations`, `…/installation`) | `bootstrap_credentials`, `registration_invitations`, `account_action_tokens` | install, invite, register | `Administrators`, `Registration` |
| **Administration** (`…/admin`, `…/risk`, `…/support`, `…/deployment`) | accounts' roles, `risk_restrictions`, support cases, runtime configuration | suspend, demote, restrict, answer, configure | `Administrators`, `RiskRestrictions`, `SupportCases`, `RuntimeConfiguration` |
| **The page that connects a device** (`apps/web/components/device-connection.tsx`) | React state, one browser page | make a link, poll, type a code, decide | `ConnectPage`, `ConnectCode` |

### 1.2 How they interact

* Everything shares one PostgreSQL database; there is no in-memory state that
  matters except sockets, the workers' `#running` flags, cached policies and
  configurations, and the browser page. Components interact through rows,
  through row locks (`FOR UPDATE` on the workspace, the account, the token) and
  through advisory locks (deletion fence, maintenance).
* A command runs in one transaction that locks its workspace row first, so the
  commands of a workspace are serial. Reads (`session`, `events`, pages of a
  bootstrap) are several statements outside any transaction and interleave with
  commands and with maintenance.
* After a command commits, `LISTEN/NOTIFY` tells the sockets that the workspace
  changed; a notification carries no data and may be lost: the device pulls.
* Passwords are verified, capabilities read and cases looked up *before* the
  transaction that uses the result; every such await is a point where others move.
* The client is not in this repository. What it must do is in
  `docs/client-protocol.md`; where a model needs it, it is marked external.

### 1.3 What makes it correct

* *Commands*: the log has one event per sequence; the current row, the version
  history and the log tell the same story about every object; the tree stays a
  tree; no document update is lost between a checkpoint, its pruning and an open
  snapshot; collisions are covered by conflicts.
* *Ledger*: a command takes effect at most once however often it is sent.
* *Feed*: what a device stores is always the beginning of one history; the
  server never counts as acknowledged what a device does not have; a device that
  keeps trying catches up.
* *Queues*: no message or job is forgotten; none is run beyond its budget.
* *Blobs*: a blob that is ready has its bytes; what is reserved or stored is
  counted.
* *Authentication*: a refresh token that works is of the present password; an
  honest installation is not taken for a thief.
* *Workspaces*: what is counted is what is active; every key in use opens for its
  holders; a final removal is alone with what it removes; nobody hands on what
  they do not have.
* *Deletion and restore*: a deletion that has begun comes to its end and stays
  done; after a restore, nothing issued before it opens anything.

The hazards behind these sentences, each at its line, are in `PROJECT.json`. Not
listed there, for being variations of a listed one: the two parallel reads of
document pages (`…/durable-sync/service.ts:482`); `reconcileStorage`, which sums
sizes while uploads complete (`…/admin/service.ts:199`); torn receipts of the
deletion ledger; the key taken over from a removed default library.

## 2. Modules

Every module models whole handlers: what one transaction does is one action,
what one *statement* does where nothing but a statement is atomic, and between
two awaits anything may happen. Definitions carry the source's names; the lines
each stands for are in `PROJECT.json` ("map"). Beside some definitions there is a
second one whose comment begins "Fault:": the same step with a plausible bug,
which shows that the properties notice it.

### 2.1 `SyncCommands` – the commands of one workspace

All of `#apply` (service.ts:619-1428), and opening and closing a bootstrap
session. Variables are the tables: `objects` and `documents` are functions from
ids to the current row, the history tables are sets of rows. Each branch of
`#apply` is an action of the whole transaction:

| command | actions |
| --- | --- |
| upsert-object | `UpsertObject`; `UpsertSameName` when the name collides (the object *and* a conflict are written) |
| delete-object | `DeleteObject`, `DeleteTombstone` (already deleted), `DeleteVersusEdit`, `DeleteVersusEditAgain` (conflict exists) |
| delete-subtree | `DeleteSubtree`, `DeleteSubtreeVersusEdit`, `DeleteSubtreeAgain` |
| initialize-document, append-update | `AppendUpdate`, `AppendAgain` (the update id is known) |
| commit-checkpoint, create-conflict | one action for each outcome |
| resolve-conflict | `ResolveDismiss`, `ResolveBaseline`, `ResolveContent`, `ResolveDelete`, `ResolveAgain` |
| bootstrap, release | `OpenBootstrap`, `CloseBootstrap` |

A command that throws rolls back and changes nothing: it is a guard that fails.
`delete-subtree` deletes the objects in some order of decreasing depth, one
sequence each: the order within a depth is a nondeterministic choice.
Ciphertexts, hashes, key versions, blob references and quotas only add reasons
to refuse and are left out.

### 2.2 `CommandLedger` – what surrounds a command

`commands` and `#command`: a request looks its command up by id and hash, applies
it and writes the ledger row in one transaction, or fails and records the
rejection in a second one (`#recordRejectedCommand`), which may itself fail.
Retries, two bodies under one id, a command that another one requires, a
lowered protocol limit, a dump and a restore of the database under a new epoch.

### 2.3 `SyncFeed` and `EventDelivery` – the log as devices read it

`EventDelivery` is the promise: a history, and for each device the beginning of
one. `SyncFeed` is the mechanism: `session` with its three reads in any order,
`events` with its two, `acknowledge` with acknowledgements that are delayed,
reordered and repeated, bootstrap sessions with limited places and timeouts,
maintenance that removes events and cursors in two statements, and the restore
of an earlier backup under a new sync epoch. The device follows
`docs/client-protocol.md:82-150` (external). `Delivered` is the refinement of
`EventDelivery`, with the copy each device stores as the mapping. Events carry
the epoch they were written in, so an event of a history that a restore has cut
differs from the one that later takes its sequence.

### 2.4 `MailOutbox`, `JobQueue` and `LeasedWork` – work under leases

`LeasedWork` is what a durable queue promises about an item: tried at most a
budget of times, at most one effect per try, recorded as done only if it had
one, and never taken up again once settled. `MailOutbox` and `JobQueue` are the
mechanisms; each *statement* is an action:

| code | actions of `MailOutbox` |
| --- | --- |
| `runOnce`, `isStillDeliverable` (`outbox-worker.ts`) | `RunOnce`, `CheckToken` |
| `claim` (`outbox-service.ts`) | `GiveUpExpired`, `EraseGivenUp`, `Claim`, `NothingToClaim` |
| `deliver`, `discard`, `fail` | `Resolve`, `Send`, `MarkSent`, `Discard`, `Fail`, `Erase`; a report (`Report`) counts only while the row is `sending` and names the worker |
| enqueuing, tokens and invitations, the administrator | `Enqueue`, `SpendToken`, `RevokeInvitation`, `CancelPending`, `EraseCancelled` |
| the maintenance run | `EraseExpired`, `GiveUpSwept` |
| environment | `LeaseExpires`, `BackoffEnds`, `BodyExpires`, `StatementFails`, `Crash`, `RequestDies`, `Freeze`, `Unfreeze` |

A lease, a back-off and the life of a body are booleans that time ends at any
moment. A process that crashes does not come back: a new one has a random
workerId. In `JobQueue` a process may poll twice at once (`#running` is set after
an await), two processes may run different versions of the code, and two
callers may enqueue one key with different contents.

### 2.5 `BlobUpload`, `OfflineBackup`, `AccountDeletion`

`BlobUpload`: every step of creating, filling, completing (with its lease) and
aborting an upload, the reservation it makes and settles, the removal of
expired uploads and the collection of unreferenced blobs. `reserveBlob` is one
step for an account with a storage limit (`HasLimit`), whose usage row it locks
first, and two for one without (`Reserve`, `Take`): it reads the reservation
without a lock and updates it by its id. Who settles a reservation that is
marked in the same moment settles nothing (`Outrun`, `PassedOver`).
`OfflineBackup`: a package is written, checked and imported while the mode
changes. In `AccountDeletion` an account is deleted, held, released, purged step
by step, with a receipt outside the database that a restored one is confronted
with. Whether the check of a stored receipt accepts the ids of cases is a
constant, `IdsAccepted`: the expression in the code accepts none (section 6).

### 2.6 `AuthSessions`, `Administrators`, `Registration`, `Restore`, `RuntimeConfiguration`

`AuthSessions`: the sessions of one account. A device session is made in two
transactions, a web change of the password in three; refresh is one. The second
one of a device session, `#issueSession`, is two actions: it locks the account and
reads its device without a lock (`ReadDevice`), then inserts the token
(`IssueSession`); whoever locks the account waits in between (`Unlocked`), a
revocation of the device does not. Changes of
the password and of the credential epoch go together, so the epoch also names
the password of its time; every request remembers the epoch of what it has
verified (`proof`) and what it will compare with the row (`expect`).
`Administrators`: installation, setup credentials, repair, and what
administrators do to each other; a start converts an older installation
(`Converted`) and then gives it a configuration, or looks whether it still has an
administrator (`Initialized`), never both. `Registration`: invitations used, replaced and
revoked while registrations are under way. `Restore`: credentials, work and
reviews over restores of a database. `RuntimeConfiguration`: two processes, an
editor, notices.

### 2.7 `Workspaces`, `WorkspaceMembers`, `Realtime`

`Workspaces`: creation under a limit, adoption as the default, removal, recovery
and final removal; key versions and envelopes. Whether `WorkspaceService` has a
`UsageService` is chosen by the initial state (`counted`); the administrators'
service always has one, and `ReconcileUsage` recomputes. The final removal
looks at the oldest candidates of all accounts (`FindExpired`: `Batch`,
`ahead`), and once it has the locks, at holds and deletion cases again
(`StillExpired`). `WorkspaceMembers`: capabilities that are read, and used later
to invite, update, remove; `held` remembers what the actor of a request held
since it was checked. `Realtime`: the sockets
of one process – authentication, subscriptions, cursors, rechecks, both timers.

### 2.8 `SupportCases`, `RiskRestrictions`, `ConnectPage`, `ConnectCode`

`SupportCases`: a customer and staff write to cases that are purged with the
account; a message carries the turn it is listed by. `RiskRestrictions`: staff and administrators place, rewrite and revoke
restrictions, each under a lock of its own, while a session is issued.
`ConnectPage`, `ConnectCode`: the web page that makes a pairing link and polls it,
and the one that takes a code, with late answers, pages that were left and lost
requests. What the effects of the page know is the state of its last rendering
(`rendered`): an operation that is awaited, the countdown and the clean-up of a page
that is left may each see another pairing.

### 2.9 Model-checking modules

An `MC*` module extends a component, or instantiates several, and adds a
variable `scenario` (`queue`) that the initial state chooses and nothing changes:
a run is the *sum* of its scenarios and not their product. The variables of
components that a scenario does not move stay at their initial values. Scenarios
differ in the bounds, which an instance with smaller ones overrides. Each
property of a run is a conjunction, whose parts are listed in section 3. Symmetry
is declared for interchangeable ids in `MCAccess` only, whose properties treat
them alike.

What a component promises is stated once. Where its `MC` module extends it, the
property is in the component; where several components share an `MC` module, it
is in a small module that instantiates the component and that both the `MC`
module and the module of proofs extend: `LedgerPromise`, `QueuePromise`,
`BackupPromise`, `DeletionPromise`, `AccessPromises` (invitations, administrators,
the connecting page), `RestorePromise`, `SettingsPromise`, `LibraryPromises`
(members, sockets). So a run and a theorem speak of one definition.

## 3. Runs

Twelve runs: six that must pass, and six that show a disagreement between the
code and what the repository says of it (section 5). Times are minutes with two
workers.

| run | module, configuration | scenarios and bounds | time |
| --- | --- | --- | --- |
| `sync_commands` | `MCSync`, `MCSync.cfg` | 3 objects, 1 document, 2 update, checkpoint and conflict ids; 5 commands per scenario (6 in `docs`), revisions and updates up to 3, sequence up to 5; `tree`, `docs` (with a bootstrap session), `names`, `assets`, `ledger` (batches of 1, 2 and 1 commands sent 1, 2 and 1 times, one incident, one restore) | 1:50 |
| `feed_catch_up` | `MCSyncFeed`, `MCSyncFeed.cfg` | 1 device, 1 place; `catch_up`: 2 events, clock 3, 1 interruption, retention 2, patience 1, 1 row per removal, page size 1, lag 1; `restored`: 1 restore, retention 0, 2 rows per removal, lag 2 | 1:45 |
| `queues` | `MCQueues`, `MCQueues.cfg` | `mail`: 1 invitation, 2 processes, 2 attempts, 1 fault, 1 freeze; `enqueue`: 2 callers of one key with different contents; `jobs`: an old and a new process, 3 runs, 2 incidents | 2:25 |
| `blobs` | `MCBlobs`, `MCBlobs.cfg` | `metered` (with a storage limit): 2 requests, 2 uploads; `mixed` (with one): 2 contents; `settle` (without one): 1 content, 1 incident, fair steps; `backup`: 2 packages, 3 switches of the mode, 1 restore; `deletion`, `refused` (no receipt passes the check, and no mishap): 2 cases, 1 mishap, 1 restore; `cases`, `desk`: 3 requests to support cases; `denied`, `limited`: 2 tasks, 2 restrictions | 3:15 |
| `access` | `MCAccess`, `MCAccess.cfg` | sessions: `password` (2 tokens, 2 changes), `refresh` (4 tokens, 1 incident), `grants` (2 tokens, 1 change, 1 incident); accounts: `first`, `admins`, `invited` (2 uses); restores: `restored` (3 credentials, 2 seconds, 2 cutoffs), `reviewed`, `requeued`; `settings` (2 processes, 2 revisions, 1 mishap); connecting: `pairing`, `undone`, `pages` (2 links), `typing` (2 codes, 4 requests, 1 loss) | 3:45 |
| `workspaces` | `MCWorkspaces`, `MCWorkspaces.cfg` | `lifecycle` (3 workspaces, limit 2, 1 failure), `operated` (1 workspace, 2 acts of administrators, holds, a deletion case, batches of 1 with another account's candidate ahead), `keys` (2 versions), `members` (an owner and 2 people), `cursors`, `reconnect`, `followers`, `waking`, `authority`, `page` | 2:30 |
| `sync_assets_bound`, `sync_delete_edit` | `MCSync`, scenarios `assets`, `docs` | as `sync_commands` | violated |
| `feed_two_writers` | `MCSyncFeed`, `catch_up` | two open transactions, 3 events | violated |
| `mail_frozen` | `MCQueues`, `mail` | no faults, one freeze | violated |
| `blob_collected` | `MCBlobs`, `mixed` | as `blobs`, without usage accounting | violated |
| `restore_review` | `MCAccess`, `reviewed` | as `access` | violated |

**What the properties of the passing runs say.** A property is a conjunction of
parts; each part speaks in the scenarios of its component.

| property | parts |
| --- | --- |
| `DocumentRecoverable` | every update still needed to rebuild a document, or an open snapshot of it, is stored |
| `OneTree` | `HierarchySound` (no orphan, no cycle), `SameNameRecorded` (active siblings share a name only with a conflict that records it) |
| `ViewsAgree` | `VersionHistory`, `ThreeViewsAgree` (row, history and log agree), `ConflictsMatchEvents` |
| `BootstrapExact` | `BootstrapReadable`, `BootstrapConflictsFixed`, `SnapshotPlusEventsIsCurrent` |
| `CommandsWhole` | `EventLogComplete` (one event per sequence), `CommandsAtomic` (a command's events are one run of the log and what the ledger says of it) |
| `LedgerSound` | `EffectsAsRecorded`, `RequiredApplied`, `ToldIsTrue` of `CommandLedger` |
| `Delivered`, `MCCaughtUp` | refinement of `EventDelivery`; a device that keeps asking ends with everything |
| `CursorsKept` | `AcknowledgedHeld`, `AcknowledgedMonotone`, `BootstrapJustified` |
| `BodyKept`, `ReportsOwnAttempt`, `AtLeastOnceInBudget` | mail: no body erased while it may be needed; a report changes only the attempt it is about; refinement of `LeasedWork` |
| `JobsSound`, `JobsHandled`, `QueuesDrain` | `WaitingHasBudget`, `EnqueuedOnce`, and the type of the jobs; `AtLeastOnceInBudget` (refinement of `LeasedWork`), `UnknownWorkStaysQueued`; `EverythingSettled`, `BodiesErased`, and every job is settled |
| `UploadsSound`, `CountedOnce`, `UploadsSettle` | `ReadyHasBytes`, `OneCompletion`, `UsageBalanced` (nothing reserved, committed or ready goes uncounted; with a limit it is counted once, which `CountedOnce` says of the scenarios that have one); `ReadyUntilCollected`, and every upload is completed or removed |
| `BackupsComplete` | `ReferencedStored`, `ImportedRegistrable`, `GenerationsAhead` |
| `DeletionSound`, `DeletionProceeds` | `OpenLibraryWhole`, `ClosedWhileDeleting`, `CompletedHasReceipt`, `DeletedStaysDeleted` (no database is served in which a deleted account is back: a start replays the receipts or refuses), `LedgerMatchesReceipts`; `HoldsPreserve`, and a deletion under way is concluded |
| `StaffSound` | cases: `OneCasePerKey`, `WaitsForTheOther`, `PurgedIsClean`, `FencedTakesNothing`; restrictions: `AnswersStand`, `IssuedUnrestricted` |
| `LiveTokensGood` | `LiveTokensCurrent` (a token that is not revoked is of the present credential epoch and the only one of its device, which is active unless it was revoked while the token was issued), `LiveTokensProven` (whoever asked for it knew the present password) |
| `HonestStaySignedIn` | `NotTakenForReuse` (an installation that keeps its request id is never taken for a thief), `OneSessionPerGrant`, `WebRenewed` (no earlier sign-in survives the end of the web sessions) |
| `InvitationsHonoured` | `InvitationsAdmitTheirLimit`, `UsesAreAccounts` |
| `RestoredSafely` | `OldCredentialsRefused`, `RestoredWorkHeld`, `ReviewedUnlessHandled` |
| `AdministratorsKept` | `AdministratorsRemain`, `OneFirstAdministrator`, `NeverLockedOut` (an installed instance has an active administrator or can be repaired, from its second start on where the first only configured it) |
| `ConfigurationSound` | `NothingOverwritten`, `StoredLoads`, `QuietMeansTaken` |
| `ConnectPageSound` | `NoSpareLink` (a link that was given out and works is shown, saved or being deleted), `ConnectedIsTrue`, `OfTheFieldTyped`, `OutcomeIsTrue`, `WaitsForSomething` |
| `LibrariesSound`, `LibrariesSettle` | `ActiveCounted`, `EveryKeyOpens`, `RemovalAlone` (nothing is recovered, held or in an open deletion while its final removal runs); `DefaultStays`, and an expired library that nothing stands in the way of is finally removed |
| `MembershipSound` | `NothingOutOfThinAir` (whatever a member or an invitation comes to hold was handed on by the owner, or by one who held all of it himself during the request that did it), `BackToOwner` (so nobody holds what the owner gave to nobody), `LinkAdmitsOne` |
| `RealtimeSound`, `ConnectionsEnd` | `ClosedLeavesNothing`, `ShownIsPresent`, `PresentIsShown`, `FollowersMeet`, `QuietMeansCurrent`; a socket whose access was lost is closed and a vanished peer's cursor is cleared; `PendingEnds`, `BusyEnds` of the page |

`TypeOK` / `MCTypeOK` is the type invariant of each run. For each property
`PROJECT.json` ("mutants") names one definition with a plausible bug that breaks
it; the other "Fault:" definitions beside the code break the other parts.

**Why the bounds suffice.** Five commands reach every outcome of every command,
including the ones that need a history (a revival needs create, delete, upsert;
delete-vs-edit needs create, initialize, append, delete, and a resolution comes
after that: six). Two folders and a note are the least tree with a cycle to avoid
and a subtree of depth two. Two updates and two checkpoints let a checkpoint cover
part of a document and a second one replace it. Ids are used in the order of
`CommandIds` (`IdsInOrder`): which id a command has makes no difference. In the
ledger, a batch of two with a required command, sent twice while a second request
reuses an id, meets every combination of applied, rejected and lost. In the feed,
two events with page size 1 make a page that ends in the middle; the retention
window, the longest request and the clock let an event expire while a request is in
flight, and no event expire before a request of its own age ends. One device is
enough: devices share nothing but the places for bootstrap sessions. Messages share
nothing at all, each statement that touches several treats them one by one; two
attempts are the least budget with a take-over, and two processes let one report
late on what the other has taken over. Two uploads of one blob are what completion
leases and deduplication are about. Four refresh tokens let a rotated token be
replayed after its successor was rotated, two credential epochs let a request
straddle a change that another straddles. A workspace limit of two with three
workspaces lets one be refused, removed and recovered past the limit. `Creatable`, `Opened`
and `MaxOpenings` bound the workspaces, sockets and pages of a scenario. In the
passing run the account's usage is counted; the service without a `UsageService`
takes the same steps but those of the reservation, and is covered by the proofs
(`Metered` is any Boolean) and met by `blob_collected`. In `operated`, one workspace
is enough for what stands in the way of a removal, because it competes with
candidates of other accounts, which `ahead` counts. More of each
is what the proofs of section 4 are for.

**Assumptions on time.** `Tick` of `SyncFeed` may not leave a transaction or the
two reads of a pull open longer than `Patience`, and the retention period is at
least twice as long: days against seconds. Without it a pull that reads the latest
sequence, sleeps for ninety days and then reads the rows would also miss events.
Everywhere else time is a nondeterministic step: a lease, a back-off, an
expiry ends at any moment, before or after whatever it races with.

**Fairness.** All of it is weak. `feed_catch_up`: the device goes on with its
request loop (`Request`), and an abandoned bootstrap session times out
(`ExpireSnapshot`: expired sessions are deleted on every request, service.ts:382).
Nothing obliges commands, maintenance or acknowledgements to happen, and
interruptions are bounded. With more devices than places, a device may be refused a
session again and again (`bootstrap_capacity_exceeded`); the code has no queue and
catching up would need strong fairness, which it does not justify. `queues`: the
timer of every live process runs and the provider answers, leases, back-offs and
bodies end, the maintenance run comes round, the operator returns to the normal
mode; a process may crash while another lives, and requests may always die
half-way. `blobs`: requests of the `settle` scenario take their steps, leases and
uploads expire, maintenance comes round; deletion requests that have begun are
carried on by the maintenance run. `workspaces`: maintenance comes round (that it
ends is promised to a library which, from some moment on, nothing opposes:
`Unopposed`), the
recheck timer of a socket (every 5 s) and the end of its query, and the
connecting page's own timers. `access` needs none: all it says is safety.

## 4. Proofs

Eight modules of theorems. A theorem holds for every value of the constants that
its hypotheses admit. `SyncCommands`, `SyncFeed`, `MailOutbox` and
`AuthSessions` declare theirs as `ASSUME`s, which TLC evaluates on every run that
extends the module. A component that the `MC` modules only *instantiate* has no
`ASSUME`: what its proof needs is an `ASSUME` of the theorem, and says no more
than that bounds are numbers, that null is no id, that a job may be tried once,
that a batch is not empty, and which beginnings a database has (`BatchesOK`,
`BoundsOK`, `JobsAssumption`, `WorkspacesAssumption`, `RealtimeAssumption`,
`BlobsAssumption`, `BackupBounds`, `DeletionBounds`, `RegistrationBounds`,
`BeginningsOK`, `RevisionsOK`, `NullOK`, `PagesOK`, `CodesOK`, `SupportOK`); every
configuration of section 3 satisfies it. A module of proofs also holds those of the
components beside its own, as instances: `Ledger!`, `Queue!`, `Settings!`,
`Backup!`, `Invited!`, `Admins!`, `Risk!`, `Pairing!`, `Typing!`, `Deletion!`,
`Restores!`, `Support!`, `Sharing!`, `Channel!`.

| theorem | module | says |
| --- | --- | --- |
| `TypeCorrect` | `SyncCommandsProofs` | `Spec => []TypeOK` |
| `LogComplete`, `CommandsCorrect` | | `[]EventLogComplete`, `[]CommandsWhole` |
| `ViewsCorrect` | | `[]ViewsAgree` |
| `DocumentsRecoverable`, `BootstrapCorrect` | | `[]DocumentRecoverable`, `[]BootstrapExact` |
| `OneTreeCorrect` | | `[]OneTree` |
| `LedgerCorrect` | | type and all of `LedgerSound`: `EffectsAsRecorded`, `RequiredApplied`, `ToldIsTrue` |
| `FeedTyped` | `SyncFeedProofs` | `Spec => []TypeOK` |
| `AcknowledgementsMonotone`, `BootstrapsJustified` | | the action properties `AcknowledgedMonotone`, `BootstrapJustified` |
| `InOrderDelivers`, `InOrderKept` | | `Spec /\ []InTimeOrder => Delivered` (the refinement of `EventDelivery`), `=> CursorsKept /\ []NoSilentGap` |
| `OneWriterDelivers`, `OneWriterKept` | | `Spec => Delivered`, `Spec => CursorsKept` where transactions do not overlap |
| `MailTypeCorrect`, `BodiesKept`, `OwnAttemptReported`, `ImplementsLeasedWork` | `MailOutboxProofs` | type, `BodyKept`, `ReportsOwnAttempt`, the refinement of `LeasedWork` |
| `ConfigurationCorrect`, `ReplacedWasSeen`, `SettingsHold` | | type, `StoredLoads` and `QuietMeansTaken`; the action property `NothingOverwritten`; together `ConfigurationSound` |
| `JobsCorrect`, `UnknownWorkKept`, `JobsImplementLeasedWork`, `JobsAreHandled` | `JobQueueProofs` | `JobsSound`, type included; an action property, and the refinement of `LeasedWork`; together `JobsHandled` |
| `UploadsCorrect`, `ReadyStays` | `BlobUploadProofs` | type and all of `UploadsSound`; the action property `ReadyUntilCollected` |
| `BackupsCorrect` | | type and all of `BackupsComplete` |
| `SessionsTyped`, `LiveTokensCorrect`, `HonestCorrect` | `AuthSessionsProofs` | type, `LiveTokensGood`, `HonestStaySignedIn` |
| `InvitationsCorrect` | | type and all of `InvitationsHonoured` |
| `AdministrationCorrect`, `AdministratorsStay`, `OneIsFirst`, `AdministratorsAlways` | | type and `NeverLockedOut`; the action properties `AdministratorsRemain`, `OneFirstAdministrator`; together `AdministratorsKept` |
| `RestrictionsCorrect` | | type, `AnswersStand` and `IssuedUnrestricted` |
| `ConnectPageCorrect`, `CodesCorrect`, `ConnectingCorrect` | | type and the properties of the page that shows a link; of the one that takes a code; together `ConnectPageSound` |
| `DeletionCorrect`, `HeldIsKept` | `AccountDeletionProofs` | type and all of `DeletionSound`; the action property `HoldsPreserve` |
| `RestoreCorrect` | | type and all of `RestoredSafely` |
| `SupportCorrect`, `FenceHolds` | | type, `OneCasePerKey`, `WaitsForTheOther`, `PurgedIsClean`; the action property `FencedTakesNothing` |
| `WorkspacesCorrect`, `DefaultLibraryStays` | `WorkspacesProofs` | type and all of `LibrariesSound`; the action property `DefaultStays` |
| `MembershipCorrect` | | type and all of `MembershipSound` |
| `RealtimeCorrect` | | type and all of `RealtimeSound` |

The strengthenings below were checked with TLC, as invariants of the component
alone, before they were proved.

### 4.1 Commands

*Types.* `TypeOK` is not inductive alone: closing a conflict writes an
event about its object, which is well typed only if there is one. The inductive
invariant adds `ConflictsNamed`. There is a lemma per row builder, per operator
that returns a table, and per action; `CommandCases` splits a command into its
outcomes.

*The event log.* Every action advances the sequence by *n* and adds one event at
each of `latestSequence + 1 .. latestSequence + n`. For `delete-subtree`, whose *n*
is the size of the subtree, a deletion order is shown to be a bijection
(`FiniteSetTheorems`). `CommandsAtomic` relates the events of a command to the
outcome the command had.

*Views.* What is kept about an object is its row, its versions and its
events, and an action either leaves all three alone or adds one version and the
event that shows it (`delete-subtree` does so for each member). `ViewsAgree` is
inductive with the type and `EventLogComplete`.

*Documents and bootstrap.* `DocumentRecoverable` needs `UpdatesCounted` (no update lies
beyond the document's latest sequence, and checkpoint ids are unique): without it
an appended update could collide with one already there. `BootstrapExact` says
that the snapshot a session fixed, read back from the histories, followed by
the events after it, is the current state: a session's part of the history may
not change, so every action is shown to write beyond the session's sequence.

*The tree.* The ancestors of an object and the subtree below it are defined
in `SyncCommands` as the least closed sets, so that no induction is needed: to
show that an object is *not* above another one, it is enough to exhibit a closed
set without it. The inductive invariant is `OneTree` with `AbsentBlank` (a conflict id
without a row reads as no same-name conflict).

### 4.2 Ledger

What is said of the ledger is said of the database *and of the dump* an operator may
go back to (`EffectsRecorded`, `RequirementsHeld` of `log` and of `saved`): a restore
exchanges the one for the other. What a client was told is compared with the
database of the epoch it was told in, so a request may not carry an epoch that has
not come (`EpochsPast`).

### 4.3 Mail, configuration and jobs

One inductive invariant carries all four theorems: `TypeOK`; a worker's attempt is
one its row has counted (`ClaimsCounted`); no two workers are in the same attempt
(`AttemptsDistinct`), whence an attempt is accepted at most once and never before
it began (`NoneBeyondAttempts`, `AcceptedBySend`); the worker a row names is in the
attempt the row counts (`HolderInAttempt`), whence a late report does nothing; and
whoever erases has seen the message settled (`ErasedLate`), whence `BodyKept`. All
actions but `Claim` and `Send` leave attempts alone and let a worker keep or drop
what it holds (`RowsSettle`, `WorkersMove`, `SendsKept`), so most of the invariant
is shown once for all of them. The refinement maps a message to an item of
`LeasedWork`; every step is a step of it or a stutter.

`JobInv` follows the same pattern with other ends: a run reports only on an attempt
its row has counted, of a job its process can handle (`RunsSound`); an attempt has an
effect only once it has begun (`DoneInAttempts`); and whoever was told of a job was
told of the row that is there, with their contents, and one of them only that they
created it (`ToldOfRow`, `OneCreated`), whence `EnqueuedOnce`. The refinement needs
no more than this.

*Configuration.* Revisions only grow, and two readings with one revision are one
reading (`RevisionsPast`), so an update that finds the revision it expects replaces
what its editor saw. What an update stores was judged complete (`JudgedLoads`), except
by a copy older than the row, which `misjudged` remembers. And whoever does not have the
row will hear of it: a notice is on its way, a reading that began late enough is, an
announcement is to come, or a mishap has lost one (`WillHear`), whence `QuietMeansTaken`.

### 4.4 Sessions, invitations, administrators, the connecting page

`LiveTokensGood` speaks of rows only, but a row is written by a request that checked
something earlier. The invariant therefore says what a request *holds*
(`CallsSound`: one case for each kind of request and how far it is, in `RowSound`),
that the request which has read the device and not yet inserted its token is alone, and
the account still as it read it (`LockSound`: the device may have changed, and `late`
remembers the tokens of which it has), who owns a token (`TokensOwned`), who holds a
grant and that it has made no session yet (`GrantsSound`), and that only an installation that lost its request id asks
twice with one token under different ids (`AskedOnce`, `~reused`); `WebRenewed` is
part of it. The steps are
classified by what they do to the tables – fell a set of tokens (`Fells`), insert a
fresh row, rotate one – and each part of the invariant is shown once per class.

*Invitations.* Each use is an account of its invitation and is counted
(`UsesCounted`). An invitation that is replaced was never used, is closed, and has one
successor (`ReplacedOnce`): two chains of replacements from one invitation therefore
agree where both go on, so that only its last member was ever used, and the accounts of all of
them are the accounts of one.

*Administrators.* A request is admitted before its lock is taken and writes under it,
and different operations take different locks (`LocksExclude`). The heart of `AdminInv` is `RolesReserved`:
the rows a request holds are held by no other, and if it is to take away an
administrator, there is another one it does not concern. `StillCalledFor` says the
same of setup credentials and repair; with `EmptyBefore` and `NobodyRules` it makes
the first administrator the only one of its kind.

*Restrictions.* A key has one open restriction (`OneOpen`) and a lock one holder
(`OneHolder`); a request under way knows the rows it will rewrite (`TaskSound`), so
what it answers stands (`AnswersStand`). That staff and administrators take different
locks does no harm, because both meet on the account's row.

*The connecting page.* `PageInv` is about links that work and are not shown. A link
that may still connect is `Lasting`; it is lost (`Lost`) when it is astray, or was
created and is lasting no more, which no step ever undoes (`Onward`). Whatever the page
was told is over is lost (`AnswersTrue`), so what it shows is pending or lost
(`ShownLive`), and so is what it showed at its last rendering, which its clean-up goes
by (`RenderedSound`). An operation of the page deletes the link that was there and
makes its own only once that is lost (`OperationsSound`), whether its page is still
open or not. `CodeInv` says
of the page that takes a code that its loads are numbered in their order and the last
is of the field (`LoadsFollow`), that a decision is about what was then shown
(`DecisionsFollow`), and that an outcome is the server's (`AnswersSettled`, `OutcomeNamed`).

### 4.5 Blobs and backups

`BlobInv` is unconditional in who owns what (`RowSound`, `CallsSound`, `IdsFresh`), in the
usage and in `OneCompletion`. `UsageExact` says two things of the usage: nothing that is
reserved, committed or ready goes uncounted, which holds always; and with a storage
limit (`HasLimit`) the counters are what the reservation says. The rest, that a request finds its row and
that the bytes are those it has read, holds until the row of an upload is removed under
the request that completes it, or after it (`Undisturbed`; `undercut` remembers it).
`ReadyHasBytes` and `ReadyUntilCollected` name this exception themselves.

`BackupInv` says of each package where its writer is and what its dump shows
(`WriterSound`), that it has all its dump refers to once it is signed (`PackageSound`),
and, as long as nobody has changed the mode under the writer, that nothing it reads
has changed (`WriterAlone`): copying may take any number of steps because the list of
what is left, with what was copied, covers the store. `RestoredSound` and `Ahead`
carry this over a restore.

### 4.6 Feed

`SyncFeedProofs` has two invariants. `BaseInv` holds whatever the writers do: stored
events are entries of the history, the history since the last restore is of one
epoch and a snapshot holds all older entries, a request carries the epoch it was let in with,
a device of the present epoch is not ahead of the workspace, transactions and
readers are within `Patience`, and what a session request has read still bounds what
is there (`AnswersCurrent`). From it follow the type, that acknowledgements do not
go back, and that a bootstrap is justified although the three reads of `session`
are not of one moment.

`OrderInv` needs the log to be in the order of `created_at` (`InTimeOrder`), and it
needs it in one place only: then what retention removes is the beginning of what is
stored, so no event is missing between a stored one and the last (`Gapless`).
The rest does not mention the order: what a reader has not counted is still there
when it reads the rows (`ReadersCovered`, which is where `2 * Patience <=
Retention` is used), so a page goes on from the cursor without a hole; a device's
copy is the beginning of the history of its epoch (`DevicesFollow`); rows of
acknowledgements, those in the backup too, are borne out by the copies
(`RowsHeld`); and a snapshot being copied is no step back (`SnapshotsAhead`). In the
refinement a snapshot is an `Advance` if the device's copy is a beginning of it and
else a `Rejoin`: that the copy is then not a beginning of the history at all holds
because what follows the snapshot was written in the present epoch and what a
restore has cut was not.

`InTimeOrder` is a hypothesis on the behaviour, not on the constants: overlapping
transactions can break it, and then `NoSilentGap` fails (`feed_two_writers`). Without overlap
(`\A t, u \in Transactions : t = u`, one open transaction per workspace, as in the
passing run) it always holds (`OneWriterInOrder`), which gives the theorems without it.

### 4.7 Deletion and restores

Receipts and the age of a case are outside the database and are what no restore takes
back. `DeletionInv` therefore states one predicate, `Sound(d, age, receipts)`, of the
served database *and* of the copy: at most one case is open and everything of the account
is closed for it (`Closing`), nothing follows a term that has not come (`AfterTerm`),
and what is settled has its receipt (`Attested`). A restore then needs only
`ReceiptsSound`, that the copy's ledger is not at odds with the receipts. A removal
under way keeps holds and cancellations out (`WorkerSound`), whence `HoldsPreserve`.

`RestoreInv` is about the time a credential was issued: `Stamped` bounds its epoch, its
second and the cutover, `OldOnesCut` says that whatever was issued before the last
cutover is refused by the fence, also before the rows are removed (`OldRowsGone`).
No server runs on a database that is not reconciled (`ServedOnlyReconciled`). Accounts
that are not restricted after a restore were reviewed, or handled by an administrator
before the backup (`ReleasedByReview`, `ByAdministrators` of the database and of the
backup), which is the exception `restore_review` is about. Both hold whatever the check
of a stored receipt accepts (`IdsAccepted` is any Boolean): a replay that the check
stops serves nothing.

*Support cases.* A customer's transaction that is past its checks has the open account
for itself, and what it found of its key is still so (`CustomerAlone`): that is what makes
the case of a key one, and what the fence waits for. Keys that were named are those of
messages that were there (`NamedIsThere`), and between the two statements of a purge
nobody but staff is in a transaction (`PurgeUnderWay`).

### 4.8 Workspaces, members, sockets

`WsInv` adds to the properties only what the final removal has locked (`PurgeHolds`: its
workspace stays removed and expired, no hold and no open deletion comes; `RemovedGone`):
everything else is one statement, and the proof is about counting the active ones
(`FiniteSetTheorems`), where they are counted at all (`counted`). Among members, what a
request goes on with its actor held at some moment since the request was let in
(`RequestsSeen`) and the owner had given (`RequestsGiven`); an open link has let in
nobody, any other at most one (`AdmittedOnce`). `NothingOutOfThinAir` is a property of
steps and follows from these.

For sockets, `InRoom` ties the room to the sockets that were authenticated and whose
end was not handled, in spite of the awaits between; `ShownByOthers` is the converse of
`PresentIsShown`; and `Waking` says of every client that has not pulled everything that
it is about to, that a notice is on its way, or that one was lost. Most actions only
move a socket towards its end (`MovesOn`), which is shown once for all of them.

### 4.9 What is only model-checked

Liveness and everything that needs `ENABLED` is out of the prover's reach:
`MCCaughtUp`, `QueuesDrain`, `ConnectionsEnd`, and the leads-to parts of
`UploadsSettle`, `DeletionProceeds` and `LibrariesSettle`. `StaffSound` puts the results on
support cases and on restrictions together, which are theorems each of its own; and the
type invariants of the runs that consist of scenarios (`MCTypeOK`) are those of their
components, which are. The runs that refute are about the code as it is: nothing is proved
of them.

## 5. Findings

* `sync_assets_bound` – `delete-object` refuses to delete an asset in use ("An asset
  cannot be deleted while a current object references it"); `resolve-conflict`
  with `deleteObject` and `delete-subtree` do not look.
* `sync_delete_edit` – closing a conflict by deleting checks the object revision,
  which document updates do not advance; the specification document promises
  that a concurrent edit survives.
* `feed_two_writers` – `created_at` is the start of the transaction, the sequence is
  handed out later under a lock; retention by the first can punch a hole into
  the second, and `events` only looks for a gap before the first row of a page.
* `mail_frozen` – the worker reads the maintenance mode once, before it claims;
  a run under way when the operator freezes delivery still claims and sends.
* `blob_collected` – maintenance chooses unreferenced blobs in one transaction and
  deletes them later without looking again; a command accepted in between refers
  to a blob that then disappears.
* `restore_review` – the review restriction a restored account must pass is not
  inserted when the backup holds an administrator's restriction of the same kind
  that was never revoked, even one whose time is over.

## 6. What the models assume, and where the code allows an exception

The properties above are stated with these exceptions: each is something the code
does that the property's name alone would not lead one to expect.

**Ledger.** A rejection that could not be recorded may be followed by an
application; a lost capability or a lowered limit answers "rejected" for a command
that was applied. Maintenance removes ledger rows long after the last retry.

**Sessions.** Some paths issue a session without comparing the epoch
(`changePassword`, `auth/service.ts` about :405; `changeWebPassword`,
`routes/web-auth.ts:124`); a log-out may race with a refresh; a grant is used up
when its process dies between consuming it and making the session, or the
commit's answer is lost; authorizations belong to no account until approved, so a
reset leaves them. `#issueSession` reads its device without a lock
(`auth/service.ts:603-605`) and a revocation takes no lock on the account (`:521-531`,
`admin/service.ts:596-611`): a token may be issued on a device revoked in between. It is
of no use while the device stays revoked; a new sign-in on that device makes it active
again one transaction before it supersedes the token, and if its second transaction
fails, the token works. The model keeps these paths and the properties name them (`late`).

**Accounts and registration.** `assertAdmin` is checked before the lock is taken
(`admin/service.ts:618, :840`), and repair takes another lock than role changes;
the registration policy comes from a cache read before hashing, and
`setRegistrationPolicy` sends no `NOTIFY` (`invitations/service.ts:87, :202`); a
claimed invitation mail may be sent with a dead token; the CLI `maintenance` takes
no part in the maintenance mode. An instance installed before there was a runtime
configuration, which has lost its last active administrator, is given a configuration by
its first start and not looked at (`deployment/service.ts:60-68` returns before the
check of `:69-79`): it is served with no way to repair it until it is started again, or
a `setup` command looks. `NeverLockedOut` leaves that one start out.

**Restore.** The server is stopped during a restore, the restored database is not
served before it is sanitized, and `pg_restore` takes at least a second. An
administrator can revoke or rewrite a review restriction over HTTP
(`admin/service.ts:735, :757`), although
`docs/account-service/00-shared-foundation.md` forbids it; the setup token is
imported again at boot (`bootstrap/service.ts:23`), against
`docs/account-service/07-self-hosted-bootstrap.md:67`; markers are reconciled in no
order (`restore-fence/service.ts:15`).

**Configuration.** An update judged by a copy older than the row it replaces can
store what no server loads (`deployment/service.ts:89-91`); boot reads the row
before it listens; a process that dies between commit and notice tells nobody; an
older read landing last puts a stale copy back. Against `docs/operations.md:33`.

**Deletion.** Hosted services, not wired in `server.ts`; the maintenance run of hosted mode
is reached by `cli/maintenance.ts`. Nothing in `src` calls
`DeletionLedgerReplayService.reconcile`: the model runs it before a restored database
is served. The check of a stored receipt (`deletion-ledger-store.ts:65`) expects four
groups of digits where a UUID has five, so it accepts no receipt that the server has
written and `listReceipts` (`:51`) throws, although the replay is said to be "safe to run
on every boot" (`deletion-ledger-replay-service.ts:6-8`). A start that replays would then
fail as soon as there is one receipt: nothing is deleted again, and nothing is served
(scenario `refused`; with the check repaired, scenario `deletion`). What the properties
say of a server that does not replay is nothing. The runs take up one account: of
several, cases under way share the batches of 20 of the maintenance run, and those that
cannot go on stay first in them. `AdminService.restoreWorkspace` looks at neither the
fence nor the account's lock and is left out. A torn receipt file blocks its case for good
(`deletion-ledger-store.ts:35-40`); a replay between receipt and update leaves the
case `purging`; a cancellation brings back libraries removed before the request
(`deletion-service.ts:108`).

**Backups.** Servers are stopped before a backup (`docs/deployment/backup-restore.md`),
one writer at a time, file-system blobs, a signature is "signed" or not.

**Uploads.** No live completion outlives its lease of an hour (`LeaseExpires`).
`server.ts:170` builds `BlobService` without a `UsageService` and without a storage limit
(`Metered = FALSE`): as shipped, nothing is reserved. With a `UsageService` and no
limit, `reserveBlob` reads the reservation without a lock and updates it by its id alone
(`usage/service.ts:206-231`), so two retries of a released reservation count its bytes
twice, and the counters are only said not to fall short. A release that another request
has overtaken returns in silence (`:339-346`): the reservation may stay open, and
nothing expires it. `reconcileCurrent`, which counts again, is not modelled here.

**Support cases.** A staff reply under way between the purge's two statements
survives it (`maintenance/service.ts:504-510`), staff may write on detached cases,
messages are listed by `created_at` while the status follows the order of commits
(`crossed`), a key used to create cannot be used to append, a claim overrides
another's, nothing closes a case, and an account removed through
`DELETE /v1/web/account` leaves its messages (`dropped`). One snapshot per case.

**Restrictions.** Staff (`risk/service.ts:136-200`) and administrators
(`admin/service.ts:710-773`) take different advisory locks and meet on the account's
row. Revoking asks for a permission on a second pooled connection while it holds a
row lock (`:190`): as many revocations as the pool has connections wait for each
other. A write admitted before a restriction may finish after it. Two
administrators may restrict each other, and then no one can sign in anew.

**Sockets.** `presence.cleared` names only the device (`events.ts:397-415`); the
messages of one socket are handled in any order; a removed member's messages are
relayed until the recheck. The rate budget, the limit of 100 documents and presence
over several processes are left out.

**Workspaces.** The creation key of a removed default library is replaced by the
default key (`workspaces/service.ts:86`), so a repeated creation makes a second
library, against `docs/account-service/12-client-account-service-integration.md:266`.
`server.ts:165` builds `WorkspaceService` without the `UsageService` that `AdminService`
has (`:160`, `admin/service.ts:88`): the shipped counter of active workspaces is not
kept by creations and removals and only agrees with them after a reconciliation, which
`ActiveCounted` says by asking for `counted`. The final removal takes the 20 oldest
candidates of all accounts (`maintenance/service.ts:625`), and those it cannot remove –
held ones, which it only sees once it has the lock (`:653-656`) – stay first in the
batch and keep later ones waiting: `LibrariesSettle` is about a library that nothing
stands in the way of, that included (`Unopposed`). A removal that fails half-way
(`:674-694`) has erased bytes and leaves the row, and the library can still be recovered
without them; no property says otherwise. `AdminService.deleteWorkspace` protects the
default by `isDefault` (`admin/service.ts:584`, "Default workspace cannot be deleted"),
which only account-data has (`workspaces/service.ts:105, :213`): an administrator can remove the
default library, and `DefaultStays` is about the account's own removals.

**Members.** A request that read its actor's capabilities before they were taken away
may still hand them on (`collaboration-service.ts:97`): `NothingOutOfThinAir` says that
he held them during the request, not that he holds them at its end.

**Connecting page.** The clean-up of a page that is left goes by the pairing of its last
rendering (`device-connection.tsx:93-103`), so a link made since is neither deleted nor
saved; an operation that outlives its page saves its link if it is for the device at hand, for the next page
to show, and otherwise leaves one that was given to nobody; an exchange that fails after it consumed the pairing gives it
back when a poll may already have shown it as connected. `astray` collects exactly these
links, `NoSpareLink` lists them; a stale answer
is applied to the newer pairing until the effects run again; a lost answer or a
reload leaves a usable pairing nobody sees; a decision that ends after the code was
edited marks the old code; clocks of browser and server are taken to agree.

## 7. Not modelled, and why

* Cryptographic content, hashes and sizes: the server stores what it is given.
* Document update pages (`service.ts:482`), the retention of versions and
  tombstones, and requests that drain when the mode changes.
* Two-factor codes and step-up, billing, staff principals: `server.ts` forces
  self-hosted mode and wires none of staff, billing and support (the last is modelled
  all the same).
* Routes, parsing, rate limits, configuration of the process, errors,
  observability, API contracts: no state of their own.
* Storage drivers and the SMTP provider: reached through the interfaces the
  modules above use. Migrations: run once. The rest of the web console: presentation.
* The legacy `changes` and `operations` tables: nothing writes them any more.

## 8. Plan

Every component with a model has its theorems. What would come next are models of the
document update pages (`…/durable-sync/service.ts:482`) and of the retention of versions
and tombstones, which `SyncCommands` never removes.
