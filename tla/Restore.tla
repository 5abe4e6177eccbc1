------------------------------- MODULE Restore -------------------------------
(***************************************************************************)
(* A restored backup brings back an earlier database: credentials that were *)
(* revoked or used since, passwords that were changed, jobs and mail that   *)
(* were done.  cli/restore.ts and restore-fence/service.ts keep them from   *)
(* taking effect; the checks of the instance epoch are those of auth/.      *)
(*                                                                         *)
(* db is the database, so that a backup is one of its values.  Times are    *)
(* whole seconds, as in an access token, and pg_restore takes at least one. *)
(***************************************************************************)
EXTENDS Integers, Sequences

CONSTANTS
  Accounts,
  Administrator,  \* the one of them that administers the instance
  Work,           \* jobs and messages
  MaxCredentials, \* bound: credentials ever issued
  MaxSeconds,     \* bound: restores and time
  MaxCutoffs      \* bound: sanitizations and enforcements

VARIABLES
  db,
  backup,         \* the database when the backup was taken
  kept,           \* a backup was taken
  imported,       \* pg_restore is done and restore sanitize is not
  running,        \* a server serves this database
  minted,         \* the credentials ever issued, what each says of itself
  seconds,        \* time
  cutoffs,        \* history: how often everything issued was declared invalid
  reviewed,       \* history: accounts the operator reviewed since the restore
  handled,        \* history: accounts an administrator restricted or released
  done, held      \* history: work done since the restore, and outstanding in it

fence == <<backup, kept, imported, reviewed, held>>
restoreVars == <<db, fence, running, minted, seconds, cutoffs, handled, done>>

Modes == {"normal", "read_only", "offline"}

(* The active authentication/review restriction: of a restore, of an
   administrator, or of one whose expires_at is over, which nobody revoked.  *)
Restrictions == {"none", "credential_review_required", "staff", "expired"}

NoAccount == [epoch |-> 0, disabled |-> FALSE, review |-> "none"]

TypeOK ==
  /\ db.mode \in Modes /\ db.enforced \in BOOLEAN /\ {db.epoch, db.notBefore} \subseteq Nat
  /\ DOMAIN db.markers = 1..Len(db.markers)
  /\ \A m \in DOMAIN db.markers : db.markers[m].after \in Nat /\ db.markers[m].complete \in BOOLEAN
  /\ \A a \in Accounts : db.account[a].epoch \in Nat /\ db.account[a].review \in Restrictions
  /\ DOMAIN minted = 1..Len(minted) /\ db.live \subseteq DOMAIN minted
  /\ db.work \in [Work -> {"none", "pending", "running", "done", "quarantined"}]
  /\ {kept, imported, running} \subseteq BOOLEAN
  /\ {seconds, cutoffs} \subseteq Nat
  /\ reviewed \cup handled \subseteq Accounts /\ done \cup held \subseteq Work

Init ==
  /\ db = [mode |-> "normal", epoch |-> 0, notBefore |-> 0, enforced |-> FALSE, markers |-> <<>>,
           account |-> [a \in Accounts |-> NoAccount], live |-> {}, reviews |-> {},
           work |-> [w \in Work |-> "none"]]
  /\ backup = db /\ kept = FALSE /\ imported = FALSE /\ running = TRUE
  /\ minted = <<>>
  /\ seconds = 0 /\ cutoffs = 0 /\ reviewed = {} /\ handled = {} /\ done = {} /\ held = {}

-----------------------------------------------------------------------------
Serving == running /\ db.mode # "offline"
Writable == running /\ db.mode = "normal"

(* Fault: only the epoch is compared.                                       *)
CurrentEpoch(c) == db.enforced => c.epoch = db.epoch

(* The instance's cutover, as every check of a credential reads it.         *)
Current(c) == db.enforced => c.epoch = db.epoch /\ c.at >= db.notBefore

Enabled(a) == ~db.account[a].disabled

(* RiskService.enforceAccountInTransaction.                                 *)
Unrestricted(a) == db.account[a].review \in {"none", "expired"}

AccessAccepted(k) ==   \* assertDeviceActive; there is no row of the token
  /\ minted[k].kind = "session" /\ Current(minted[k]) /\ Enabled(minted[k].account)
  /\ minted[k].credentialEpoch = db.account[minted[k].account].epoch
RefreshAccepted(k) ==
  /\ minted[k].kind = "session" /\ k \in db.live /\ Current(minted[k])
  /\ Enabled(minted[k].account) /\ Unrestricted(minted[k].account)
WebAccepted(k) ==
  minted[k].kind = "web" /\ k \in db.live /\ Current(minted[k]) /\ Enabled(minted[k].account)
ApprovalAccepted(k) ==  \* exchange of an authorization or a pairing
  /\ minted[k].kind = "approval" /\ k \in db.live /\ Current(minted[k])
  /\ Enabled(minted[k].account) /\ Unrestricted(minted[k].account)
  /\ minted[k].credentialEpoch = db.account[minted[k].account].epoch
InvitationAccepted(k) == minted[k].kind = "invitation" /\ k \in db.live

Accepted(k) ==
  AccessAccepted(k) \/ RefreshAccepted(k) \/ WebAccepted(k) \/ ApprovalAccepted(k) \/ InvitationAccepted(k)

AdministratorPresent == \E k \in DOMAIN minted : WebAccepted(k) /\ minted[k].account = Administrator

-----------------------------------------------------------------------------
(* What a credential that is issued now says of itself.                     *)
Claims(kind, a) ==
  [kind |-> kind, account |-> a, epoch |-> db.epoch, at |-> seconds,
   credentialEpoch |-> db.account[a].epoch, cutoff |-> cutoffs]

(* One is issued in place of the credentials in gone.                       *)
Mint(kind, a, gone) ==
  /\ Len(minted) < MaxCredentials
  /\ minted' = Append(minted, Claims(kind, a))
  /\ db' = [db EXCEPT !.live = (@ \ gone) \cup {Len(minted')}]
  /\ UNCHANGED <<fence, running, seconds, cutoffs, handled, done>>

SignIn(a, kind) ==
  /\ Writable /\ Enabled(a) /\ Unrestricted(a)
  /\ Mint(kind, a, {})

Refresh(k) ==
  /\ running /\ db.mode \in {"normal", "read_only"}
  /\ RefreshAccepted(k) /\ Mint("session", minted[k].account, {k})

Approve(k) == Writable /\ WebAccepted(k) /\ Mint("approval", minted[k].account, {})

Exchange(k) == Writable /\ ApprovalAccepted(k) /\ Mint("session", minted[k].account, {k})

Invite == Writable /\ AdministratorPresent /\ Mint("invitation", Administrator, {})

(* upsertAccountRiskRestriction(authentication, review): the active row is
   updated, whoever made it, or a row is inserted.                          *)
StaffRestrict(a) ==
  /\ Writable /\ AdministratorPresent /\ a # Administrator
  /\ db' = [db EXCEPT !.account[a].review = "staff"] /\ handled' = handled \cup {a}
  /\ UNCHANGED <<fence, running, minted, seconds, cutoffs, done>>

(* revokeAccountRiskRestriction.                                            *)
StaffRelease(a) ==
  /\ Writable /\ AdministratorPresent /\ db.account[a].review # "none"
  /\ db' = [db EXCEPT !.account[a].review = "none"] /\ handled' = handled \cup {a}
  /\ UNCHANGED <<fence, running, minted, seconds, cutoffs, done>>

(* expires_at of a restriction passes: its row stays the active one.        *)
RestrictionExpires(a) ==
  /\ db.account[a].review = "staff"
  /\ db' = [db EXCEPT !.account[a].review = "expired"]
  /\ UNCHANGED <<fence, running, minted, seconds, cutoffs, handled, done>>

WorkStep(w, from, to) ==
  /\ Writable /\ db.work[w] = from /\ db' = [db EXCEPT !.work[w] = to]
  /\ UNCHANGED <<fence, running, minted, seconds, cutoffs, handled>>

Enqueue(w) == WorkStep(w, "none", "pending") /\ UNCHANGED done
Claim(w)   == WorkStep(w, "pending", "running") /\ UNCHANGED done
(* The effect; the process may stop before it records it.                   *)
Perform(w) == (\E to \in {"running", "done"} : WorkStep(w, "running", to)) /\ done' = done \cup {w}

-----------------------------------------------------------------------------
(* maintenance-mode enable and disable; the operator goes back to normal
   only once a restored database is sanitized.                              *)
SetMode(mode) ==
  /\ mode # db.mode /\ (imported => mode = "offline")
  /\ db' = [db EXCEPT !.mode = mode]
  /\ UNCHANGED <<fence, running, minted, seconds, cutoffs, handled, done>>

Stop ==
  /\ running /\ db.mode = "offline" /\ running' = FALSE
  /\ UNCHANGED <<db, fence, minted, seconds, cutoffs, handled, done>>

Pending == {m \in DOMAIN db.markers : ~db.markers[m].complete}

(* The server reconciles the markers before it listens.                     *)
Boot ==
  /\ ~running /\ ~imported /\ Pending = {} /\ running' = TRUE
  /\ UNCHANGED <<db, fence, minted, seconds, cutoffs, handled, done>>

TakeBackup ==
  /\ ~running /\ ~imported /\ db.mode = "offline"
  /\ ~kept /\ kept' = TRUE /\ backup' = db
  /\ UNCHANGED <<db, imported, reviewed, held, running, minted, seconds, cutoffs, handled, done>>

Outstanding(work) == {w \in Work : work[w] \in {"pending", "running"}}

(* pg_restore of the backup, over or beside the database it was taken of.   *)
Import ==
  /\ kept /\ ~running /\ seconds < MaxSeconds
  /\ db' = backup /\ imported' = TRUE /\ seconds' = seconds + 1
  /\ held' = Outstanding(backup.work) /\ done' = {} /\ reviewed' = {}
  /\ UNCHANGED <<backup, kept, running, minted, cutoffs, handled>>

LatestAfter == IF db.markers = <<>> THEN 0 ELSE db.markers[Len(db.markers)].after

(* The transaction of restore sanitize.                                     *)
Sanitize ==
  /\ ~running /\ kept /\ db.mode = "offline" /\ cutoffs < MaxCutoffs
  /\ LET next == 1 + (IF db.epoch > LatestAfter THEN db.epoch ELSE LatestAfter) IN
       db' = [db EXCEPT !.epoch = next, !.notBefore = seconds, !.enforced = TRUE,
                        !.markers = Append(@, [after |-> next, complete |-> FALSE])]
  /\ imported' = FALSE /\ cutoffs' = cutoffs + 1 /\ reviewed' = {}
  /\ UNCHANGED <<backup, kept, held, running, minted, seconds, handled, done>>

(* Fault: an account whose epoch is high enough is passed over.             *)
FencedBelow(a, after) ==
  IF a.epoch < after THEN [a EXCEPT !.epoch = after, !.review = "credential_review_required"] ELSE a

(* ON CONFLICT DO NOTHING leaves the active restriction of whoever made it.  *)
Fenced(a, after) ==
  [a EXCEPT !.epoch = IF @ < after THEN after ELSE @,
            !.review = IF @ = "none" THEN "credential_review_required" ELSE @]

(* Fault: a job or message that was being done is left to its lease.        *)
QuarantinePending(work) == [w \in Work |-> IF work[w] = "pending" THEN "quarantined" ELSE work[w]]

Quarantine(work) ==
  [w \in Work |-> IF w \in Outstanding(work) THEN "quarantined" ELSE work[w]]

(* RestoreFenceService.reconcile for one marker, by the command, by the next
   one or by the server that starts.                                        *)
Reconcile(m) ==
  /\ ~running /\ m \in Pending
  /\ db' = [db EXCEPT !.markers[m].complete = TRUE, !.live = {}, !.work = Quarantine(@),
                      !.account = [a \in Accounts |-> Fenced(@[a], db.markers[m].after)]]
  /\ UNCHANGED <<fence, running, minted, seconds, cutoffs, handled, done>>

Complete == DOMAIN db.markers \ Pending

(* reviewRestoredCredentials: of the latest complete marker, once.          *)
CredentialReview(a, disable) ==
  /\ db.mode = "offline" /\ Complete # {}
  /\ LET m == CHOOSE n \in Complete : \A o \in Complete : o <= n IN
       /\ <<m, a>> \notin db.reviews /\ db.account[a].review = "credential_review_required"
       /\ db' = [db EXCEPT
            !.reviews = @ \cup {<<m, a>>},
            !.account[a] = [epoch |-> @.epoch + 1, review |-> "none", disabled |-> @.disabled \/ disable],
            !.live = {k \in @ : minted[k].kind = "invitation" \/ minted[k].account # a}]
  /\ reviewed' = reviewed \cup {a}
  /\ UNCHANGED <<backup, kept, imported, held, running, minted, seconds, cutoffs, handled, done>>

(* enforceInstanceAuthEpoch.                                                *)
EnforceAuthEpoch ==
  /\ db.mode = "offline" /\ ~imported /\ cutoffs < MaxCutoffs
  /\ db' = [db EXCEPT !.epoch = @ + 1, !.notBefore = seconds, !.enforced = TRUE, !.live = {}]
  /\ cutoffs' = cutoffs + 1
  /\ UNCHANGED <<fence, running, minted, seconds, handled, done>>

Next ==
  \/ Invite
  \/ \E a \in Accounts, kind \in {"session", "web"} : SignIn(a, kind)
  \/ \E k \in DOMAIN minted : Refresh(k) \/ Approve(k) \/ Exchange(k)
  \/ \E a \in Accounts :
       \/ StaffRestrict(a) \/ StaffRelease(a) \/ RestrictionExpires(a)
       \/ \E disable \in BOOLEAN : CredentialReview(a, disable)
  \/ \E w \in Work : Enqueue(w) \/ Claim(w) \/ Perform(w)
  \/ \E mode \in Modes : SetMode(mode)
  \/ Stop \/ Boot \/ TakeBackup \/ Import \/ Sanitize \/ EnforceAuthEpoch
  \/ \E m \in Pending : Reconcile(m)

Spec == Init /\ [][Next]_restoreVars

-----------------------------------------------------------------------------
(* Once a restore or the operator has declared the credentials issued before
   invalid, none of them is accepted again: neither those the backup brings
   back nor those of an earlier restore of the same backup, whose epochs are
   the same again.                                                          *)
OldCredentialsRefused ==
  Serving => \A k \in DOMAIN minted : Accepted(k) => minted[k].cutoff = cutoffs

(* Work that was outstanding in the backup, which may have been done since,
   is not done after the restore.                                           *)
RestoredWorkHeld == done \cap held = {}

Restored == db.markers # <<>>

(* restore-fence/service.ts:22: every restored account receives a local
   review before it can mint fresh credentials.                             *)
ReviewedBeforeSignIn ==
  Restored /\ Serving => \A k \in DOMAIN minted :
    minted[k].kind \in {"session", "web"} /\ minted[k].cutoff = cutoffs => minted[k].account \in reviewed

(* ... unless an administrator restricted or released the account itself.   *)
ReviewedUnlessHandled ==
  Restored /\ Serving => \A k \in DOMAIN minted :
    minted[k].kind \in {"session", "web"} /\ minted[k].cutoff = cutoffs
      => minted[k].account \in reviewed \cup handled
=============================================================================
