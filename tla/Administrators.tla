--------------------------- MODULE Administrators ---------------------------
(***************************************************************************)
(* Who administers an instance: the first administrator, made by the       *)
(* installer (installation/service.ts), by a setup credential of an older  *)
(* database or by the repair command (bootstrap/service.ts), and what      *)
(* administrators do to each other (admin/service.ts, auth/service.ts).    *)
(*                                                                         *)
(* A request passes checks of its own, waits for an advisory lock, checks  *)
(* in its transaction and commits: three steps, and others come between.   *)
(***************************************************************************)
EXTENDS Integers, FiniteSets

CONSTANTS
  Accounts,   \* logins, each of at most one account
  Credentials,\* bound: setup credentials ever issued
  Requests,   \* concurrent requests and commands
  Operations, \* what they may ask for
  Beginnings, \* the databases the server may be started on
  None        \* no value

VARIABLES
  account,    \* accounts
  settings,   \* deployment_settings; absent before the installation
  credential, \* bootstrap_credentials
  reissue,    \* restore_markers.bootstrap_reissue_required
  request,    \* requests and commands under way
  booted      \* how the server was started on this database

vars == <<account, settings, credential, reissue, request, booted>>

NoAccount == [exists |-> FALSE, admin |-> FALSE, suspended |-> FALSE, disabled |-> FALSE]
Administrator == [NoAccount EXCEPT !.exists = TRUE, !.admin = TRUE]
Idle == [op |-> "none", who |-> None, on |-> {}, step |-> "idle"]

RoleOperations  == {"suspend", "resume", "grant", "demote"}
FirstOperations == {"install", "bootstrap", "repair"}

TypeOK ==
  /\ account \in [Accounts -> [exists : BOOLEAN, admin : BOOLEAN, suspended : BOOLEAN, disabled : BOOLEAN]]
  /\ settings \in [lifecycle : {"absent", "legacy", "uninitialized", "ready"}, repair : BOOLEAN,
                 configured : BOOLEAN]
  /\ credential \in [Credentials -> {"none", "live", "consumed", "revoked"}]
  /\ reissue \in BOOLEAN /\ booted \in {"no", "migrated", "reconciled"}
  /\ request \in [Requests -> [op : Operations \cup {"none"}, who : Accounts \cup Credentials \cup {None},
                               on : SUBSET Accounts, step : {"idle", "admitted", "holding"}]]

Active(a)      == account[a].exists /\ ~account[a].suspended /\ ~account[a].disabled
ActiveAdmin(a) == account[a].admin /\ Active(a)
ActiveAdmins   == {a \in Accounts : ActiveAdmin(a)}
Existing       == {a \in Accounts : account[a].exists}

(* The empty database, one restored before its setup, one of the removed
   hosted mode, and installed ones, with or without an administrator and a
   configuration (older versions kept it in the environment).               *)
Init ==
  /\ \E b \in Beginnings, A \in SUBSET Accounts, c \in BOOLEAN :
       /\ settings = [lifecycle |-> b, repair |-> FALSE, configured |-> c]
       /\ (b \in {"absent", "uninitialized"}) => A = {}
       /\ b = "absent" => ~c
       /\ account = [a \in Accounts |-> IF a \in A THEN Administrator ELSE NoAccount]
       /\ \/ booted = "no" /\ b # "absent"
          \/ booted = "reconciled" /\ (b = "absent" \/ (b = "ready" /\ c /\ A # {}))
  /\ credential \in [Credentials -> {"none", "live"}]
  /\ reissue \in (IF settings.lifecycle = "uninitialized" THEN BOOLEAN ELSE {FALSE})
  /\ request = [r \in Requests |-> Idle]

-----------------------------------------------------------------------------
(* What is checked before the transaction: the administrator (assertAdmin)
   and what it may not do to itself, the password of one who leaves.        *)
Admissible(op, who, on) ==
  \/ /\ op \in RoleOperations /\ who \in Accounts /\ ActiveAdmin(who)
     /\ op # "grant" => who \notin on
  \/ op = "delete" /\ who \in Accounts /\ Active(who) /\ on = {who}
  \/ op = "install" /\ who = None /\ settings.lifecycle = "absent"
  \/ op = "bootstrap" /\ who \in Credentials /\ booted # "no"
  \/ op = "repair" /\ who = None
  \/ op = "issue" /\ who \in Credentials /\ on = {} /\ settings.lifecycle = "uninitialized"
  \/ op = "boot" /\ who = None /\ on = {} /\ settings.lifecycle # "absent"

Start(r, op, who, on) ==
  /\ request[r].op = "none" /\ op \in Operations /\ Admissible(op, who, on)
  /\ (on = {}) = (op \in {"issue", "boot"})
  /\ request' = [request EXCEPT ![r] = [op |-> op, who |-> who, on |-> on, step |-> "admitted"]]
  /\ UNCHANGED <<account, settings, credential, reissue, booted>>

Holding(r) == request[r].step = "holding"

(* FOR UPDATE on the accounts the operation is about; alone it would be a
   fault: two requests about each other's actors would both pass.           *)
RowsHeld(r) ==
  \E o \in Requests \ {r} : Holding(o) /\ request[o].on \cap request[r].on \cap Existing # {}

LockOf(op) ==
  IF op \in RoleOperations \cup {"delete"} THEN "notegen-admin-role"
  ELSE IF op = "repair" THEN "notegen-admin-repair"
  ELSE IF op = "bootstrap" THEN "notegen-bootstrap"
  ELSE IF op = "boot" THEN "notegen-deployment-settings" ELSE "notegen-installation"

(* Fault: the advisory lock is only taken for roles.                        *)
WaitsForRoles(r) ==
  \/ RowsHeld(r)
  \/ \E o \in Requests \ {r} :
       /\ Holding(o) /\ LockOf(request[o].op) = LockOf(request[r].op)
       /\ request[r].op \in RoleOperations \cup {"delete"}

(* pg_advisory_xact_lock, then the rows.                                    *)
Waits(r) ==
  \/ RowsHeld(r)
  \/ \E o \in Requests \ {r} : Holding(o) /\ LockOf(request[o].op) = LockOf(request[r].op)

OtherAdmin(on) == ActiveAdmins \ on # {}

Administers(on) == \E a \in on : account[a].admin

Targets(on) == on \subseteq Existing /\ \A a \in on : ~account[a].disabled

FirstAllowed(op) ==
  /\ IF op = "install" THEN settings.lifecycle = "absent" ELSE settings.lifecycle = "uninitialized" /\ ~reissue
  /\ Existing = {}

(* What is checked once the locks are held.                                 *)
Permitted(op, who, on) ==
  \/ op = "suspend" /\ Targets(on) /\ (Administers(on) => OtherAdmin(on))
  \/ op = "demote"  /\ Targets(on) /\ (Administers(on) => OtherAdmin(on))
  \/ op \in {"resume", "grant"} /\ Targets(on)
  \/ op = "delete"  /\ (Administers(on) => OtherAdmin(on))
  \/ op = "install" /\ FirstAllowed(op)
  \/ op = "bootstrap" /\ FirstAllowed(op) /\ credential[who] = "live"
  \/ op = "repair" /\ settings.lifecycle = "ready" /\ settings.repair /\ ActiveAdmins = {}
  \/ op \in {"issue", "boot"}

Take(r) ==
  /\ request[r].step = "admitted" /\ ~Waits(r)
  /\ LET q == request[r] IN
       request' = [request EXCEPT ![r] = IF Permitted(q.op, q.who, q.on) THEN [q EXCEPT !.step = "holding"]
                                         ELSE Idle]
  /\ UNCHANGED <<account, settings, credential, reissue, booted>>

-----------------------------------------------------------------------------
Commits(r, op) == Holding(r) /\ request[r].op = op /\ request' = [request EXCEPT ![r] = Idle]

With(op, row) ==
  CASE op = "suspend" -> [row EXCEPT !.suspended = TRUE]
    [] op = "resume"  -> [row EXCEPT !.suspended = FALSE]
    [] op = "grant"   -> [row EXCEPT !.admin = TRUE]
    [] op = "demote"  -> [row EXCEPT !.admin = FALSE]
    [] op = "delete"  -> [row EXCEPT !.disabled = TRUE]

(* batchSetAccountsSuspended, setAccountAdmin and requestAccountDeletion,
   without the sessions they end (module AuthSessions).                     *)
SetRole(r, op) ==
  /\ Commits(r, op)
  /\ account' = [a \in Accounts |-> IF a \in request[r].on THEN With(op, account[a]) ELSE account[a]]
  /\ UNCHANGED <<settings, credential, reissue, booted>>

(* InstallationService.complete: the settings are one row, so that of two
   that get here the second fails on its key.                               *)
Install(r) ==
  /\ Commits(r, "install")
  /\ IF settings.lifecycle = "absent"
     THEN /\ account' = [a \in Accounts |-> IF a \in request[r].on THEN Administrator ELSE account[a]]
          /\ settings' = [lifecycle |-> "ready", repair |-> FALSE, configured |-> TRUE]
          /\ booted' = "no"
     ELSE UNCHANGED <<account, settings, booted>>
  /\ UNCHANGED <<credential, reissue>>

(* BootstrapService.complete.                                               *)
Bootstrap(r) ==
  /\ Commits(r, "bootstrap")
  /\ account' = [a \in Accounts |-> IF a \in request[r].on THEN Administrator ELSE account[a]]
  /\ settings' = [settings EXCEPT !.lifecycle = "ready"]
  /\ credential' = [k \in Credentials |-> IF k = request[r].who THEN "consumed"
                                          ELSE IF credential[k] = "live" THEN "revoked" ELSE credential[k]]
  /\ UNCHANGED <<reissue, booted>>

(* issueWebToken.                                                           *)
Issue(r) ==
  /\ Commits(r, "issue")
  /\ credential' = [credential EXCEPT ![request[r].who] = IF @ = "none" THEN "live" ELSE @]
  /\ reissue' = FALSE
  /\ UNCHANGED <<account, settings, booted>>

(* repairAdministrator: the account of that login is taken over, or made.   *)
Repair(r) ==
  /\ Commits(r, "repair")
  /\ account' = [a \in Accounts |-> IF a \in request[r].on THEN Administrator ELSE account[a]]
  /\ settings' = [settings EXCEPT !.repair = FALSE]
  /\ UNCHANGED <<credential, reissue, booted>>

(* Fault: an installed database is taken to have its administrator.         *)
Trusted(s) == IF s.lifecycle = "legacy" THEN [s EXCEPT !.lifecycle = "ready"] ELSE s

(* migrateLegacyOperationsInstallation.                                     *)
Converted(s) ==
  IF s.lifecycle = "legacy" THEN [s EXCEPT !.lifecycle = "ready", !.repair = ActiveAdmins = {}] ELSE s

(* DeploymentService.initialize: settings without a configuration get that
   of the environment, and nothing else of them is looked at.               *)
Initialized(s) ==
  IF ~s.configured THEN [s EXCEPT !.configured = TRUE]
  ELSE IF s.lifecycle = "ready" THEN [s EXCEPT !.repair = ActiveAdmins = {}]
  ELSE s

(* The server starts; a credential of the environment is imported
   (BootstrapService.initialize), once.                                     *)
Boot(r) ==
  /\ Commits(r, "boot")
  /\ settings' = Initialized(Converted(settings))
  /\ booted' = IF settings.lifecycle = "ready" /\ ~settings.configured THEN "migrated" ELSE "reconciled"
  /\ IF settings.lifecycle = "uninitialized" /\ ~reissue
     THEN \E k \in Credentials : credential' = [credential EXCEPT ![k] = IF @ = "none" THEN "live" ELSE @]
     ELSE UNCHANGED credential
  /\ UNCHANGED <<account, reissue>>

(* expires_at of a setup credential passes.                                 *)
CredentialExpires(k) ==
  /\ credential[k] = "live" /\ credential' = [credential EXCEPT ![k] = "revoked"]
  /\ UNCHANGED <<account, settings, reissue, request, booted>>

(* An ordinary account is registered (registerAccount).                     *)
Register(a) ==
  /\ "register" \in Operations /\ settings.lifecycle = "ready" /\ booted # "no"
  /\ ~account[a].exists /\ account' = [account EXCEPT ![a] = [NoAccount EXCEPT !.exists = TRUE]]
  /\ UNCHANGED <<settings, credential, reissue, request, booted>>

(* A connection is lost: its transaction never was.                         *)
Abandon(r) ==
  /\ request[r].op # "none" /\ request' = [request EXCEPT ![r] = Idle]
  /\ UNCHANGED <<account, settings, credential, reissue, booted>>

Next ==
  \/ \E r \in Requests, op \in Operations, who \in Accounts \cup Credentials \cup {None}, a \in Accounts :
       Start(r, op, who, {a}) \/ Start(r, op, who, {})
  \/ \E r \in Requests :
       \/ Take(r) \/ Install(r) \/ Bootstrap(r) \/ Issue(r) \/ Repair(r) \/ Boot(r) \/ Abandon(r)
       \/ \E op \in RoleOperations \cup {"delete"} : SetRole(r, op)
  \/ \E k \in Credentials : CredentialExpires(k)
  \/ \E a \in Accounts : Register(a)

Spec == Init /\ [][Next]_vars

-----------------------------------------------------------------------------
(* However administrators suspend, demote and leave at the same time, an
   instance that has an active one keeps one.                               *)
AdministratorsRemain == [][ActiveAdmins # {} => (ActiveAdmins # {})']_vars

(* Of two installers, setup credentials or repairs only one makes an
   administrator.                                                           *)
OneFirstAdministrator ==
  [][(\E r \in Requests : Holding(r) /\ request[r].op \in FirstOperations /\ request'[r] = Idle)
       /\ account' # account
     => Cardinality(ActiveAdmins') = 1]_vars

(* An installed instance that is being served has an active administrator
   or lets the operator make one; one whose first start only gave it its
   configuration comes to it with the next start, at the latest.            *)
NeverLockedOut ==
  /\ settings.lifecycle = "ready" /\ booted = "reconciled" => ActiveAdmins # {} \/ settings.repair
  /\ booted = "migrated" => settings.configured
=============================================================================
