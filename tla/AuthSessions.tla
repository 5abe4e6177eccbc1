---------------------------- MODULE AuthSessions ----------------------------
(***************************************************************************)
(* The sessions of one account: AuthService and WebSessionService          *)
(* (auth/service.ts, auth/web-session-service.ts), the two ways a device   *)
(* is let in without a password (device-authorization-service.ts,          *)
(* device-pairing-service.ts), the reset of a forgotten password           *)
(* (identity/email-service.ts) and the suspension by an administrator.     *)
(*                                                                         *)
(* Passwords are verified outside the transaction that uses the result, a  *)
(* device session is made in two transactions, a web password change in    *)
(* three: every await between them is a point where others may move.  One  *)
(* transaction is two steps: #issueSession locks the account but not the   *)
(* device that it reads, and who revokes the device does not lock the      *)
(* account.                                                                *)
(* Changes of the password and of the credential epoch go together, so the *)
(* epoch also names the password of its time.                              *)
(***************************************************************************)
EXTENDS Integers, FiniteSets

CONSTANTS
  Devices,      \* installations of one user
  Callers,      \* concurrent requests to the server
  Ids,          \* refresh request ids
  Operations,   \* what may be asked for
  MaxTokens,    \* bound: refresh tokens ever issued
  MaxEpoch,     \* bound: changes of the password
  MaxIncidents, \* bound: failures, forgetful clients, suspensions
  None          \* a null column

ASSUME BoundsAssumption == {MaxTokens, MaxEpoch, MaxIncidents} \subseteq Nat
ASSUME NoneAssumption == None \notin Nat \cup Devices \cup Callers \cup Ids

VARIABLES
  epoch,     \* accounts.credential_epoch
  blocked,   \* suspended or disabled
  device,    \* devices
  token,     \* refresh_tokens
  issued,    \* tokens issued so far
  web,       \* web_sessions
  grant,     \* device_authorizations, device_pairings: one row of each
  call,      \* where each request stands
  client,    \* what each installation has stored: its token and request id
  asked,     \* refresh requests ever sent: any of them may arrive, again
  renewed,   \* history: the latest change that has ended the web sessions
  reused,    \* history: a refresh was taken for the use of a stolen token
  late,      \* history: tokens issued when their device had just been revoked
  incidents  \* failures so far

authVars == <<epoch, blocked, device, token, issued, web, grant, call, client, asked,
              renewed, reused, late, incidents>>

Epochs == 0..MaxEpoch
Tokens == 1..MaxTokens
Grants == {"approval", "pairing"}
Kinds  == {"login", "change", "reset"} \cup Grants

Unused   == [device |-> None, status |-> "unused", epoch |-> 0, proof |-> 0,
             kind |-> "login", id |-> None, next |-> 0]
NoGrant  == [status |-> "none", epoch |-> 0, consumed |-> None, sessions |-> 0]
Idle     == [at |-> "idle", kind |-> "login", device |-> None, expect |-> None, proof |-> 0]
NoClient == [token |-> 0, id |-> None, forgot |-> FALSE]

(* Rows and memories have their types (all of AuthSessions).                *)
TypeOK ==
  /\ epoch \in Epochs /\ blocked \in BOOLEAN
  /\ device \in [Devices -> {"unknown", "active", "revoked"}]
  /\ token \in [Tokens -> [device : Devices \cup {None},
                           status : {"unused", "live", "rotated", "revoked"},
                           epoch : Epochs, proof : Epochs, kind : Kinds,
                           id : Ids \cup {None}, next : {0} \cup Tokens]]
  /\ \A t \in Tokens : /\ token[t].status = "unused" <=> t > issued
                       /\ token[t].status = "rotated" => token[t].next > t
  /\ issued \in {0} \cup Tokens
  /\ web \subseteq [proof : Epochs, kind : {"login", "change", "reset"}]
  /\ grant \in [Grants -> [status : {"none", "pending", "approved", "denied", "expired"},
                           epoch : Epochs, consumed : Callers \cup {None}, sessions : Nat]]
  /\ call \in [Callers -> [at : {"idle", "create", "issue", "insert", "unconsume",
                                 "change", "webChange", "destroy", "web", "approve", "pair"},
                           kind : Kinds, device : Devices \cup {None},
                           expect : Epochs \cup {None}, proof : Epochs]]
  /\ client \in [Devices -> [token : {0} \cup Tokens, id : Ids \cup {None}, forgot : BOOLEAN]]
  /\ asked \subseteq Tokens \X Ids
  /\ renewed \in Epochs /\ reused \in BOOLEAN /\ incidents \in 0..MaxIncidents
  /\ late \subseteq Tokens

Init ==
  /\ epoch = 0 /\ blocked = FALSE
  /\ device = [d \in Devices |-> "unknown"]
  /\ token = [t \in Tokens |-> Unused] /\ issued = 0
  /\ web = {}
  /\ grant = [g \in Grants |-> NoGrant]
  /\ call = [c \in Callers |-> Idle]
  /\ client = [d \in Devices |-> NoClient] /\ asked = {}
  /\ renewed = 0 /\ reused = FALSE /\ late = {} /\ incidents = 0

accountRow == <<epoch, blocked>>
sessions   == <<device, token, issued, web>>
clients    == <<client, asked>>
history    == <<renewed, reused, late, incidents>>

At(c, step)   == call[c].at = step
Goto(c, step) == call' = [call EXCEPT ![c].at = step]
Done(c)       == call' = [call EXCEPT ![c] = Idle]
Begin(c, step, kind, d, expect, proof) ==
  call' = [call EXCEPT ![c] = [at |-> step, kind |-> kind, device |-> d,
                               expect |-> expect, proof |-> proof]]

(* A session that cannot be made gives a consumed grant back.               *)
Refuse(c) == IF call[c].kind \in Grants THEN Goto(c, "unconsume") ELSE Done(c)

Offered(op) == op \in Operations

(* A request that is about to insert its token holds the account's row; who
   locks or updates that row waits.                                         *)
Unlocked == \A c \in Callers : ~At(c, "insert")

(***************************************************************************)
(* Signing in with the password.  authenticateAccount verifies it against  *)
(* a row it does not lock, and remembers the epoch of that row.            *)
(***************************************************************************)
Login(c, d) ==
  /\ Offered("login") /\ At(c, "idle") /\ ~blocked
  /\ Begin(c, "create", "login", d, epoch, epoch)
  /\ UNCHANGED <<accountRow, sessions, grant, clients, history>>

WebLogin(c) ==
  /\ Offered("webLogin") /\ At(c, "idle") /\ ~blocked
  /\ Begin(c, "web", "login", None, epoch, epoch)
  /\ UNCHANGED <<accountRow, sessions, grant, clients, history>>

(* Fault: the epoch seen before is not compared with the account's.         *)
Trusted(c) == ~blocked

Current(c) == ~blocked /\ call[c].expect \in {None, epoch}

(* createDeviceSession: the first of two transactions.                      *)
CreateDeviceSession(c) ==
  /\ At(c, "create") /\ Unlocked
  /\ IF Current(c)
     THEN device' = [device EXCEPT ![call[c].device] = "active"] /\ Goto(c, "issue")
     ELSE Refuse(c) /\ UNCHANGED device
  /\ UNCHANGED <<accountRow, token, issued, web, grant, clients, history>>

(* Fault: a second sign-in leaves the tokens of the first alone.            *)
KeepingOlder(d) == token

Superseding(d) ==
  [t \in Tokens |-> IF token[t].device = d /\ token[t].status # "unused"
                    THEN [token[t] EXCEPT !.status = "revoked"] ELSE token[t]]

Fresh(d, kind, proof) == [device |-> d, status |-> "live", epoch |-> epoch, proof |-> proof,
                          kind |-> kind, id |-> None, next |-> 0]

(* The client that gets the answer stores the token; the answer may be lost. *)
Adopts(d, t) ==
  \/ client' = [client EXCEPT ![d].token = t, ![d].id = None]
  \/ UNCHANGED client

CountSession(c) ==
  grant' = IF call[c].kind \in Grants
           THEN [grant EXCEPT ![call[c].kind].sessions = @ + 1] ELSE grant

(* #issueSession, the second one, locks the account and reads the device, ... *)
ReadDevice(c) ==
  /\ At(c, "issue") /\ Unlocked
  /\ IF Current(c) /\ device[call[c].device] = "active"
     THEN issued < MaxTokens /\ Goto(c, "insert")
     ELSE Refuse(c)
  /\ UNCHANGED <<accountRow, sessions, grant, clients, history>>

(* ... revokes the older tokens and inserts one, whatever has become of the
   device.                                                                  *)
IssueSession(c) ==
  LET d == call[c].device IN
  /\ At(c, "insert")
  /\ issued' = issued + 1
  /\ token' = [Superseding(d) EXCEPT ![issued + 1] = Fresh(d, call[c].kind, call[c].proof)]
  /\ late' = IF device[d] = "active" THEN late ELSE late \cup {issued + 1}
  /\ Adopts(d, issued + 1) /\ CountSession(c) /\ Done(c)
  /\ UNCHANGED <<accountRow, device, web, asked, renewed, reused, incidents>>

(* WebSessionService.create.                                                *)
CreateWebSession(c) ==
  /\ At(c, "web") /\ Unlocked /\ Done(c)
  /\ web' = IF Current(c) THEN web \cup {[proof |-> call[c].proof, kind |-> call[c].kind]} ELSE web
  /\ UNCHANGED <<accountRow, device, token, issued, grant, clients, history>>

(***************************************************************************)
(* refresh: one transaction that locks the token, its device and the       *)
(* account.  A client asks with the token it has stored and an id it keeps *)
(* until it has the answer; requests are repeated and overtake each other. *)
(***************************************************************************)
Ask(d, q) ==
  /\ Offered("refresh") /\ client[d].token # 0
  /\ client[d].id \in {None, q} /\ <<client[d].token, q>> \notin asked
  /\ client[d].forgot \/ ~\E i \in Ids : <<client[d].token, i>> \in asked
  /\ client' = [client EXCEPT ![d].id = q]
  /\ asked' = asked \cup {<<client[d].token, q>>}
  /\ UNCHANGED <<accountRow, sessions, grant, call, history>>

(* A client that stops before it has stored its id asks with another one;
   what its earlier request then does to it is its own doing.               *)
Forget(d) ==
  /\ client[d].id # None /\ incidents < MaxIncidents
  /\ incidents' = incidents + 1
  /\ client' = [client EXCEPT ![d].id = None, ![d].forgot = TRUE]
  /\ UNCHANGED <<accountRow, sessions, grant, call, asked, renewed, reused, late>>

Refreshable(t) ==
  /\ token[t].status \in {"live", "rotated"} /\ device[token[t].device] = "active"
  /\ Unlocked /\ ~blocked

(* Fault: a repeat is only answered while its answer has not been used.     *)
RepeatsUnused(t, q) == token[t].id = q /\ token[token[t].next].status = "live"

Repeats(t, q) == token[t].id = q

Answered(t, q, next) ==
  LET d == token[t].device IN
  IF client[d].token = t /\ client[d].id = q THEN Adopts(d, next) ELSE UNCHANGED client

(* Fault: the answer is not kept.                                           *)
RotatedAway(t, q) == [token[t] EXCEPT !.status = "rotated", !.id = q]

Rotated(t, q) == [token[t] EXCEPT !.status = "rotated", !.id = q, !.next = issued + 1]

Rotate(t, q) ==
  /\ <<t, q>> \in asked /\ Refreshable(t) /\ token[t].status = "live" /\ issued < MaxTokens
  /\ issued' = issued + 1
  /\ token' = [token EXCEPT
       ![t] = Rotated(t, q),
       ![issued + 1] = Fresh(token[t].device, token[t].kind, token[t].proof)]
  /\ Answered(t, q, issued + 1)
  /\ UNCHANGED <<accountRow, device, web, grant, call, asked, history>>

AnswerAgain(t, q) ==
  /\ <<t, q>> \in asked /\ Refreshable(t) /\ token[t].status = "rotated" /\ Repeats(t, q)
  /\ Answered(t, q, token[t].next)
  /\ UNCHANGED <<accountRow, sessions, grant, call, asked, history>>

TakeForReuse(t, q) ==
  /\ <<t, q>> \in asked /\ Refreshable(t) /\ token[t].status = "rotated" /\ ~Repeats(t, q)
  /\ device' = [device EXCEPT ![token[t].device] = "revoked"]
  /\ token' = Superseding(token[t].device)
  /\ reused' = (reused \/ ~client[token[t].device].forgot)
  /\ UNCHANGED <<accountRow, issued, web, grant, call, clients, renewed, late, incidents>>

Refresh(t, q) == Rotate(t, q) \/ AnswerAgain(t, q) \/ TakeForReuse(t, q)

(***************************************************************************)
(* Logging out, revoking a device, ending other web sessions.              *)
(***************************************************************************)
Logout(d) ==
  /\ Offered("logout") /\ client[d].token # 0
  /\ token' = [token EXCEPT ![client[d].token].status = "revoked"]
  /\ client' = [client EXCEPT ![d].token = 0, ![d].id = None]
  /\ UNCHANGED <<accountRow, device, issued, web, grant, call, asked, history>>

RevokeDevice(d) ==
  /\ Offered("revoke") /\ device[d] = "active"
  /\ device' = [device EXCEPT ![d] = "revoked"]
  /\ token' = Superseding(d)
  /\ UNCHANGED <<accountRow, issued, web, grant, call, clients, history>>

EndWebSessions ==
  /\ Offered("webLogin")
  /\ \E w \in web : web' \in {web \ {w}, {w}} /\ web' # web
  /\ UNCHANGED <<accountRow, device, token, issued, grant, call, clients, history>>

(***************************************************************************)
(* Changes of the password.                                                *)
(***************************************************************************)
AllRevoked ==
  [t \in Tokens |-> IF token[t].status = "unused" THEN token[t]
                    ELSE [token[t] EXCEPT !.status = "revoked"]]

NextEpoch == epoch < MaxEpoch /\ epoch' = epoch + 1 /\ UNCHANGED blocked

Unconsumed(g) == grant[g].consumed = None
WithoutPairing ==
  [grant EXCEPT !["pairing"].status = IF Unconsumed("pairing") /\ @ = "approved" THEN "denied" ELSE @]

(* changePassword verifies, ...                                             *)
VerifyOnDevice(c, d) ==
  /\ Offered("change") /\ At(c, "idle") /\ device[d] = "active" /\ ~blocked
  /\ Begin(c, "change", "change", d, None, epoch)
  /\ UNCHANGED <<accountRow, sessions, grant, clients, history>>

(* ... changes the account, and issues a session without an epoch.          *)
ChangePassword(c) ==
  /\ At(c, "change") /\ Unlocked
  /\ IF device[call[c].device] = "active"
     THEN /\ NextEpoch /\ token' = AllRevoked /\ grant' = WithoutPairing
          /\ Begin(c, "issue", "change", call[c].device, None, epoch + 1)
     ELSE Done(c) /\ UNCHANGED <<accountRow, token, grant>>
  /\ UNCHANGED <<device, issued, web, clients, history>>

VerifyOnWeb(c) ==
  /\ Offered("webChange") /\ At(c, "idle") /\ web # {} /\ ~blocked
  /\ Begin(c, "webChange", "change", None, None, epoch)
  /\ UNCHANGED <<accountRow, sessions, grant, clients, history>>

ChangeWebPassword(c) ==
  /\ At(c, "webChange") /\ Unlocked
  /\ NextEpoch /\ token' = AllRevoked /\ grant' = WithoutPairing
  /\ device' = [d \in Devices |-> IF device[d] = "active" THEN "revoked" ELSE device[d]]
  /\ Begin(c, "destroy", "change", None, None, epoch + 1)
  /\ UNCHANGED <<issued, web, clients, history>>

Later(e) == IF e > renewed THEN e ELSE renewed

DestroyForAccount(c) ==
  /\ At(c, "destroy")
  /\ web' = {} /\ renewed' = Later(call[c].proof)
  /\ Goto(c, "web")
  /\ UNCHANGED <<accountRow, device, token, issued, grant, clients, reused, late, incidents>>

(* Fault: pairings are forgotten, device tokens are not revoked.            *)
ResetPasswordOnly(c) ==
  /\ Offered("reset") /\ At(c, "idle") /\ Unlocked /\ ~blocked
  /\ NextEpoch /\ web' = {} /\ renewed' = epoch + 1
  /\ Begin(c, "web", "reset", None, epoch + 1, epoch + 1)
  /\ UNCHANGED <<device, token, issued, grant, clients, reused, late, incidents>>

(* resetPassword is one transaction; its session expects its epoch.  An
   authorization that nobody has approved yet has no account to find it by.  *)
ResetPassword(c) ==
  /\ Offered("reset") /\ At(c, "idle") /\ Unlocked /\ ~blocked
  /\ NextEpoch /\ token' = AllRevoked /\ web' = {}
  /\ grant' = [WithoutPairing EXCEPT !["approval"].status =
                 IF Unconsumed("approval") /\ @ = "approved" THEN "denied" ELSE @]
  /\ renewed' = epoch + 1
  /\ Begin(c, "web", "reset", None, epoch + 1, epoch + 1)
  /\ UNCHANGED <<device, issued, clients, reused, late, incidents>>

(***************************************************************************)
(* Authorizations and pairings.  The browser's session is looked up before *)
(* the transaction of approve, or of create.                               *)
(***************************************************************************)
CreateAuthorization ==
  /\ Offered("approval") /\ grant["approval"].status = "none"
  /\ grant' = [grant EXCEPT !["approval"].status = "pending"]
  /\ UNCHANGED <<accountRow, sessions, call, clients, history>>

InBrowser(c, step, kind) ==
  /\ Offered(kind) /\ At(c, "idle") /\ web # {} /\ ~blocked
  /\ Begin(c, step, kind, None, None, epoch)
  /\ UNCHANGED <<accountRow, sessions, grant, clients, history>>

Approve(c) ==
  /\ At(c, "approve") /\ Unlocked /\ Done(c)
  /\ grant' = IF ~blocked /\ grant["approval"].status = "pending"
              THEN [grant EXCEPT !["approval"].status = "approved", !["approval"].epoch = epoch]
              ELSE grant
  /\ UNCHANGED <<accountRow, sessions, clients, history>>

CreatePairing(c) ==
  /\ At(c, "pair") /\ Unlocked /\ Done(c)
  /\ grant' = IF ~blocked /\ grant["pairing"].status = "none"
              THEN [grant EXCEPT !["pairing"].status = "approved", !["pairing"].epoch = epoch]
              ELSE grant
  /\ UNCHANGED <<accountRow, sessions, clients, history>>

(* deny, cancel of either, and five minutes.                                *)
Withdraw(g) ==
  /\ Unconsumed(g)
  /\ grant[g].status \in IF g = "approval" THEN {"pending"} ELSE {"approved"}
  /\ grant' = [grant EXCEPT ![g].status = "denied"]
  /\ UNCHANGED <<accountRow, sessions, call, clients, history>>

GrantExpires(g) ==
  /\ grant[g].status \in {"pending", "approved"}
  /\ grant' = [grant EXCEPT ![g].status = "expired"]
  /\ UNCHANGED <<accountRow, sessions, call, clients, history>>

(* Fault: a grant is looked up and marked later.                            *)
ConsumableTwice(g) == grant[g].status = "approved"

Consumable(g) == grant[g].status = "approved" /\ Unconsumed(g)

(* exchange consumes the grant, then makes a session with its epoch.        *)
Exchange(c, g, d) ==
  /\ Offered(g) /\ At(c, "idle") /\ Consumable(g)
  /\ grant' = [grant EXCEPT ![g].consumed = c]
  /\ Begin(c, "create", g, d, grant[g].epoch, grant[g].epoch)
  /\ UNCHANGED <<accountRow, sessions, clients, history>>

Unconsume(c) ==
  /\ At(c, "unconsume") /\ Done(c)
  /\ grant' = [grant EXCEPT ![call[c].kind].consumed = IF @ = c THEN None ELSE @]
  /\ UNCHANGED <<accountRow, sessions, clients, history>>

(***************************************************************************)
(* Suspension, and what fails.                                             *)
(***************************************************************************)
Incident ==
  incidents < MaxIncidents /\ incidents' = incidents + 1 /\ UNCHANGED <<renewed, reused, late>>

Suspend ==
  /\ Offered("suspend") /\ Unlocked /\ ~blocked /\ blocked' = TRUE
  /\ device' = [d \in Devices |-> IF device[d] = "active" THEN "revoked" ELSE device[d]]
  /\ token' = AllRevoked /\ web' = {}
  /\ Incident
  /\ UNCHANGED <<epoch, issued, grant, call, clients>>

Resume ==
  /\ blocked /\ Unlocked /\ blocked' = FALSE
  /\ UNCHANGED <<epoch, sessions, grant, call, clients, history>>

StatementFails(c) ==
  /\ call[c].at \in {"create", "issue", "insert"} /\ Refuse(c) /\ Incident
  /\ UNCHANGED <<accountRow, sessions, grant, clients>>

Dies(c) ==
  /\ call[c].at \notin {"idle", "change", "webChange", "approve", "pair"} /\ Done(c) /\ Incident
  /\ UNCHANGED <<accountRow, sessions, grant, clients>>

Step(c) ==
  \/ CreateDeviceSession(c) \/ ReadDevice(c) \/ IssueSession(c) \/ CreateWebSession(c)
  \/ ChangePassword(c) \/ ChangeWebPassword(c) \/ DestroyForAccount(c)
  \/ Approve(c) \/ CreatePairing(c) \/ Unconsume(c)

Next ==
  \/ \E c \in Callers :
       \/ \E d \in Devices : Login(c, d) \/ VerifyOnDevice(c, d)
       \/ \E d \in Devices, g \in Grants : Exchange(c, g, d)
       \/ WebLogin(c) \/ VerifyOnWeb(c) \/ ResetPassword(c)
       \/ InBrowser(c, "approve", "approval") \/ InBrowser(c, "pair", "pairing")
       \/ Step(c) \/ StatementFails(c) \/ Dies(c)
  \/ \E d \in Devices : \/ Logout(d) \/ RevokeDevice(d) \/ Forget(d)
                        \/ \E q \in Ids : Ask(d, q)
  \/ \E t \in Tokens, q \in Ids : Refresh(t, q)
  \/ EndWebSessions \/ CreateAuthorization \/ Suspend \/ Resume
  \/ \E g \in Grants : Withdraw(g) \/ GrantExpires(g)

Spec == Init /\ [][Next]_authVars

(***************************************************************************)
(* Properties.                                                             *)
(***************************************************************************)
Live(t) == token[t].status = "live"

(* A refresh token that is not revoked belongs to a device that is active,
   was issued since the last change of the password, and is the only one of
   its device (every path that issues, rotates or revokes tokens).  The one
   exception (`late') is a token issued when its device had been revoked
   between two statements of #issueSession: nobody can use it while the device
   stays revoked, and the next session of the device revokes it.            *)
LiveTokensCurrent ==
  \A t \in 1..issued : Live(t) =>
    /\ token[t].epoch = epoch /\ ~blocked
    /\ device[token[t].device] = "active" \/ t \in late
    /\ \A s \in 1..issued : Live(s) /\ token[s].device = token[t].device => s = t

(* ... and somebody who knew the present password asked for it, or approved
   it, unless it answers a password change that another one has overtaken:
   changePassword issues its session without an expected epoch.             *)
LiveTokensProven ==
  \A t \in 1..issued : Live(t) /\ token[t].kind # "change" => token[t].proof = epoch

(* When the web sessions of an account have been ended by a change of the
   password, no earlier sign-in, however late it is answered, makes one
   (changeWebPassword, destroyForAccount, create).                          *)
WebRenewed == \A w \in web : w.kind # "change" => w.proof >= renewed

(* An installation that repeats its refresh with the id it has kept is not
   taken for a thief, in whatever order repeats and answers arrive
   (refresh, rotation_response_ciphertext).                                 *)
NotTakenForReuse == ~reused

(* An approval or a pairing lets one device in once, also when its exchange
   fails half-way and is tried again (exchange, consumed_at).               *)
OneSessionPerGrant == \A g \in Grants : grant[g].sessions <= 1

(* Whoever holds a live token proved who they are by a password, grant or
   token that is still good: a token is of the current epoch of an account
   that is not blocked, and of an active device unless the device was revoked
   while the token was being issued (#issueSession, refresh, changePassword). *)
LiveTokensGood == LiveTokensCurrent /\ LiveTokensProven

(* An installation that asks again with the token it was given last is not
   taken for a thief, a grant makes one session, and no sign-in with an older
   password outlives the end of the web sessions (refresh, exchange, create). *)
HonestStaySignedIn == WebRenewed /\ OneSessionPerGrant /\ NotTakenForReuse
=============================================================================
