------------------------------ MODULE MCAccess ------------------------------
(***************************************************************************)
(* The sessions of one account, the accounts of an instance, those who     *)
(* administer it and the page that connects a device, in scenarios: an     *)
(* initial state chooses the one that runs.                                *)
(*   password  sign-ins against two changes of the password, on a device,  *)
(*             on the web or by a reset                                    *)
(*   refresh   one installation that repeats its refreshes, logs out, is   *)
(*             revoked, is suspended                                       *)
(*   grants    an authorization and a pairing against a reset              *)
(*   first     two installers, setup credentials or repairs at once, on any *)
(*             database the server can be started on                       *)
(*   admins    administrators that suspend, demote and leave at once       *)
(*   invited   registrations against revoked and replaced invitations      *)
(*   restored  credentials of every kind, of one account, over two restores*)
(*   reviewed  two accounts, one administers the instance, over a restore  *)
(*   requeued  a job, over two restores                                    *)
(*   settings  two processes, an editor of the configuration, two updates, *)
(*             a crash                                                     *)
(*   pairing   the page that connects a device: two links, polls, a device *)
(*   undone    the same page, without polls; an exchange fails             *)
(*   pages     the page is left or reloaded, and opened again              *)
(*   typing    two codes are typed into it                                 *)
(***************************************************************************)
EXTENDS AccessPromises, RestorePromise, SettingsPromise, TLC

CONSTANTS d1, c1, c2, q1, q2, a1, a2, chief, member, w1, Scenarios

VARIABLE scenario

administration == <<account, settings, credential, reissue, request, booted>>
registration == <<taken, invitation, used, policy, cached, visitor>>
restoring == <<db, backup, kept, imported, running, minted, seconds, cutoffs, reviewed,
               handled, done, held>>
configuring == <<row, process, form, saving, misjudged, mishap>>
showing == <<rows, over, linked, exchanging, page, view, shown, status, target, method, rendered,
             answers, saved, op, farewells, astray, losses, failures>>
typing == <<gate, link, signedIn, field, number, loads, authorization, busy, completed,
                 deciding, outcomeOf, crossed, lostAnswers>>
connecting == <<showing, typing>>
governing == <<administration, registration, restoring, configuring>>
mcVars == <<scenario, authVars, governing, connecting>>

Password == INSTANCE AuthSessions WITH Devices <- {d1}, Callers <- {c1, c2}, Ids <- {q1},
              Operations <- {"login", "webLogin", "change", "webChange", "reset"},
              MaxTokens <- 2, MaxEpoch <- 2, MaxIncidents <- 0
Refreshing == INSTANCE AuthSessions WITH Devices <- {d1}, Callers <- {c1}, Ids <- {q1, q2},
              Operations <- {"login", "refresh", "logout", "revoke", "suspend"},
              MaxTokens <- 4, MaxEpoch <- 0, MaxIncidents <- 1
Grant    == INSTANCE AuthSessions WITH Devices <- {d1}, Callers <- {c1, c2}, Ids <- {q1},
              Operations <- {"webLogin", "approval", "pairing", "reset"},
              MaxTokens <- 2, MaxEpoch <- 1, MaxIncidents <- 1

First    == INSTANCE Administrators WITH Accounts <- Logins,
              Operations <- {"install", "bootstrap", "repair", "issue", "boot", "register"},
              Beginnings <- {"absent", "legacy", "uninitialized", "ready"}

Reviewed == INSTANCE Restore WITH Accounts <- {chief, member}, Administrator <- Reviewer,
              MaxCredentials <- 2, MaxSeconds <- 1, MaxCutoffs <- 1
Requeued == INSTANCE Restore WITH Work <- {w1}, Administrator <- Reviewer, MaxCredentials <- 1

Paired == INSTANCE ConnectPage WITH row <- rows, MaxLosses <- 0
Undone == INSTANCE ConnectPage WITH row <- rows, MaxLosses <- 0, MaxAnswers <- 0, MaxFailures <- 1
Opened == INSTANCE ConnectPage WITH row <- rows, MaxLosses <- 0, MaxAnswers <- 0, MaxTaken <- 0,
            MaxOpenings <- 2

MCInit ==
  /\ scenario \in Scenarios
  /\ CASE scenario = "refresh" -> Refreshing!Init
       [] scenario = "grants"  -> Grant!Init
       [] OTHER                -> Password!Init
  /\ IF scenario = "first" THEN First!Init ELSE Admins!Init
  /\ scenario # "first" => credential = [q \in Credentials |-> "none"]
  /\ scenario \notin {"first", "admins"} => Admins!ActiveAdmins = {} /\ settings.configured
  /\ Invited!Init
  /\ CASE scenario = "reviewed" -> Reviewed!Init
       [] scenario = "requeued" -> Requeued!Init
       [] OTHER                 -> Restores!Init
  /\ Settings!Init
  /\ IF scenario = "pages" THEN Opened!Init ELSE Paired!Init
  /\ Typing!Init
  /\ scenario # "typing" => link = None /\ \A c \in Codes : gate[c] = "pending"

MCNext ==
  \/ /\ UNCHANGED <<scenario, governing, connecting>>
     /\ \/ scenario = "password" /\ Password!Next
        \/ scenario = "refresh"  /\ Refreshing!Next
        \/ scenario = "grants"   /\ Grant!Next
  \/ /\ UNCHANGED <<scenario, authVars, registration, restoring, configuring, connecting>>
     /\ \/ scenario = "first"    /\ First!Next
        \/ scenario = "admins"   /\ Admins!Next
  \/ scenario = "invited" /\ Invited!Next
     /\ UNCHANGED <<scenario, authVars, administration, restoring, configuring, connecting>>
  \/ /\ UNCHANGED <<scenario, authVars, administration, registration, configuring, connecting>>
     /\ \/ scenario = "restored" /\ Restores!Next
        \/ scenario = "reviewed" /\ Reviewed!Next
        \/ scenario = "requeued" /\ Requeued!Next
  \/ scenario = "settings" /\ Settings!Next
     /\ UNCHANGED <<scenario, authVars, administration, registration, restoring, connecting>>
  \/ /\ UNCHANGED <<scenario, authVars, governing>>
     /\ \/ scenario = "pairing"  /\ Paired!Next  /\ UNCHANGED typing
        \/ scenario = "undone"   /\ Undone!Next  /\ UNCHANGED typing
        \/ scenario = "pages"    /\ Opened!Next  /\ UNCHANGED typing
        \/ scenario = "typing"   /\ Typing!Next  /\ UNCHANGED showing

Symmetry == Permutations({a1, a2}) \cup Permutations({c1, c2}) \cup Permutations({q1, q2})

MCSpec == MCInit /\ [][MCNext]_mcVars

(* What is stored is of its type, in every scenario.                        *)
MCTypeOK ==
  CASE scenario = "password" -> Password!TypeOK
    [] scenario = "refresh"  -> Refreshing!TypeOK
    [] scenario = "grants"   -> Grant!TypeOK
    [] scenario = "first"    -> First!TypeOK
    [] scenario = "admins"   -> Admins!TypeOK
    [] scenario = "invited"  -> Invited!TypeOK
    [] scenario = "restored" -> Restores!TypeOK
    [] scenario = "reviewed" -> Reviewed!TypeOK
    [] scenario = "requeued" -> Requeued!TypeOK
    [] scenario = "settings" -> Settings!TypeOK
    [] scenario = "pairing"  -> Paired!TypeOK
    [] scenario = "undone"   -> Undone!TypeOK
    [] scenario = "pages"    -> Opened!TypeOK
    [] scenario = "typing"   -> Typing!TypeOK

(* Nobody signs in to a restored account before an administrator of the
   instance reviewed it.                                                     *)
ReviewedBeforeSignIn == scenario = "reviewed" => Reviewed!ReviewedBeforeSignIn
=============================================================================
