-------------------------- MODULE AccessPromises ---------------------------
(***************************************************************************)
(* The sessions of an account with the components beside them, how accounts*)
(* and administrators come to be and the page that connects a device, and  *)
(* with what these promise: MCAccess checks it on instances of them, and   *)
(* AuthSessionsProofs proves it.                                           *)
(***************************************************************************)
EXTENDS AuthSessions

CONSTANTS Logins, Invitations, Requests, MaxUses, Policies
VARIABLES taken, invitation, used, policy, cached, visitor

Invited == INSTANCE Registration

(* An invitation lets in as many as it says, and every use of it is an
   account (register, consume).                                             *)
InvitationsHonoured == Invited!InvitationsAdmitTheirLimit /\ Invited!UsesAreAccounts

CONSTANTS
  Credentials,
  Acts,        \* the operations that requests ask for
  Beginnings
VARIABLES account, settings, credential, reissue, request, booted

Admins == INSTANCE Administrators WITH Accounts <- Logins, Operations <- Acts

(* An instance gets one first administrator, keeps one however requests of
   administrators interleave, and where it has none it says so, so that it
   can be repaired: not yet while it is served by the start that gave it its
   configuration, but with the next one (DeploymentService.initialize).     *)
AdministratorsKept ==
  Admins!AdministratorsRemain /\ Admins!OneFirstAdministrator /\ []Admins!NeverLockedOut

CONSTANTS Pairings, Pages, MaxOpenings, MaxAnswers, MaxLosses, MaxTaken, MaxFailures
VARIABLES
  rows, over, linked, exchanging, page, view, shown, status, target, method, rendered,
  answers, saved, op, farewells, astray, losses, failures

Pairing == INSTANCE ConnectPage WITH row <- rows

CONSTANTS Codes, MaxRequests
VARIABLES
  gate, link, signedIn, field, number, loads, authorization, busy, completed,
  deciding, outcomeOf, crossed, lostAnswers

Typing == INSTANCE ConnectCode

(* The page that connects a device: a link that was given out and still works
   is on the page, saved in the browser or being deleted, and what the page
   says of a device is so, though polls come late and operations outlive the
   page, with the exceptions that NoSpareLink lists; the device and the outcome
   that it shows are of the code that was typed, though answers come out of
   order (device-connection.tsx).                                           *)
ConnectPageSound ==
  /\ Pairing!NoSpareLink /\ Pairing!ConnectedIsTrue
  /\ Typing!OfTheFieldTyped /\ Typing!OutcomeIsTrue /\ Typing!WaitsForSomething
=============================================================================
