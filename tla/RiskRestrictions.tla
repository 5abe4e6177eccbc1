-------------------------- MODULE RiskRestrictions --------------------------
(***************************************************************************)
(* The restrictions on one account: staff and administrators of the        *)
(* instance put, change and lift them while the account signs in.          *)
(* Sources: risk/service.ts, admin/service.ts, auth/service.ts,            *)
(* auth/web-session-service.ts, staff/service.ts, staff/session-service.ts *)
(* and routes/staff-risk.ts.                                               *)
(*                                                                         *)
(* A request is a task in steps.  The advisory locks, one of the staff and *)
(* one of the administrators, are left out: whoever holds one goes on to   *)
(* lock the account, where the two kinds meet.  The permissions to manage  *)
(* and to administer restrictions come with the same roles, so a member of *)
(* staff has both or none.  That an administrator restricts neither itself *)
(* nor the last other one is left to Administrators and the README.        *)
(***************************************************************************)
EXTENDS Integers, Sequences

CONSTANTS Staff, Tasks, Keys, None,
          MaxRestrictions   \* bound: rows

VARIABLES restrictions,  \* the rows, in the order of their insertion
          entitled,      \* who holds a role with risk.manage and risk.admin
          assurance,     \* of the session of each member of staff
          task,
          decided        \* history: what was answered last, until it expires

riskVars == <<restrictions, entitled, assurance, task, decided>>

Actors == Staff \cup {"administrator"}
Ends == {"never", "later"}
NoTask == [pc |-> "idle", kind |-> None, actor |-> None, key |-> None, until |-> None, row |-> None]
Rows == DOMAIN restrictions

(* Types, and the index: one row of a scope and an action is not revoked.   *)
TypeOK ==
  /\ \A i \in Rows : /\ restrictions[i].key \in Keys /\ restrictions[i].open \in BOOLEAN
                     /\ restrictions[i].until \in Ends \cup {"past"}
  /\ \A i, j \in Rows : restrictions[i].open /\ restrictions[j].open
                        /\ restrictions[i].key = restrictions[j].key => i = j
  /\ entitled \subseteq Staff /\ assurance \in [Staff -> {"none", "low", "high"}]
  /\ \A r \in Tasks : /\ task[r].pc \in {"idle", "asked", "locked", "found"}
                      /\ task[r].row \in Rows \cup {None}
  /\ decided \in [Keys -> Ends \cup {None}]

Init ==
  /\ restrictions = <<>> /\ entitled = Staff /\ assurance = [s \in Staff |-> "none"]
  /\ task = [r \in Tasks |-> NoTask] /\ decided = [k \in Keys |-> None]

-----------------------------------------------------------------------------
(* getActiveRestrictions, of the scopes an operation asks for.              *)
InForce(k) == \E i \in Rows : /\ restrictions[i].open /\ restrictions[i].key = k
                              /\ restrictions[i].until # "past"
Heeds(scope) == {k \in Keys : k.scope \in {scope, "all"}}
Passes(scope) == \A k \in Heeds(scope) : ~InForce(k)
HighImpact(k, until) == k.action \in {"deny", "lock"} \/ until = "never"

(* Faults: a row is read and not locked.                                    *)
AccountUnlocked == TRUE
RowUnlocked(i) == TRUE

(* The account's row is locked by sign-ins and by those who restrict it; a  *)
(* restriction's row by whoever found it.                                   *)
AccountFree == \A r \in Tasks : task[r].kind = "lift" \/ task[r].pc \notin {"locked", "found"}
RowFree(i) == \A r \in Tasks : task[r].pc # "found" \/ task[r].row # i

At(r, kind, pc) == task[r].kind = kind /\ task[r].pc = pc
Step(r, pc) == task' = [task EXCEPT ![r].pc = pc]
End(r) == task' = [task EXCEPT ![r] = NoTask]
Ask(r, kind, actor, k, until, i) ==
  /\ task[r] = NoTask
  /\ task' = [task EXCEPT ![r] = [pc |-> "asked", kind |-> kind, actor |-> actor,
                                  key |-> k, until |-> until, row |-> i]]
  /\ UNCHANGED <<restrictions, entitled, assurance, decided>>

(* requireStaffSession or requireHighAssuranceStaffSession, and then        *)
(* requirePermission; of an administrator, assertAdmin.                     *)
May(actor, grades) ==
  actor \in Staff => actor \in entitled /\ assurance[actor] \in grades

-----------------------------------------------------------------------------
(* Signing in: authenticate heeds the restrictions and so does, with the    *)
(* account locked, the transaction that issues the session.                 *)
SignIn(r) == Passes("authentication") /\ Ask(r, "signIn", None, None, None, None)

LockAccount(r) ==
  /\ task[r].pc = "asked" /\ task[r].kind \in {"signIn", "restrict"} /\ AccountFree
  /\ Step(r, "locked")
  /\ UNCHANGED <<restrictions, entitled, assurance, decided>>

(* Fault: what authenticate found is enough.                                *)
Believe(r) ==
  /\ At(r, "signIn", "locked") /\ Step(r, "found")
  /\ UNCHANGED <<restrictions, entitled, assurance, decided>>

Enforce(r) ==
  /\ At(r, "signIn", "locked")
  /\ IF Passes("authentication") THEN Step(r, "found") ELSE End(r)
  /\ UNCHANGED <<restrictions, entitled, assurance, decided>>

Issue(r) ==
  /\ At(r, "signIn", "found") /\ End(r)
  /\ UNCHANGED <<restrictions, entitled, assurance, decided>>

-----------------------------------------------------------------------------
(* upsertStaffAccountRestriction and upsertAccountRiskRestriction: the row  *)
(* that is not revoked is rewritten, also when it has expired.              *)
Restrict(r, actor, k, until) ==
  /\ May(actor, IF HighImpact(k, until) THEN {"high"} ELSE {"low", "high"})
  /\ Ask(r, "restrict", actor, k, until, None)

Find(r) ==
  LET found == {i \in Rows : restrictions[i].open /\ restrictions[i].key = task[r].key} IN
  /\ At(r, "restrict", "locked") /\ \A i \in found : RowFree(i)
  /\ task' = [task EXCEPT ![r].pc = "found",
                          ![r].row = IF found = {} THEN None ELSE CHOOSE i \in found : TRUE]
  /\ UNCHANGED <<restrictions, entitled, assurance, decided>>

Write(r) ==
  /\ At(r, "restrict", "found")
  /\ IF task[r].row = None
     THEN /\ Len(restrictions) < MaxRestrictions
          /\ restrictions' = Append(restrictions,
               [key |-> task[r].key, until |-> task[r].until, open |-> TRUE])
     ELSE restrictions' = [restrictions EXCEPT ![task[r].row].until = task[r].until]
  /\ decided' = [decided EXCEPT ![task[r].key] = task[r].until]
  /\ End(r) /\ UNCHANGED <<entitled, assurance>>

(* revokeStaffAccountRestriction and revokeAccountRiskRestriction: a deny   *)
(* or a lock asks staff for the permission again, with the row locked.      *)
Lift(r, actor, i) == May(actor, {"high"}) /\ Ask(r, "lift", actor, restrictions[i].key, None, i)

FindOpen(r) ==
  /\ At(r, "lift", "asked") /\ RowFree(task[r].row)
  /\ IF restrictions[task[r].row].open THEN Step(r, "found") ELSE End(r)
  /\ UNCHANGED <<restrictions, entitled, assurance, decided>>

Revoke(r) ==
  LET i == task[r].row k == task[r].key
      refused == HighImpact(k, None) /\ task[r].actor \in Staff \ entitled IN
  /\ At(r, "lift", "found") /\ End(r) /\ UNCHANGED <<entitled, assurance>>
  /\ IF refused THEN UNCHANGED <<restrictions, decided>>
     ELSE /\ restrictions' = [restrictions EXCEPT ![i].open = FALSE]
          /\ decided' = [decided EXCEPT ![k] = None]

-----------------------------------------------------------------------------
(* expires_at passes.                                                       *)
Expire(i) ==
  /\ restrictions[i].until = "later"
  /\ restrictions' = [restrictions EXCEPT ![i].until = "past"]
  /\ decided' = IF restrictions[i].open THEN [decided EXCEPT ![restrictions[i].key] = None]
                ELSE decided
  /\ UNCHANGED <<entitled, assurance, task>>

(* establishVerifiedFederatedSession; the five minutes of a step-up; the    *)
(* end of a session.                                                        *)
ChangeSession(s, from, to) ==
  /\ assurance[s] \in from /\ \E grade \in to : assurance' = [assurance EXCEPT ![s] = grade]
  /\ UNCHANGED <<restrictions, entitled, task, decided>>

Establish(s)     == ChangeSession(s, {"none"}, {"low", "high"})
Fades(s)         == ChangeSession(s, {"high"}, {"low"})
RevokeSession(s) == ChangeSession(s, {"low", "high"}, {"none"})

(* grantRole, revokeRole.                                                   *)
ChangeRoles == UNCHANGED <<restrictions, assurance, task, decided>>

GrantRole(s)  == s \notin entitled /\ entitled' = entitled \cup {s} /\ ChangeRoles
RevokeRole(s) == s \in entitled /\ entitled' = entitled \ {s} /\ ChangeRoles

(* A transaction that ends without its commit.                              *)
Abort(r) ==
  /\ task[r].pc \in {"locked", "found"} /\ End(r)
  /\ UNCHANGED <<restrictions, entitled, assurance, decided>>

Next ==
  \/ \E r \in Tasks :
       \/ SignIn(r) \/ LockAccount(r) \/ Enforce(r) \/ Issue(r)
       \/ Find(r) \/ Write(r) \/ FindOpen(r) \/ Revoke(r) \/ Abort(r)
       \/ \E actor \in Actors :
            \/ \E k \in Keys, until \in Ends : Restrict(r, actor, k, until)
            \/ \E i \in Rows : Lift(r, actor, i)
  \/ \E i \in Rows : Expire(i)
  \/ \E s \in Staff : Establish(s) \/ Fades(s) \/ RevokeSession(s) \/ GrantRole(s) \/ RevokeRole(s)

Spec == Init /\ [][Next]_riskVars

-----------------------------------------------------------------------------
(* What was answered last about a scope and an action is what the account   *)
(* is under, until it expires: neither of two requests at once is lost, and *)
(* what was lifted is in force nowhere else.                                *)
AnswersStand == \A k \in Keys : (decided[k] # None) = InForce(k)

(* No session is issued under a restriction that was answered before: past  *)
(* its last check, a sign-in has the account for itself until it commits.   *)
IssuedUnrestricted ==
  \A r \in Tasks : At(r, "signIn", "found") =>
    \A k \in Heeds("authentication") : decided[k] = None

(* What was answered about a restriction stands, and no session is issued
   under one.                                                               *)
RestrictionsSound == AnswersStand /\ IssuedUnrestricted
=============================================================================
