---------------------------- MODULE Registration ----------------------------
(***************************************************************************)
(* How accounts come to an instance that has its administrator:            *)
(* invitations (invitations/service.ts) and open registration              *)
(* (routes/web-auth.ts, auth/service.ts).                                  *)
(*                                                                         *)
(* The policy is the one DeploymentService read last, looked at before the *)
(* password is hashed; an invitation is read in the transaction and used   *)
(* by a conditional update of it.                                          *)
(***************************************************************************)
EXTENDS Integers, FiniteSets

CONSTANTS
  Logins,      \* logins people register under
  Invitations, \* bound: ids of invitations
  Requests,    \* concurrent registrations
  MaxUses,     \* of an invitation that is bound to no address
  Policies,    \* "disabled", "invitation" and "public"
  None         \* no value

VARIABLES
  taken,      \* account_login_claims: the logins that have an account
  invitation, \* registration_invitations
  used,       \* registration_invitation_uses: the accounts of each invitation
  policy,     \* deployment_settings.registration_policy
  cached,     \* the policy DeploymentService holds
  visitor     \* registrations under way

registrationVars == <<taken, invitation, used, policy, cached, visitor>>

NoInvitation == [state |-> "none", limit |-> 1, uses |-> 0, bound |-> FALSE, replaces |-> None,
                 mail |-> "none"]
Nobody == [login |-> None, by |-> None, step |-> "idle"]

TypeOK ==
  /\ taken \subseteq Logins
  /\ invitation \in [Invitations -> [state : {"none", "open", "closed"}, limit : {1, MaxUses},
                                     uses : 0 .. MaxUses, bound : BOOLEAN,
                                     replaces : Invitations \cup {None},
                                     mail : {"none", "pending", "claimed", "cancelled"}]]
  /\ used \in [Invitations -> SUBSET Logins]
  /\ policy \in Policies /\ cached \in Policies
  /\ visitor \in [Requests -> [login : Logins \cup {None}, by : Invitations \cup {None},
                               step : {"idle", "admitted", "using"}]]

Init ==
  /\ taken = {} /\ used = [i \in Invitations |-> {}]
  /\ invitation = [i \in Invitations |-> NoInvitation]
  /\ policy = "invitation" /\ cached = "invitation"
  /\ visitor = [r \in Requests |-> Nobody]

-----------------------------------------------------------------------------
Usable(i) == invitation[i].state = "open" /\ invitation[i].uses < invitation[i].limit

(* create: one bound to an address has one use and may be mailed.           *)
Create(i, bound, limit, mail) ==
  /\ cached = "invitation" /\ invitation[i].state = "none"
  /\ (bound => limit = 1) /\ (mail = "pending" => bound)
  /\ invitation' = [invitation EXCEPT ![i] = [NoInvitation EXCEPT !.state = "open", !.limit = limit,
                                              !.bound = bound, !.mail = mail]]
  /\ UNCHANGED <<taken, used, policy, cached, visitor>>

(* cancelQueuedDeliveryInTransaction: not one a worker holds.               *)
Cancelled(m) == IF m = "pending" THEN "cancelled" ELSE m

(* One that has expired is closed already, its mail may not be.              *)
Revoke(i) ==
  /\ invitation[i].state = "open" \/ invitation[i].mail = "pending"
  /\ invitation' = [invitation EXCEPT ![i].state = "closed", ![i].mail = Cancelled(@)]
  /\ UNCHANGED <<taken, used, policy, cached, visitor>>

(* replaceAndSend, with the row of the invitation locked.                   *)
Replace(i, j) ==
  /\ Usable(i) /\ invitation[i].bound /\ invitation[j].state = "none"
  /\ invitation' = [invitation EXCEPT
       ![i].state = "closed", ![i].mail = Cancelled(@),
       ![j] = [NoInvitation EXCEPT !.state = "open", !.bound = TRUE, !.replaces = i, !.mail = "pending"]]
  /\ UNCHANGED <<taken, used, policy, cached, visitor>>

(* The mail worker takes the message (module MailOutbox).                   *)
Claim(i) ==
  /\ invitation[i].mail = "pending" /\ invitation' = [invitation EXCEPT ![i].mail = "claimed"]
  /\ UNCHANGED <<taken, used, policy, cached, visitor>>

InvitationExpires(i) ==
  /\ invitation[i].state = "open" /\ invitation' = [invitation EXCEPT ![i].state = "closed"]
  /\ UNCHANGED <<taken, used, policy, cached, visitor>>

(* setRegistrationPolicy: the settings, and then this process's copy.       *)
SetPolicy(p) ==
  /\ policy' = p
  /\ UNCHANGED <<taken, invitation, used, cached, visitor>>

Reload ==
  /\ cached # policy /\ cached' = policy
  /\ UNCHANGED <<taken, invitation, used, policy, visitor>>

-----------------------------------------------------------------------------
(* accept, or registerAccount when by is None.                              *)
Arrive(r, l, i) ==
  /\ visitor[r] = Nobody
  /\ cached = IF i = None THEN "public" ELSE "invitation"
  /\ visitor' = [visitor EXCEPT ![r] = [login |-> l, by |-> i, step |-> "admitted"]]
  /\ UNCHANGED <<taken, invitation, used, policy, cached>>

(* The transaction reads the invitation.                                    *)
Read(r) ==
  LET i == visitor[r].by IN
    /\ visitor[r].step = "admitted" /\ i # None
    /\ visitor' = [visitor EXCEPT ![r] = IF Usable(i) THEN [@ EXCEPT !.step = "using"] ELSE Nobody]
    /\ UNCHANGED <<taken, invitation, used, policy, cached>>

(* Fault: the update asks only for uses that are left.                      *)
UsesLeft(i) == invitation[i].uses < invitation[i].limit

(* The condition of the update that uses it.                                *)
Consumable(i) == Usable(i)

(* Fault: a use is counted although the login turns out to be taken.        *)
CountedEarly(i, l) == TRUE

(* A login that is taken undoes the transaction.                            *)
Counted(i, l) == l \notin taken

Use(r) ==
  LET i == visitor[r].by
      l == visitor[r].login IN
    /\ visitor[r].step = "using"
    /\ IF Consumable(i)
       THEN /\ invitation' = [invitation EXCEPT ![i].uses = IF Counted(i, l) THEN @ + 1 ELSE @]
            /\ taken' = taken \cup {l}
            /\ used' = [used EXCEPT ![i] = IF l \in taken THEN @ ELSE @ \cup {l}]
       ELSE UNCHANGED <<taken, invitation, used>>
    /\ visitor' = [visitor EXCEPT ![r] = Nobody]
    /\ UNCHANGED <<policy, cached>>

RegisterAccount(r) ==
  /\ visitor[r].step = "admitted" /\ visitor[r].by = None
  /\ taken' = taken \cup {visitor[r].login}
  /\ visitor' = [visitor EXCEPT ![r] = Nobody]
  /\ UNCHANGED <<invitation, used, policy, cached>>

Next ==
  \/ \E i \in Invitations :
       \/ \E bound \in BOOLEAN, limit \in {1, MaxUses}, mail \in {"none", "pending"} : Create(i, bound, limit, mail)
       \/ Revoke(i) \/ Claim(i) \/ InvitationExpires(i)
       \/ \E j \in Invitations : Replace(i, j)
  \/ \E p \in Policies : SetPolicy(p)
  \/ Reload
  \/ \E r \in Requests :
       \/ Read(r) \/ Use(r) \/ RegisterAccount(r)
       \/ \E l \in Logins, i \in Invitations \cup {None} : Arrive(r, l, i)

Spec == Init /\ [][Next]_registrationVars

-----------------------------------------------------------------------------
(* An invitation and those that replaced it, one after the other.           *)
Replacements(i) ==
  {j \in Invitations : \E f \in [0 .. Cardinality(Invitations) -> Invitations] :
     \E n \in 0 .. Cardinality(Invitations) :
       f[0] = i /\ f[n] = j /\ \A k \in 1 .. n : invitation[f[k]].replaces = f[k - 1]}

(* However often its mail is sent again, an invitation for one address makes
   one account, and any other no more accounts than it has uses.            *)
InvitationsAdmitTheirLimit ==
  \A i \in Invitations :
    Cardinality(UNION {used[j] : j \in Replacements(i)}) <= invitation[i].limit

(* A use that is counted is an account, whichever of its statements fails.  *)
UsesAreAccounts == \A i \in Invitations : invitation[i].uses = Cardinality(used[i])
=============================================================================
