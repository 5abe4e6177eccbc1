-------------------------- MODULE WorkspaceMembers --------------------------
(***************************************************************************)
(* Sharing one library: WorkspaceCollaborationService                      *)
(* (workspaces/collaboration-service.ts).  What the actor may do is read   *)
(* before the statement that does it (assertCapability), so a request goes *)
(* on with capabilities that may have been taken away meanwhile.           *)
(***************************************************************************)
EXTENDS Integers

CONSTANTS
  People,       \* accounts other than the owner's
  Owner,        \* the account that owns the workspace
  Capabilities, \* of members; inviting, updating and removing are among them
  Invitations,  \* bound: ids of invitations
  Callers,      \* concurrent requests
  None          \* no value

VARIABLES
  members,    \* workspace_members: the capabilities of each member
  invitation, \* workspace_invitations
  request,    \* requests whose access has been checked
  granted,    \* history: capabilities the owner has given to somebody
  held,       \* history: what the actor of each request held at some time of it
  admitted    \* history: whom each invitation has admitted

memberVars == <<members, invitation, request, granted, held, admitted>>

NoInvitation == [status |-> "none", invitee |-> None, can |-> {}]
NoRequest    == [op |-> "none", actor |-> None, can |-> {}]

(* Rows and requests have their types (all of WorkspaceMembers).            *)
TypeOK ==
  /\ members \in [People -> (SUBSET Capabilities) \cup {None}]
  /\ invitation \in [Invitations -> [status : {"none", "pending", "accepted", "revoked", "expired"},
                                     invitee : People \cup {"link", None},
                                     can : SUBSET Capabilities]]
  /\ request \in [Callers -> [op : {"invite", "update", "remove"}, actor : People \cup {Owner},
                              can : SUBSET Capabilities] \cup {NoRequest}]
  /\ granted \subseteq Capabilities
  /\ held \in [Callers -> SUBSET Capabilities]
  /\ admitted \in [Invitations -> SUBSET People]

Init ==
  /\ members = [p \in People |-> None]
  /\ invitation = [i \in Invitations |-> NoInvitation]
  /\ request = [c \in Callers |-> NoRequest]
  /\ granted = {} /\ held = [c \in Callers |-> {}]
  /\ admitted = [i \in Invitations |-> {}]

Member(p) == members[p] # None

(* access: the owner has every capability.                                  *)
Held(a) == IF a = Owner THEN Capabilities ELSE IF Member(a) THEN members[a] ELSE {}

(* History: a request that is under way sees what its actor comes to hold.  *)
Watch ==
  held' = [c \in Callers |-> IF request'[c].op = "none" THEN {}
                             ELSE held[c] \cup Held(request[c].actor)']

(* assertCapability, before the operation.                                  *)
AssertCapability(c, a, op) ==
  /\ request[c].op = "none" /\ op \in Held(a)
  /\ request' = [request EXCEPT ![c] = [op |-> op, actor |-> a, can |-> Held(a)]]
  /\ UNCHANGED <<members, invitation, granted, admitted>> /\ Watch

Doing(c, op) == request[c].op = op /\ request' = [request EXCEPT ![c] = NoRequest]

(* Fault: a member may hand out whatever the owner has given to somebody.    *)
GrantsGiven(c, can) == request[c].actor = Owner \/ can \subseteq granted

AssertGrantable(c, can) == request[c].actor = Owner \/ can \subseteq request[c].can

ByOwner(c, can) == granted' = IF request[c].actor = Owner THEN granted \cup can ELSE granted

Pending(p) == {i \in Invitations : invitation[i].status = "pending" /\ invitation[i].invitee = p}

(* A pending invitation of the same account is replaced in its place.       *)
Invite(c, i, invitee, can) ==
  /\ AssertGrantable(c, can) /\ Doing(c, "invite") /\ ByOwner(c, can)
  /\ \/ invitation[i].status = "none" /\ (invitee = "link" \/ Pending(invitee) = {})
     \/ invitee # "link" /\ i \in Pending(invitee)
  /\ invitation' = [invitation EXCEPT ![i] = [status |-> "pending", invitee |-> invitee, can |-> can]]
  /\ UNCHANGED <<members, admitted>> /\ Watch

(* Fault: the state of the invitation is not looked at.                     *)
Issued(i) == invitation[i].status \in {"pending", "accepted"}

Acceptable(i) == invitation[i].status = "pending"

(* One transaction, the invitation locked.  The capabilities of one who is a
   member already are replaced.                                             *)
Accept(i, p) ==
  /\ Acceptable(i) /\ invitation[i].invitee \in {"link", p}
  /\ members' = [members EXCEPT ![p] = invitation[i].can]
  /\ invitation' = [invitation EXCEPT ![i].status = "accepted"]
  /\ admitted' = [admitted EXCEPT ![i] = @ \cup {p}]
  /\ UNCHANGED <<request, granted>> /\ Watch

Expire(i) ==
  /\ Acceptable(i)
  /\ invitation' = [invitation EXCEPT ![i].status = "expired"]
  /\ UNCHANGED <<members, request, granted, admitted>> /\ Watch

UpdateMember(c, p, can) ==
  /\ AssertGrantable(c, can) /\ Doing(c, "update") /\ ByOwner(c, can)
  /\ Member(p) /\ members' = [members EXCEPT ![p] = can]
  /\ UNCHANGED <<invitation, admitted>> /\ Watch

RemoveMember(c, p) ==
  /\ Doing(c, "remove")
  /\ Member(p) /\ members' = [members EXCEPT ![p] = None]
  /\ UNCHANGED <<invitation, granted, admitted>> /\ Watch

RevokeInvitation(c, i) ==
  /\ Doing(c, "invite")
  /\ Acceptable(i) /\ invitation' = [invitation EXCEPT ![i].status = "revoked"]
  /\ UNCHANGED <<members, granted, admitted>> /\ Watch

Abandon(c) ==
  /\ request[c].op # "none" /\ request' = [request EXCEPT ![c] = NoRequest]
  /\ UNCHANGED <<members, invitation, granted, admitted>> /\ Watch

Next ==
  \/ \E c \in Callers :
       \/ \E a \in People \cup {Owner}, op \in {"invite", "update", "remove"} :
            AssertCapability(c, a, op)
       \/ \E i \in Invitations, p \in People \cup {"link"}, can \in SUBSET Capabilities :
            Invite(c, i, p, can)
       \/ \E p \in People, can \in SUBSET Capabilities : UpdateMember(c, p, can)
       \/ \E p \in People : RemoveMember(c, p)
       \/ \E i \in Invitations : RevokeInvitation(c, i)
       \/ Abandon(c)
  \/ \E i \in Invitations : Expire(i) \/ \E p \in People : Accept(i, p)

Spec == Init /\ [][Next]_memberVars

(***************************************************************************)
(* Properties.                                                             *)
(***************************************************************************)
(* Members hand on capabilities, have them changed, are removed and return,
   and requests go on with what they read before: together the members and
   the open invitations never hold what the owner has not given to anybody
   (assertGrantable).                                                       *)
BackToOwner ==
  /\ \A p \in People : Member(p) => members[p] \subseteq granted
  /\ \A i \in Invitations : Acceptable(i) => invitation[i].can \subseteq granted

(* The request of c ends, and its actor is the owner or has held each of
   these capabilities at some time since the request was checked.           *)
HandsOn(c, can) ==
  /\ request[c].op # "none" /\ request'[c].op = "none"
  /\ request[c].actor = Owner \/ can \subseteq held[c]

(* What a member or an invitation comes to hold is handed on by one who held
   it: by the owner, or by a member who had all of it himself at some time of
   his request.  He may have lost it between the check and the statement, but
   never before the check (collaboration-service.ts:97, assertGrantable); one
   who accepts gets what his invitation held.                               *)
NothingOutOfThinAir ==
  /\ \A p \in People : members'[p] \notin {members[p], None} =>
       \/ \E c \in Callers : HandsOn(c, members'[p])
       \/ \E i \in Invitations : Acceptable(i) /\ members'[p] = invitation[i].can
  /\ \A i \in Invitations : invitation'[i].can # invitation[i].can =>
       \E c \in Callers : HandsOn(c, invitation'[i].can)

(* A link that has let one account in lets in no other (#accept).           *)
LinkAdmitsOne == \A i \in Invitations : \A p, q \in admitted[i] : p = q
=============================================================================
