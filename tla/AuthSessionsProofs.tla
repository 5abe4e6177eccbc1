-------------------------- MODULE AuthSessionsProofs --------------------------
(***************************************************************************)
(* Who has access, for any number of accounts, devices and requests,       *)
(* checked by TLAPS: live tokens are current and were proven, grants make  *)
(* one session, and an installation that repeats its refresh is not taken  *)
(* for a thief; an invitation makes the accounts it has uses for; an       *)
(* instance comes to one administrator and never loses its last; nobody    *)
(* who is restricted signs in; and the page that connects a device leaves  *)
(* no link behind and says what is so.                                     *)
(***************************************************************************)
EXTENDS AccessPromises, Sequences, FiniteSetTheorems, WellFoundedInduction, TLAPS

(* A request under way knows an epoch that is not ahead of the account's, and
   what it will compare with it is what its credential was good for.        *)
RowSound(r, e) ==
  /\ r.proof <= e
  /\ r.at \in {"create", "issue", "insert"} =>
       r.device \in Devices /\ r.kind # "reset" /\ (r.kind = "change" \/ r.expect = r.proof)
  /\ r.at = "web" =>
       r.kind \in {"login", "change", "reset"} /\ (r.kind = "change" \/ r.expect = r.proof)
  /\ r.at = "change" => r.device \in Devices
  /\ r.at \in {"change", "webChange", "destroy"} => r.kind = "change"
  /\ r.at = "unconsume" => r.kind \in Grants

CallsSound ==
  /\ renewed <= epoch
  /\ \A g \in Grants : grant[g].epoch <= epoch
  /\ \A c \in Callers : RowSound(call[c], epoch)

(* Of the requests that hold the account's row there is one, the account is
   as it was when that one read it, and there is a token for it.            *)
LockSound ==
  \A c \in Callers : At(c, "insert") =>
    Current(c) /\ issued < MaxTokens /\ \A b \in Callers : At(b, "insert") => b = c

(* A request that is to make the session of a grant holds the grant, which
   has made none; and a grant that nobody holds has made none.              *)
Holds(c, g) ==
  call[c].at \in {"create", "issue", "insert", "unconsume"} /\ call[c].kind = g

GrantsSound ==
  \A g \in Grants :
    /\ grant[g].sessions <= 1
    /\ grant[g].consumed = None => grant[g].sessions = 0
    /\ \A c \in Callers : Holds(c, g) => grant[g].consumed = c /\ grant[g].sessions = 0

(* A token belongs to one device for good; its successor and whoever stores
   it are of that device.                                                   *)
TokensOwned ==
  /\ \A t \in Tokens : t <= issued => token[t].device \in Devices
  /\ \A t \in Tokens : token[t].status = "rotated" =>
       /\ token[t].next <= issued /\ token[token[t].next].device = token[t].device
       /\ <<t, token[t].id>> \in asked
  /\ \A d \in Devices : client[d].token # 0 =>
       client[d].token <= issued /\ token[client[d].token].device = d
  /\ \A x \in asked : x[1] <= issued

(* Only an installation that has lost its request id asks twice with the same
   token under different ids.                                               *)
AskedOnce ==
  \A t \in Tokens, q, r \in Ids :
    <<t, q>> \in asked /\ <<t, r>> \in asked /\ q # r => client[token[t].device].forgot

(***************************************************************************)
(* Types.                                                                  *)
(***************************************************************************)
TokenRows  == [device : Devices \cup {None}, status : {"unused", "live", "rotated", "revoked"},
               epoch : Epochs, proof : Epochs, kind : Kinds, id : Ids \cup {None},
               next : {0} \cup Tokens]
GrantRows  == [status : {"none", "pending", "approved", "denied", "expired"},
               epoch : Epochs, consumed : Callers \cup {None}, sessions : Nat]
Stages     == {"idle", "create", "issue", "insert", "unconsume", "change", "webChange", "destroy", "web",
               "approve", "pair"}
CallRows   == [at : Stages, kind : Kinds, device : Devices \cup {None},
               expect : Epochs \cup {None}, proof : Epochs]
ClientRows == [token : {0} \cup Tokens, id : Ids \cup {None}, forgot : BOOLEAN]

TokenSteps ==
  \A t \in Tokens : /\ token[t].status = "unused" <=> t > issued
                    /\ token[t].status = "rotated" => token[t].next > t

LEMMA TypeParts ==
  TypeOK <=> /\ epoch \in Epochs /\ blocked \in BOOLEAN
             /\ device \in [Devices -> {"unknown", "active", "revoked"}]
             /\ token \in [Tokens -> TokenRows] /\ TokenSteps
             /\ issued \in {0} \cup Tokens
             /\ web \subseteq [proof : Epochs, kind : {"login", "change", "reset"}]
             /\ grant \in [Grants -> GrantRows]
             /\ call \in [Callers -> CallRows]
             /\ client \in [Devices -> ClientRows]
             /\ asked \subseteq Tokens \X Ids
             /\ renewed \in Epochs /\ reused \in BOOLEAN /\ incidents \in 0..MaxIncidents
             /\ late \subseteq Tokens
BY DEF TypeOK, TokenRows, TokenSteps, GrantRows, CallRows, Stages, ClientRows

LEMMA TypePartsAfter ==
  TypeOK' <=> /\ epoch' \in Epochs /\ blocked' \in BOOLEAN
              /\ device' \in [Devices -> {"unknown", "active", "revoked"}]
              /\ token' \in [Tokens -> TokenRows] /\ TokenSteps'
              /\ issued' \in {0} \cup Tokens
              /\ web' \subseteq [proof : Epochs, kind : {"login", "change", "reset"}]
              /\ grant' \in [Grants -> GrantRows]
              /\ call' \in [Callers -> CallRows]
              /\ client' \in [Devices -> ClientRows]
              /\ asked' \subseteq Tokens \X Ids
              /\ renewed' \in Epochs /\ reused' \in BOOLEAN /\ incidents' \in 0..MaxIncidents
              /\ late' \subseteq Tokens
BY DEF TypeOK, TokenRows, TokenSteps, GrantRows, CallRows, Stages, ClientRows, Epochs, Tokens

(* What the helpers on the rows of requests do.                             *)
LEMMA CallHelpers ==
  ASSUME call \in [Callers -> CallRows], NEW c \in Callers
  PROVE  /\ Done(c) => call' \in [Callers -> CallRows]
         /\ \A s \in Stages : Goto(c, s) => call' \in [Callers -> CallRows]
         /\ Refuse(c) => call' \in [Callers -> CallRows]
         /\ \A s \in Stages, k \in Kinds, d \in Devices \cup {None}, e \in Epochs \cup {None},
               p \in Epochs : Begin(c, s, k, d, e, p) => call' \in [Callers -> CallRows]
<1>0. Idle \in CallRows
  BY BoundsAssumption DEF Idle, CallRows, Stages, Kinds, Epochs
<1>1. Done(c) => call' \in [Callers -> CallRows]
  BY <1>0 DEF Done
<1>2. ASSUME NEW s \in Stages, Goto(c, s)
      PROVE  call' \in [Callers -> CallRows]
  <2>1. [call[c] EXCEPT !.at = s] \in CallRows
    BY <1>2 DEF CallRows
  <2>2. call' = [call EXCEPT ![c] = [call[c] EXCEPT !.at = s]]
    BY <1>2 DEF Goto
  <2> QED  BY <2>1, <2>2
<1>3. Refuse(c) => call' \in [Callers -> CallRows]
  BY <1>1, <1>2 DEF Refuse, Stages
<1>4. ASSUME NEW s \in Stages, NEW k \in Kinds, NEW d \in Devices \cup {None},
             NEW e \in Epochs \cup {None}, NEW p \in Epochs, Begin(c, s, k, d, e, p)
      PROVE  call' \in [Callers -> CallRows]
  <2> DEFINE r == [at |-> s, kind |-> k, device |-> d, expect |-> e, proof |-> p]
  <2>1. r \in CallRows
    BY DEF CallRows
  <2>2. call' = [call EXCEPT ![c] = r]
    BY <1>4 DEF Begin
  <2> QED  BY <2>1, <2>2
<1> QED  BY <1>1, <1>2, <1>3, <1>4

(* Revoking tokens keeps everything else of them.                           *)
Fells(S) ==
  token' = [t \in Tokens |-> IF t \in S THEN [token[t] EXCEPT !.status = "revoked"] ELSE token[t]]

LEMMA FellsTyped ==
  ASSUME TypeOK, NEW S \in SUBSET (1..issued), Fells(S), UNCHANGED issued
  PROVE  token' \in [Tokens -> TokenRows] /\ TokenSteps'
<1>1. ASSUME NEW t \in Tokens PROVE [token[t] EXCEPT !.status = "revoked"] \in TokenRows
  BY TypeParts DEF TokenRows
<1>2. token' \in [Tokens -> TokenRows]
  BY <1>1, TypeParts DEF Fells
<1>3. ASSUME NEW t \in Tokens
      PROVE  /\ token'[t].status = "unused" <=> t > issued
             /\ token'[t].status = "rotated" => token'[t].next > t
  <2>1. CASE t \in S
    BY <2>1, TypeParts DEF Fells, TokenRows, TokenSteps, Tokens
  <2>2. CASE t \notin S
    BY <2>2, TypeParts DEF Fells, TokenRows, TokenSteps, Tokens
  <2> QED  BY <2>1, <2>2
<1> QED  BY <1>2, <1>3 DEF TokenSteps

LEMMA Felling ==
  ASSUME TypeOK
  PROVE  /\ \A d \in Devices : token' = Superseding(d) =>
              Fells({t \in Tokens : token[t].device = d /\ t <= issued})
         /\ token' = AllRevoked => Fells({t \in Tokens : t <= issued})
BY TypeParts DEF Superseding, AllRevoked, Fells, TokenSteps, Tokens

LEMMA FreshRow ==
  ASSUME TypeOK, NEW d \in Devices, NEW k \in Kinds, NEW p \in Epochs
  PROVE  /\ Fresh(d, k, p) = [device |-> d, status |-> "live", epoch |-> epoch, proof |-> p,
                              kind |-> k, id |-> None, next |-> 0]
         /\ Fresh(d, k, p) \in TokenRows
<1>1. Fresh(d, k, p) = [device |-> d, status |-> "live", epoch |-> epoch, proof |-> p,
                        kind |-> k, id |-> None, next |-> 0]
  BY DEF Fresh
<1> QED  BY <1>1, TypeParts DEF TokenRows

(* Issuing one: the older tokens of the device are revoked.                 *)
LEMMA IssueTyped ==
  ASSUME TypeOK, NEW d \in Devices, NEW k \in Kinds, NEW p \in Epochs, issued < MaxTokens,
         issued' = issued + 1, token' = [Superseding(d) EXCEPT ![issued + 1] = Fresh(d, k, p)]
  PROVE  /\ issued' \in Tokens
         /\ token' \in [Tokens -> TokenRows] /\ TokenSteps'
         /\ token'[issued + 1] = Fresh(d, k, p)
         /\ \A t \in Tokens : t # issued + 1 =>
              token'[t] = IF token[t].device = d /\ t <= issued
                          THEN [token[t] EXCEPT !.status = "revoked"] ELSE token[t]
<1>1. issued \in Nat /\ issued' \in Tokens
  BY TypeParts, BoundsAssumption DEF Tokens
<1>2. token'[issued + 1] = Fresh(d, k, p)
  BY <1>1 DEF Superseding
<1>3. ASSUME NEW t \in Tokens, t # issued + 1
      PROVE  token'[t] = IF token[t].device = d /\ t <= issued
                         THEN [token[t] EXCEPT !.status = "revoked"] ELSE token[t]
  <2>1. token'[t] = Superseding(d)[t]
    BY <1>3, <1>1 DEF Superseding
  <2>2. token[t].status # "unused" <=> t <= issued
    BY <1>1, TypeParts DEF TokenSteps, Tokens
  <2> QED  BY <2>1, <2>2 DEF Superseding
<1>4. ASSUME NEW t \in Tokens
      PROVE  /\ token'[t] \in TokenRows
             /\ token'[t].status = "unused" <=> t > issued'
             /\ token'[t].status = "rotated" => token'[t].next > t
  <2>1. CASE t = issued + 1
    <3>1. token'[t] \in TokenRows /\ token'[t].status = "live"
      BY <2>1, <1>2, FreshRow
    <3> QED  BY <3>1, <2>1, <1>1
  <2>2. CASE t # issued + 1
    <3>1. token[t] \in TokenRows
      BY TypeParts
    <3>2. [token[t] EXCEPT !.status = "revoked"] \in TokenRows
      BY <3>1 DEF TokenRows
    <3>3. token'[t].status \in {token[t].status, "revoked"} /\ token'[t].next = token[t].next
      <4>1. CASE token[t].device = d /\ t <= issued
        <5>1. token'[t] = [token[t] EXCEPT !.status = "revoked"]
          BY <4>1, <2>2, <1>3
        <5> QED  BY <5>1, <3>1 DEF TokenRows
      <4> QED  BY <4>1, <1>3, <2>2
    <3>4. token'[t].status = "unused" <=> token[t].status = "unused"
      <4>1. CASE token[t].device = d /\ t <= issued
        <5>1. token'[t] = [token[t] EXCEPT !.status = "revoked"]
          BY <4>1, <2>2, <1>3
        <5>2. token'[t].status = "revoked"
          BY <5>1, <3>1 DEF TokenRows
        <5> QED  BY <5>2, <4>1, <1>1, TypeParts DEF TokenSteps, Tokens
      <4> QED  BY <4>1, <1>3, <2>2
    <3>5. t > issued <=> t > issued'
      BY <2>2, <1>1 DEF Tokens
    <3> QED  BY <3>1, <3>2, <3>3, <3>4, <3>5, <1>3, <2>2, TypeParts DEF TokenSteps
  <2> QED  BY <2>1, <2>2
<1>5. token' \in [Tokens -> TokenRows]
  BY <1>4 DEF Superseding
<1> QED  BY <1>1, <1>2, <1>3, <1>4, <1>5 DEF TokenSteps

(* Rotating one: the old row keeps all but its status, id and successor.    *)
LEMMA RotateTyped ==
  ASSUME TypeOK, TokensOwned, NEW t \in Tokens, NEW q \in Ids, Rotate(t, q)
  PROVE  /\ t <= issued /\ issued' = issued + 1 /\ issued' \in Tokens
         /\ token' \in [Tokens -> TokenRows] /\ TokenSteps'
         /\ token[t].device \in Devices
         /\ token'[issued + 1] = Fresh(token[t].device, token[t].kind, token[t].proof)
         /\ token'[t] = [token[t] EXCEPT !.status = "rotated", !.id = q, !.next = issued + 1]
         /\ \A s \in Tokens : s # issued + 1 /\ s # t => token'[s] = token[s]
<1>1. issued \in Nat /\ issued' = issued + 1 /\ issued' \in Tokens
  BY TypeParts, BoundsAssumption DEF Tokens, Rotate
<1>2. t <= issued /\ token[t].device \in Devices /\ token[t] \in TokenRows
  <2>1. t <= issued
    BY <1>1, TypeParts DEF TokenSteps, Tokens, Rotate
  <2> QED  BY <2>1, TypeParts DEF TokensOwned
<1> DEFINE n == Fresh(token[t].device, token[t].kind, token[t].proof)
           o == [token[t] EXCEPT !.status = "rotated", !.id = q, !.next = issued + 1]
<1>3. token' = [token EXCEPT ![t] = o, ![issued + 1] = n]
  BY DEF Rotate, Rotated
<1>4. n \in TokenRows /\ n.status = "live"
  BY <1>2, FreshRow DEF TokenRows
<1>5. o \in TokenRows /\ o.status = "rotated" /\ o.next = issued + 1
  BY <1>1, <1>2 DEF TokenRows
<1> HIDE DEF n, o
<1>6. t # issued + 1
  BY <1>1, <1>2 DEF Tokens
<1>7. /\ token' \in [Tokens -> TokenRows]
      /\ token'[issued + 1] = n /\ token'[t] = o
      /\ \A s \in Tokens : s # issued + 1 /\ s # t => token'[s] = token[s]
  BY <1>1, <1>3, <1>4, <1>5, <1>6, TypeParts
<1>8. ASSUME NEW s \in Tokens
      PROVE  /\ token'[s].status = "unused" <=> s > issued'
             /\ token'[s].status = "rotated" => token'[s].next > s
  <2>1. CASE s = t
    BY <2>1, <1>1, <1>2, <1>5, <1>7 DEF Tokens
  <2>2. CASE s = issued + 1
    BY <2>2, <1>1, <1>4, <1>7
  <2>3. CASE s # t /\ s # issued + 1
    BY <2>3, <1>1, <1>7, TypeParts DEF TokenSteps, Tokens
  <2> QED  BY <2>1, <2>2, <2>3
<1> QED  BY <1>1, <1>2, <1>7, <1>8 DEF TokenSteps, n, o

LEMMA TypeInit == Init => TypeOK
<1> SUFFICES ASSUME Init PROVE TypeOK
  OBVIOUS
<1>0. None \notin Nat /\ 0 \in Epochs /\ 0 \in 0..MaxIncidents
  BY BoundsAssumption, NoneAssumption DEF Epochs
<1>1. Unused \in TokenRows /\ Unused.status = "unused"
  BY <1>0 DEF Unused, TokenRows, Kinds
<1>2. NoGrant \in GrantRows /\ Idle \in CallRows /\ NoClient \in ClientRows
  BY <1>0 DEF NoGrant, GrantRows, Idle, CallRows, Stages, Kinds, NoClient, ClientRows
<1>3. token \in [Tokens -> TokenRows] /\ TokenSteps
  BY <1>1 DEF Init, TokenSteps, Tokens
<1>4. /\ device \in [Devices -> {"unknown", "active", "revoked"}]
      /\ grant \in [Grants -> GrantRows] /\ call \in [Callers -> CallRows]
      /\ client \in [Devices -> ClientRows]
  BY <1>2 DEF Init
<1> QED  BY <1>0, <1>3, <1>4, TypeParts DEF Init

LEMMA TypeStep ==
  TypeOK /\ TokensOwned /\ CallsSound /\ LockSound /\ [Next]_authVars => TypeOK'
<1> SUFFICES ASSUME TypeOK, TokensOwned, CallsSound, LockSound, [Next]_authVars PROVE TypeOK'
  OBVIOUS
<1> USE TypeParts, TypePartsAfter
<1>u. CASE UNCHANGED authVars
  BY <1>u DEF authVars, TokenSteps
<1>r. ASSUME NEW c \in Callers
      PROVE  call[c] \in CallRows
  OBVIOUS
<1>0. /\ epoch \in Epochs \cup {None} /\ epoch \in Epochs
      /\ \A e \in Epochs : e + 1 \in Epochs \/ ~(e < MaxEpoch)
      /\ \A g \in Grants : grant[g] \in GrantRows
  BY BoundsAssumption DEF Epochs
<1>w. token' = AllRevoked /\ UNCHANGED issued => token' \in [Tokens -> TokenRows] /\ TokenSteps'
  BY Felling, FellsTyped DEF Tokens
<1>v. ASSUME NEW d \in Devices, token' = Superseding(d), UNCHANGED issued
      PROVE  token' \in [Tokens -> TokenRows] /\ TokenSteps'
  <2>1. {t \in Tokens : token[t].device = d /\ t <= issued} \in SUBSET (1..issued)
    BY DEF Tokens
  <2> QED  BY <1>v, <2>1, Felling, FellsTyped
<1>p. WithoutPairing \in [Grants -> GrantRows]
  <2>1. \A s \in {"denied", grant["pairing"].status} :
          [grant["pairing"] EXCEPT !.status = s] \in GrantRows
    BY <1>0 DEF GrantRows, Grants
  <2>2. PICK s \in {"denied", grant["pairing"].status} :
          WithoutPairing = [grant EXCEPT !["pairing"] = [grant["pairing"] EXCEPT !.status = s]]
    BY DEF WithoutPairing, Grants
  <2> QED  BY <2>1, <2>2
<1>1. ASSUME NEW c \in Callers, NEW d \in Devices, Login(c, d) \/ VerifyOnDevice(c, d)
      PROVE  TypeOK'
  <2>1. call' \in [Callers -> CallRows]
    BY <1>1, <1>0, CallHelpers DEF Login, VerifyOnDevice, Stages, Kinds
  <2> QED  BY <1>1, <2>1 DEF Login, VerifyOnDevice, accountRow, sessions, clients, history,
       TokenSteps
<1>2. ASSUME NEW c \in Callers, NEW d \in Devices, NEW g \in Grants, Exchange(c, g, d)
      PROVE  TypeOK'
  <2>1. call' \in [Callers -> CallRows]
    BY <1>2, <1>0, CallHelpers DEF Exchange, Stages, Kinds, GrantRows
  <2>2. [grant[g] EXCEPT !.consumed = c] \in GrantRows
    BY <1>0 DEF GrantRows
  <2>3. grant' = [grant EXCEPT ![g] = [grant[g] EXCEPT !.consumed = c]]
    BY <1>2 DEF Exchange
  <2>4. grant' \in [Grants -> GrantRows]
    BY <2>2, <2>3
  <2> QED  BY <1>2, <2>1, <2>4 DEF Exchange, accountRow, sessions, clients, history, TokenSteps
<1>3. ASSUME NEW c \in Callers, WebLogin(c) \/ VerifyOnWeb(c)
                                \/ InBrowser(c, "approve", "approval") \/ InBrowser(c, "pair", "pairing")
      PROVE  TypeOK'
  <2>1. call' \in [Callers -> CallRows]
    BY <1>3, <1>0, CallHelpers DEF WebLogin, VerifyOnWeb, InBrowser, Stages, Kinds, Grants
  <2> QED  BY <1>3, <2>1 DEF WebLogin, VerifyOnWeb, InBrowser, accountRow, sessions, clients,
       history, TokenSteps
<1>4. ASSUME NEW c \in Callers, StatementFails(c) \/ Dies(c)
      PROVE  TypeOK'
  <2>1. call' \in [Callers -> CallRows]
    BY <1>4, <1>0, CallHelpers DEF StatementFails, Dies
  <2>2. incidents' \in 0..MaxIncidents
    BY <1>4, BoundsAssumption DEF StatementFails, Dies, Incident
  <2> QED  BY <1>4, <2>1, <2>2 DEF StatementFails, Dies, Incident, accountRow, sessions, clients,
       TokenSteps
<1>5. ASSUME NEW c \in Callers, CreateDeviceSession(c)
      PROVE  TypeOK'
  <2>1. call' \in [Callers -> CallRows]
    BY <1>5, <1>0, CallHelpers DEF CreateDeviceSession, Stages
  <2>2. device' \in [Devices -> {"unknown", "active", "revoked"}]
    BY <1>5 DEF CreateDeviceSession
  <2> QED  BY <1>5, <2>1, <2>2 DEF CreateDeviceSession, accountRow, clients, history, TokenSteps
<1>6. ASSUME NEW c \in Callers, IssueSession(c)
      PROVE  TypeOK'
  <2> DEFINE d == call[c].device
             k == call[c].kind
  <2>1. call' \in [Callers -> CallRows]
    BY <1>6, <1>0, CallHelpers DEF IssueSession
  <2>2. d \in Devices /\ k \in Kinds /\ call[c].proof \in Epochs
    BY <1>6, <1>r DEF CallsSound, RowSound, IssueSession, CallRows, At
  <2>3. /\ issued < MaxTokens /\ issued' = issued + 1
        /\ token' = [Superseding(d) EXCEPT ![issued + 1] = Fresh(d, k, call[c].proof)]
        /\ Adopts(d, issued + 1) /\ CountSession(c)
    BY <1>6 DEF IssueSession, LockSound
  <2>4. /\ issued' \in Tokens /\ token' \in [Tokens -> TokenRows] /\ TokenSteps'
    BY <2>2, <2>3, IssueTyped
  <2>5. client[d] \in ClientRows
    BY <2>2
  <2>6. [[client[d] EXCEPT !.token = issued + 1] EXCEPT !.id = None] \in ClientRows
    BY <2>3, <2>4, <2>5 DEF ClientRows
  <2>7. client' = client
        \/ client' = [client EXCEPT ![d] = [[client[d] EXCEPT !.token = issued + 1] EXCEPT !.id = None]]
    BY <2>3, <2>2 DEF Adopts
  <2>8. client' \in [Devices -> ClientRows]
    BY <2>6, <2>7, <2>2
  <2>9. \A g \in Grants : [grant[g] EXCEPT !.sessions = grant[g].sessions + 1] \in GrantRows
    BY <1>0 DEF GrantRows
  <2>10. grant' = grant
        \/ /\ k \in Grants
           /\ grant' = [grant EXCEPT ![k] = [grant[k] EXCEPT !.sessions = grant[k].sessions + 1]]
    BY <2>3 DEF CountSession
  <2>11. grant' \in [Grants -> GrantRows]
    BY <2>9, <2>10
  <2>12. late' \subseteq Tokens
    BY <1>6, <2>3, <2>4 DEF IssueSession
  <2> QED  BY <1>6, <2>1, <2>4, <2>8, <2>11, <2>12 DEF IssueSession, accountRow, TokenSteps
<1>23. ASSUME NEW c \in Callers, ReadDevice(c)
       PROVE  TypeOK'
  <2>1. call' \in [Callers -> CallRows]
    BY <1>23, <1>0, CallHelpers DEF ReadDevice, Stages
  <2> QED  BY <1>23, <2>1 DEF ReadDevice, accountRow, sessions, clients, history, TokenSteps
<1>7. ASSUME NEW c \in Callers, CreateWebSession(c)
      PROVE  TypeOK'
  <2>1. call' \in [Callers -> CallRows]
    BY <1>7, <1>0, CallHelpers DEF CreateWebSession
  <2>2. call[c].proof \in Epochs /\ call[c].kind \in {"login", "change", "reset"}
    BY <1>7, <1>r DEF CreateWebSession, CallsSound, RowSound, CallRows, At
  <2>3. web' \subseteq [proof : Epochs, kind : {"login", "change", "reset"}]
    BY <1>7, <2>2 DEF CreateWebSession
  <2> QED  BY <1>7, <2>1, <2>3 DEF CreateWebSession, accountRow, clients, history, TokenSteps
<1>8. ASSUME NEW c \in Callers, ChangePassword(c)
      PROVE  TypeOK'
  <2>1. CASE UNCHANGED <<accountRow, token, grant>> /\ Done(c)
    <3>1. call' \in [Callers -> CallRows]
      BY <2>1, CallHelpers
    <3> QED  BY <1>8, <2>1, <3>1 DEF ChangePassword, accountRow, clients, history, TokenSteps
  <2>2. CASE /\ NextEpoch /\ token' = AllRevoked /\ grant' = WithoutPairing
             /\ Begin(c, "issue", "change", call[c].device, None, epoch + 1)
    <3>1. epoch' \in Epochs /\ epoch + 1 \in Epochs
      BY <2>2, <1>0 DEF NextEpoch
    <3>2. call[c].device \in Devices \cup {None}
      BY <1>r DEF CallRows
    <3>3. call' \in [Callers -> CallRows]
      BY <2>2, <3>1, <3>2, CallHelpers DEF Stages, Kinds
    <3>4. token' \in [Tokens -> TokenRows] /\ TokenSteps'
      BY <1>8, <2>2, <1>w DEF ChangePassword
    <3> QED  BY <1>8, <2>2, <3>1, <3>3, <3>4, <1>p DEF ChangePassword, NextEpoch, clients, history
  <2> QED  BY <1>8, <2>1, <2>2 DEF ChangePassword
<1>9. ASSUME NEW c \in Callers, ChangeWebPassword(c)
      PROVE  TypeOK'
  <2>1. epoch' \in Epochs /\ epoch + 1 \in Epochs
    BY <1>9, <1>0 DEF NextEpoch, ChangeWebPassword
  <2>2. call' \in [Callers -> CallRows]
    BY <1>9, <2>1, CallHelpers DEF ChangeWebPassword, Stages, Kinds
  <2>3. token' \in [Tokens -> TokenRows] /\ TokenSteps'
    BY <1>9, <1>w DEF ChangeWebPassword
  <2>4. device' \in [Devices -> {"unknown", "active", "revoked"}]
    BY <1>9 DEF ChangeWebPassword
  <2> QED  BY <1>9, <2>1, <2>2, <2>3, <2>4, <1>p DEF ChangeWebPassword, NextEpoch, clients, history
<1>10. ASSUME NEW c \in Callers, DestroyForAccount(c)
       PROVE  TypeOK'
  <2>1. call' \in [Callers -> CallRows]
    BY <1>10, CallHelpers DEF DestroyForAccount, Stages
  <2>2. renewed' \in Epochs
    BY <1>10, <1>r DEF DestroyForAccount, Later, CallRows
  <2> QED  BY <1>10, <2>1, <2>2 DEF DestroyForAccount, accountRow, clients, TokenSteps
<1>11. ASSUME NEW c \in Callers, ResetPassword(c)
       PROVE  TypeOK'
  <2>1. epoch' \in Epochs /\ epoch + 1 \in Epochs
    BY <1>11, <1>0 DEF NextEpoch, ResetPassword
  <2>2. call' \in [Callers -> CallRows]
    BY <1>11, <2>1, CallHelpers DEF ResetPassword, Stages, Kinds
  <2>3. token' \in [Tokens -> TokenRows] /\ TokenSteps'
    BY <1>11, <1>w DEF ResetPassword
  <2>4. [WithoutPairing["approval"] EXCEPT !.status = "denied"] \in GrantRows
    BY <1>p DEF GrantRows, Grants
  <2>5. \/ grant' = WithoutPairing
        \/ grant' = [WithoutPairing EXCEPT !["approval"] =
                       [WithoutPairing["approval"] EXCEPT !.status = "denied"]]
    <3>1. \/ WithoutPairing["approval"].status = "approved" /\ Unconsumed("approval")
          \/ [WithoutPairing["approval"] EXCEPT !.status = WithoutPairing["approval"].status]
             = WithoutPairing["approval"]
      BY <1>p DEF GrantRows, Grants
    <3> QED  BY <1>11, <3>1, <1>p DEF ResetPassword, Grants
  <2>6. grant' \in [Grants -> GrantRows]
    BY <2>4, <2>5, <1>p
  <2> QED  BY <1>11, <2>1, <2>2, <2>3, <2>6 DEF ResetPassword, NextEpoch, clients
<1>12. ASSUME CreateAuthorization \/ \E g \in Grants : Withdraw(g) \/ GrantExpires(g)
       PROVE  TypeOK'
  <2>1. PICK g \in Grants, s \in {"pending", "denied", "expired"} :
          grant' = [grant EXCEPT ![g] = [grant[g] EXCEPT !.status = s]]
    BY <1>12 DEF CreateAuthorization, Withdraw, GrantExpires, Grants
  <2>2. [grant[g] EXCEPT !.status = s] \in GrantRows
    BY <1>0 DEF GrantRows
  <2>3. grant' \in [Grants -> GrantRows]
    BY <2>1, <2>2
  <2> QED  BY <1>12, <2>3 DEF CreateAuthorization, Withdraw, GrantExpires, accountRow, sessions,
       clients,
             history, TokenSteps
<1>13. ASSUME NEW c \in Callers, Approve(c) \/ CreatePairing(c)
       PROVE  TypeOK'
  <2>1. call' \in [Callers -> CallRows]
    BY <1>13, CallHelpers DEF Approve, CreatePairing
  <2>2. \/ grant' = grant
        \/ \E g \in Grants : grant' =
             [grant EXCEPT ![g] = [[grant[g] EXCEPT !.status = "approved"] EXCEPT !.epoch = epoch]]
    <3>1. CASE Approve(c)
      BY <3>1 DEF Approve, Grants
    <3>2. CASE CreatePairing(c)
      BY <3>2 DEF CreatePairing, Grants
    <3> QED  BY <1>13, <3>1, <3>2
  <2>3. \A g \in Grants :
          [[grant[g] EXCEPT !.status = "approved"] EXCEPT !.epoch = epoch] \in GrantRows
    BY <1>0 DEF GrantRows
  <2>4. grant' \in [Grants -> GrantRows]
    BY <2>2, <2>3
  <2> QED  BY <1>13, <2>1, <2>4 DEF Approve, CreatePairing, accountRow, sessions, clients,
       history, TokenSteps
<1>14. ASSUME NEW c \in Callers, Unconsume(c)
       PROVE  TypeOK'
  <2>1. call' \in [Callers -> CallRows]
    BY <1>14, CallHelpers DEF Unconsume
  <2> DEFINE g == call[c].kind
  <2>2. g \in Grants
    BY <1>14 DEF Unconsume, CallsSound, RowSound, At
  <2>3. \A x \in Callers \cup {None} : [grant[g] EXCEPT !.consumed = x] \in GrantRows
    BY <1>0, <2>2 DEF GrantRows
  <2>4. PICK x \in Callers \cup {None} : grant' = [grant EXCEPT ![g] = [grant[g] EXCEPT !.consumed = x]]
    BY <1>14, <2>2, <1>0 DEF Unconsume, GrantRows
  <2>5. grant' \in [Grants -> GrantRows]
    BY <2>2, <2>3, <2>4
  <2> QED  BY <1>14, <2>1, <2>5 DEF Unconsume, accountRow, sessions, clients, history, TokenSteps
<1>15. ASSUME NEW d \in Devices, (\E q \in Ids : Ask(d, q)) \/ Forget(d)
       PROVE  TypeOK'
  <2>0. client[d] \in ClientRows
    OBVIOUS
  <2>1. CASE \E q \in Ids : Ask(d, q)
    <3>1. PICK q \in Ids : Ask(d, q)
      BY <2>1
    <3>2. [client[d] EXCEPT !.id = q] \in ClientRows
      BY <2>0 DEF ClientRows
    <3>3. client' = [client EXCEPT ![d] = [client[d] EXCEPT !.id = q]]
      BY <3>1 DEF Ask
    <3>4. asked' \subseteq Tokens \X Ids
      BY <3>1, <2>0 DEF Ask, ClientRows
    <3> QED  BY <3>1, <3>2, <3>3, <3>4 DEF Ask, accountRow, sessions, history, TokenSteps
  <2>2. CASE Forget(d)
    <3>1. [[client[d] EXCEPT !.id = None] EXCEPT !.forgot = TRUE] \in ClientRows
      BY <2>0 DEF ClientRows
    <3>2. client' = [client EXCEPT ![d] = [[client[d] EXCEPT !.id = None] EXCEPT !.forgot = TRUE]]
      BY <2>2 DEF Forget
    <3>3. incidents' \in 0..MaxIncidents
      BY <2>2, BoundsAssumption DEF Forget
    <3> QED  BY <2>2, <3>1, <3>2, <3>3 DEF Forget, accountRow, sessions, TokenSteps
  <2> QED  BY <1>15, <2>1, <2>2
<1>a. ASSUME NEW t \in Tokens, NEW q \in Ids, NEW n \in Tokens, token[t].device \in Devices,
             Answered(t, q, n)
      PROVE  client' \in [Devices -> ClientRows]
  <2> DEFINE d == token[t].device
  <2>1. client[d] \in ClientRows
    BY <1>a
  <2>2. [[client[d] EXCEPT !.token = n] EXCEPT !.id = None] \in ClientRows
    BY <2>1 DEF ClientRows
  <2>3. \/ client' = client
        \/ client' = [client EXCEPT ![d] = [[client[d] EXCEPT !.token = n] EXCEPT !.id = None]]
    BY <1>a DEF Answered, Adopts
  <2> QED  BY <1>a, <2>2, <2>3
<1>16. ASSUME NEW t \in Tokens, NEW q \in Ids, Rotate(t, q)
       PROVE  TypeOK'
  <2>1. /\ issued' \in Tokens /\ issued' = issued + 1 /\ token[t].device \in Devices
        /\ token' \in [Tokens -> TokenRows] /\ TokenSteps'
    BY <1>16, RotateTyped
  <2>2. client' \in [Devices -> ClientRows]
    BY <1>16, <1>a, <2>1 DEF Rotate
  <2> QED  BY <1>16, <2>1, <2>2 DEF Rotate, accountRow, history
<1>17. ASSUME NEW t \in Tokens, NEW q \in Ids, AnswerAgain(t, q)
       PROVE  TypeOK'
  <2>1. t <= issued /\ token[t].next \in Tokens
    BY <1>17 DEF AnswerAgain, TokenSteps, Tokens, TokenRows
  <2>2. client' \in [Devices -> ClientRows]
    BY <1>17, <1>a, <2>1 DEF AnswerAgain, TokensOwned
  <2> QED  BY <1>17, <2>2 DEF AnswerAgain, accountRow, sessions, history, TokenSteps
<1>18. ASSUME NEW t \in Tokens, NEW q \in Ids, TakeForReuse(t, q)
       PROVE  TypeOK'
  <2>1. t <= issued /\ token[t].device \in Devices
    BY <1>18 DEF TakeForReuse, TokenSteps, Tokens, TokensOwned
  <2>2. token' \in [Tokens -> TokenRows] /\ TokenSteps'
    BY <1>18, <2>1, <1>v DEF TakeForReuse
  <2>3. device' \in [Devices -> {"unknown", "active", "revoked"}] /\ reused' \in BOOLEAN
    BY <1>18, <2>1 DEF TakeForReuse, ClientRows
  <2> QED  BY <1>18, <2>2, <2>3 DEF TakeForReuse, accountRow, clients
<1>19. ASSUME NEW d \in Devices, Logout(d)
       PROVE  TypeOK'
  <2>1. client[d] \in ClientRows
    OBVIOUS
  <2>2. client[d].token \in Tokens /\ client[d].token <= issued
    BY <1>19, <2>1 DEF Logout, ClientRows, TokensOwned
  <2>3. Fells({client[d].token})
    BY <1>19, <2>2 DEF Logout, Fells
  <2>4. token' \in [Tokens -> TokenRows] /\ TokenSteps'
    <3>1. {client[d].token} \in SUBSET (1..issued) /\ UNCHANGED issued
      BY <1>19, <2>2 DEF Tokens, Logout
    <3> QED  BY <2>3, <3>1, FellsTyped
  <2>5. [[client[d] EXCEPT !.token = 0] EXCEPT !.id = None] \in ClientRows
    BY <2>1 DEF ClientRows
  <2>6. client' = [client EXCEPT ![d] = [[client[d] EXCEPT !.token = 0] EXCEPT !.id = None]]
    BY <1>19 DEF Logout
  <2> QED  BY <1>19, <2>4, <2>5, <2>6 DEF Logout, accountRow, history
<1>20. ASSUME NEW d \in Devices, RevokeDevice(d)
       PROVE  TypeOK'
  <2>1. token' \in [Tokens -> TokenRows] /\ TokenSteps'
    BY <1>20, <1>v DEF RevokeDevice
  <2>2. device' \in [Devices -> {"unknown", "active", "revoked"}]
    BY <1>20 DEF RevokeDevice
  <2> QED  BY <1>20, <2>1, <2>2 DEF RevokeDevice, accountRow, clients, history
<1>21. ASSUME EndWebSessions
       PROVE  TypeOK'
  BY <1>21 DEF EndWebSessions, accountRow, clients, history, TokenSteps
<1>22. ASSUME Suspend \/ Resume
       PROVE  TypeOK'
  <2>1. CASE Suspend
    <3>1. token' \in [Tokens -> TokenRows] /\ TokenSteps'
      BY <2>1, <1>w DEF Suspend
    <3>2. device' \in [Devices -> {"unknown", "active", "revoked"}]
      BY <2>1 DEF Suspend
    <3>3. incidents' \in 0..MaxIncidents
      BY <2>1, BoundsAssumption DEF Suspend, Incident
    <3> QED  BY <2>1, <3>1, <3>2, <3>3 DEF Suspend, Incident, clients
  <2>2. CASE Resume
    BY <2>2 DEF Resume, sessions, clients, history, TokenSteps
  <2> QED  BY <1>22, <2>1, <2>2
<1> QED
  BY <1>u, <1>1, <1>2, <1>3, <1>4, <1>5, <1>6, <1>7, <1>8, <1>9, <1>10, <1>11, <1>12, <1>13, <1>14,
     <1>15, <1>16, <1>17, <1>18, <1>19, <1>20, <1>21, <1>22, <1>23 DEF Next, Step, Refresh

(***************************************************************************)
(* Requests under way.                                                     *)
(***************************************************************************)

(* A request that moves to a sound row leaves the others sound.             *)
LEMMA OneCallMoves ==
  ASSUME TypeOK, CallsSound, epoch' \in {epoch, epoch + 1}, renewed' <= epoch',
         \A g \in Grants : grant'[g].epoch <= epoch',
         NEW c \in Callers, NEW r \in CallRows, call' = [call EXCEPT ![c] = r],
         RowSound(r, epoch')
  PROVE  CallsSound'
<1>1. ASSUME NEW b \in Callers, b # c
      PROVE  RowSound(call'[b], epoch')
  <2>1. call'[b] = call[b] /\ RowSound(call[b], epoch) /\ call[b].proof \in Nat /\ epoch \in Nat
    BY <1>1, TypeParts, BoundsAssumption DEF CallsSound, CallRows, Epochs
  <2> QED  BY <2>1 DEF RowSound
<1>2. call'[c] = r
  BY TypeParts
<1> QED  BY <1>1, <1>2 DEF CallsSound

(* The rows that the helpers write.                                         *)
LEMMA RowsWritten ==
  ASSUME TypeOK, NEW c \in Callers
  PROVE  /\ Done(c) => call' = [call EXCEPT ![c] = Idle]
         /\ \A s \in Stages : Goto(c, s) => call' = [call EXCEPT ![c] = [call[c] EXCEPT !.at = s]]
         /\ Idle \in CallRows /\ Idle.at = "idle" /\ Idle.proof = 0
         /\ \A s \in Stages : /\ [call[c] EXCEPT !.at = s] \in CallRows
                              /\ [call[c] EXCEPT !.at = s].at = s
                              /\ [call[c] EXCEPT !.at = s].kind = call[c].kind
                              /\ [call[c] EXCEPT !.at = s].device = call[c].device
                              /\ [call[c] EXCEPT !.at = s].expect = call[c].expect
                              /\ [call[c] EXCEPT !.at = s].proof = call[c].proof
<1>1. call[c] \in CallRows
  BY TypeParts
<1> QED  BY <1>1, BoundsAssumption DEF Done, Goto, Idle, CallRows, Stages, Kinds, Epochs

LEMMA IdleSound == \A e \in Nat : RowSound(Idle, e)
BY DEF Idle, RowSound

LEMMA CallsStep == TypeOK /\ CallsSound /\ [Next]_authVars => CallsSound'
<1> SUFFICES ASSUME TypeOK, CallsSound, [Next]_authVars PROVE CallsSound'
  OBVIOUS
<1> USE TypeParts
<1>u. CASE UNCHANGED authVars
  BY <1>u DEF authVars, CallsSound
<1>0. /\ epoch \in Nat /\ epoch \in Epochs /\ renewed \in Nat
      /\ \A g \in Grants : grant[g].epoch \in Epochs
      /\ \A c \in Callers : call[c] \in CallRows /\ call[c].proof \in Nat /\ call[c].kind \in Kinds
      /\ None \notin Nat
  BY BoundsAssumption, NoneAssumption DEF Epochs, GrantRows, CallRows
<1>s. /\ renewed <= epoch /\ \A g \in Grants : grant[g].epoch <= epoch
      /\ \A c \in Callers : RowSound(call[c], epoch)
  BY DEF CallsSound
(* A request that begins, ...                                               *)
<1>b. ASSUME NEW c \in Callers, NEW s \in Stages, NEW k \in Kinds, NEW d \in Devices \cup {None},
             NEW e \in Epochs \cup {None}, NEW p \in Epochs, Begin(c, s, k, d, e, p),
             RowSound([at |-> s, kind |-> k, device |-> d, expect |-> e, proof |-> p], epoch'),
             epoch' \in {epoch, epoch + 1}, renewed' <= epoch',
             \A g \in Grants : grant'[g].epoch <= epoch'
      PROVE  CallsSound'
  <2> DEFINE r == [at |-> s, kind |-> k, device |-> d, expect |-> e, proof |-> p]
  <2>1. r \in CallRows /\ call' = [call EXCEPT ![c] = r]
    BY <1>b DEF CallRows, Begin
  <2> QED  BY <1>b, <2>1, OneCallMoves
(* ... ends, ...                                                            *)
<1>d. ASSUME NEW c \in Callers, Done(c), UNCHANGED epoch, renewed' <= epoch,
             \A g \in Grants : grant'[g].epoch <= epoch
      PROVE  CallsSound'
  <2>1. Idle \in CallRows /\ call' = [call EXCEPT ![c] = Idle] /\ RowSound(Idle, epoch')
    BY <1>d, <1>0, RowsWritten, IdleSound
  <2> QED  BY <1>d, <2>1, OneCallMoves
(* ... or goes on.                                                          *)
<1>g. ASSUME NEW c \in Callers,
             NEW s \in Stages, Goto(c, s), UNCHANGED <<epoch, grant>>, renewed' <= epoch,
             RowSound([call[c] EXCEPT !.at = s], epoch)
      PROVE  CallsSound'
  <2>1. /\ [call[c] EXCEPT !.at = s] \in CallRows
        /\ call' = [call EXCEPT ![c] = [call[c] EXCEPT !.at = s]]
    BY <1>g, RowsWritten
  <2> QED  BY <1>g, <2>1, <1>s, OneCallMoves
<1>f. ASSUME NEW c \in Callers, Refuse(c), UNCHANGED <<epoch, grant, renewed>>,
             call[c].at \in {"create", "issue", "insert"}
      PROVE  CallsSound'
  <2>1. CASE Done(c)
    BY <2>1, <1>f, <1>d, <1>s
  <2>2. CASE Goto(c, "unconsume") /\ call[c].kind \in Grants
    <3>1. RowSound([call[c] EXCEPT !.at = "unconsume"], epoch)
      BY <2>2, <1>s, RowsWritten DEF RowSound, Stages
    <3> QED  BY <3>1, <2>2, <1>f, <1>g, <1>s DEF Stages
  <2> QED  BY <1>f, <2>1, <2>2 DEF Refuse
<1>k. /\ {"issue", "insert", "destroy", "web", "webChange", "approve", "pair"} \subseteq Stages
      /\ {"login", "change", "reset", "approval", "pairing"} \subseteq Kinds
  BY DEF Stages, Kinds, Grants
<1>n. NextEpoch => epoch' = epoch + 1 /\ epoch + 1 \in Epochs
  BY <1>0, BoundsAssumption DEF NextEpoch, Epochs
<1>p. \A g \in Grants : WithoutPairing[g].epoch = grant[g].epoch
  BY DEF WithoutPairing, GrantRows, Grants

<1>1. ASSUME NEW c \in Callers, NEW d \in Devices, Login(c, d) \/ VerifyOnDevice(c, d)
      PROVE  CallsSound'
  <2>1. CASE Login(c, d)
    <3>1. UNCHANGED <<epoch, grant, renewed>> /\ Begin(c, "create", "login", d, epoch, epoch)
      BY <2>1 DEF Login, accountRow, history
    <3> QED  BY <3>1, <1>b, <1>0, <1>s DEF Stages, Kinds, RowSound
  <2>2. CASE VerifyOnDevice(c, d)
    <3>1. UNCHANGED <<epoch, grant, renewed>> /\ Begin(c, "change", "change", d, None, epoch)
      BY <2>2 DEF VerifyOnDevice, accountRow, history
    <3>2. RowSound([at |-> "change", kind |-> "change", device |-> d, expect |-> None,
                    proof |-> epoch], epoch')
      BY <3>1, <1>0 DEF RowSound
    <3> QED  BY <3>1, <3>2, <1>b, <1>0, <1>s DEF Stages, Kinds
  <2> QED  BY <1>1, <2>1, <2>2
<1>2. ASSUME NEW c \in Callers, NEW d \in Devices, NEW g \in Grants, Exchange(c, g, d)
      PROVE  CallsSound'
  <2>1. UNCHANGED <<epoch, renewed>> /\ Begin(c, "create", g, d, grant[g].epoch, grant[g].epoch)
    BY <1>2 DEF Exchange, accountRow, history
  <2>2. \A h \in Grants : grant'[h].epoch = grant[h].epoch
    BY <1>2 DEF Exchange, GrantRows
  <2>3. g \in Kinds /\ g # "reset" /\ g # "change"
    BY DEF Kinds, Grants
  <2> QED  BY <2>1, <2>2, <2>3, <1>b, <1>0, <1>s DEF Stages, RowSound
<1>3. ASSUME NEW c \in Callers, WebLogin(c) \/ VerifyOnWeb(c)
                                \/ InBrowser(c, "approve", "approval") \/ InBrowser(c, "pair", "pairing")
      PROVE  CallsSound'
  <2>1. UNCHANGED <<epoch, grant, renewed>>
    BY <1>3 DEF WebLogin, VerifyOnWeb, InBrowser, accountRow, history
  <2>2. \/ Begin(c, "web", "login", None, epoch, epoch)
        \/ \E s \in {"webChange", "approve", "pair"}, k \in {"change", "approval", "pairing"} :
             Begin(c, s, k, None, None, epoch) /\ (s = "webChange" => k = "change")
    BY <1>3 DEF WebLogin, VerifyOnWeb, InBrowser
  <2>3. CASE Begin(c, "web", "login", None, epoch, epoch)
    <3>1. RowSound([at |-> "web", kind |-> "login", device |-> None, expect |-> epoch,
                    proof |-> epoch], epoch')
      BY <2>1, <1>0 DEF RowSound
    <3>2. epoch' \in {epoch, epoch + 1} /\ renewed' <= epoch' /\ epoch \in Epochs \cup {None}
      BY <2>1, <1>0, <1>s
    <3>3. \A g \in Grants : grant'[g].epoch <= epoch'
      BY <2>1, <1>s
    <3> QED  BY <2>3, <3>1, <3>2, <3>3, <1>b, <1>0, <1>k
  <2>4. ASSUME NEW s \in {"webChange", "approve", "pair"},
               NEW k \in {"change", "approval", "pairing"},
               Begin(c, s, k, None, None, epoch), s = "webChange" => k = "change"
        PROVE  CallsSound'
    <3>1. RowSound([at |-> s, kind |-> k, device |-> None, expect |-> None, proof |-> epoch], epoch')
      BY <2>1, <2>4, <1>0 DEF RowSound
    <3>2. epoch' \in {epoch, epoch + 1} /\ renewed' <= epoch' /\ s \in Stages /\ k \in Kinds
      BY <2>1, <1>0, <1>s, <1>k
    <3>3. \A g \in Grants : grant'[g].epoch <= epoch'
      BY <2>1, <1>s
    <3> QED  BY <2>4, <3>1, <3>2, <3>3, <1>b, <1>0
  <2> QED  BY <2>2, <2>3, <2>4
<1>4. ASSUME NEW c \in Callers, StatementFails(c) \/ Dies(c)
      PROVE  CallsSound'
  <2>1. UNCHANGED <<epoch, grant, renewed>>
    BY <1>4 DEF StatementFails, Dies, Incident, accountRow
  <2>2. CASE StatementFails(c)
    BY <2>1, <2>2, <1>f DEF StatementFails, At
  <2>3. CASE Dies(c)
    BY <2>1, <2>3, <1>d, <1>s DEF Dies
  <2> QED  BY <1>4, <2>2, <2>3
<1>5. ASSUME NEW c \in Callers, CreateDeviceSession(c)
      PROVE  CallsSound'
  <2>1. UNCHANGED <<epoch, grant, renewed>> /\ At(c, "create") /\ (Goto(c, "issue") \/ Refuse(c))
    BY <1>5 DEF CreateDeviceSession, accountRow, history
  <2>2. CASE Goto(c, "issue")
    <3>1. RowSound([call[c] EXCEPT !.at = "issue"], epoch)
      BY <2>1, <1>s, RowsWritten DEF RowSound, Stages, At
    <3> QED  BY <3>1, <2>1, <2>2, <1>g, <1>s DEF Stages
  <2> QED  BY <2>1, <2>2, <1>f DEF At
<1>6. ASSUME NEW c \in Callers, IssueSession(c)
      PROVE  CallsSound'
  <2>1. UNCHANGED <<epoch, renewed>> /\ Done(c) /\ CountSession(c)
    BY <1>6 DEF IssueSession, accountRow
  <2>2. \A g \in Grants : grant'[g].epoch = grant[g].epoch
    BY <2>1 DEF CountSession, GrantRows
  <2> QED  BY <2>1, <2>2, <1>d, <1>s
<1>20. ASSUME NEW c \in Callers, ReadDevice(c)
       PROVE  CallsSound'
  <2>1. UNCHANGED <<epoch, grant, renewed>> /\ At(c, "issue") /\ (Goto(c, "insert") \/ Refuse(c))
    BY <1>20 DEF ReadDevice, accountRow, history
  <2>2. CASE Goto(c, "insert")
    <3>1. RowSound([call[c] EXCEPT !.at = "insert"], epoch)
      BY <2>1, <1>s, RowsWritten DEF RowSound, Stages, At
    <3> QED  BY <3>1, <2>1, <2>2, <1>g, <1>s, <1>k
  <2> QED  BY <2>1, <2>2, <1>f DEF At
<1>7. ASSUME NEW c \in Callers, CreateWebSession(c) \/ Approve(c) \/ CreatePairing(c) \/ Unconsume(c)
      PROVE  CallsSound'
  <2>1. UNCHANGED <<epoch, renewed>> /\ Done(c)
    BY <1>7 DEF CreateWebSession, Approve, CreatePairing, Unconsume, accountRow, history
  <2>2. \A g \in Grants : grant'[g].epoch \in {grant[g].epoch, epoch}
    BY <1>7 DEF CreateWebSession, Approve, CreatePairing, Unconsume, GrantRows
  <2> QED  BY <2>1, <2>2, <1>d, <1>s, <1>0
<1>8. ASSUME NEW c \in Callers, ChangePassword(c)
      PROVE  CallsSound'
  <2>1. CASE Done(c) /\ UNCHANGED <<accountRow, grant>>
    BY <1>8, <2>1, <1>d, <1>s DEF ChangePassword, accountRow, history
  <2>2. CASE /\ NextEpoch /\ grant' = WithoutPairing
             /\ Begin(c, "issue", "change", call[c].device, None, epoch + 1)
    <3>1. call[c].device \in Devices /\ UNCHANGED renewed
      BY <1>8, <1>s DEF ChangePassword, RowSound, At, history
    <3>2. epoch' = epoch + 1 /\ epoch + 1 \in Epochs /\ \A g \in Grants : grant'[g].epoch <= epoch'
      BY <2>2, <1>n, <1>p, <1>0, <1>s DEF Epochs
    <3>3. RowSound([at |-> "issue", kind |-> "change", device |-> call[c].device, expect |-> None,
                    proof |-> epoch + 1], epoch')
      BY <3>1, <3>2, <1>0 DEF RowSound
    <3>4. renewed' <= epoch' /\ epoch' \in {epoch, epoch + 1}
      BY <3>1, <3>2, <1>0, <1>s
    <3> QED  BY <2>2, <3>1, <3>2, <3>3, <3>4, <1>b, <1>k
  <2> QED  BY <1>8, <2>1, <2>2 DEF ChangePassword
<1>9. ASSUME NEW c \in Callers, ChangeWebPassword(c)
      PROVE  CallsSound'
  <2>1. /\ NextEpoch /\ grant' = WithoutPairing /\ UNCHANGED renewed
        /\ Begin(c, "destroy", "change", None, None, epoch + 1)
    BY <1>9 DEF ChangeWebPassword, history
  <2>2. epoch' = epoch + 1 /\ epoch + 1 \in Epochs /\ \A g \in Grants : grant'[g].epoch <= epoch'
    BY <2>1, <1>n, <1>p, <1>0, <1>s DEF Epochs
  <2>3. RowSound([at |-> "destroy", kind |-> "change", device |-> None, expect |-> None,
                  proof |-> epoch + 1], epoch')
    BY <2>2, <1>0 DEF RowSound
  <2>4. renewed' <= epoch' /\ epoch' \in {epoch, epoch + 1}
    BY <2>1, <2>2, <1>0, <1>s
  <2> QED  BY <2>1, <2>2, <2>3, <2>4, <1>b, <1>k
<1>10. ASSUME NEW c \in Callers, DestroyForAccount(c)
       PROVE  CallsSound'
  <2>1. /\ At(c, "destroy") /\ Goto(c, "web") /\ UNCHANGED <<epoch, grant>>
        /\ renewed' = Later(call[c].proof)
    BY <1>10 DEF DestroyForAccount, accountRow
  <2>2. call[c].kind = "change" /\ call[c].proof <= epoch
    BY <2>1, <1>s DEF RowSound, At
  <2>3. RowSound([call[c] EXCEPT !.at = "web"], epoch)
    BY <2>1, <2>2, <1>s, RowsWritten DEF RowSound, Stages
  <2>4. renewed' <= epoch
    BY <2>1, <2>2, <1>s DEF Later
  <2> QED  BY <2>1, <2>3, <2>4, <1>g DEF Stages
<1>11. ASSUME NEW c \in Callers, ResetPassword(c)
       PROVE  CallsSound'
  <2>1. /\ NextEpoch /\ renewed' = epoch + 1
        /\ Begin(c, "web", "reset", None, epoch + 1, epoch + 1)
    BY <1>11 DEF ResetPassword
  <2>2. \A g \in Grants : grant'[g].epoch = WithoutPairing[g].epoch
    BY <1>11 DEF ResetPassword, WithoutPairing, GrantRows, Grants
  <2>3. epoch' = epoch + 1 /\ epoch + 1 \in Epochs /\ \A g \in Grants : grant'[g].epoch <= epoch'
    BY <2>1, <2>2, <1>n, <1>p, <1>0, <1>s DEF Epochs
  <2>4. RowSound([at |-> "web", kind |-> "reset", device |-> None, expect |-> epoch + 1,
                  proof |-> epoch + 1], epoch')
    BY <2>3, <1>0 DEF RowSound
  <2>5. renewed' <= epoch' /\ epoch' \in {epoch, epoch + 1} /\ epoch + 1 \in Epochs \cup {None}
    BY <2>1, <2>3, <1>0
  <2> QED  BY <2>1, <2>3, <2>4, <2>5, <1>b, <1>k
(* The other actions leave the requests, and the epoch, alone.              *)
<1>12. ASSUME UNCHANGED <<call, epoch, renewed>>, \A g \in Grants : grant'[g].epoch = grant[g].epoch
       PROVE  CallsSound'
  BY <1>12 DEF CallsSound
<1>13. ASSUME CreateAuthorization \/ \E g \in Grants : Withdraw(g) \/ GrantExpires(g)
       PROVE  CallsSound'
  <2>1. \A g \in Grants : grant'[g].epoch = grant[g].epoch
    BY <1>13 DEF CreateAuthorization, Withdraw, GrantExpires, GrantRows
  <2> QED  BY <1>12, <1>13, <2>1 DEF CreateAuthorization, Withdraw, GrantExpires, accountRow,
       history
<1>14. ASSUME NEW d \in Devices, Logout(d) \/ RevokeDevice(d) \/ Forget(d) \/ \E q \in Ids : Ask(d, q)
       PROVE  CallsSound'
  BY <1>12, <1>14 DEF Logout, RevokeDevice, Forget, Ask, accountRow, history
<1>15. ASSUME NEW t \in Tokens, NEW q \in Ids, Refresh(t, q)
       PROVE  CallsSound'
  BY <1>12, <1>15 DEF Refresh, Rotate, AnswerAgain, TakeForReuse, accountRow, history
<1>16. ASSUME EndWebSessions \/ Suspend \/ Resume
       PROVE  CallsSound'
  BY <1>12, <1>16 DEF EndWebSessions, Suspend, Resume, Incident, accountRow, history
<1> QED
  BY <1>u, <1>20, <1>1, <1>2, <1>3, <1>4, <1>5, <1>6, <1>7, <1>8, <1>9, <1>10, <1>11, <1>13, <1>14, <1>15,
     <1>16 DEF Next, Step

(***************************************************************************)
(* Grants.                                                                 *)
(***************************************************************************)
GrantRowsKept ==
  \A g \in Grants : grant'[g].consumed = grant[g].consumed /\ grant'[g].sessions = grant[g].sessions

(* Most steps leave who holds a grant alone, or have a request let go of it. *)
LEMMA GrantsKept ==
  ASSUME GrantsSound, GrantRowsKept,
         \A c \in Callers, g \in Grants : Holds(c, g)' => Holds(c, g)
  PROVE  GrantsSound'
BY DEF GrantsSound, GrantRowsKept

LEMMA HoldsLess ==
  ASSUME TypeOK, NEW c \in Callers, NEW r \in CallRows, call' = [call EXCEPT ![c] = r],
         \/ r.at \notin {"create", "issue", "insert", "unconsume"}
         \/ r.kind \notin Grants
         \/ call[c].at \in {"create", "issue", "insert", "unconsume"} /\ r.kind = call[c].kind
  PROVE  \A b \in Callers, g \in Grants : Holds(b, g)' => Holds(b, g)
<1>1. ASSUME NEW b \in Callers, NEW g \in Grants, Holds(b, g)'
      PROVE  Holds(b, g)
  <2>1. call'[b] = IF b = c THEN r ELSE call[b]
    BY TypeParts
  <2> QED  BY <1>1, <2>1 DEF Holds, At
<1> QED  BY <1>1

LEMMA GrantsStep == TypeOK /\ GrantsSound /\ CallsSound /\ [Next]_authVars => GrantsSound'
<1> SUFFICES ASSUME TypeOK, GrantsSound, CallsSound, [Next]_authVars PROVE GrantsSound'
  OBVIOUS
<1> USE TypeParts
<1>u. CASE UNCHANGED authVars
  BY <1>u DEF authVars, GrantsSound, Holds, At
<1>r. /\ \A c \in Callers : call[c] \in CallRows /\ RowSound(call[c], epoch)
      /\ \A g \in Grants : grant[g] \in GrantRows
  BY DEF CallsSound
(* A request that begins without a grant, ...                               *)
<1>b. ASSUME NEW c \in Callers, NEW s \in Stages, NEW k \in Kinds, NEW d \in Devices \cup {None},
             NEW e \in Epochs \cup {None}, NEW p \in Epochs, Begin(c, s, k, d, e, p),
             s \notin {"create", "issue", "insert", "unconsume"} \/ k \notin Grants, GrantRowsKept
      PROVE  GrantsSound'
  <2> DEFINE r == [at |-> s, kind |-> k, device |-> d, expect |-> e, proof |-> p]
  <2>1. r \in CallRows /\ call' = [call EXCEPT ![c] = r] /\ r.at = s /\ r.kind = k
    BY <1>b DEF CallRows, Begin
  <2> HIDE DEF r
  <2>2. \A b \in Callers, g \in Grants : Holds(b, g)' => Holds(b, g)
    BY <1>b, <2>1, HoldsLess
  <2> QED  BY <1>b, <2>2, GrantsKept
(* ... ends, ...                                                            *)
<1>d. ASSUME NEW c \in Callers, Done(c), GrantRowsKept
      PROVE  GrantsSound'
  <2>1. \A b \in Callers, g \in Grants : Holds(b, g)' => Holds(b, g)
    BY <1>d, RowsWritten, HoldsLess
  <2> QED  BY <1>d, <2>1, GrantsKept
(* ... or goes on.                                                          *)
<1>g. ASSUME NEW c \in Callers, NEW s \in Stages, Goto(c, s), UNCHANGED grant,
             \/ s \notin {"create", "issue", "insert", "unconsume"}
             \/ call[c].at \in {"create", "issue", "insert", "unconsume"}
      PROVE  GrantsSound'
  <2> DEFINE r == [call[c] EXCEPT !.at = s]
  <2>1. r \in CallRows /\ call' = [call EXCEPT ![c] = r] /\ r.at = s /\ r.kind = call[c].kind
    BY <1>g, RowsWritten
  <2> HIDE DEF r
  <2>2. \A b \in Callers, g \in Grants : Holds(b, g)' => Holds(b, g)
    BY <1>g, <2>1, HoldsLess
  <2> QED  BY <1>g, <2>2, GrantsKept DEF GrantRowsKept
<1>f. ASSUME NEW c \in Callers, Refuse(c), UNCHANGED grant,
             call[c].at \in {"create", "issue", "insert"}
      PROVE  GrantsSound'
  BY <1>f, <1>d, <1>g DEF Refuse, GrantRowsKept, At, Stages
<1>k. UNCHANGED grant => GrantRowsKept
  BY DEF GrantRowsKept
<1>e. /\ epoch \in Epochs /\ None \in Devices \cup {None} /\ None \in Epochs \cup {None}
      /\ epoch < MaxEpoch => epoch + 1 \in Epochs
      /\ Kinds = {"login", "change", "reset", "approval", "pairing"}
      /\ Grants = {"approval", "pairing"}
      /\ {"create", "issue", "insert", "destroy", "web", "change", "webChange", "approve", "pair"} \subseteq Stages
  BY BoundsAssumption DEF Epochs, Kinds, Grants, Stages
<1>1. ASSUME NEW c \in Callers, NEW d \in Devices, Login(c, d) \/ VerifyOnDevice(c, d)
      PROVE  GrantsSound'
  <2>1. /\ UNCHANGED grant
        /\ \/ Begin(c, "create", "login", d, epoch, epoch)
           \/ Begin(c, "change", "change", d, None, epoch)
    BY <1>1 DEF Login, VerifyOnDevice
  <2> QED  BY <2>1, <1>b, <1>k, <1>e
<1>2. ASSUME NEW c \in Callers, NEW d \in Devices, NEW g \in Grants, Exchange(c, g, d)
      PROVE  GrantsSound'
  <2> DEFINE r == [at |-> "create", kind |-> g, device |-> d, expect |-> grant[g].epoch,
                   proof |-> grant[g].epoch]
  <2>1. call' = [call EXCEPT ![c] = r] /\ At(c, "idle") /\ grant[g].consumed = None
    BY <1>2 DEF Exchange, Begin, Consumable, Unconsumed
  <2>2. \A h \in Grants : /\ grant'[h].sessions = grant[h].sessions
                          /\ grant'[h].consumed = IF h = g THEN c ELSE grant[h].consumed
    BY <1>2, <1>r DEF Exchange, GrantRows
  <2>3. grant[g].sessions = 0 /\ \A b \in Callers : ~Holds(b, g)
    BY <2>1, NoneAssumption DEF GrantsSound
  <2>4. \A b \in Callers, h \in Grants : Holds(b, h)' => Holds(b, h) \/ (b = c /\ h = g)
    BY <2>1 DEF Holds, At
  <2> QED  BY <2>2, <2>3, <2>4, NoneAssumption DEF GrantsSound
<1>3. ASSUME NEW c \in Callers, WebLogin(c) \/ VerifyOnWeb(c)
                                \/ InBrowser(c, "approve", "approval") \/ InBrowser(c, "pair", "pairing")
      PROVE  GrantsSound'
  <2>1. /\ UNCHANGED grant
        /\ \/ Begin(c, "web", "login", None, epoch, epoch)
           \/ \E s \in {"webChange", "approve", "pair"}, k \in {"change", "approval", "pairing"} :
                Begin(c, s, k, None, None, epoch)
    BY <1>3 DEF WebLogin, VerifyOnWeb, InBrowser
  <2> QED  BY <2>1, <1>b, <1>k, <1>e
<1>4. ASSUME NEW c \in Callers, StatementFails(c) \/ Dies(c)
      PROVE  GrantsSound'
  BY <1>4, <1>f, <1>d, <1>k DEF StatementFails, Dies, At
<1>5. ASSUME NEW c \in Callers, CreateDeviceSession(c)
      PROVE  GrantsSound'
  BY <1>5, <1>f, <1>g, <1>e DEF CreateDeviceSession, At
<1>6. ASSUME NEW c \in Callers, IssueSession(c)
      PROVE  GrantsSound'
  <2>1. Done(c) /\ CountSession(c)
    BY <1>6 DEF IssueSession
  <2>2. CASE call[c].kind \notin Grants
    BY <2>1, <2>2, <1>d, <1>k DEF CountSession
  <2>3. ASSUME NEW k \in Grants, k = call[c].kind
        PROVE  GrantsSound'
    <3>1. Holds(c, k)
      BY <1>6, <2>3 DEF IssueSession, Holds, At
    <3>2. \A g \in Grants : /\ grant'[g].consumed = grant[g].consumed
                            /\ g # k => grant'[g].sessions = grant[g].sessions
      BY <2>1, <2>3, <1>r DEF CountSession, GrantRows
    <3>3. grant'[k].sessions = grant[k].sessions + 1
      BY <2>1, <2>3, <1>r DEF CountSession, GrantRows
    <3>4. grant[k].consumed = c /\ grant[k].sessions = 0
      BY <3>1 DEF GrantsSound
    <3>5. \A b \in Callers, g \in Grants : Holds(b, g)' => Holds(b, g) /\ b # c
      <4>1. \A b \in Callers : call'[b] = IF b = c THEN Idle ELSE call[b]
        BY <2>1 DEF Done
      <4> QED  BY <4>1 DEF Holds, At, Idle
    <3>6. \A b \in Callers : ~Holds(b, k)'
      BY <3>4, <3>5 DEF GrantsSound
    <3> QED  BY <3>2, <3>3, <3>4, <3>5, <3>6, NoneAssumption DEF GrantsSound
  <2> QED  BY <2>2, <2>3
<1>20. ASSUME NEW c \in Callers, ReadDevice(c)
       PROVE  GrantsSound'
  BY <1>20, <1>f, <1>g, <1>e DEF ReadDevice, At
<1>7. ASSUME NEW c \in Callers, CreateWebSession(c) \/ Approve(c) \/ CreatePairing(c)
      PROVE  GrantsSound'
  <2>1. GrantRowsKept
    BY <1>7, <1>r DEF CreateWebSession, Approve, CreatePairing, GrantRowsKept, GrantRows
  <2> QED  BY <1>7, <2>1, <1>d DEF CreateWebSession, Approve, CreatePairing
<1>8. ASSUME NEW c \in Callers, Unconsume(c)
      PROVE  GrantsSound'
  <2>0. PICK k \in Grants : k = call[c].kind
    BY <1>8, <1>r DEF Unconsume, RowSound, At
  <2>1. Holds(c, k)
    BY <2>0, <1>8, <1>r DEF Unconsume, RowSound, Holds, At
  <2>2. \A g \in Grants : /\ grant'[g].sessions = grant[g].sessions
                          /\ g # k => grant'[g].consumed = grant[g].consumed
    BY <1>8, <2>0, <1>r DEF Unconsume, GrantRows
  <2>3. grant[k].consumed = c /\ grant[k].sessions = 0
    BY <2>1 DEF GrantsSound
  <2>4. \A b \in Callers, g \in Grants : Holds(b, g)' => Holds(b, g) /\ b # c
    <3>1. \A b \in Callers : call'[b] = IF b = c THEN Idle ELSE call[b]
      BY <1>8 DEF Unconsume, Done
    <3> QED  BY <3>1 DEF Holds, At, Idle
  <2>5. \A b \in Callers : ~Holds(b, k)'
    BY <2>1, <2>3, <2>4 DEF GrantsSound
  <2> QED  BY <2>1, <2>2, <2>3, <2>4, <2>5 DEF GrantsSound
<1>9. ASSUME NEW c \in Callers, ChangePassword(c) \/ ChangeWebPassword(c) \/ ResetPassword(c)
      PROVE  GrantsSound'
  <2>1. GrantRowsKept
    BY <1>9, <1>r DEF ChangePassword, ChangeWebPassword, ResetPassword, WithoutPairing,
         GrantRowsKept,
              GrantRows, Grants
  <2>2. \/ Done(c)
        \/ epoch < MaxEpoch /\ Begin(c, "issue", "change", call[c].device, None, epoch + 1)
        \/ epoch < MaxEpoch /\ Begin(c, "destroy", "change", None, None, epoch + 1)
        \/ epoch < MaxEpoch /\ Begin(c, "web", "reset", None, epoch + 1, epoch + 1)
    BY <1>9 DEF ChangePassword, ChangeWebPassword, ResetPassword, NextEpoch
  <2>3. call[c].device \in Devices \cup {None}
    BY <1>r DEF CallRows
  <2> QED  BY <2>1, <2>2, <2>3, <1>b, <1>d, <1>e
<1>10. ASSUME NEW c \in Callers, DestroyForAccount(c)
       PROVE  GrantsSound'
  BY <1>10, <1>g, <1>e DEF DestroyForAccount
<1>11. ASSUME UNCHANGED call, GrantRowsKept
       PROVE  GrantsSound'
  BY <1>11, GrantsKept DEF Holds, At
<1>12. ASSUME CreateAuthorization \/ \E g \in Grants : Withdraw(g) \/ GrantExpires(g)
       PROVE  GrantsSound'
  <2>1. GrantRowsKept
    BY <1>12, <1>r DEF CreateAuthorization, Withdraw, GrantExpires, GrantRows, GrantRowsKept
  <2> QED  BY <1>11, <1>12, <2>1 DEF CreateAuthorization, Withdraw, GrantExpires
<1>13. ASSUME NEW d \in Devices, Logout(d) \/ RevokeDevice(d) \/ Forget(d) \/ \E q \in Ids : Ask(d, q)
       PROVE  GrantsSound'
  BY <1>11, <1>13, <1>k DEF Logout, RevokeDevice, Forget, Ask
<1>14. ASSUME NEW t \in Tokens, NEW q \in Ids, Refresh(t, q)
       PROVE  GrantsSound'
  BY <1>11, <1>14, <1>k DEF Refresh, Rotate, AnswerAgain, TakeForReuse
<1>15. ASSUME EndWebSessions \/ Suspend \/ Resume
       PROVE  GrantsSound'
  BY <1>11, <1>15, <1>k DEF EndWebSessions, Suspend, Resume
<1> QED
  BY <1>u, <1>20, <1>1, <1>2, <1>3, <1>4, <1>5, <1>6, <1>7, <1>8, <1>9, <1>10, <1>12, <1>13, <1>14, <1>15
  DEF Next, Step

(***************************************************************************)
(* The account's row, while a token is inserted.                           *)
(***************************************************************************)
LEMMA LockStep == TypeOK /\ LockSound /\ [Next]_authVars => LockSound'
<1> SUFFICES ASSUME TypeOK, LockSound, [Next]_authVars PROVE LockSound'
  OBVIOUS
<1> USE TypeParts
<1> DEFINE NoneEnters == \A b \in Callers : call'[b].at = "insert" => call'[b] = call[b]
(* Nobody comes to hold the row, and either the account and the tokens stay,
   or nobody held it.                                                       *)
<1>n. ASSUME NoneEnters, UNCHANGED <<epoch, blocked, issued>> \/ Unlocked
      PROVE  LockSound'
  BY <1>n DEF LockSound, At, Current, Unlocked
<1>h. ASSUME NEW c \in Callers, Done(c) \/ (\E st \in Stages \ {"insert"} : Goto(c, st)) \/ Refuse(c)
      PROVE  NoneEnters
  <2>1. CASE Done(c)
    BY <2>1, RowsWritten DEF Done, Idle
  <2>2. ASSUME NEW st \in Stages \ {"insert"}, Goto(c, st)
        PROVE  NoneEnters
    BY <2>2 DEF Goto, CallRows
  <2>3. CASE Refuse(c)
    BY <2>1, <2>2, <2>3 DEF Refuse, Stages
  <2> QED  BY <1>h, <2>1, <2>2, <2>3
<1>b. ASSUME NEW c \in Callers, NEW st \in Stages \ {"insert"}, NEW k, NEW d, NEW e, NEW p,
             Begin(c, st, k, d, e, p)
      PROVE  NoneEnters
  BY <1>b DEF Begin
<1>c. UNCHANGED call => NoneEnters
  OBVIOUS
<1>s. {"create", "issue", "destroy", "web", "change", "webChange", "unconsume", "approve", "pair"}
        \subseteq Stages \ {"insert"}
  BY DEF Stages
<1> HIDE DEF NoneEnters
<1> USE DEF accountRow, sessions
<1>u. CASE UNCHANGED authVars
  BY <1>u, <1>c, <1>n DEF authVars
<1>1. ASSUME NEW c \in Callers, NEW d \in Devices, NEW g \in Grants,
             Login(c, d) \/ VerifyOnDevice(c, d) \/ Exchange(c, g, d)
      PROVE  LockSound'
  BY <1>1, <1>b, <1>n, <1>s DEF Login, VerifyOnDevice, Exchange
<1>2. ASSUME NEW c \in Callers, NEW s \in {"approve", "pair"}, NEW g \in Grants,
             WebLogin(c) \/ VerifyOnWeb(c) \/ InBrowser(c, s, g)
      PROVE  LockSound'
  BY <1>2, <1>b, <1>n, <1>s DEF WebLogin, VerifyOnWeb, InBrowser
<1>3. ASSUME NEW c \in Callers, StatementFails(c) \/ Dies(c) \/ DestroyForAccount(c) \/ Unconsume(c)
      PROVE  LockSound'
  BY <1>3, <1>h, <1>n, <1>s DEF StatementFails, Dies, DestroyForAccount, Unconsume
<1>4. ASSUME NEW c \in Callers, CreateDeviceSession(c) \/ CreateWebSession(c) \/ Approve(c) \/ CreatePairing(c)
      PROVE  LockSound'
  BY <1>4, <1>h, <1>n, <1>s DEF CreateDeviceSession, CreateWebSession, Approve, CreatePairing
<1>5. ASSUME NEW c \in Callers, ChangePassword(c) \/ ChangeWebPassword(c) \/ ResetPassword(c)
      PROVE  LockSound'
  <2>1. NoneEnters
    BY <1>5, <1>b, <1>h, <1>s DEF ChangePassword, ChangeWebPassword, ResetPassword
  <2> QED  BY <1>5, <2>1, <1>n DEF ChangePassword, ChangeWebPassword, ResetPassword
<1>6. ASSUME NEW c \in Callers, ReadDevice(c)
      PROVE  LockSound'
  <2>1. CASE Refuse(c)
    BY <1>6, <2>1, <1>h, <1>n DEF ReadDevice
  <2>2. CASE Current(c) /\ issued < MaxTokens /\ Goto(c, "insert")
    <3>0. call[c] \in CallRows
      OBVIOUS
    <3>1. /\ \A b \in Callers : call'[b] = IF b = c THEN [call[c] EXCEPT !.at = "insert"] ELSE call[b]
          /\ [call[c] EXCEPT !.at = "insert"].expect = call[c].expect
      BY <2>2, <3>0 DEF Goto, CallRows
    <3>2. UNCHANGED <<epoch, blocked, issued>> /\ \A b \in Callers : ~At(b, "insert")
      BY <1>6 DEF ReadDevice, Unlocked
    <3> QED  BY <2>2, <3>1, <3>2 DEF LockSound, At, Current
  <2> QED  BY <1>6, <2>1, <2>2 DEF ReadDevice
<1>7. ASSUME NEW c \in Callers, IssueSession(c)
      PROVE  LockSound'
  <2>1. \A b \in Callers : ~At(b, "insert")'
    BY <1>7, RowsWritten DEF IssueSession, LockSound, At
  <2> QED  BY <2>1 DEF LockSound
<1>8. ASSUME NEW d \in Devices, Logout(d) \/ RevokeDevice(d) \/ Forget(d) \/ \E q \in Ids : Ask(d, q)
      PROVE  LockSound'
  BY <1>8, <1>c, <1>n DEF Logout, RevokeDevice, Forget, Ask
<1>9. ASSUME NEW t \in Tokens, NEW q \in Ids, Refresh(t, q)
      PROVE  LockSound'
  BY <1>9, <1>c, <1>n DEF Refresh, Rotate, AnswerAgain, TakeForReuse, Refreshable
<1>10. ASSUME NEW g \in Grants,
              EndWebSessions \/ CreateAuthorization \/ Withdraw(g) \/ GrantExpires(g)
       PROVE  LockSound'
  BY <1>10, <1>c, <1>n DEF EndWebSessions, CreateAuthorization, Withdraw, GrantExpires
<1>11. ASSUME Suspend \/ Resume
       PROVE  LockSound'
  BY <1>11, <1>c, <1>n DEF Suspend, Resume
<1>12. Grants # {} /\ {"approval", "pairing"} \subseteq Grants
  BY DEF Grants
<1> QED
  BY <1>u, <1>1, <1>2, <1>3, <1>4, <1>5, <1>6, <1>7, <1>8, <1>9, <1>10, <1>11, <1>12 DEF Next, Step

(***************************************************************************)
(* Tokens, and what the installations have stored and asked.               *)
(***************************************************************************)
ClientOwned == \A d \in Devices : client[d].token # 0 =>
                 client[d].token <= issued /\ token[client[d].token].device = d

LEMMA OwnedWhenKept ==
  ASSUME TokensOwned, UNCHANGED <<token, issued>>, asked \subseteq asked',
         \A x \in asked' : x[1] <= issued, ClientOwned'
  PROVE  TokensOwned'
BY DEF TokensOwned, ClientOwned

(* Which fields of which rows Fells leaves alone.                           *)
LEMMA FelledRows ==
  ASSUME TypeOK, NEW S \in SUBSET Tokens, Fells(S)
  PROVE  \A t \in Tokens :
           /\ token'[t].device = token[t].device /\ token'[t].next = token[t].next
           /\ token'[t].id = token[t].id /\ token'[t].epoch = token[t].epoch
           /\ token'[t].kind = token[t].kind /\ token'[t].proof = token[t].proof
           /\ token'[t].status = IF t \in S THEN "revoked" ELSE token[t].status
<1> SUFFICES ASSUME NEW t \in Tokens
             PROVE  /\ token'[t].device = token[t].device /\ token'[t].next = token[t].next
                    /\ token'[t].id = token[t].id /\ token'[t].epoch = token[t].epoch
                    /\ token'[t].kind = token[t].kind /\ token'[t].proof = token[t].proof
                    /\ token'[t].status = IF t \in S THEN "revoked" ELSE token[t].status
  OBVIOUS
<1>1. token[t] \in TokenRows
  BY TypeParts
<1>2. token'[t] = IF t \in S THEN [token[t] EXCEPT !.status = "revoked"] ELSE token[t]
  BY DEF Fells
<1> QED  BY <1>1, <1>2 DEF TokenRows

LEMMA OwnedWhenFelled ==
  ASSUME TypeOK, TokensOwned, NEW S \in SUBSET Tokens, Fells(S), UNCHANGED <<issued, asked>>,
         \A d \in Devices : client'[d].token \in {0, client[d].token}
  PROVE  TokensOwned'
<1>0. asked \subseteq Tokens \X Ids /\ issued \in {0} \cup Tokens
  BY TypeParts
<1>1. \A t \in Tokens : t <= issued => token'[t].device \in Devices
  BY FelledRows DEF TokensOwned
<1>2. ASSUME NEW t \in Tokens, token'[t].status = "rotated"
      PROVE  /\ token'[t].next <= issued /\ token'[token'[t].next].device = token'[t].device
             /\ <<t, token'[t].id>> \in asked
  <2>1. token[t].status = "rotated" /\ token[t].next \in Tokens
    BY <1>2, FelledRows, TypeParts DEF TokenSteps, Tokens, TokenRows
  <2> QED  BY <2>1, FelledRows DEF TokensOwned
<1>3. ASSUME NEW d \in Devices, client'[d].token # 0
      PROVE  client'[d].token <= issued /\ token'[client'[d].token].device = d
  <2>1. client'[d].token = client[d].token /\ client[d].token \in Tokens
    BY <1>3, TypeParts DEF ClientRows
  <2> QED  BY <1>3, <2>1, FelledRows DEF TokensOwned
<1> QED  BY <1>0, <1>1, <1>2, <1>3 DEF TokensOwned

(* A row more, of the device of who stores it.                              *)
LEMMA OwnedWhenIssued ==
  ASSUME TypeOK, TokensOwned, issued' = issued + 1, issued' \in Tokens, UNCHANGED asked,
         NEW d \in Devices, token'[issued + 1].device = d, token'[issued + 1].status = "live",
         \A t \in Tokens : t <= issued => token'[t].device = token[t].device,
         \A t \in Tokens : t # issued + 1 /\ token'[t].status = "rotated" =>
           \/ token[t].status = "rotated" /\ token'[t].next = token[t].next /\ token'[t].id = token[t].id
           \/ /\ t <= issued /\ token'[t].next = issued + 1 /\ token[t].device = d
              /\ <<t, token'[t].id>> \in asked,
         \A e \in Devices : client'[e].token = client[e].token \/ (e = d /\ client'[e].token = issued + 1)
  PROVE  TokensOwned'
<1>0. asked \subseteq Tokens \X Ids /\ issued \in Nat
  BY TypeParts, BoundsAssumption DEF Tokens
<1>1. \A t \in Tokens : t <= issued' => token'[t].device \in Devices
  BY <1>0 DEF TokensOwned, Tokens
<1>2. ASSUME NEW t \in Tokens, token'[t].status = "rotated"
      PROVE  /\ token'[t].next <= issued' /\ token'[token'[t].next].device = token'[t].device
             /\ <<t, token'[t].id>> \in asked'
  <2>1. t # issued + 1
    BY <1>2
  <2>2. CASE token[t].status = "rotated" /\ token'[t].next = token[t].next /\ token'[t].id = token[t].id
    <3>1. /\ token[t].next <= issued /\ token[token[t].next].device = token[t].device
          /\ <<t, token[t].id>> \in asked
      BY <2>2 DEF TokensOwned
    <3>2. token[t].next \in Tokens /\ t <= issued
      BY <2>2, TypeParts DEF TokenSteps, Tokens, TokenRows
    <3> QED  BY <2>2, <3>1, <3>2, <1>0 DEF Tokens
  <2>3. CASE /\ t <= issued /\ token'[t].next = issued + 1 /\ token[t].device = d
             /\ <<t, token'[t].id>> \in asked
    BY <2>3, <1>0
  <2> QED  BY <1>2, <2>1, <2>2, <2>3
<1>3. ASSUME NEW e \in Devices, client'[e].token # 0
      PROVE  client'[e].token <= issued' /\ token'[client'[e].token].device = e
  <2>1. client[e].token \in {0} \cup Tokens
    BY TypeParts DEF ClientRows
  <2> QED  BY <1>3, <2>1, <1>0 DEF TokensOwned, Tokens
<1>4. \A x \in asked' : x[1] <= issued'
  BY <1>0 DEF TokensOwned, Tokens
<1> QED  BY <1>1, <1>2, <1>3, <1>4 DEF TokensOwned

LEMMA Stored ==
  ASSUME TypeOK, NEW d \in Devices
  PROVE  /\ \A n \in Tokens : Adopts(d, n) => \A e \in Devices :
              client'[e].token = client[e].token \/ (e = d /\ client'[e].token = n)
         /\ \A t \in Tokens, q \in Ids, n \in Tokens : Answered(t, q, n) /\ token[t].device = d =>
              \A e \in Devices : client'[e].token = client[e].token
                                 \/ (e = d /\ client[e].token = t /\ client'[e].token = n)
<1>1. \A e \in Devices : client[e] \in ClientRows
  BY TypeParts
<1>2. ASSUME NEW n \in Tokens, Adopts(d, n), NEW e \in Devices
      PROVE  client'[e].token = client[e].token \/ (e = d /\ client'[e].token = n)
  BY <1>1, <1>2, TypeParts DEF Adopts, ClientRows
<1>3. ASSUME NEW t \in Tokens, NEW q \in Ids, NEW n \in Tokens, Answered(t, q, n),
             token[t].device = d, NEW e \in Devices
      PROVE  client'[e].token = client[e].token
             \/ (e = d /\ client[e].token = t /\ client'[e].token = n)
  <2>1. CASE UNCHANGED client
    BY <2>1
  <2>2. CASE client[d].token = t /\ Adopts(d, n)
    BY <2>2, <1>2
  <2> QED  BY <1>3, <2>1, <2>2 DEF Answered
<1> QED  BY <1>2, <1>3

LEMMA OwnedStep ==
  TypeOK /\ TokensOwned /\ CallsSound /\ LockSound /\ [Next]_authVars => TokensOwned'
<1> SUFFICES ASSUME TypeOK, TokensOwned, CallsSound, LockSound, [Next]_authVars PROVE TokensOwned'
  OBVIOUS
<1> USE TypeParts
<1>0. asked \subseteq Tokens \X Ids /\ issued \in Nat
  BY BoundsAssumption DEF Tokens
<1>o. ClientOwned /\ \A x \in asked : x[1] <= issued
  BY DEF TokensOwned, ClientOwned
<1>k. ASSUME UNCHANGED <<token, issued, client, asked>>
      PROVE  TokensOwned'
  BY <1>k DEF TokensOwned
<1>a. ASSUME token' = AllRevoked, UNCHANGED <<issued, client, asked>>
      PROVE  TokensOwned'
  <2>1. PICK S \in SUBSET Tokens : Fells(S)
    BY <1>a, Felling
  <2> QED  BY <1>a, <2>1, OwnedWhenFelled
<1>d. ASSUME NEW d \in Devices, token' = Superseding(d), UNCHANGED <<issued, client, asked>>
      PROVE  TokensOwned'
  <2>1. PICK S \in SUBSET Tokens : Fells(S)
    BY <1>d, Felling
  <2> QED  BY <1>d, <2>1, OwnedWhenFelled
<1>u. CASE UNCHANGED authVars
  BY <1>u, <1>k DEF authVars
<1>1. ASSUME NEW c \in Callers, NEW d \in Devices, NEW g \in Grants,
             Login(c, d) \/ VerifyOnDevice(c, d) \/ Exchange(c, g, d)
      PROVE  TokensOwned'
  BY <1>1, <1>k DEF Login, VerifyOnDevice, Exchange, sessions, clients
<1>2. ASSUME NEW c \in Callers, NEW s \in {"approve", "pair"}, NEW g \in Grants,
             WebLogin(c) \/ VerifyOnWeb(c) \/ InBrowser(c, s, g)
             \/ StatementFails(c) \/ Dies(c)
      PROVE  TokensOwned'
  BY <1>2, <1>k DEF WebLogin, VerifyOnWeb, InBrowser, StatementFails, Dies, sessions, clients
<1>3. ASSUME NEW c \in Callers,
             \/ CreateDeviceSession(c) \/ ReadDevice(c) \/ CreateWebSession(c)
             \/ DestroyForAccount(c) \/ Approve(c) \/ CreatePairing(c) \/ Unconsume(c)
      PROVE  TokensOwned'
  BY <1>3, <1>k DEF CreateDeviceSession, ReadDevice, CreateWebSession, DestroyForAccount,
                      Approve, CreatePairing, Unconsume, sessions, clients
<1>4. ASSUME NEW c \in Callers, IssueSession(c)
      PROVE  TokensOwned'
  <2>0. PICK d \in Devices : d = call[c].device
    BY <1>4 DEF CallsSound, RowSound, IssueSession, At
  <2>1. call[c].kind \in Kinds /\ call[c].proof \in Epochs
    BY DEF CallRows
  <2>2. /\ issued < MaxTokens /\ issued' = issued + 1
        /\ token' = [Superseding(d) EXCEPT ![issued + 1] = Fresh(d, call[c].kind, call[c].proof)]
        /\ Adopts(d, issued + 1)
    BY <1>4, <2>0 DEF IssueSession, LockSound
  <2>3. /\ issued' \in Tokens /\ token'[issued + 1] = Fresh(d, call[c].kind, call[c].proof)
        /\ \A t \in Tokens : t # issued + 1 =>
             token'[t] = IF token[t].device = d /\ t <= issued
                         THEN [token[t] EXCEPT !.status = "revoked"] ELSE token[t]
    BY <2>1, <2>2, IssueTyped
  <2>4. token'[issued + 1].device = d /\ token'[issued + 1].status = "live"
    BY <2>1, <2>3, FreshRow
  <2>5. \A t \in Tokens : t # issued + 1 =>
          /\ token'[t].device = token[t].device
          /\ token'[t].status = "rotated" =>
               /\ token[t].status = "rotated" /\ token'[t].next = token[t].next
               /\ token'[t].id = token[t].id
    BY <2>3 DEF TokenRows
  <2>6. \A e \in Devices :
          client'[e].token = client[e].token \/ (e = d /\ client'[e].token = issued + 1)
    BY <2>2, <2>3, Stored
  <2>7. UNCHANGED asked /\ \A t \in Tokens : t <= issued => token'[t].device = token[t].device
    BY <1>4, <2>5, <1>0 DEF IssueSession, Tokens
  <2> QED  BY <2>2, <2>3, <2>4, <2>5, <2>6, <2>7, OwnedWhenIssued
<1>5. ASSUME NEW c \in Callers, ChangePassword(c) \/ ChangeWebPassword(c) \/ ResetPassword(c)
      PROVE  TokensOwned'
  <2>1. UNCHANGED <<issued, client, asked>> /\ (token' = AllRevoked \/ UNCHANGED token)
    BY <1>5 DEF ChangePassword, ChangeWebPassword, ResetPassword, clients
  <2> QED  BY <2>1, <1>a, <1>k
<1>6. ASSUME NEW d \in Devices, NEW q \in Ids, Ask(d, q)
      PROVE  TokensOwned'
  <2>1. /\ client[d].token \in Tokens /\ client[d].token <= issued
        /\ \A e \in Devices : client'[e].token = client[e].token
    BY <1>6, <1>o DEF Ask, ClientRows, ClientOwned
  <2>2. /\ UNCHANGED <<token, issued>> /\ asked \subseteq asked'
        /\ \A x \in asked' : x[1] <= issued
    BY <1>6, <1>o, <2>1 DEF Ask, sessions
  <2> QED  BY <2>1, <2>2, <1>o, OwnedWhenKept DEF ClientOwned
<1>7. ASSUME NEW d \in Devices, Forget(d)
      PROVE  TokensOwned'
  <2>1. /\ \A e \in Devices : client'[e].token = client[e].token
        /\ UNCHANGED <<token, issued, asked>>
    BY <1>7 DEF Forget, ClientRows, sessions
  <2> QED  BY <2>1, <1>o, OwnedWhenKept DEF ClientOwned
<1>8. ASSUME NEW t \in Tokens, NEW q \in Ids, Rotate(t, q)
      PROVE  TokensOwned'
  <2>0. PICK d \in Devices : d = token[t].device
    BY <1>8, RotateTyped
  <2>1. /\ t <= issued /\ issued' = issued + 1 /\ issued' \in Tokens
        /\ token'[issued + 1] = Fresh(d, token[t].kind, token[t].proof)
        /\ token'[t] = [token[t] EXCEPT !.status = "rotated", !.id = q, !.next = issued + 1]
        /\ \A s \in Tokens : s # issued + 1 /\ s # t => token'[s] = token[s]
    BY <1>8, <2>0, RotateTyped
  <2>2. token'[issued + 1].device = d /\ token'[issued + 1].status = "live"
    BY <2>1, FreshRow DEF TokenRows
  <2>3. /\ token'[t].device = d /\ token'[t].next = issued + 1 /\ token'[t].id = q
    BY <2>0, <2>1 DEF TokenRows
  <2>4. UNCHANGED asked /\ <<t, q>> \in asked
    BY <1>8 DEF Rotate
  <2>5. \A e \in Devices :
          client'[e].token = client[e].token \/ (e = d /\ client'[e].token = issued + 1)
    BY <1>8, <2>0, <2>1, Stored DEF Rotate
  <2>6. \A s \in Tokens : s <= issued => token'[s].device = token[s].device
    <3>1. ASSUME NEW s \in Tokens, s <= issued
          PROVE  token'[s].device = token[s].device
      <4>1. s # issued + 1
        BY <3>1, <1>0 DEF Tokens
      <4> QED  BY <4>1, <2>0, <2>1, <2>3
    <3> QED  BY <3>1
  <2>7. ASSUME NEW s \in Tokens, s # issued + 1, token'[s].status = "rotated"
        PROVE  \/ token[s].status = "rotated" /\ token'[s].next = token[s].next /\ token'[s].id = token[s].id
               \/ /\ s <= issued /\ token'[s].next = issued + 1 /\ token[s].device = d
                  /\ <<s, token'[s].id>> \in asked
    <3>1. CASE s = t
      BY <3>1, <2>0, <2>1, <2>3, <2>4
    <3>2. CASE s # t
      BY <3>2, <2>7, <2>1
    <3> QED  BY <3>1, <3>2
  <2> QED  BY <2>1, <2>2, <2>4, <2>5, <2>6, <2>7, OwnedWhenIssued
<1>9. ASSUME NEW t \in Tokens, NEW q \in Ids, AnswerAgain(t, q)
      PROVE  TokensOwned'
  <2>1. t <= issued /\ token[t].next \in Tokens /\ token[t].status = "rotated"
    BY <1>9 DEF AnswerAgain, TokenSteps, Tokens, TokenRows
  <2>2. PICK d \in Devices : d = token[t].device
    BY <2>1 DEF TokensOwned
  <2>3. token[t].next <= issued /\ token[token[t].next].device = d
    BY <2>1, <2>2 DEF TokensOwned
  <2>4. \A e \in Devices :
          client'[e].token = client[e].token \/ (e = d /\ client'[e].token = token[t].next)
    BY <1>9, <2>1, <2>2, Stored DEF AnswerAgain
  <2>5. UNCHANGED <<token, issued, asked>>
    BY <1>9 DEF AnswerAgain, sessions
  <2>6. ClientOwned'
    BY <2>3, <2>4, <2>5, <1>o DEF ClientOwned
  <2> QED  BY <2>5, <2>6, <1>o, OwnedWhenKept
<1>10. ASSUME NEW t \in Tokens, NEW q \in Ids, TakeForReuse(t, q)
       PROVE  TokensOwned'
  <2>1. token[t].device \in Devices
    BY <1>10 DEF TakeForReuse, TokenSteps, Tokens, TokensOwned
  <2> QED  BY <1>10, <2>1, <1>d DEF TakeForReuse, clients
<1>11. ASSUME NEW d \in Devices, Logout(d)
       PROVE  TokensOwned'
  <2>1. client[d].token \in Tokens
    BY <1>11 DEF Logout, ClientRows
  <2>2. Fells({client[d].token})
    BY <1>11, <2>1 DEF Logout, Fells
  <2>3. /\ UNCHANGED <<issued, asked>>
        /\ \A e \in Devices : client'[e].token \in {0, client[e].token}
    BY <1>11 DEF Logout, ClientRows
  <2>4. {client[d].token} \in SUBSET Tokens
    BY <2>1
  <2> QED  BY <2>2, <2>3, <2>4, OwnedWhenFelled
<1>12. ASSUME NEW d \in Devices, RevokeDevice(d)
       PROVE  TokensOwned'
  BY <1>12, <1>d DEF RevokeDevice, clients
<1>13. ASSUME NEW g \in Grants,
              \/ EndWebSessions \/ CreateAuthorization \/ Resume \/ Suspend
              \/ Withdraw(g) \/ GrantExpires(g)
       PROVE  TokensOwned'
  BY <1>13, <1>k, <1>a DEF EndWebSessions, CreateAuthorization, Resume, Suspend, Withdraw,
       GrantExpires,
     sessions, clients
<1>14. Grants # {} /\ {"approval", "pairing"} \subseteq Grants
  BY DEF Grants
<1> QED
  BY <1>u, <1>1, <1>2, <1>3, <1>4, <1>5, <1>6, <1>7, <1>8, <1>9, <1>10, <1>11, <1>12, <1>13, <1>14
  DEF Next, Step, Refresh

(* No step moves a token to another device, or makes an installation that has
   lost its request id remember it.                                         *)
Steady ==
  /\ \A t \in Tokens : t <= issued => token'[t].device = token[t].device
  /\ \A d \in Devices : client[d].forgot => client'[d].forgot

LEMMA SteadyStep == TypeOK /\ TokensOwned /\ CallsSound /\ LockSound /\ [Next]_authVars => Steady
<1> SUFFICES ASSUME TypeOK, TokensOwned, CallsSound, LockSound, [Next]_authVars PROVE Steady
  OBVIOUS
<1> USE TypeParts
<1>0. issued \in Nat /\ \A d \in Devices : client[d] \in ClientRows
  BY BoundsAssumption DEF Tokens
<1>k. UNCHANGED <<token, client>> => Steady
  BY DEF Steady
<1>f. ASSUME NEW S \in SUBSET Tokens, Fells(S), UNCHANGED client
      PROVE  Steady
  BY <1>f, FelledRows DEF Steady
<1>a. token' = AllRevoked /\ UNCHANGED client => Steady
  BY <1>f, Felling
<1>d. ASSUME NEW d \in Devices, token' = Superseding(d), UNCHANGED client
      PROVE  Steady
  BY <1>d, <1>f, Felling
<1>c. ASSUME NEW d \in Devices, NEW n \in Tokens, Adopts(d, n)
      PROVE  \A e \in Devices : client'[e].forgot = client[e].forgot
  BY <1>c, <1>0 DEF Adopts, ClientRows
<1>b. ASSUME NEW t \in Tokens, NEW q \in Ids,
             NEW n \in Tokens, Answered(t, q, n), token[t].device \in Devices
      PROVE  \A e \in Devices : client'[e].forgot = client[e].forgot
  BY <1>b, <1>c DEF Answered
<1>u. CASE UNCHANGED authVars
  BY <1>u, <1>k DEF authVars
<1>1. ASSUME NEW c \in Callers, NEW d \in Devices, NEW g \in Grants,
             Login(c, d) \/ VerifyOnDevice(c, d) \/ Exchange(c, g, d)
      PROVE  Steady
  BY <1>1, <1>k DEF Login, VerifyOnDevice, Exchange, sessions, clients
<1>2. ASSUME NEW c \in Callers, NEW s \in {"approve", "pair"}, NEW g \in Grants,
             WebLogin(c) \/ VerifyOnWeb(c) \/ InBrowser(c, s, g)
             \/ StatementFails(c) \/ Dies(c)
      PROVE  Steady
  BY <1>2, <1>k DEF WebLogin, VerifyOnWeb, InBrowser, StatementFails, Dies, sessions, clients
<1>3. ASSUME NEW c \in Callers,
             \/ CreateDeviceSession(c) \/ ReadDevice(c) \/ CreateWebSession(c)
             \/ DestroyForAccount(c) \/ Approve(c) \/ CreatePairing(c) \/ Unconsume(c)
      PROVE  Steady
  BY <1>3, <1>k DEF CreateDeviceSession, ReadDevice, CreateWebSession, DestroyForAccount,
                      Approve, CreatePairing, Unconsume, sessions, clients
<1>4. ASSUME NEW c \in Callers, IssueSession(c)
      PROVE  Steady
  <2>0. PICK d \in Devices : d = call[c].device
    BY <1>4 DEF CallsSound, RowSound, IssueSession, At
  <2>1. call[c].kind \in Kinds /\ call[c].proof \in Epochs
    BY DEF CallRows
  <2>2. issued < MaxTokens
    BY <1>4 DEF IssueSession, LockSound
  <2>3. /\ issued < MaxTokens /\ issued' = issued + 1
        /\ token' = [Superseding(d) EXCEPT ![issued + 1] = Fresh(d, call[c].kind, call[c].proof)]
        /\ Adopts(d, issued + 1)
    BY <1>4, <2>0, <2>2 DEF IssueSession
  <2>4. /\ issued' \in Tokens
        /\ \A t \in Tokens : t # issued + 1 =>
             token'[t] = IF token[t].device = d /\ t <= issued
                         THEN [token[t] EXCEPT !.status = "revoked"] ELSE token[t]
    BY <2>1, <2>3, IssueTyped
  <2>5. ASSUME NEW t \in Tokens, t <= issued
        PROVE  token'[t].device = token[t].device
    <3>1. t # issued + 1
      BY <2>5, <1>0 DEF Tokens
    <3> QED  BY <3>1, <2>4 DEF TokenRows
  <2> QED  BY <2>3, <2>4, <2>5, <1>c DEF Steady
<1>5. ASSUME NEW c \in Callers, ChangePassword(c) \/ ChangeWebPassword(c) \/ ResetPassword(c)
      PROVE  Steady
  BY <1>5, <1>a, <1>k DEF ChangePassword, ChangeWebPassword, ResetPassword, clients
<1>6. ASSUME NEW d \in Devices, Forget(d) \/ \E q \in Ids : Ask(d, q)
      PROVE  Steady
  <2>1. UNCHANGED token
    BY <1>6 DEF Ask, Forget, sessions
  <2>2. \A e \in Devices : client[e].forgot => client'[e].forgot
    <3>1. CASE Forget(d)
      BY <3>1, <1>0 DEF Forget, ClientRows
    <3>2. CASE \E q \in Ids : client' = [client EXCEPT ![d].id = q]
      BY <3>2, <1>0 DEF ClientRows
    <3> QED  BY <1>6, <3>1, <3>2 DEF Ask
  <2> QED  BY <2>1, <2>2 DEF Steady
<1>7. ASSUME NEW t \in Tokens, NEW q \in Ids, Rotate(t, q)
      PROVE  Steady
  <2>1. /\ t <= issued /\ issued' = issued + 1 /\ issued' \in Tokens
        /\ token[t].device \in Devices
        /\ token'[t] = [token[t] EXCEPT !.status = "rotated", !.id = q, !.next = issued + 1]
        /\ \A s \in Tokens : s # issued + 1 /\ s # t => token'[s] = token[s]
    BY <1>7, RotateTyped
  <2>2. token'[t].device = token[t].device
    BY <2>1 DEF TokenRows
  <2>3. \A s \in Tokens : s <= issued => token'[s].device = token[s].device
    <3>1. \A s \in Tokens : s <= issued => s # issued + 1
      BY <1>0 DEF Tokens
    <3> QED  BY <3>1, <2>1, <2>2
  <2>4. \A e \in Devices : client'[e].forgot = client[e].forgot
    BY <1>7, <2>1, <1>b DEF Rotate
  <2> QED  BY <2>3, <2>4 DEF Steady
<1>8. ASSUME NEW t \in Tokens, NEW q \in Ids, AnswerAgain(t, q)
      PROVE  Steady
  <2>1. t <= issued /\ token[t].next \in Tokens
    BY <1>8 DEF AnswerAgain, TokenSteps, Tokens, TokenRows
  <2>2. \A e \in Devices : client'[e].forgot = client[e].forgot
    BY <1>8, <2>1, <1>b DEF AnswerAgain, TokensOwned
  <2> QED  BY <1>8, <2>2 DEF AnswerAgain, sessions, Steady
<1>9. ASSUME NEW t \in Tokens, NEW q \in Ids, TakeForReuse(t, q)
      PROVE  Steady
  <2>1. token[t].device \in Devices
    BY <1>9 DEF TakeForReuse, TokenSteps, Tokens, TokensOwned
  <2> QED  BY <1>9, <2>1, <1>d DEF TakeForReuse, clients
<1>10. ASSUME NEW d \in Devices, Logout(d)
       PROVE  Steady
  <2>1. client[d].token \in Tokens
    BY <1>10, <1>0 DEF Logout, ClientRows
  <2>2. Fells({client[d].token})
    BY <1>10, <2>1 DEF Logout, Fells
  <2>3. \A t \in Tokens : token'[t].device = token[t].device
    BY <2>1, <2>2, FelledRows
  <2>4. \A e \in Devices : client'[e].forgot = client[e].forgot
    BY <1>10, <1>0 DEF Logout, ClientRows
  <2> QED  BY <2>3, <2>4 DEF Steady
<1>11. ASSUME NEW d \in Devices, RevokeDevice(d)
       PROVE  Steady
  BY <1>11, <1>d DEF RevokeDevice, clients
<1>12. ASSUME NEW g \in Grants,
              \/ EndWebSessions \/ CreateAuthorization \/ Resume \/ Suspend
              \/ Withdraw(g) \/ GrantExpires(g)
       PROVE  Steady
  BY <1>12, <1>k, <1>a DEF EndWebSessions, CreateAuthorization, Resume, Suspend, Withdraw,
       GrantExpires,
     sessions, clients
<1>13. Grants # {} /\ {"approval", "pairing"} \subseteq Grants
  BY DEF Grants
<1> QED
  BY <1>u, <1>1, <1>2, <1>3, <1>4, <1>5, <1>6, <1>7, <1>8, <1>9, <1>10, <1>11, <1>12, <1>13
  DEF Next, Step, Refresh

(* Only Ask sends a request, and only the third step of refresh takes one for
   the use of a stolen token.                                               *)
LEMMA OnlyAsks ==
  [Next]_authVars =>
    /\ UNCHANGED asked \/ \E d \in Devices, q \in Ids : Ask(d, q)
    /\ UNCHANGED reused \/ \E t \in Tokens, q \in Ids : TakeForReuse(t, q)
<1> SUFFICES ASSUME [Next]_authVars
             PROVE  /\ UNCHANGED asked \/ \E d \in Devices, q \in Ids : Ask(d, q)
                    /\ UNCHANGED reused \/ \E t \in Tokens, q \in Ids : TakeForReuse(t, q)
  OBVIOUS
<1> USE DEF accountRow, sessions, clients, history
<1>u. CASE UNCHANGED authVars
  BY <1>u DEF authVars
<1>1. ASSUME NEW c \in Callers, NEW d \in Devices, NEW g \in Grants,
             Login(c, d) \/ VerifyOnDevice(c, d) \/ Exchange(c, g, d)
      PROVE  UNCHANGED <<asked, reused>>
  BY <1>1 DEF Login, VerifyOnDevice, Exchange
<1>2. ASSUME NEW c \in Callers, NEW s \in {"approve", "pair"}, NEW g \in Grants,
             WebLogin(c) \/ VerifyOnWeb(c) \/ ResetPassword(c) \/ InBrowser(c, s, g)
             \/ StatementFails(c) \/ Dies(c) \/ Step(c)
      PROVE  UNCHANGED <<asked, reused>>
  BY <1>2 DEF WebLogin, VerifyOnWeb, ResetPassword, InBrowser, StatementFails, Dies, Incident, Step,
     CreateDeviceSession, ReadDevice, IssueSession, CreateWebSession, ChangePassword, ChangeWebPassword,
     DestroyForAccount, Approve, CreatePairing, Unconsume
<1>3. ASSUME NEW d \in Devices, Logout(d) \/ RevokeDevice(d) \/ Forget(d)
      PROVE  UNCHANGED <<asked, reused>>
  BY <1>3 DEF Logout, RevokeDevice, Forget
<1>4. ASSUME NEW t \in Tokens, NEW q \in Ids, Rotate(t, q) \/ AnswerAgain(t, q)
      PROVE  UNCHANGED <<asked, reused>>
  BY <1>4 DEF Rotate, AnswerAgain
<1>5. ASSUME NEW g \in Grants,
             \/ EndWebSessions \/ CreateAuthorization \/ Resume \/ Suspend
             \/ Withdraw(g) \/ GrantExpires(g)
      PROVE  UNCHANGED <<asked, reused>>
  BY <1>5 DEF EndWebSessions, CreateAuthorization, Resume, Suspend, Incident, Withdraw, GrantExpires
<1>6. \A d \in Devices, q \in Ids : Ask(d, q) => UNCHANGED reused
  BY DEF Ask
<1>7. \A t \in Tokens, q \in Ids : TakeForReuse(t, q) => UNCHANGED asked
  BY DEF TakeForReuse
<1>8. Grants # {} /\ {"approval", "pairing"} \subseteq Grants
  BY DEF Grants
<1> QED  BY <1>u, <1>1, <1>2, <1>3, <1>4, <1>5, <1>6, <1>7, <1>8 DEF Next, Refresh

LEMMA HonestStep ==
  TypeOK /\ TokensOwned /\ CallsSound /\ LockSound /\ AskedOnce /\ ~reused /\ [Next]_authVars => AskedOnce' /\ ~reused'
<1> SUFFICES ASSUME TypeOK, TokensOwned, CallsSound, LockSound, AskedOnce, ~reused, [Next]_authVars
             PROVE  AskedOnce' /\ ~reused'
  OBVIOUS
<1>1. Steady
  BY SteadyStep
<1>2. \A x \in asked : x[1] \in Tokens /\ x[2] \in Ids /\ x[1] <= issued /\ token[x[1]].device \in Devices
  BY TypeParts DEF TokensOwned
<1>3. CASE UNCHANGED asked
  <2>1. AskedOnce'
    BY <1>1, <1>2, <1>3 DEF AskedOnce, Steady
  <2>2. ASSUME NEW t \in Tokens, NEW q \in Ids, TakeForReuse(t, q)
        PROVE  ~reused'
    <3>1. /\ <<t, q>> \in asked /\ <<t, token[t].id>> \in asked /\ token[t].id # q
          /\ reused' = (reused \/ ~client[token[t].device].forgot)
      BY <2>2 DEF TakeForReuse, Repeats, TokensOwned
    <3>2. token[t].id \in Ids
      BY <3>1, <1>2
    <3> QED  BY <3>1, <3>2 DEF AskedOnce
  <2> QED  BY <2>1, <2>2, OnlyAsks
<1>4. ASSUME NEW d \in Devices, NEW q \in Ids, Ask(d, q)
      PROVE  AskedOnce' /\ ~reused'
  <2>1. /\ asked' = asked \cup {<<client[d].token, q>>} /\ UNCHANGED <<token, reused>>
        /\ client[d].forgot \/ ~\E i \in Ids : <<client[d].token, i>> \in asked
        /\ client[d].token # 0
    BY <1>4 DEF Ask, sessions, history
  <2>2. token[client[d].token].device = d
    BY <2>1 DEF TokensOwned
  <2>3. ASSUME NEW t \in Tokens, NEW r \in Ids, NEW s \in Ids,
               <<t, r>> \in asked', <<t, s>> \in asked', r # s
        PROVE  client'[token'[t].device].forgot
    <3>1. CASE <<t, r>> \in asked /\ <<t, s>> \in asked
      BY <3>1, <2>1, <2>3, <1>1, <1>2 DEF AskedOnce, Steady
    <3>2. CASE t = client[d].token
      BY <3>2, <2>1, <2>2, <2>3, <1>1 DEF Steady
    <3> QED  BY <2>1, <2>3, <3>1, <3>2
  <2> QED  BY <2>1, <2>3 DEF AskedOnce
<1> QED  BY <1>3, <1>4, OnlyAsks

(***************************************************************************)
(* Live tokens.                                                            *)
(***************************************************************************)
LEMMA LiveWhenFelled ==
  ASSUME TypeOK, LiveTokensGood, NEW S \in SUBSET Tokens, Fells(S), UNCHANGED issued,
         \A t \in Tokens : t <= issued /\ Live(t) /\ t \notin S =>
           /\ epoch' = epoch /\ ~blocked'
           /\ device'[token[t].device] = "active" \/ t \in late'
  PROVE  LiveTokensGood'
<1>1. \A t \in 1..issued : t \in Tokens /\ t <= issued
  BY TypeParts, BoundsAssumption DEF Tokens
<1>2. ASSUME NEW t \in 1..issued, Live(t)'
      PROVE  /\ t \in Tokens /\ t <= issued /\ t \notin S /\ Live(t)
             /\ token'[t].device = token[t].device /\ token'[t].epoch = token[t].epoch
             /\ token'[t].proof = token[t].proof /\ token'[t].kind = token[t].kind
  BY <1>1, <1>2, FelledRows DEF Live
<1>3. LiveTokensCurrent'
  BY <1>1, <1>2 DEF LiveTokensGood, LiveTokensCurrent
<1>4. LiveTokensProven'
  BY <1>1, <1>2 DEF LiveTokensGood, LiveTokensProven
<1> QED  BY <1>3, <1>4 DEF LiveTokensGood

(* One row more, or one live row in place of another: it is good when it is
   of the current epoch and the older tokens of its device are dead.        *)
LEMMA LiveWhenFresh ==
  ASSUME TypeOK, LiveTokensGood, issued' = issued + 1, issued' \in Tokens,
         NEW d \in Devices, NEW k \in Kinds, NEW p \in Epochs,
         token'[issued + 1] = Fresh(d, k, p), k = "change" \/ p = epoch,
         UNCHANGED <<epoch, blocked, device>>, ~blocked, late \subseteq late',
         device[d] = "active" \/ issued + 1 \in late',
         \A t \in Tokens : t <= issued /\ Live(t)' =>
           Live(t) /\ token'[t] = token[t] /\ token[t].device # d
  PROVE  LiveTokensGood'
<1>0. issued \in Nat
  BY TypeParts, BoundsAssumption DEF Tokens
<1>1. \A t \in 1..issued' : t \in Tokens /\ (t = issued + 1 \/ t <= issued)
  BY <1>0, BoundsAssumption DEF Tokens
<1>2. /\ token'[issued + 1].device = d /\ token'[issued + 1].epoch = epoch
      /\ token'[issued + 1].kind = k /\ token'[issued + 1].proof = p
  BY DEF Fresh
<1>3. ASSUME NEW t \in Tokens, t <= issued, Live(t)'
      PROVE  /\ t \in 1..issued /\ Live(t) /\ token'[t] = token[t] /\ token[t].device # d
  BY <1>3, <1>0 DEF Tokens
<1>4. ASSUME NEW t \in 1..issued', Live(t)'
      PROVE  /\ token'[t].epoch = epoch' /\ ~blocked'
             /\ device'[token'[t].device] = "active" \/ t \in late'
             /\ token'[t].kind # "change" => token'[t].proof = epoch'
             /\ \A s \in 1..issued' : Live(s)' /\ token'[s].device = token'[t].device => s = t
  <2>1. CASE t = issued + 1
    BY <2>1, <1>1, <1>2, <1>3
  <2>2. CASE t <= issued
    <3>1. t \in 1..issued /\ Live(t) /\ token'[t] = token[t] /\ token[t].device # d
      BY <1>1, <1>3, <1>4, <2>2
    <3>2. /\ token[t].epoch = epoch /\ ~blocked
          /\ device[token[t].device] = "active" \/ t \in late
          /\ token[t].kind # "change" => token[t].proof = epoch
          /\ \A s \in 1..issued : Live(s) /\ token[s].device = token[t].device => s = t
      BY <3>1 DEF LiveTokensGood, LiveTokensCurrent, LiveTokensProven
    <3>3. ASSUME NEW s \in 1..issued', Live(s)', token'[s].device = token'[t].device
          PROVE  s = t
      BY <3>1, <3>2, <3>3, <1>1, <1>2, <1>3
    <3> QED  BY <3>1, <3>2, <3>3
  <2> QED  BY <1>1, <2>1, <2>2
<1> QED  BY <1>4 DEF LiveTokensGood, LiveTokensCurrent, LiveTokensProven

LEMMA LiveStep ==
  TypeOK /\ TokensOwned /\ CallsSound /\ LockSound /\ LiveTokensGood /\ [Next]_authVars
  => LiveTokensGood'
<1> SUFFICES ASSUME TypeOK, TokensOwned, CallsSound, LockSound, LiveTokensGood, [Next]_authVars
             PROVE  LiveTokensGood'
  OBVIOUS
<1> USE TypeParts
<1>0. /\ issued \in Nat /\ epoch \in Nat /\ None \notin Nat
      /\ \A c \in Callers : call[c] \in CallRows /\ RowSound(call[c], epoch)
  BY BoundsAssumption, NoneAssumption DEF Tokens, CallsSound, Epochs
<1>l. \A t \in Tokens : t <= issued /\ Live(t) =>
        /\ device[token[t].device] = "active" \/ t \in late
        /\ ~blocked /\ token[t].epoch = epoch
  BY <1>0 DEF LiveTokensGood, LiveTokensCurrent, Tokens
<1>k. ASSUME UNCHANGED <<token, issued, epoch, blocked, late>>,
             \A d \in Devices : device[d] = "active" => device'[d] = "active"
      PROVE  LiveTokensGood'
  <2>1. Fells({})
    BY <1>k DEF Fells
  <2>2. \A t \in Tokens : t <= issued => token[t].device \in Devices
    BY DEF TokensOwned
  <2> QED  BY <1>k, <1>l, <2>1, <2>2, LiveWhenFelled
<1>a. ASSUME token' = AllRevoked, UNCHANGED issued
      PROVE  LiveTokensGood'
  <2> DEFINE S == {t \in Tokens : t <= issued}
  <2>1. Fells(S) /\ S \in SUBSET Tokens
    BY <1>a, Felling
  <2>2. \A t \in Tokens : ~(t <= issued /\ t \notin S)
    OBVIOUS
  <2> HIDE DEF S
  <2> QED  BY <1>a, <2>1, <2>2, LiveWhenFelled
<1>d. ASSUME NEW d \in Devices, token' = Superseding(d), UNCHANGED <<issued, epoch, blocked, late>>,
             device' = [device EXCEPT ![d] = "revoked"]
      PROVE  LiveTokensGood'
  <2> DEFINE S == {t \in Tokens : token[t].device = d /\ t <= issued}
  <2>1. Fells(S) /\ S \in SUBSET Tokens
    BY <1>d, Felling
  <2>2. \A t \in Tokens : t <= issued /\ t \notin S => token[t].device \in Devices /\ token[t].device # d
    BY DEF TokensOwned
  <2> HIDE DEF S
  <2>3. \A t \in Tokens : t <= issued /\ Live(t) /\ t \notin S =>
          /\ epoch' = epoch /\ ~blocked'
          /\ device'[token[t].device] = "active" \/ t \in late'
    BY <1>d, <1>l, <2>2
  <2> QED  BY <1>d, <2>1, <2>3, LiveWhenFelled
<1>u. CASE UNCHANGED authVars
  BY <1>u, <1>k DEF authVars
<1>1. ASSUME NEW c \in Callers, NEW d \in Devices, NEW g \in Grants,
             Login(c, d) \/ VerifyOnDevice(c, d) \/ Exchange(c, g, d)
      PROVE  LiveTokensGood'
  BY <1>1, <1>k DEF Login, VerifyOnDevice, Exchange, sessions, accountRow, history
<1>2. ASSUME NEW c \in Callers, NEW s \in {"approve", "pair"}, NEW g \in Grants,
             WebLogin(c) \/ VerifyOnWeb(c) \/ InBrowser(c, s, g)
             \/ StatementFails(c) \/ Dies(c)
      PROVE  LiveTokensGood'
  BY <1>2, <1>k DEF WebLogin, VerifyOnWeb, InBrowser, StatementFails, Dies, Incident, sessions, accountRow, history
<1>3. ASSUME NEW c \in Callers,
             \/ ReadDevice(c) \/ CreateWebSession(c) \/ DestroyForAccount(c)
             \/ Approve(c) \/ CreatePairing(c) \/ Unconsume(c)
      PROVE  LiveTokensGood'
  BY <1>3, <1>k DEF ReadDevice, CreateWebSession, DestroyForAccount, Approve, CreatePairing, Unconsume,
       sessions,
     accountRow, history
<1>4. ASSUME NEW c \in Callers, CreateDeviceSession(c)
      PROVE  LiveTokensGood'
  <2>1. \A d \in Devices : device[d] = "active" => device'[d] = "active"
    BY <1>4 DEF CreateDeviceSession
  <2> QED  BY <1>4, <2>1, <1>k DEF CreateDeviceSession, accountRow, history
<1>5. ASSUME NEW c \in Callers, IssueSession(c)
      PROVE  LiveTokensGood'
  <2>0. PICK d \in Devices : d = call[c].device
    BY <1>5, <1>0 DEF RowSound, IssueSession, At
  <2>p. PICK p \in Epochs : p = call[c].proof
    BY <1>0 DEF CallRows
  <2>k. PICK k \in Kinds : k = call[c].kind
    BY <1>0 DEF CallRows
  <2>1. /\ Current(c) /\ issued < MaxTokens /\ issued' = issued + 1
        /\ token' = [Superseding(d) EXCEPT ![issued + 1] = Fresh(d, k, p)]
    BY <1>5, <2>0, <2>p, <2>k DEF IssueSession, LockSound
  <2>2. /\ issued' \in Tokens /\ token'[issued + 1] = Fresh(d, k, p)
        /\ \A t \in Tokens : t # issued + 1 =>
             token'[t] = IF token[t].device = d /\ t <= issued
                         THEN [token[t] EXCEPT !.status = "revoked"] ELSE token[t]
    BY <2>1, IssueTyped
  <2>3. k = "change" \/ p = epoch
    BY <1>5, <2>1, <2>p, <2>k, <1>0 DEF Current, RowSound, IssueSession, At, Epochs
  <2>4. ASSUME NEW t \in Tokens, t <= issued, Live(t)'
        PROVE  Live(t) /\ token'[t] = token[t] /\ token[t].device # d
    <3>1. t # issued + 1
      BY <2>4, <1>0 DEF Tokens
    <3>2. token[t].device # d
      <4>1. SUFFICES ASSUME token[t].device = d PROVE FALSE
        OBVIOUS
      <4>2. token'[t] = [token[t] EXCEPT !.status = "revoked"]
        BY <2>2, <2>4, <3>1, <4>1
      <4>3. token'[t].status = "revoked"
        BY <4>2 DEF TokenRows
      <4> QED  BY <4>3, <2>4 DEF Live
    <3> QED  BY <2>2, <2>4, <3>1, <3>2 DEF Live
  <2>5. /\ UNCHANGED <<epoch, blocked, device>> /\ ~blocked /\ late \subseteq late'
        /\ device[d] = "active" \/ issued + 1 \in late'
    BY <1>5, <2>0, <2>1 DEF IssueSession, accountRow, Current
  <2> QED  BY <2>1, <2>2, <2>3, <2>4, <2>5, LiveWhenFresh
<1>6. ASSUME NEW c \in Callers, ChangePassword(c) \/ ChangeWebPassword(c) \/ ResetPassword(c)
      PROVE  LiveTokensGood'
  BY <1>6, <1>a, <1>k DEF ChangePassword, ChangeWebPassword, ResetPassword, accountRow, history
<1>7. ASSUME NEW d \in Devices, Forget(d) \/ \E q \in Ids : Ask(d, q)
      PROVE  LiveTokensGood'
  BY <1>7, <1>k DEF Ask, Forget, sessions, accountRow, history
<1>8. ASSUME NEW t \in Tokens, NEW q \in Ids, Rotate(t, q)
      PROVE  LiveTokensGood'
  <2>0. PICK d \in Devices : d = token[t].device
    BY <1>8, RotateTyped
  <2>p. PICK p \in Epochs : p = token[t].proof
    BY DEF TokenRows
  <2>k. PICK k \in Kinds : k = token[t].kind
    BY DEF TokenRows
  <2>1. /\ t <= issued /\ issued' = issued + 1 /\ issued' \in Tokens
        /\ token'[issued + 1] = Fresh(d, k, p)
        /\ token'[t] = [token[t] EXCEPT !.status = "rotated", !.id = q, !.next = issued + 1]
        /\ \A s \in Tokens : s # issued + 1 /\ s # t => token'[s] = token[s]
    BY <1>8, <2>0, <2>p, <2>k, RotateTyped
  <2>2. /\ UNCHANGED <<epoch, blocked, device, late>> /\ ~blocked /\ device[d] = "active" /\ Live(t)
    BY <1>8, <2>0 DEF Rotate, Refreshable, accountRow, history, Live
  <2>3. t \in 1..issued /\ (k = "change" \/ p = epoch)
        /\ \A s \in 1..issued : Live(s) /\ token[s].device = d => s = t
    <3>1. t \in 1..issued
      BY <2>1, <1>0 DEF Tokens
    <3> QED  BY <2>0, <2>p, <2>k, <2>2, <3>1 DEF LiveTokensGood, LiveTokensCurrent, LiveTokensProven
  <2>4. token'[t].status = "rotated"
    BY <2>1 DEF TokenRows
  <2>5. ASSUME NEW s \in Tokens, s <= issued, Live(s)'
        PROVE  Live(s) /\ token'[s] = token[s] /\ token[s].device # d
    <3>1. s # t /\ s # issued + 1 /\ s \in 1..issued
      BY <2>4, <2>5, <1>0 DEF Live, Tokens
    <3> QED  BY <2>1, <2>3, <2>5, <3>1 DEF Live
  <2> QED  BY <2>1, <2>2, <2>3, <2>5, LiveWhenFresh
<1>9. ASSUME NEW t \in Tokens, NEW q \in Ids, AnswerAgain(t, q)
      PROVE  LiveTokensGood'
  BY <1>9, <1>k DEF AnswerAgain, sessions, accountRow, history
<1>10. ASSUME NEW t \in Tokens, NEW q \in Ids, TakeForReuse(t, q)
       PROVE  LiveTokensGood'
  <2>1. token[t].device \in Devices
    BY <1>10 DEF TakeForReuse, TokenSteps, Tokens, TokensOwned
  <2> QED  BY <1>10, <2>1, <1>d DEF TakeForReuse, accountRow, history
<1>11. ASSUME NEW d \in Devices, Logout(d)
       PROVE  LiveTokensGood'
  <2>1. client[d].token \in Tokens
    BY <1>11 DEF Logout, ClientRows
  <2>2. Fells({client[d].token}) /\ UNCHANGED <<issued, epoch, blocked, device, late>>
    BY <1>11, <2>1 DEF Logout, Fells, accountRow, history, history
  <2>3. {client[d].token} \in SUBSET Tokens
    BY <2>1
  <2> QED  BY <1>l, <2>2, <2>3, LiveWhenFelled
<1>12. ASSUME NEW d \in Devices, RevokeDevice(d)
       PROVE  LiveTokensGood'
  BY <1>12, <1>d DEF RevokeDevice, accountRow, history
<1>13. ASSUME NEW g \in Grants,
              EndWebSessions \/ CreateAuthorization \/ Withdraw(g) \/ GrantExpires(g)
       PROVE  LiveTokensGood'
  BY <1>13, <1>k DEF EndWebSessions, CreateAuthorization, Withdraw, GrantExpires, sessions,
       accountRow, history
<1>14. ASSUME Suspend \/ Resume
       PROVE  LiveTokensGood'
  <2>1. CASE Suspend
    BY <2>1, <1>a DEF Suspend
  <2>2. CASE Resume
    <3>1. blocked /\ UNCHANGED <<token, issued, epoch, device>> /\ ~blocked'
      BY <2>2 DEF Resume, sessions
    <3>2. Fells({})
      BY <3>1 DEF Fells
    <3> QED  BY <3>1, <3>2, <1>l, LiveWhenFelled
  <2> QED  BY <1>14, <2>1, <2>2
<1>15. Grants # {} /\ {"approval", "pairing"} \subseteq Grants
  BY DEF Grants
<1> QED
  BY <1>u, <1>1, <1>2, <1>3, <1>4, <1>5, <1>6, <1>7, <1>8, <1>9, <1>10, <1>11, <1>12, <1>13,
       <1>14, <1>15
  DEF Next, Step, Refresh

(***************************************************************************)
(* Web sessions.                                                           *)
(***************************************************************************)
LEMMA WebStep == TypeOK /\ CallsSound /\ WebRenewed /\ [Next]_authVars => WebRenewed'
<1> SUFFICES ASSUME TypeOK, CallsSound, WebRenewed, [Next]_authVars PROVE WebRenewed'
  OBVIOUS
<1> USE DEF WebRenewed
<1>k. web' \subseteq web /\ UNCHANGED renewed => WebRenewed'
  OBVIOUS
<1>0. web' = {} => WebRenewed'
  OBVIOUS
<1>u. CASE UNCHANGED authVars
  BY <1>u, <1>k DEF authVars
<1>1. ASSUME NEW c \in Callers, NEW d \in Devices, NEW g \in Grants,
             Login(c, d) \/ VerifyOnDevice(c, d) \/ Exchange(c, g, d)
      PROVE  WebRenewed'
  BY <1>1, <1>k DEF Login, VerifyOnDevice, Exchange, sessions, history
<1>2. ASSUME NEW c \in Callers, NEW s \in {"approve", "pair"}, NEW g \in Grants,
             WebLogin(c) \/ VerifyOnWeb(c) \/ InBrowser(c, s, g)
             \/ StatementFails(c) \/ Dies(c)
      PROVE  WebRenewed'
  BY <1>2, <1>k DEF WebLogin, VerifyOnWeb, InBrowser, StatementFails, Dies, Incident, sessions,
       history
<1>3. ASSUME NEW c \in Callers,
             \/ CreateDeviceSession(c) \/ ReadDevice(c) \/ IssueSession(c) \/ ChangePassword(c)
             \/ ChangeWebPassword(c) \/ Approve(c) \/ CreatePairing(c) \/ Unconsume(c)
      PROVE  WebRenewed'
  BY <1>3, <1>k DEF CreateDeviceSession, ReadDevice, IssueSession, ChangePassword,
     ChangeWebPassword, Approve, CreatePairing, Unconsume, sessions, history
<1>4. ASSUME NEW c \in Callers, DestroyForAccount(c) \/ ResetPassword(c)
      PROVE  WebRenewed'
  BY <1>4, <1>0 DEF DestroyForAccount, ResetPassword
<1>5. ASSUME NEW c \in Callers, CreateWebSession(c)
      PROVE  WebRenewed'
  <2>1. CASE web' = web
    BY <1>5, <2>1, <1>k DEF CreateWebSession, history
  <2>2. CASE Current(c) /\ web' = web \cup {[proof |-> call[c].proof, kind |-> call[c].kind]}
    <3>1. call[c].kind = "change" \/ call[c].proof = epoch
      <4>1. call[c].proof \in Nat /\ (call[c].kind = "change" \/ call[c].expect = call[c].proof)
        BY <1>5, TypeParts, BoundsAssumption DEF CreateWebSession, CallsSound, RowSound, At,
             CallRows, Epochs
      <4> QED  BY <2>2, <4>1, NoneAssumption DEF Current
    <3>2. epoch >= renewed /\ UNCHANGED renewed
      BY <1>5, TypeParts, BoundsAssumption DEF CreateWebSession, CallsSound, history, Epochs
    <3> QED  BY <2>2, <3>1, <3>2
  <2> QED  BY <1>5, <2>1, <2>2 DEF CreateWebSession
<1>6. ASSUME NEW d \in Devices, Logout(d) \/ RevokeDevice(d) \/ Forget(d) \/ \E q \in Ids : Ask(d, q)
      PROVE  WebRenewed'
  BY <1>6, <1>k DEF Logout, RevokeDevice, Forget, Ask, sessions, history
<1>7. ASSUME NEW t \in Tokens, NEW q \in Ids, Refresh(t, q)
      PROVE  WebRenewed'
  BY <1>7, <1>k DEF Refresh, Rotate, AnswerAgain, TakeForReuse, sessions, history
<1>8. ASSUME NEW g \in Grants,
             \/ EndWebSessions \/ CreateAuthorization \/ Resume \/ Suspend
             \/ Withdraw(g) \/ GrantExpires(g)
      PROVE  WebRenewed'
  BY <1>8, <1>k, <1>0 DEF EndWebSessions, CreateAuthorization, Resume, Suspend, Incident, Withdraw,
     GrantExpires, sessions, history
<1>9. Grants # {} /\ {"approval", "pairing"} \subseteq Grants
  BY DEF Grants
<1> QED  BY <1>u, <1>1, <1>2, <1>3, <1>4, <1>5, <1>6, <1>7, <1>8, <1>9 DEF Next, Step

(***************************************************************************)
(* The invariant and the theorems.                                         *)
(***************************************************************************)
IInv ==
  /\ TypeOK /\ CallsSound /\ LockSound /\ TokensOwned
  /\ LiveTokensGood /\ GrantsSound /\ WebRenewed /\ AskedOnce /\ ~reused

LEMMA Inductive ==
  /\ Init => IInv
  /\ IInv /\ [Next]_authVars => IInv'
<1>1. ASSUME Init PROVE IInv
  <2>1. TypeOK
    BY <1>1, TypeInit
  <2>2. CallsSound /\ LockSound /\ GrantsSound
    BY <1>1 DEF Init, CallsSound, LockSound, GrantsSound, RowSound, Holds, At, Idle, NoGrant
  <2>3. TokensOwned /\ AskedOnce
    BY <1>1 DEF Init, TokensOwned, AskedOnce, Tokens, Unused, NoClient
  <2>4. LiveTokensGood /\ WebRenewed /\ ~reused
    BY <1>1 DEF Init, LiveTokensGood, LiveTokensCurrent, LiveTokensProven, WebRenewed
  <2> QED  BY <2>1, <2>2, <2>3, <2>4 DEF IInv
<1>2. IInv /\ [Next]_authVars => IInv'
  BY TypeStep, CallsStep, LockStep, OwnedStep, LiveStep, GrantsStep, WebStep, HonestStep DEF IInv
<1> QED  BY <1>1, <1>2

LEMMA Invariant == Spec => []IInv
BY Inductive, PTL DEF Spec

(* Rows of the sessions and grants of an account have their types, whatever
   requests interleave (all of AuthSessions).                               *)
THEOREM SessionsTyped == Spec => []TypeOK
<1>1. IInv => TypeOK
  BY DEF IInv
<1> QED  BY <1>1, Invariant, PTL

(* A refresh token that is not revoked is of the present password and of an
   account that is not blocked, is the only one of its device, and whoever got
   it had proved the present password, or held a grant of somebody who had; its
   device is active, unless it was revoked after #issueSession had read it and
   before the token was inserted (refresh, changePassword, revocations).    *)
THEOREM LiveTokensCorrect == Spec => []LiveTokensGood
<1>1. IInv => LiveTokensGood
  BY DEF IInv
<1> QED  BY <1>1, Invariant, PTL

(* An installation that keeps its request id is never taken for a thief, a
   grant makes at most one session, and the web sessions that outlive a change
   of the password are of that password (refresh, exchange, create).        *)
THEOREM HonestCorrect == Spec => []HonestStaySignedIn
<1>1. IInv => HonestStaySignedIn
  BY DEF IInv, GrantsSound, HonestStaySignedIn, OneSessionPerGrant, NotTakenForReuse
<1> QED  BY <1>1, Invariant, PTL

-----------------------------------------------------------------------------
(* How accounts come to be: invitations and open registration (Registration).
   Only the accounts themselves join it to the sessions above.              *)

(* The number of elements of a set is the same here and there.               *)
LEMMA InvitedCardinality == \A S : Invited!Cardinality(S) = Cardinality(S)
BY Zenon DEF Invited!Cardinality, Cardinality

(* An invitation has uses (create), null is none of them, and an instance
   may ask for one.                                                         *)
RegistrationBounds == MaxUses \in Nat \ {0} /\ None \notin Invitations /\ "invitation" \in Policies

(* Each use is an account of that invitation, and there are no more than it   *)
(* has uses.                                                                *)
UsesCounted ==
  \A i \in Invitations :
    /\ IsFiniteSet(used[i]) /\ used[i] \subseteq taken
    /\ invitation[i].uses = Cardinality(used[i])
    /\ invitation[i].uses <= invitation[i].limit
    /\ invitation[i].bound => invitation[i].limit = 1
    /\ invitation[i].state = "none" => used[i] = {}

(* What is replaced was for one address and never used, and is closed; one    *)
(* invitation replaces it.                                                  *)
ReplacedOnce ==
  \A j \in Invitations : invitation[j].replaces # None =>
    /\ invitation[j].state # "none" /\ invitation[j].limit = 1
    /\ invitation[invitation[j].replaces].state = "closed"
    /\ used[invitation[j].replaces] = {}
    /\ \A k \in Invitations : invitation[k].replaces = invitation[j].replaces => k = j

VisitorsKnown ==
  \A r \in Requests : visitor[r].step # "idle" =>
    /\ visitor[r].login \in Logins
    /\ visitor[r].step = "using" => visitor[r].by \in Invitations

RegistrationInv == Invited!TypeOK /\ UsesCounted /\ ReplacedOnce /\ VisitorsKnown
RowKept(i) ==
  /\ invitation'[i].bound = invitation[i].bound /\ invitation'[i].limit = invitation[i].limit
  /\ invitation'[i].uses = invitation[i].uses
  /\ invitation'[i].replaces = invitation[i].replaces
  /\ invitation'[i].state = "none" => invitation[i].state = "none"
  /\ invitation[i].state = "closed" => invitation'[i].state = "closed"

LEMMA RowsKept ==
  ASSUME RegistrationInv, UNCHANGED <<used, taken>>, \A i \in Invitations : RowKept(i)
  PROVE  UsesCounted' /\ ReplacedOnce'
<1>1. UsesCounted'
  BY DEF RegistrationInv, UsesCounted, RowKept
<1>2. ASSUME NEW j \in Invitations, invitation[j].replaces # None
      PROVE  invitation[j].replaces \in Invitations
  BY <1>2 DEF RegistrationInv, Invited!TypeOK
<1>3. ReplacedOnce'
  <2> SUFFICES ASSUME NEW j \in Invitations, invitation'[j].replaces # None
               PROVE  /\ invitation'[j].state # "none" /\ invitation'[j].limit = 1
                      /\ invitation'[invitation'[j].replaces].state = "closed"
                      /\ used'[invitation'[j].replaces] = {}
                      /\ \A k \in Invitations :
                           invitation'[k].replaces = invitation'[j].replaces => k = j
    BY DEF ReplacedOnce
  <2>1. invitation'[j].replaces = invitation[j].replaces
    BY DEF RowKept
  <2>2. RowKept(j) /\ RowKept(invitation[j].replaces)
    BY <1>2, <2>1
  <2>3. /\ invitation[j].state # "none" /\ invitation[j].limit = 1
        /\ invitation[invitation[j].replaces].state = "closed"
        /\ used[invitation[j].replaces] = {}
        /\ \A k \in Invitations : invitation[k].replaces = invitation[j].replaces => k = j
    BY <2>1 DEF RegistrationInv, ReplacedOnce
  <2>4. ASSUME NEW k \in Invitations, invitation'[k].replaces = invitation[j].replaces
        PROVE  k = j
    BY <2>3, <2>4 DEF RowKept
  <2> QED  BY <2>1, <2>2, <2>3, <2>4 DEF RowKept
<1> QED  BY <1>1, <1>3

InvitationRow == [state : {"none", "open", "closed"}, limit : {1, MaxUses},
                  uses : 0 .. MaxUses, bound : BOOLEAN,
                  replaces : Invitations \cup {None},
                  mail : {"none", "pending", "claimed", "cancelled"}]

(* A row whose mail or state has changed is a row.                            *)
LEMMA ChangedIsRow ==
  ASSUME NEW row \in InvitationRow, NEW state \in {"none", "open", "closed"},
         NEW mail \in {"none", "pending", "claimed", "cancelled"}
  PROVE  [row EXCEPT !.state = state, !.mail = mail] \in InvitationRow
BY DEF InvitationRow

(* A step that changes the state and the mail of one invitation.              *)
Changed(i, state, mail) ==
  [invitation EXCEPT ![i] = [invitation[i] EXCEPT !.state = state, !.mail = mail]]

LEMMA ChangeKeeps ==
  ASSUME RegistrationInv, NEW i \in Invitations, NEW state, NEW mail,
         state \in {invitation[i].state, "closed"},
         mail \in {"none", "pending", "claimed", "cancelled"},
         invitation' = Changed(i, state, mail),
         UNCHANGED <<taken, used, policy, cached, visitor>>
  PROVE  RegistrationInv'
<1>1. invitation \in [Invitations -> InvitationRow]
  BY DEF RegistrationInv, Invited!TypeOK, InvitationRow
<1>2. invitation[i] \in InvitationRow /\ invitation[i].state \in {"none", "open", "closed"}
  BY <1>1 DEF InvitationRow
<1>3. invitation' \in [Invitations -> InvitationRow]
  BY <1>1, <1>2, ChangedIsRow DEF Changed
<1>4. Invited!TypeOK'
  BY <1>3 DEF RegistrationInv, Invited!TypeOK, InvitationRow
<1>5. ASSUME NEW k \in Invitations PROVE RowKept(k)
  <2>1. CASE k = i
    <3>1. invitation'[k] = [invitation[i] EXCEPT !.state = state, !.mail = mail]
      BY <1>1, <2>1 DEF Changed
    <3> QED  BY <1>2, <2>1, <3>1 DEF RowKept, InvitationRow
  <2>2. CASE k # i
    BY <1>1, <2>2 DEF RowKept, Changed
  <2> QED  BY <2>1, <2>2
<1>6. VisitorsKnown'
  BY DEF RegistrationInv, VisitorsKnown
<1> QED  BY <1>4, <1>5, <1>6, RowsKept DEF RegistrationInv

LEMMA CancelledIsMail ==
  ASSUME NEW mail \in {"none", "pending", "claimed", "cancelled"}
  PROVE  Invited!Cancelled(mail) \in {"none", "pending", "claimed", "cancelled"}
BY DEF Invited!Cancelled

LEMMA RevokeKeeps ==
  ASSUME RegistrationInv, NEW i \in Invitations, Invited!Revoke(i)
  PROVE  RegistrationInv'
<1>1. invitation \in [Invitations -> InvitationRow]
  BY DEF RegistrationInv, Invited!TypeOK, InvitationRow
<1>2. invitation' = Changed(i, "closed", Invited!Cancelled(invitation[i].mail))
  BY <1>1 DEF Invited!Revoke, InvitationRow, Changed
<1>3. Invited!Cancelled(invitation[i].mail) \in {"none", "pending", "claimed", "cancelled"}
  BY <1>1, CancelledIsMail DEF InvitationRow
<1>4. UNCHANGED <<taken, used, policy, cached, visitor>>
  BY DEF Invited!Revoke
<1> QED  BY <1>2, <1>3, <1>4, ChangeKeeps

LEMMA ClaimKeeps ==
  ASSUME RegistrationInv, NEW i \in Invitations, Invited!Claim(i)
  PROVE  RegistrationInv'
<1>1. invitation \in [Invitations -> InvitationRow]
  BY DEF RegistrationInv, Invited!TypeOK, InvitationRow
<1>2. invitation' = Changed(i, invitation[i].state, "claimed")
  BY <1>1 DEF Invited!Claim, InvitationRow, Changed
<1> QED  BY <1>2, ChangeKeeps DEF Invited!Claim

LEMMA InvitationExpiryKeeps ==
  ASSUME RegistrationInv, NEW i \in Invitations, Invited!InvitationExpires(i)
  PROVE  RegistrationInv'
<1>1. invitation \in [Invitations -> InvitationRow]
  BY DEF RegistrationInv, Invited!TypeOK, InvitationRow
<1>2. invitation' = Changed(i, "closed", invitation[i].mail)
  BY <1>1 DEF Invited!InvitationExpires, InvitationRow, Changed
<1>3. invitation[i].mail \in {"none", "pending", "claimed", "cancelled"}
  BY <1>1 DEF InvitationRow
<1> QED  BY <1>2, <1>3, ChangeKeeps DEF Invited!InvitationExpires

-----------------------------------------------------------------------------
(* Nobody has used an invitation at the beginning.                          *)
LEMMA InvitationsInitially ==
  ASSUME RegistrationBounds, Invited!Init
  PROVE  RegistrationInv
<1>1. /\ Invited!NoInvitation \in InvitationRow /\ Invited!NoInvitation.replaces = None
      /\ Invited!NoInvitation.uses = 0
      /\ Invited!NoInvitation.limit = 1
  <2>1. 0 \in 0..MaxUses
    BY DEF RegistrationBounds
  <2> QED  BY <2>1 DEF Invited!NoInvitation, InvitationRow
<1>2. \A i \in Invitations : invitation[i] = Invited!NoInvitation /\ used[i] = {}
  BY DEF Invited!Init
<1>3. Invited!TypeOK
  <2>1. invitation \in [Invitations -> InvitationRow]
    BY <1>1 DEF Invited!Init
  <2>2. Invited!Nobody \in [login : Logins \cup {None}, by : Invitations \cup {None},
                    step : {"idle", "admitted", "using"}]
    BY DEF Invited!Nobody
  <2> QED  BY <2>1, <2>2 DEF Invited!Init, Invited!TypeOK, InvitationRow, RegistrationBounds
<1>4. UsesCounted
  BY <1>1, <1>2, FS_EmptySet DEF UsesCounted
<1>5. ReplacedOnce
  BY <1>1, <1>2 DEF ReplacedOnce
<1>6. VisitorsKnown
  BY DEF Invited!Init, VisitorsKnown, Invited!Nobody
<1> QED  BY <1>3, <1>4, <1>5, <1>6 DEF RegistrationInv

(* What was not there has no account and nothing replaces it.               *)
LEMMA NewIsUnused ==
  ASSUME RegistrationInv, RegistrationBounds, NEW i \in Invitations, invitation[i].state = "none"
  PROVE  /\ used[i] = {} /\ IsFiniteSet(used[i]) /\ Cardinality(used[i]) = 0
         /\ \A k \in Invitations : invitation[k].replaces # i
<1>1. used[i] = {}
  BY DEF RegistrationInv, UsesCounted
<1>2. ASSUME NEW k \in Invitations, invitation[k].replaces = i PROVE FALSE
  BY <1>2 DEF RegistrationInv, ReplacedOnce, RegistrationBounds
<1> QED  BY <1>1, <1>2, FS_EmptySet

LEMMA CreateKeeps ==
  ASSUME RegistrationInv, RegistrationBounds, NEW i \in Invitations, NEW asBound \in BOOLEAN,
         NEW limit \in {1, MaxUses}, NEW mail \in {"none", "pending"},
         Invited!Create(i, asBound, limit, mail)
  PROVE  RegistrationInv'
<1> DEFINE row == [Invited!NoInvitation EXCEPT !.state = "open", !.limit = limit, !.bound = asBound,
                                       !.mail = mail]
<1>1. invitation \in [Invitations -> InvitationRow]
  BY DEF RegistrationInv, Invited!TypeOK, InvitationRow
<1>2. /\ row \in InvitationRow /\ row.state = "open" /\ row.limit = limit /\ row.bound = asBound
      /\ row.replaces = None /\ row.uses = 0
  <2>1. 0 \in 0..MaxUses
    BY DEF RegistrationBounds
  <2> QED  BY <2>1 DEF Invited!NoInvitation, InvitationRow
<1>3. /\ invitation' = [invitation EXCEPT ![i] = row] /\ invitation[i].state = "none"
      /\ asBound => limit = 1
      /\ UNCHANGED <<taken, used, policy, cached, visitor>>
  BY DEF Invited!Create
<1> HIDE DEF row
<1>4. invitation' \in [Invitations -> InvitationRow]
  BY <1>1, <1>2, <1>3
<1>5. invitation'[i] = row /\ \A k \in Invitations \ {i} : invitation'[k] = invitation[k]
  BY <1>1, <1>3
<1>6. used[i] = {} /\ IsFiniteSet(used[i]) /\ Cardinality(used[i]) = 0
      /\ \A k \in Invitations : invitation[k].replaces # i
  BY <1>3, NewIsUnused
<1>7. Invited!TypeOK'
  BY <1>3, <1>4 DEF RegistrationInv, Invited!TypeOK, InvitationRow
<1>8. UsesCounted'
  <2> SUFFICES ASSUME NEW k \in Invitations
               PROVE  /\ IsFiniteSet(used[k]) /\ used[k] \subseteq taken
                      /\ invitation'[k].uses = Cardinality(used[k])
                      /\ invitation'[k].uses <= invitation'[k].limit
                      /\ invitation'[k].bound => invitation'[k].limit = 1
                      /\ invitation'[k].state = "none" => used[k] = {}
    BY <1>3 DEF UsesCounted
  <2>1. CASE k = i
    <3>1. used[k] \subseteq taken
      BY <1>6, <2>1
    <3>2. /\ invitation'[k].uses = 0 /\ invitation'[k].limit = limit
          /\ invitation'[k].bound = asBound /\ invitation'[k].state = "open" /\ 0 <= limit
      BY <1>2, <1>5, <2>1 DEF RegistrationBounds
    <3>3. IsFiniteSet(used[k]) /\ Cardinality(used[k]) = 0
      BY <1>6, <2>1
    <3> HIDE <2>1
    <3> QED  BY <1>3, <3>1, <3>2, <3>3
  <2>2. CASE k # i
    BY <1>5, <2>2 DEF RegistrationInv, UsesCounted
  <2> QED  BY <2>1, <2>2
<1>9. ReplacedOnce'
  <2> SUFFICES ASSUME NEW j \in Invitations, invitation'[j].replaces # None
               PROVE  /\ invitation'[j].state # "none" /\ invitation'[j].limit = 1
                      /\ invitation'[invitation'[j].replaces].state = "closed"
                      /\ used[invitation'[j].replaces] = {}
                      /\ \A k \in Invitations :
                           invitation'[k].replaces = invitation'[j].replaces => k = j
    BY <1>3 DEF ReplacedOnce
  <2>1. j # i /\ invitation'[j] = invitation[j]
    BY <1>2, <1>5
  <2>2. invitation[j].replaces \in Invitations /\ invitation[j].replaces # i
    BY <1>1, <1>6, <2>1 DEF InvitationRow
  <2>3. invitation'[invitation[j].replaces] = invitation[invitation[j].replaces]
    BY <1>5, <2>2
  <2> QED  BY <1>2, <1>5, <2>1, <2>2, <2>3 DEF RegistrationInv, ReplacedOnce
<1>10. VisitorsKnown'
  BY <1>3 DEF RegistrationInv, VisitorsKnown
<1> QED  BY <1>7, <1>8, <1>9, <1>10 DEF RegistrationInv

(* Only what still has its one use is replaced, so nobody has used it.      *)
LEMMA ReplaceKeeps ==
  ASSUME RegistrationInv, RegistrationBounds, NEW i \in Invitations, NEW j \in Invitations,
         Invited!Replace(i, j)
  PROVE  RegistrationInv'
<1> DEFINE row == [Invited!NoInvitation EXCEPT !.state = "open", !.bound = TRUE, !.replaces = i,
                                       !.mail = "pending"]
           old == [invitation[i] EXCEPT !.state = "closed", !.mail = Invited!Cancelled(invitation[i].mail)]
<1>1. invitation \in [Invitations -> InvitationRow] /\ invitation[i] \in InvitationRow
  BY DEF RegistrationInv, Invited!TypeOK, InvitationRow
<1>2. /\ row \in InvitationRow /\ row.state = "open" /\ row.limit = 1 /\ row.bound = TRUE
      /\ row.replaces = i /\ row.uses = 0
  <2>1. 0 \in 0..MaxUses
    BY DEF RegistrationBounds
  <2> QED  BY <2>1 DEF Invited!NoInvitation, InvitationRow
<1>3. /\ invitation[i].state = "open" /\ invitation[i].uses < invitation[i].limit
      /\ invitation[i].bound /\ invitation[j].state = "none"
      /\ UNCHANGED <<taken, used, policy, cached, visitor>>
  BY DEF Invited!Replace, Invited!Usable
<1>4. /\ old \in InvitationRow /\ old.state = "closed" /\ old.limit = invitation[i].limit
      /\ old.bound = invitation[i].bound /\ old.replaces = invitation[i].replaces
      /\ old.uses = invitation[i].uses
  <2>1. Invited!Cancelled(invitation[i].mail) \in {"none", "pending", "claimed", "cancelled"}
    BY <1>1, CancelledIsMail DEF InvitationRow
  <2>2. old \in InvitationRow
    BY <1>1, <2>1, ChangedIsRow
  <2> QED  BY <1>1, <2>2 DEF InvitationRow
<1>5. i # j
  BY <1>3
<1>6. invitation' = [invitation EXCEPT ![i] = old, ![j] = row]
  <2>1. invitation' = [invitation EXCEPT ![i].state = "closed", ![i].mail = Invited!Cancelled(@),
                                         ![j] = row]
    BY DEF Invited!Replace
  <2> HIDE DEF row
  <2>2. [invitation EXCEPT ![i].state = "closed", ![i].mail = Invited!Cancelled(@)]
          = [invitation EXCEPT ![i] = old]
    BY <1>1 DEF InvitationRow
  <2> QED  BY <1>1, <1>5, <2>1, <2>2
<1> HIDE DEF row, old
<1>7. invitation' \in [Invitations -> InvitationRow]
  BY <1>1, <1>2, <1>4, <1>6
<1>8. /\ invitation'[i] = old /\ invitation'[j] = row
      /\ \A k \in Invitations \ {i, j} : invitation'[k] = invitation[k]
  BY <1>1, <1>5, <1>6
<1>9. used[j] = {} /\ IsFiniteSet(used[j]) /\ Cardinality(used[j]) = 0
      /\ \A k \in Invitations : invitation[k].replaces # j
  BY <1>3, NewIsUnused
<1>10. used[i] = {}
  <2>1. /\ IsFiniteSet(used[i]) /\ invitation[i].uses = Cardinality(used[i])
        /\ invitation[i].limit = 1
    BY <1>3 DEF RegistrationInv, UsesCounted
  <2>2. invitation[i].uses = 0
    BY <1>1, <1>3, <2>1 DEF InvitationRow, RegistrationBounds
  <2> QED  BY <2>1, <2>2, FS_EmptySet
<1>11. \A k \in Invitations : invitation[k].replaces # i
  <2>1. ASSUME NEW k \in Invitations, invitation[k].replaces = i, i # None PROVE FALSE
    BY <1>3, <2>1 DEF RegistrationInv, ReplacedOnce
  <2> QED  BY <2>1 DEF RegistrationBounds
<1>12. Invited!TypeOK'
  BY <1>3, <1>7 DEF RegistrationInv, Invited!TypeOK, InvitationRow
<1>13. UsesCounted'
  <2> SUFFICES ASSUME NEW k \in Invitations
               PROVE  /\ IsFiniteSet(used[k]) /\ used[k] \subseteq taken
                      /\ invitation'[k].uses = Cardinality(used[k])
                      /\ invitation'[k].uses <= invitation'[k].limit
                      /\ invitation'[k].bound => invitation'[k].limit = 1
                      /\ invitation'[k].state = "none" => used[k] = {}
    BY <1>3 DEF UsesCounted
  <2>1. CASE k = j
    <3>1. used[k] \subseteq taken
      BY <1>9, <2>1
    <3>2. /\ invitation'[k].uses = 0 /\ invitation'[k].limit = 1
          /\ invitation'[k].state = "open"
      BY <1>2, <1>8, <2>1
    <3>3. IsFiniteSet(used[k]) /\ Cardinality(used[k]) = 0
      BY <1>9, <2>1
    <3> HIDE <2>1
    <3> QED  BY <3>1, <3>2, <3>3
  <2>2. CASE k = i
    BY <1>4, <1>8, <2>2 DEF RegistrationInv, UsesCounted
  <2>3. CASE k \notin {i, j}
    BY <1>8, <2>3 DEF RegistrationInv, UsesCounted
  <2> QED  BY <2>1, <2>2, <2>3
<1>14. ReplacedOnce'
  <2> SUFFICES ASSUME NEW k \in Invitations, invitation'[k].replaces # None
               PROVE  /\ invitation'[k].state # "none" /\ invitation'[k].limit = 1
                      /\ invitation'[invitation'[k].replaces].state = "closed"
                      /\ used[invitation'[k].replaces] = {}
                      /\ \A m \in Invitations :
                           invitation'[m].replaces = invitation'[k].replaces => m = k
    BY <1>3 DEF ReplacedOnce
  <2>1. \A m \in Invitations \ {j} :
          invitation'[m].replaces = invitation[m].replaces /\ invitation'[m].limit = invitation[m].limit
    BY <1>4, <1>8
  <2>2. CASE k = j
    <3>1. /\ invitation'[k].replaces = i /\ invitation'[k].state = "open"
          /\ invitation'[k].limit = 1 /\ invitation'[i].state = "closed"
      BY <1>2, <1>4, <1>8, <2>2
    <3>2. \A m \in Invitations : invitation'[m].replaces = i => m = k
      BY <1>11, <2>1, <2>2
    <3> QED  BY <1>10, <3>1, <3>2
  <2>3. CASE k # j
    <3> DEFINE o == invitation[k].replaces
    <3>1. invitation'[k].replaces = o /\ o \in Invitations /\ o # i /\ o # j
      BY <1>1, <1>9, <1>11, <2>1, <2>3 DEF InvitationRow
    <3>2. /\ invitation[k].state # "none" /\ invitation[k].limit = 1
          /\ invitation[o].state = "closed" /\ used[o] = {}
          /\ \A m \in Invitations : invitation[m].replaces = o => m = k
      BY <2>1, <2>3, <3>1 DEF RegistrationInv, ReplacedOnce
    <3>3. invitation'[o] = invitation[o]
      BY <1>8, <3>1
    <3>4. invitation'[k].state # "none" /\ invitation'[k].limit = 1
      BY <1>4, <1>8, <2>1, <2>3, <3>2
    <3>5. ASSUME NEW m \in Invitations, invitation'[m].replaces = o PROVE m = k
      BY <1>2, <1>8, <2>1, <3>1, <3>2, <3>5
    <3> QED  BY <3>1, <3>2, <3>3, <3>4, <3>5
  <2> QED  BY <2>2, <2>3
<1>15. VisitorsKnown'
  BY <1>3 DEF RegistrationInv, VisitorsKnown
<1> QED  BY <1>12, <1>13, <1>14, <1>15 DEF RegistrationInv

-----------------------------------------------------------------------------
(* The policy, and the registrations under way.                             *)
LEMMA PolicyKeeps ==
  ASSUME RegistrationInv, (\E p \in Policies : Invited!SetPolicy(p)) \/ Invited!Reload
  PROVE  RegistrationInv'
<1>1. UNCHANGED <<taken, invitation, used, visitor>> /\ policy' \in Policies /\ cached' \in Policies
  BY DEF RegistrationInv, Invited!TypeOK, Invited!SetPolicy, Invited!Reload
<1> QED  BY <1>1 DEF RegistrationInv, Invited!TypeOK, UsesCounted, ReplacedOnce, VisitorsKnown

VisitorState == [login : Logins \cup {None}, by : Invitations \cup {None},
                 step : {"idle", "admitted", "using"}]

VisitorKnown(v) ==
  v.step # "idle" => /\ v.login \in Logins
                     /\ v.step = "using" => v.by \in Invitations

LEMMA VisitorMoves ==
  ASSUME RegistrationInv, NEW r \in Requests, NEW v \in VisitorState, VisitorKnown(v),
         visitor' = [visitor EXCEPT ![r] = v]
  PROVE  visitor' \in [Requests -> VisitorState] /\ VisitorsKnown'
<1>1. visitor \in [Requests -> VisitorState]
  BY DEF RegistrationInv, Invited!TypeOK, VisitorState
<1>2. visitor' \in [Requests -> VisitorState]
  BY <1>1
<1>3. VisitorsKnown'
  BY <1>1 DEF RegistrationInv, VisitorsKnown, VisitorKnown
<1> QED  BY <1>2, <1>3

LEMMA NobodyKnown == Invited!Nobody \in VisitorState /\ VisitorKnown(Invited!Nobody)
BY DEF Invited!Nobody, VisitorState, VisitorKnown

LEMMA VisitorKeeps ==
  ASSUME RegistrationInv, NEW r \in Requests, NEW v \in VisitorState, VisitorKnown(v),
         visitor' = [visitor EXCEPT ![r] = v], UNCHANGED <<taken, invitation, used, policy, cached>>
  PROVE  RegistrationInv'
<1>1. visitor' \in [Requests -> VisitorState] /\ VisitorsKnown'
  BY VisitorMoves
<1> QED  BY <1>1 DEF RegistrationInv, Invited!TypeOK, UsesCounted, ReplacedOnce, VisitorState

LEMMA ArriveKeeps ==
  ASSUME RegistrationInv, NEW r \in Requests, NEW l \in Logins, NEW i \in Invitations \cup {None},
         Invited!Arrive(r, l, i)
  PROVE  RegistrationInv'
<1> DEFINE v == [login |-> l, by |-> i, step |-> "admitted"]
<1>1. v \in VisitorState /\ VisitorKnown(v)
  BY DEF VisitorState, VisitorKnown
<1>2. visitor' = [visitor EXCEPT ![r] = v] /\ UNCHANGED <<taken, invitation, used, policy, cached>>
  BY DEF Invited!Arrive
<1> QED  BY <1>1, <1>2, VisitorKeeps

LEMMA ReadKeeps ==
  ASSUME RegistrationInv, NEW r \in Requests, Invited!Read(r)
  PROVE  RegistrationInv'
<1> DEFINE v == IF Invited!Usable(visitor[r].by) THEN [visitor[r] EXCEPT !.step = "using"] ELSE Invited!Nobody
<1>1. visitor \in [Requests -> VisitorState] /\ visitor[r] \in VisitorState
  BY DEF RegistrationInv, Invited!TypeOK, VisitorState
<1>2. /\ visitor[r].step = "admitted" /\ visitor[r].by # None
      /\ visitor' = [visitor EXCEPT ![r] = v] /\ UNCHANGED <<taken, invitation, used, policy, cached>>
  BY DEF Invited!Read
<1>3. visitor[r].login \in Logins /\ visitor[r].by \in Invitations
  BY <1>1, <1>2 DEF RegistrationInv, VisitorsKnown, VisitorState
<1>4. v \in VisitorState /\ VisitorKnown(v)
  BY <1>1, <1>3, NobodyKnown DEF VisitorState, VisitorKnown
<1> HIDE DEF v
<1> QED  BY <1>2, <1>4, VisitorKeeps

(* One account more.                                                        *)
LEMMA RegisterAccountKeeps ==
  ASSUME RegistrationInv, NEW r \in Requests, Invited!RegisterAccount(r)
  PROVE  RegistrationInv'
<1>1. /\ visitor[r].step = "admitted" /\ visitor' = [visitor EXCEPT ![r] = Invited!Nobody]
      /\ taken' = taken \cup {visitor[r].login} /\ UNCHANGED <<invitation, used, policy, cached>>
  BY DEF Invited!RegisterAccount
<1>2. visitor[r].login \in Logins
  BY <1>1 DEF RegistrationInv, VisitorsKnown
<1>3. visitor' \in [Requests -> VisitorState] /\ VisitorsKnown'
  BY <1>1, VisitorMoves, NobodyKnown
<1>4. Invited!TypeOK'
  BY <1>1, <1>2, <1>3 DEF RegistrationInv, Invited!TypeOK, VisitorState
<1>5. UsesCounted' /\ ReplacedOnce'
  BY <1>1 DEF RegistrationInv, UsesCounted, ReplacedOnce
<1> QED  BY <1>3, <1>4, <1>5 DEF RegistrationInv

(* A use that is counted is one account more of that invitation.            *)
LEMMA UseKeeps ==
  ASSUME RegistrationInv, RegistrationBounds, NEW r \in Requests, Invited!Use(r)
  PROVE  RegistrationInv'
<1> DEFINE i == visitor[r].by
           l == visitor[r].login
<1>1. /\ visitor[r].step = "using" /\ visitor' = [visitor EXCEPT ![r] = Invited!Nobody]
      /\ UNCHANGED <<policy, cached>>
  BY DEF Invited!Use
<1>2. l \in Logins /\ i \in Invitations
  BY <1>1 DEF RegistrationInv, VisitorsKnown
<1>3. visitor' \in [Requests -> VisitorState] /\ VisitorsKnown'
  BY <1>1, VisitorMoves, NobodyKnown
<1>4. invitation \in [Invitations -> InvitationRow] /\ used \in [Invitations -> SUBSET Logins]
      /\ taken \subseteq Logins
  BY DEF RegistrationInv, Invited!TypeOK, InvitationRow
<1>5. CASE Invited!Usable(i) /\ l \notin taken
  <2>1. /\ invitation' = [invitation EXCEPT ![i].uses = @ + 1]
        /\ taken' = taken \cup {l} /\ used' = [used EXCEPT ![i] = @ \cup {l}]
    BY <1>1, <1>5 DEF Invited!Use, Invited!Consumable, Invited!Counted
  <2>2. /\ invitation[i].state = "open" /\ invitation[i].uses < invitation[i].limit
        /\ IsFiniteSet(used[i]) /\ used[i] \subseteq taken
        /\ invitation[i].uses = Cardinality(used[i])
        /\ invitation[i].bound => invitation[i].limit = 1
    BY <1>2, <1>5 DEF Invited!Usable, RegistrationInv, UsesCounted
  <2> DEFINE n == invitation[i].uses
  <2>3. n \in Nat /\ n + 1 \in 0..MaxUses /\ n + 1 <= invitation[i].limit
    BY <1>2, <1>4, <2>2 DEF InvitationRow, RegistrationBounds
  <2>4. invitation' \in [Invitations -> InvitationRow]
    <3>1. [invitation[i] EXCEPT !.uses = n + 1] \in InvitationRow
      BY <1>2, <1>4, <2>3 DEF InvitationRow
    <3>2. invitation' = [invitation EXCEPT ![i] = [invitation[i] EXCEPT !.uses = n + 1]]
      BY <2>1
    <3> QED  BY <1>2, <1>4, <3>1, <3>2
  <2>5. /\ invitation'[i].uses = n + 1 /\ invitation'[i].limit = invitation[i].limit
        /\ invitation'[i].bound = invitation[i].bound /\ invitation'[i].state = "open"
        /\ invitation'[i].replaces = invitation[i].replaces
        /\ \A k \in Invitations \ {i} : invitation'[k] = invitation[k]
    <3> HIDE DEF i
    <3> QED  BY <1>2, <1>4, <2>1, <2>2 DEF InvitationRow
  <2>6. used'[i] = used[i] \cup {l} /\ \A k \in Invitations \ {i} : used'[k] = used[k]
    BY <1>2, <1>4, <2>1
  <2>7. used' \in [Invitations -> SUBSET Logins] /\ taken' \subseteq Logins
    BY <1>2, <1>4, <2>1
  <2>8. IsFiniteSet(used'[i]) /\ Cardinality(used'[i]) = n + 1
    <3>1. l \notin used[i]
      BY <1>5, <2>2
    <3> HIDE DEF i, l, n
    <3>2. IsFiniteSet(used[i])
      BY <2>2
    <3>3. /\ IsFiniteSet(used[i] \cup {l})
          /\ Cardinality(used[i] \cup {l}) = Cardinality(used[i]) + 1
      BY <3>1, <3>2, FS_AddElement
    <3>4. Cardinality(used[i]) = n
      BY <2>2 DEF n
    <3> QED  BY <2>6, <3>3, <3>4
  <2>9. UsesCounted'
    <3> HIDE DEF i, l, n
    <3> SUFFICES ASSUME NEW k \in Invitations
                 PROVE  /\ IsFiniteSet(used'[k]) /\ used'[k] \subseteq taken'
                        /\ invitation'[k].uses = Cardinality(used'[k])
                        /\ invitation'[k].uses <= invitation'[k].limit
                        /\ invitation'[k].bound => invitation'[k].limit = 1
                        /\ invitation'[k].state = "none" => used'[k] = {}
      BY DEF UsesCounted
    <3>1. CASE k = i
      <4>1. used'[k] \subseteq taken'
        BY <2>1, <2>2, <2>6, <3>1
      <4> QED  BY <2>2, <2>3, <2>5, <2>8, <3>1, <4>1
    <3>2. CASE k # i
      BY <2>1, <2>5, <2>6, <3>2 DEF RegistrationInv, UsesCounted
    <3> QED  BY <3>1, <3>2
  <2>10. ReplacedOnce'
    <3> HIDE DEF i, l, n
    <3> SUFFICES ASSUME NEW k \in Invitations, invitation'[k].replaces # None
                 PROVE  /\ invitation'[k].state # "none" /\ invitation'[k].limit = 1
                        /\ invitation'[invitation'[k].replaces].state = "closed"
                        /\ used'[invitation'[k].replaces] = {}
                        /\ \A m \in Invitations :
                             invitation'[m].replaces = invitation'[k].replaces => m = k
      BY DEF ReplacedOnce
    <3>1. \A m \in Invitations : /\ invitation'[m].replaces = invitation[m].replaces
                                 /\ invitation'[m].state = invitation[m].state
                                 /\ invitation'[m].limit = invitation[m].limit
      BY <2>2, <2>5
    <3>2. /\ invitation[k].state # "none" /\ invitation[k].limit = 1
          /\ invitation[invitation[k].replaces].state = "closed"
          /\ used[invitation[k].replaces] = {}
          /\ \A m \in Invitations : invitation[m].replaces = invitation[k].replaces => m = k
      BY <3>1 DEF RegistrationInv, ReplacedOnce
    <3>3. invitation[k].replaces \in Invitations /\ invitation[k].replaces # i
      BY <1>4, <2>2, <3>1, <3>2 DEF InvitationRow
    <3> QED  BY <2>6, <3>1, <3>2, <3>3
  <2> QED  BY <1>1, <1>3, <2>4, <2>7, <2>9, <2>10
           DEF RegistrationInv, Invited!TypeOK, InvitationRow, VisitorState
<1>6. CASE Invited!Usable(i) /\ l \in taken
  <2>1. UNCHANGED <<taken, invitation, used>>
    <3>1. /\ invitation' = [invitation EXCEPT ![i].uses = @] /\ taken' = taken \cup {l}
          /\ used' = [used EXCEPT ![i] = @]
      BY <1>1, <1>6 DEF Invited!Use, Invited!Consumable, Invited!Counted
    <3>2. [invitation EXCEPT ![i].uses = @] = invitation
      BY <1>2, <1>4 DEF InvitationRow
    <3> QED  BY <1>2, <1>4, <1>6, <3>1, <3>2
  <2> QED  BY <1>1, <1>3, <2>1
           DEF RegistrationInv, Invited!TypeOK, UsesCounted, ReplacedOnce, VisitorState
<1>7. CASE ~Invited!Usable(i)
  <2>1. UNCHANGED <<taken, invitation, used>>
    BY <1>7 DEF Invited!Use, Invited!Consumable
  <2> QED  BY <1>1, <1>3, <2>1
           DEF RegistrationInv, Invited!TypeOK, UsesCounted, ReplacedOnce, VisitorState
<1> QED  BY <1>5, <1>6, <1>7

-----------------------------------------------------------------------------
LEMMA RegistrationKeeps ==
  ASSUME RegistrationInv, RegistrationBounds, [Invited!Next]_(Invited!registrationVars)
  PROVE  RegistrationInv'
<1>1. ASSUME NEW i \in Invitations, NEW asBound \in BOOLEAN, NEW limit \in {1, MaxUses},
             NEW mail \in {"none", "pending"}, Invited!Create(i, asBound, limit, mail)
      PROVE  RegistrationInv'
  BY <1>1, CreateKeeps
<1>2. ASSUME NEW i \in Invitations, Invited!Revoke(i) \/ Invited!Claim(i) \/ Invited!InvitationExpires(i)
      PROVE  RegistrationInv'
  BY <1>2, RevokeKeeps, ClaimKeeps, InvitationExpiryKeeps
<1>3. ASSUME NEW i \in Invitations, NEW j \in Invitations, Invited!Replace(i, j)
      PROVE  RegistrationInv'
  BY <1>3, ReplaceKeeps
<1>4. CASE (\E p \in Policies : Invited!SetPolicy(p)) \/ Invited!Reload
  BY <1>4, PolicyKeeps
<1>5. ASSUME NEW r \in Requests, Invited!Read(r) \/ Invited!Use(r) \/ Invited!RegisterAccount(r)
      PROVE  RegistrationInv'
  BY <1>5, ReadKeeps, UseKeeps, RegisterAccountKeeps
<1>6. ASSUME NEW r \in Requests, NEW l \in Logins, NEW i \in Invitations \cup {None},
             Invited!Arrive(r, l, i)
      PROVE  RegistrationInv'
  BY <1>6, ArriveKeeps
<1>7. CASE UNCHANGED Invited!registrationVars
  BY <1>7 DEF Invited!registrationVars, RegistrationInv, Invited!TypeOK, UsesCounted,
       ReplacedOnce, VisitorsKnown
<1> QED  BY <1>1, <1>2, <1>3, <1>4, <1>5, <1>6, <1>7 DEF Invited!Next

-----------------------------------------------------------------------------
(* Each invitation along a path replaced the one before it, so two paths
   from the same invitation agree as far as both go.                        *)
Path(f, n) ==
  /\ f \in [0..Cardinality(Invitations) -> Invitations] /\ n \in 0..Cardinality(Invitations)
  /\ \A k \in 1..n : invitation[f[k]].replaces = f[k - 1]

LEMMA PathsAgree ==
  ASSUME RegistrationInv, RegistrationBounds, IsFiniteSet(Invitations),
         NEW f, NEW n, Path(f, n), NEW g, NEW m, Path(g, m), f[0] = g[0]
  PROVE  \A k \in 0..n : k <= m => f[k] = g[k]
<1> DEFINE Differ == {k \in Nat : k <= n /\ k <= m /\ f[k] # g[k]}
<1>1. n \in Nat /\ m \in Nat /\ Cardinality(Invitations) \in Nat
      /\ n <= Cardinality(Invitations) /\ m <= Cardinality(Invitations)
  BY FS_CardinalityType DEF Path
<1>2. Differ = {}
  <2> SUFFICES ASSUME Differ # {} PROVE FALSE
    OBVIOUS
  <2>1. PICK k \in Differ : \A j \in Differ : ~(<<j, k>> \in OpToRel(<, Nat))
    BY NatLessThanWellFounded, WFMin
  <2>2. k \in Nat /\ k <= n /\ k <= m /\ f[k] # g[k] /\ \A j \in Differ : ~(j < k)
    BY <2>1 DEF OpToRel
  <2>3. k # 0
    BY <2>2
  <2>4. k \in 1..n /\ k \in 1..m /\ k - 1 \in Nat /\ k - 1 < k
    BY <1>1, <2>2, <2>3
  <2>5. f[k - 1] = g[k - 1]
    BY <1>1, <2>2, <2>4
  <2>6. invitation[f[k]].replaces = f[k - 1] /\ invitation[g[k]].replaces = f[k - 1]
    BY <2>4, <2>5 DEF Path
  <2>7. f[k] \in Invitations /\ g[k] \in Invitations /\ f[k - 1] \in Invitations
    <3>1. k \in 0..Cardinality(Invitations) /\ k - 1 \in 0..Cardinality(Invitations)
      BY <1>1, <2>2, <2>4
    <3> HIDE DEF Differ
    <3> QED  BY <3>1 DEF Path
  <2>8. f[k - 1] # None
    BY <2>7 DEF RegistrationBounds
  <2> QED  BY <2>2, <2>6, <2>7, <2>8 DEF RegistrationInv, ReplacedOnce
<1> QED  BY <1>1, <1>2

(* What was replaced has no account, so of an invitation and those that
   replaced it only the last has any.                                       *)
LEMMA OneIsUsed ==
  ASSUME RegistrationInv, RegistrationBounds, IsFiniteSet(Invitations),
         NEW f, NEW n, Path(f, n), NEW g, NEW m, Path(g, m), f[0] = g[0], n <= m,
         used[f[n]] # {}
  PROVE  f[n] = g[m]
<1>1. n \in Nat /\ m \in Nat /\ Cardinality(Invitations) \in Nat
      /\ n <= Cardinality(Invitations) /\ m <= Cardinality(Invitations)
  BY FS_CardinalityType DEF Path
<1>2. f[n] = g[n]
  <2>1. n \in 0..n
    BY <1>1
  <2> QED  BY <2>1, PathsAgree
<1>3. ASSUME n < m PROVE FALSE
  <2>1. n + 1 \in 1..m /\ (n + 1) - 1 = n
    BY <1>1, <1>3
  <2>2. invitation[g[n + 1]].replaces = g[n]
    BY <2>1 DEF Path
  <2>3. g[n + 1] \in Invitations /\ g[n] \in Invitations
    BY <1>1, <2>1 DEF Path
  <2> QED  BY <1>2, <2>2, <2>3 DEF RegistrationInv, ReplacedOnce, RegistrationBounds
<1> QED  BY <1>1, <1>2, <1>3

LEMMA LimitKept ==
  ASSUME RegistrationInv, RegistrationBounds, IsFiniteSet(Invitations)
  PROVE  Invited!InvitationsAdmitTheirLimit
<1> SUFFICES ASSUME NEW i \in Invitations
             PROVE  Cardinality(UNION {used[j] : j \in Invited!Replacements(i)}) <= invitation[i].limit
  BY InvitedCardinality DEF Invited!InvitationsAdmitTheirLimit
<1> DEFINE All == UNION {used[j] : j \in Invited!Replacements(i)}
<1>1. invitation \in [Invitations -> InvitationRow]
  BY DEF RegistrationInv, Invited!TypeOK, InvitationRow
<1>2. invitation[i].limit \in Nat /\ invitation[i].limit >= 1
  BY <1>1 DEF InvitationRow, RegistrationBounds
<1>3. ASSUME NEW j \in Invited!Replacements(i)
      PROVE  \E f, n : Path(f, n) /\ f[0] = i /\ f[n] = j
  BY <1>3, InvitedCardinality DEF Invited!Replacements, Path
<1>4. ASSUME NEW j \in Invited!Replacements(i),
             NEW k \in Invited!Replacements(i), used[j] # {}, used[k] # {}
      PROVE  j = k
  <2>1. PICK f, n : Path(f, n) /\ f[0] = i /\ f[n] = j
    BY <1>3
  <2>2. PICK g, m : Path(g, m) /\ g[0] = i /\ g[m] = k
    BY <1>3
  <2>3. n \in Int /\ m \in Int
    BY <2>1, <2>2 DEF Path
  <2>4. CASE n <= m
    BY <1>4, <2>1, <2>2, <2>4, OneIsUsed
  <2>5. CASE m <= n
    BY <1>4, <2>1, <2>2, <2>5, OneIsUsed
  <2> QED  BY <2>3, <2>4, <2>5
<1>5. CASE \A j \in Invited!Replacements(i) : used[j] = {}
  <2>1. All = {}
    BY <1>5
  <2> HIDE DEF All
  <2>2. Cardinality(All) <= invitation[i].limit
    BY <1>2, <2>1, FS_EmptySet
  <2> QED  BY <2>2 DEF All
<1>6. CASE \E j \in Invited!Replacements(i) : used[j] # {}
  <2>1. PICK j \in Invited!Replacements(i) : used[j] # {}
    BY <1>6
  <2>2. All = used[j]
    BY <1>4, <2>1
  <2>3. j \in Invitations
    BY DEF Invited!Replacements
  <2>4. /\ IsFiniteSet(used[j]) /\ invitation[j].uses = Cardinality(used[j])
        /\ invitation[j].uses <= invitation[j].limit
    BY <2>3 DEF RegistrationInv, UsesCounted
  <2>5. CASE j = i
    BY <2>2, <2>4, <2>5
  <2>6. CASE j # i
    <3>1. PICK f, n : Path(f, n) /\ f[0] = i /\ f[n] = j
      BY <1>3
    <3>2. Cardinality(Invitations) \in Nat /\ n \in 1..Cardinality(Invitations)
      BY <2>6, <3>1, FS_CardinalityType DEF Path
    <3>3. n \in 1..n /\ n - 1 \in 0..Cardinality(Invitations)
      BY <3>2
    <3>4. invitation[j].replaces = f[n - 1] /\ f[n - 1] \in Invitations
      BY <3>1, <3>3 DEF Path
    <3>5. invitation[j].limit = 1
      BY <2>3, <3>4 DEF RegistrationInv, ReplacedOnce, RegistrationBounds
    <3>6. Cardinality(used[j]) \in Nat
      BY <2>4, FS_CardinalityType
    <3>7. Cardinality(used[j]) <= 1
      BY <2>4, <3>5
    <3> HIDE DEF All
    <3>8. Cardinality(All) <= invitation[i].limit
      BY <1>2, <2>2, <3>6, <3>7
    <3> QED  BY <3>8 DEF All
  <2> QED  BY <2>5, <2>6
<1> QED  BY <1>5, <1>6

(* Registration by invitation (invitations/service.ts: accept, replaceAndSend;
   the conditional update of uses): whatever registrations, replacements and
   revocations overlap, an invitation and everything that was sent in its
   place make no more accounts than it has uses, one if it is for one
   address, and the uses it counts are the accounts that were made.         *)
THEOREM InvitationsCorrect ==
  ASSUME RegistrationBounds, IsFiniteSet(Invitations)
  PROVE  Invited!Spec => [](Invited!TypeOK /\ InvitationsHonoured)
<1>1. Invited!Init => RegistrationInv
  BY InvitationsInitially
<1>2. RegistrationInv /\ [Invited!Next]_(Invited!registrationVars) => RegistrationInv'
  BY RegistrationKeeps
<1>3. RegistrationInv => Invited!TypeOK /\ InvitationsHonoured
  BY LimitKept, InvitedCardinality
     DEF RegistrationInv, UsesCounted, Invited!UsesAreAccounts, InvitationsHonoured
<1> QED  BY <1>1, <1>2, <1>3, PTL DEF Invited!Spec

-----------------------------------------------------------------------------
(* How an instance comes to its first administrator and keeps one
   (Administrators).                                                        *)
LEMMA AdminsCardinality == \A S : Admins!Cardinality(S) = Cardinality(S)
BY Zenon DEF Admins!Cardinality, Cardinality

(* The states a database of the server may be in when it is first opened.    *)
BeginningsOK == Beginnings \subseteq {"absent", "legacy", "uninitialized", "ready"}

(* What a request is, once it is admitted: whom it is about never changes.   *)
Admitted ==
  \A r \in Requests :
    /\ request[r].step # "idle" =>
         /\ request[r].op \in Admins!RoleOperations \cup Admins!FirstOperations \cup {"delete", "issue", "boot"}
         /\ request[r].op \notin {"issue", "boot"} => \E a \in Logins : request[r].on = {a}
         /\ request[r].op \in {"issue", "bootstrap"} => request[r].who \in Credentials
         /\ request[r].op = "delete" => request[r].on \subseteq Admins!Existing
    /\ request[r].step = "idle" => request[r] = Admins!Idle

LocksExclude ==
  \A r, o \in Requests :
    r # o /\ Admins!Holding(r) /\ Admins!Holding(o) => Admins!LockOf(request[r].op) # Admins!LockOf(request[o].op)

(* Who holds the lock of the roles holds the rows it is about as well, and    *)
(* what it was permitted on still stands.                                   *)
RolesReserved ==
  \A r \in Requests : Admins!Holding(r) /\ request[r].op \in Admins!RoleOperations \cup {"delete"} =>
    /\ request[r].on \subseteq Admins!Existing
    /\ \A o \in Requests \ {r} : Admins!Holding(o) => request[r].on \cap request[o].on = {}
    /\ request[r].op \in {"suspend", "demote", "delete"} /\ Admins!Administers(request[r].on)
         => Admins!OtherAdmin(request[r].on)

(* Before its first administrator an instance has no account.               *)
EmptyBefore == settings.lifecycle \in {"absent", "uninitialized"} => Admins!Existing = {}

(* A setup credential or a repair that was let in is still called for.      *)
StillCalledFor ==
  \A r \in Requests : Admins!Holding(r) =>
    /\ request[r].op = "bootstrap" => settings.lifecycle = "uninitialized"
    /\ request[r].op = "repair" => settings.lifecycle = "ready" /\ Admins!ActiveAdmins = {}

(* Without an administrator nobody asks for a role.                         *)
NobodyRules == Admins!ActiveAdmins = {} => \A r \in Requests : request[r].op \notin Admins!RoleOperations

SettingsRow ==
  [lifecycle : {"absent", "legacy", "uninitialized", "ready"}, repair : BOOLEAN, configured : BOOLEAN]
Starts == {"no", "migrated", "reconciled"}

AdminInv ==
  /\ Admins!TypeOK /\ Admitted /\ LocksExclude /\ RolesReserved
  /\ EmptyBefore /\ StillCalledFor /\ NobodyRules /\ Admins!NeverLockedOut

-----------------------------------------------------------------------------
LEMMA AdminInit == ASSUME BeginningsOK PROVE Admins!Init => AdminInv
<1> SUFFICES ASSUME Admins!Init PROVE AdminInv
    OBVIOUS
<1>1. PICK b \in Beginnings, A \in SUBSET Logins, c \in BOOLEAN :
        /\ settings = [lifecycle |-> b, repair |-> FALSE, configured |-> c]
        /\ (b \in {"absent", "uninitialized"}) => A = {}
        /\ account = [a \in Logins |-> IF a \in A THEN Admins!Administrator ELSE Admins!NoAccount]
        /\ \/ booted = "no" /\ b # "absent"
           \/ booted = "reconciled" /\ (b = "absent" \/ (b = "ready" /\ c /\ A # {}))
  BY DEF Admins!Init
<1>2. /\ credential \in [Credentials -> {"none", "live"}] /\ reissue \in BOOLEAN
      /\ booted \in {"no", "reconciled"}
      /\ request = [r \in Requests |-> Admins!Idle]
  BY <1>1 DEF Admins!Init
<1>3. \A a \in A : a \in Admins!ActiveAdmins
  BY <1>1 DEF Admins!ActiveAdmins, Admins!ActiveAdmin, Admins!Active, Admins!Administrator,
       Admins!NoAccount
<1>4. A = {} => Admins!Existing = {} /\ Admins!ActiveAdmins = {}
  BY <1>1 DEF Admins!Existing, Admins!ActiveAdmins, Admins!ActiveAdmin, Admins!Active,
       Admins!NoAccount
<1>5. Admins!TypeOK
  <2>1. account \in [Logins -> [exists : BOOLEAN, admin : BOOLEAN, suspended : BOOLEAN, disabled : BOOLEAN]]
    BY <1>1 DEF Admins!Administrator, Admins!NoAccount
  <2>2. settings \in SettingsRow
    BY <1>1 DEF BeginningsOK, SettingsRow
  <2>3. request \in [Requests -> [op : Acts \cup {"none"}, who : Logins \cup Credentials \cup {None},
                                  on : SUBSET Logins, step : {"idle", "admitted", "holding"}]]
    BY <1>2 DEF Admins!Idle
  <2>4. credential \in [Credentials -> {"none", "live", "consumed", "revoked"}]
    BY <1>2
  <2> QED
    BY <1>2, <2>1, <2>2, <2>3, <2>4 DEF Admins!TypeOK, SettingsRow
<1>6. Admitted /\ LocksExclude /\ RolesReserved /\ StillCalledFor
  BY <1>2 DEF Admitted, LocksExclude, RolesReserved, StillCalledFor, Admins!Holding, Admins!Idle
<1>7. EmptyBefore
  BY <1>1, <1>4 DEF EmptyBefore
<1>8. NobodyRules
  BY <1>2 DEF NobodyRules, Admins!RoleOperations, Admins!Idle
<1>9. Admins!NeverLockedOut
  BY <1>1, <1>3 DEF Admins!NeverLockedOut
<1> QED
  BY <1>5, <1>6, <1>7, <1>8, <1>9 DEF AdminInv

-----------------------------------------------------------------------------
LEMMA RequestTyped ==
  ASSUME Admins!TypeOK, NEW r \in Requests
  PROVE  /\ request[r].op \in Acts \cup {"none"}
         /\ request[r].who \in Logins \cup Credentials \cup {None}
         /\ request[r].on \subseteq Logins
         /\ request[r].step \in {"idle", "admitted", "holding"}
         /\ request[r] = [op |-> request[r].op, who |-> request[r].who, on |-> request[r].on,
                          step |-> request[r].step]
BY DEF Admins!TypeOK

(* A request is let in.                                                     *)
LEMMA StartKeeps ==
  ASSUME AdminInv, NEW r \in Requests, NEW kind \in Acts,
         NEW who \in Logins \cup Credentials \cup {None}, NEW a \in Logins,
         NEW on \in {{a}, {}}, Admins!Start(r, kind, who, on)
  PROVE  AdminInv'
<1> DEFINE new == [op |-> kind, who |-> who, on |-> on, step |-> "admitted"]
<1>1. Admins!TypeOK /\ Admitted
  BY DEF AdminInv
<1>2. /\ request[r].op = "none" /\ Admins!Admissible(kind, who, on)
      /\ (on = {}) = (kind \in {"issue", "boot"})
      /\ request' = [request EXCEPT ![r] = new]
      /\ UNCHANGED <<account, settings, credential, reissue, booted>>
  BY DEF Admins!Start
<1>3. ~Admins!Holding(r)
  BY <1>1, <1>2 DEF Admitted, Admins!RoleOperations, Admins!FirstOperations, Admins!Holding
<1>4. /\ kind \in Admins!RoleOperations \cup Admins!FirstOperations \cup {"delete", "issue", "boot"}
      /\ kind \in {"issue", "bootstrap"} => who \in Credentials
      /\ kind = "delete" => on \subseteq Admins!Existing
      /\ kind \in Admins!RoleOperations => Admins!ActiveAdmins # {}
  BY <1>2 DEF Admins!Admissible, Admins!RoleOperations, Admins!FirstOperations, Admins!Existing,
       Admins!ActiveAdmins, Admins!ActiveAdmin, Admins!Active
<1>5. /\ Admins!Existing' = Admins!Existing /\ Admins!ActiveAdmins' = Admins!ActiveAdmins
  BY <1>2 DEF Admins!Existing, Admins!ActiveAdmins, Admins!ActiveAdmin, Admins!Active
<1>6. /\ request'[r] = new /\ \A o \in Requests \ {r} : request'[o] = request[o]
      /\ request' \in [Requests -> [op : Acts \cup {"none"}, who : Logins \cup Credentials \cup {None},
                                    on : SUBSET Logins, step : {"idle", "admitted", "holding"}]]
  BY <1>1, <1>2 DEF Admins!TypeOK
<1>7. \A o \in Requests : Admins!Holding(o)' <=> Admins!Holding(o)
  BY <1>3, <1>6 DEF Admins!Holding
<1>8. \A o \in Requests : Admins!Holding(o)' => o # r /\ Admins!Holding(o) /\ request'[o] = request[o]
  BY <1>3, <1>6, <1>7
<1>9. Admins!TypeOK'
  BY <1>1, <1>2, <1>6 DEF Admins!TypeOK
<1>10. Admitted'
  BY <1>1, <1>2, <1>4, <1>5, <1>6 DEF Admitted
<1>11. LocksExclude'
  BY <1>8 DEF AdminInv, LocksExclude
<1>12. RolesReserved'
  BY <1>2, <1>5, <1>8 DEF AdminInv, RolesReserved, Admins!Administers, Admins!OtherAdmin
<1>13. EmptyBefore' /\ StillCalledFor' /\ Admins!NeverLockedOut'
  BY <1>2, <1>5, <1>8 DEF AdminInv, EmptyBefore, StillCalledFor, Admins!NeverLockedOut
<1>14. NobodyRules'
  BY <1>4, <1>5, <1>6 DEF AdminInv, NobodyRules
<1> QED
  BY <1>9, <1>10, <1>11, <1>12, <1>13, <1>14 DEF AdminInv

(* It takes its lock and its rows, and goes on if it still may.             *)
LEMMA TakeKeeps ==
  ASSUME AdminInv, NEW r \in Requests, Admins!Take(r)
  PROVE  AdminInv'
<1> DEFINE q == request[r]
           granted == Admins!Permitted(q.op, q.who, q.on)
<1>1. Admins!TypeOK /\ Admitted
  BY DEF AdminInv
<1>2. /\ q.step = "admitted" /\ ~Admins!Waits(r)
      /\ request' = [request EXCEPT ![r] = IF granted THEN [q EXCEPT !.step = "holding"] ELSE Admins!Idle]
      /\ UNCHANGED <<account, settings, credential, reissue, booted>>
  BY DEF Admins!Take
<1>3. /\ q.op \in Admins!RoleOperations \cup Admins!FirstOperations \cup {"delete", "issue", "boot"}
      /\ q.op \notin {"issue", "boot"} => \E a \in Logins : q.on = {a}
      /\ q.op \in {"issue", "bootstrap"} => q.who \in Credentials
      /\ q.op = "delete" => q.on \subseteq Admins!Existing
  BY <1>1, <1>2 DEF Admitted
<1>4. Admins!Existing' = Admins!Existing /\ Admins!ActiveAdmins' = Admins!ActiveAdmins
  BY <1>2 DEF Admins!Existing, Admins!ActiveAdmins, Admins!ActiveAdmin, Admins!Active
<1>5. /\ \A o \in Requests \ {r} : request'[o] = request[o]
      /\ request'[r] = IF granted THEN [q EXCEPT !.step = "holding"] ELSE Admins!Idle
  BY <1>1, <1>2 DEF Admins!TypeOK
<1>6. /\ Admins!Idle.step = "idle" /\ Admins!Idle.op = "none"
      /\ [q EXCEPT !.step = "holding"].op = q.op /\ [q EXCEPT !.step = "holding"].who = q.who
      /\ [q EXCEPT !.step = "holding"].on = q.on /\ [q EXCEPT !.step = "holding"].step = "holding"
  BY <1>1, RequestTyped DEF Admins!Idle
<1>7. /\ Admins!Holding(r)' => granted /\ request'[r].op = q.op /\ request'[r].on = q.on
      /\ \A o \in Requests \ {r} : Admins!Holding(o)' <=> Admins!Holding(o)
  BY <1>5, <1>6 DEF Admins!Holding
<1>8. Admins!TypeOK'
  <2>1. request'[r] \in [op : Acts \cup {"none"}, who : Logins \cup Credentials \cup {None},
                         on : SUBSET Logins, step : {"idle", "admitted", "holding"}]
    BY <1>1, <1>5 DEF Admins!TypeOK, Admins!Idle
  <2>2. request' \in [Requests -> [op : Acts \cup {"none"}, who : Logins \cup Credentials \cup {None},
                                   on : SUBSET Logins, step : {"idle", "admitted", "holding"}]]
    BY <1>1, <1>2, <1>5, <2>1 DEF Admins!TypeOK
  <2> QED
    BY <1>1, <1>2, <2>2 DEF Admins!TypeOK
<1>9. Admitted'
  <2> HIDE DEF granted
  <2>1. \A o \in Requests \ {r} : request'[o] = request[o]
    BY <1>5
  <2>2. CASE granted
    <3>1. /\ request'[r].step = "holding" /\ request'[r].op = q.op
          /\ request'[r].on = q.on /\ request'[r].who = q.who
      BY <1>5, <1>6, <2>2
    <3>2. /\ request'[r].op \in Admins!RoleOperations \cup Admins!FirstOperations \cup {"delete", "issue", "boot"}
          /\ request'[r].op \notin {"issue", "boot"} => \E a \in Logins : request'[r].on = {a}
          /\ request'[r].op \in {"issue", "bootstrap"} => request'[r].who \in Credentials
          /\ request'[r].op = "delete" => request'[r].on \subseteq Admins!Existing
      BY <1>3, <3>1
    <3> HIDE DEF q
    <3> QED
      BY <1>1, <1>4, <2>1, <3>1, <3>2 DEF Admitted
  <2>3. CASE ~granted
    BY <1>1, <1>4, <1>5, <1>6, <2>3 DEF Admitted
  <2> QED
    BY <2>2, <2>3
<1>10. LocksExclude'
  <2>1. \A o \in Requests \ {r} : Admins!Holding(o) => Admins!LockOf(request[o].op) # Admins!LockOf(q.op)
    BY <1>2 DEF Admins!Waits
  <2> QED
    BY <1>5, <1>7, <2>1 DEF AdminInv, LocksExclude
<1>11. RolesReserved'
  <2>1. \A o \in Requests \ {r} : Admins!Holding(o) => request[o].on \cap q.on \cap Admins!Existing = {}
    BY <1>2 DEF Admins!Waits, Admins!RowsHeld
  <2> SUFFICES ASSUME NEW o \in Requests, Admins!Holding(o)',
                      request'[o].op \in Admins!RoleOperations \cup {"delete"}
               PROVE  /\ request'[o].on \subseteq Admins!Existing
                      /\ \A p \in Requests \ {o} : Admins!Holding(p)' => request'[o].on \cap request'[p].on = {}
                      /\ request'[o].op \in {"suspend", "demote", "delete"} /\ Admins!Administers(request'[o].on)
                           => Admins!OtherAdmin(request'[o].on)
      BY <1>2, <1>4 DEF RolesReserved, Admins!Administers, Admins!OtherAdmin
  <2>2. CASE o = r
    <3>1. granted /\ request'[o].op = q.op /\ request'[o].on = q.on
      BY <1>7, <2>2
    <3>2. q.on \subseteq Admins!Existing
      BY <1>3, <2>2, <3>1 DEF Admins!Permitted, Admins!Targets, Admins!RoleOperations
    <3>3. q.op \in {"suspend", "demote", "delete"} /\ Admins!Administers(q.on) => Admins!OtherAdmin(q.on)
      BY <3>1 DEF Admins!Permitted
    <3>4. \A p \in Requests \ {o} : Admins!Holding(p)' => q.on \cap request'[p].on = {}
      BY <1>5, <1>7, <2>1, <2>2, <3>2
    <3> QED
      BY <3>1, <3>2, <3>3, <3>4
  <2>3. CASE o # r
    <3>1. /\ Admins!Holding(o) /\ request'[o] = request[o]
      BY <1>5, <1>7, <2>3
    <3>2. /\ request[o].on \subseteq Admins!Existing
          /\ \A p \in Requests \ {o} : Admins!Holding(p) => request[o].on \cap request[p].on = {}
          /\ request[o].op \in {"suspend", "demote", "delete"} /\ Admins!Administers(request[o].on)
               => Admins!OtherAdmin(request[o].on)
      BY <3>1 DEF AdminInv, RolesReserved
    <3>3. \A p \in Requests \ {o} : Admins!Holding(p)' => request[o].on \cap request'[p].on = {}
      BY <1>5, <1>7, <2>1, <2>3, <3>1, <3>2
    <3> QED
      BY <3>1, <3>2, <3>3
  <2> QED
    BY <2>2, <2>3
<1>12. EmptyBefore' /\ Admins!NeverLockedOut'
  BY <1>2, <1>4 DEF AdminInv, EmptyBefore, Admins!NeverLockedOut
<1>13. StillCalledFor'
  <2>1. granted => /\ q.op = "bootstrap" => settings.lifecycle = "uninitialized"
                   /\ q.op = "repair" => settings.lifecycle = "ready" /\ Admins!ActiveAdmins = {}
    BY DEF Admins!Permitted, Admins!FirstAllowed
  <2> QED
    BY <1>2, <1>4, <1>5, <1>7, <2>1 DEF AdminInv, StillCalledFor
<1>14. NobodyRules'
  BY <1>4, <1>5, <1>6 DEF AdminInv, NobodyRules, Admins!RoleOperations
<1> QED
  BY <1>8, <1>9, <1>10, <1>11, <1>12, <1>13, <1>14 DEF AdminInv

-----------------------------------------------------------------------------
(* A request is over, with an effect or without one: what is left is fewer    *)
(* holders, whose requests are the ones they were.                          *)
Over(r) == request' = [request EXCEPT ![r] = Admins!Idle]

LEMMA OverTyped ==
  ASSUME AdminInv, NEW r \in Requests, Over(r)
  PROVE  /\ request' \in [Requests -> [op : Acts \cup {"none"}, who : Logins \cup Credentials \cup {None},
                                       on : SUBSET Logins, step : {"idle", "admitted", "holding"}]]
         /\ request'[r] = Admins!Idle /\ ~Admins!Holding(r)'
         /\ \A o \in Requests \ {r} : request'[o] = request[o] /\ (Admins!Holding(o)' <=> Admins!Holding(o))
         /\ \A o \in Requests : Admins!Holding(o)' => o # r /\ Admins!Holding(o) /\ request'[o] = request[o]
         /\ LocksExclude'
         /\ Admins!Existing \subseteq Admins!Existing' => Admitted'
<1>1. Admins!TypeOK /\ Admitted
  BY DEF AdminInv
<1>2. Admins!Idle \in [op : Acts \cup {"none"}, who : Logins \cup Credentials \cup {None},
                on : SUBSET Logins, step : {"idle", "admitted", "holding"}]
  BY DEF Admins!Idle
<1>3. /\ request' \in [Requests -> [op : Acts \cup {"none"}, who : Logins \cup Credentials \cup {None},
                                    on : SUBSET Logins, step : {"idle", "admitted", "holding"}]]
      /\ request'[r] = Admins!Idle /\ \A o \in Requests \ {r} : request'[o] = request[o]
  BY <1>1, <1>2 DEF Admins!TypeOK, Over
<1>4. Admins!Idle.step = "idle"
  BY DEF Admins!Idle
<1>5. /\ ~Admins!Holding(r)' /\ \A o \in Requests \ {r} : Admins!Holding(o)' <=> Admins!Holding(o)
  BY <1>3, <1>4 DEF Admins!Holding
<1>6. \A o \in Requests : Admins!Holding(o)' => o # r /\ Admins!Holding(o) /\ request'[o] = request[o]
  BY <1>3, <1>5
<1>7. LocksExclude'
  BY <1>6 DEF AdminInv, LocksExclude
<1>8. Admins!Existing \subseteq Admins!Existing' => Admitted'
  BY <1>1, <1>3, <1>4 DEF Admitted
<1> QED
  BY <1>3, <1>5, <1>6, <1>7, <1>8

(* The connection of a request is lost, or the request left the accounts as   *)
(* they were: setup credentials issued, a server started.                   *)
LEMMA QuietKeeps ==
  ASSUME AdminInv, NEW r \in Requests, Over(r), UNCHANGED account,
         credential' \in [Credentials -> {"none", "live", "consumed", "revoked"}],
         reissue' \in BOOLEAN, booted' \in Starts,
         settings' \in SettingsRow,
         \A l \in {"absent", "uninitialized"} : settings'.lifecycle = l <=> settings.lifecycle = l,
         settings.lifecycle = "ready" => settings'.lifecycle = "ready",
         Admins!NeverLockedOut'
  PROVE  AdminInv'
<1>1. Admins!TypeOK
  BY DEF AdminInv
<1>2. Admins!Existing' = Admins!Existing /\ Admins!ActiveAdmins' = Admins!ActiveAdmins
  BY DEF Admins!Existing, Admins!ActiveAdmins, Admins!ActiveAdmin, Admins!Active
<1>3. Admins!TypeOK' /\ Admitted' /\ LocksExclude'
  BY <1>1, <1>2, OverTyped DEF Admins!TypeOK, SettingsRow, Starts
<1>4. RolesReserved'
  BY <1>2, OverTyped DEF AdminInv, RolesReserved, Admins!Administers, Admins!OtherAdmin
<1>5. EmptyBefore' /\ StillCalledFor'
  BY <1>2, OverTyped DEF AdminInv, EmptyBefore, StillCalledFor
<1>6. NobodyRules'
  BY <1>2, OverTyped DEF AdminInv, NobodyRules, Admins!Idle, Admins!RoleOperations
<1> QED
  BY <1>3, <1>4, <1>5, <1>6 DEF AdminInv

LEMMA AbandonKeeps ==
  ASSUME AdminInv, NEW r \in Requests, Admins!Abandon(r)
  PROVE  AdminInv'
<1>1. UNCHANGED <<account, settings, credential, reissue, booted>> /\ Over(r)
  BY DEF Admins!Abandon, Over
<1>2. Admins!NeverLockedOut'
  BY <1>1 DEF AdminInv, Admins!NeverLockedOut, Admins!ActiveAdmins, Admins!ActiveAdmin,
       Admins!Active
<1> QED
  BY <1>1, <1>2, QuietKeeps DEF AdminInv, Admins!TypeOK, SettingsRow, Starts

LEMMA IssueKeeps ==
  ASSUME AdminInv, NEW r \in Requests, Admins!Issue(r)
  PROVE  AdminInv'
<1>1. UNCHANGED <<account, settings, booted>> /\ Over(r) /\ reissue' = FALSE
  BY DEF Admins!Issue, Admins!Commits, Over
<1>2. Admins!NeverLockedOut'
  BY <1>1 DEF AdminInv, Admins!NeverLockedOut, Admins!ActiveAdmins, Admins!ActiveAdmin,
       Admins!Active
<1>3. credential' \in [Credentials -> {"none", "live", "consumed", "revoked"}]
  BY DEF AdminInv, Admins!TypeOK, Admins!Issue
<1> QED
  BY <1>1, <1>2, <1>3, QuietKeeps DEF AdminInv, Admins!TypeOK, SettingsRow, Starts

LEMMA BootKeeps ==
  ASSUME AdminInv, NEW r \in Requests, Admins!Boot(r)
  PROVE  AdminInv'
<1>1. /\ UNCHANGED <<account, reissue>> /\ Over(r)
      /\ booted' = IF settings.lifecycle = "ready" /\ ~settings.configured THEN "migrated" ELSE "reconciled"
      /\ settings' = Admins!Initialized(Admins!Converted(settings))
      /\ Admins!TypeOK
  BY DEF Admins!Boot, Admins!Commits, Over, AdminInv
<1> DEFINE c == Admins!Converted(settings)
<1>2. /\ settings \in SettingsRow /\ c \in SettingsRow
      /\ \A l \in {"absent", "uninitialized"} : c.lifecycle = l <=> settings.lifecycle = l
      /\ settings.lifecycle = "ready" => c = settings
      /\ settings.lifecycle # "ready" /\ c.lifecycle = "ready" => c.repair = (Admins!ActiveAdmins = {})
      /\ c.configured = settings.configured
  BY <1>1 DEF Admins!Converted, Admins!TypeOK, SettingsRow
<1> HIDE DEF c
<1>3. /\ settings' \in SettingsRow /\ settings'.lifecycle = c.lifecycle
      /\ ~c.configured => settings'.configured /\ settings'.repair = c.repair
      /\ c.configured /\ c.lifecycle = "ready" => settings'.repair = (Admins!ActiveAdmins = {})
  BY <1>1, <1>2 DEF Admins!Initialized, SettingsRow, c
<1>4. Admins!NeverLockedOut'
  BY <1>1, <1>2, <1>3 DEF Admins!NeverLockedOut, Admins!ActiveAdmins, Admins!ActiveAdmin, Admins!Active
<1>5. credential' \in [Credentials -> {"none", "live", "consumed", "revoked"}]
  BY <1>1 DEF Admins!TypeOK, Admins!Boot
<1>6. booted' \in Starts /\ reissue' \in BOOLEAN
  BY <1>1 DEF Admins!TypeOK, Starts
<1> QED
  BY <1>1, <1>2, <1>3, <1>4, <1>5, <1>6, QuietKeeps

-----------------------------------------------------------------------------
(* Roles: no other request that changes them holds its lock.                *)
LEMMA RowTyped ==
  ASSUME Admins!TypeOK, NEW a \in Logins
  PROVE  account[a] \in [exists : BOOLEAN, admin : BOOLEAN, suspended : BOOLEAN, disabled : BOOLEAN]
BY DEF Admins!TypeOK

LEMMA WithTyped ==
  ASSUME NEW kind \in Admins!RoleOperations \cup {"delete"},
         NEW x \in [exists : BOOLEAN, admin : BOOLEAN, suspended : BOOLEAN, disabled : BOOLEAN]
  PROVE  /\ Admins!With(kind, x) \in [exists : BOOLEAN, admin : BOOLEAN, suspended : BOOLEAN, disabled : BOOLEAN]
         /\ Admins!With(kind, x).exists = x.exists
         /\ kind \in {"resume", "grant"} => /\ x.admin => Admins!With(kind, x).admin
                                            /\ ~x.suspended => ~Admins!With(kind, x).suspended
                                            /\ Admins!With(kind, x).disabled = x.disabled
         /\ kind = "delete" => /\ Admins!With(kind, x).admin = x.admin
                               /\ Admins!With(kind, x).suspended = x.suspended
                               /\ Admins!With(kind, x).disabled
BY DEF Admins!With, Admins!RoleOperations

LEMMA SetRoleAccounts ==
  ASSUME AdminInv, NEW r \in Requests,
         NEW kind \in Admins!RoleOperations \cup {"delete"}, Admins!SetRole(r, kind)
  PROVE  /\ account' \in [Logins -> [exists : BOOLEAN, admin : BOOLEAN, suspended : BOOLEAN, disabled : BOOLEAN]]
         /\ Admins!Existing' = Admins!Existing
         /\ Admins!ActiveAdmins # {} => Admins!ActiveAdmins' # {}
         /\ kind = "delete" => Admins!ActiveAdmins' \subseteq Admins!ActiveAdmins
<1> DEFINE on == request[r].on
<1>1. Admins!TypeOK /\ Admitted /\ RolesReserved
  BY DEF AdminInv
<1>2. /\ Admins!Holding(r) /\ request[r].op = kind
      /\ account' = [a \in Logins |-> IF a \in on THEN Admins!With(kind, account[a]) ELSE account[a]]
  BY DEF Admins!SetRole, Admins!Commits
<1>3. \A a \in Logins :
        account[a] \in [exists : BOOLEAN, admin : BOOLEAN, suspended : BOOLEAN, disabled : BOOLEAN]
  BY <1>1, RowTyped
<1>4. \A a \in Logins : a \notin on => account'[a] = account[a]
  BY <1>2
<1>5. \A a \in Logins : a \in on => account'[a] = Admins!With(kind, account[a])
  BY <1>2
<1>6. account' \in [Logins -> [exists : BOOLEAN, admin : BOOLEAN, suspended : BOOLEAN, disabled : BOOLEAN]]
  BY <1>2, <1>3, WithTyped
<1>7. \A a \in Logins : account'[a].exists = account[a].exists
  BY <1>3, <1>4, <1>5, WithTyped
<1>8. Admins!Existing' = Admins!Existing
  BY <1>7 DEF Admins!Existing
<1>9. \A a \in Admins!ActiveAdmins \ on : a \in Admins!ActiveAdmins'
  BY <1>4 DEF Admins!ActiveAdmins, Admins!ActiveAdmin, Admins!Active
<1>10. Admins!ActiveAdmins # {} => Admins!ActiveAdmins' # {}
  <2>1. CASE kind \in {"resume", "grant"}
    <3>1. \A a \in on \cap Admins!ActiveAdmins : a \in Admins!ActiveAdmins'
      BY <1>3, <1>5, <2>1, WithTyped DEF Admins!ActiveAdmins, Admins!ActiveAdmin, Admins!Active
    <3> QED
      BY <1>9, <3>1
  <2>2. CASE kind \in {"suspend", "demote", "delete"}
    <3>1. CASE Admins!Administers(on)
      <4>1. Admins!OtherAdmin(on)
        BY <1>1, <1>2, <2>2, <3>1 DEF RolesReserved
      <4> QED
        BY <1>9, <4>1 DEF Admins!OtherAdmin
    <3>2. CASE ~Admins!Administers(on)
      BY <1>9, <3>2 DEF Admins!Administers, Admins!ActiveAdmins, Admins!ActiveAdmin
    <3> QED
      BY <3>1, <3>2
  <2> QED
    BY <2>1, <2>2 DEF Admins!RoleOperations
<1>11. kind = "delete" => Admins!ActiveAdmins' \subseteq Admins!ActiveAdmins
  <2> SUFFICES ASSUME kind = "delete", NEW a \in Logins, a \in Admins!ActiveAdmins'
               PROVE  a \in Admins!ActiveAdmins
      BY DEF Admins!ActiveAdmins
  <2>1. a \notin on
    BY <1>3, <1>5, WithTyped DEF Admins!ActiveAdmins, Admins!ActiveAdmin, Admins!Active
  <2> QED
    BY <1>4, <2>1 DEF Admins!ActiveAdmins, Admins!ActiveAdmin, Admins!Active
<1> QED
  BY <1>6, <1>8, <1>10, <1>11

LEMMA SetRoleKeeps ==
  ASSUME AdminInv, NEW r \in Requests,
         NEW kind \in Admins!RoleOperations \cup {"delete"}, Admins!SetRole(r, kind)
  PROVE  AdminInv'
<1>1. Admins!TypeOK /\ Over(r) /\ Admins!Holding(r) /\ request[r].op = kind
  BY DEF AdminInv, Admins!SetRole, Admins!Commits, Over
<1>2. UNCHANGED <<settings, credential, reissue, booted>>
  BY DEF Admins!SetRole
<1>3. Admins!TypeOK' /\ Admitted' /\ LocksExclude'
  BY <1>1, <1>2, OverTyped, SetRoleAccounts DEF Admins!TypeOK
<1>4. \A o \in Requests : Admins!Holding(o)' => request'[o].op \notin Admins!RoleOperations \cup {"delete"}
  BY <1>1, OverTyped DEF AdminInv, LocksExclude, Admins!LockOf
<1>5. RolesReserved'
  BY <1>4 DEF RolesReserved
<1>6. EmptyBefore' /\ Admins!NeverLockedOut'
  BY <1>2, SetRoleAccounts DEF AdminInv, EmptyBefore, Admins!NeverLockedOut
<1>7. StillCalledFor'
  <2>1. \A o \in Requests : Admins!Holding(o) /\ request[o].op = "repair" => kind = "delete"
    BY <1>1 DEF AdminInv, StillCalledFor, NobodyRules
  <2> QED
    BY <1>1, <1>2, <2>1, OverTyped, SetRoleAccounts DEF AdminInv, StillCalledFor
<1>8. NobodyRules'
  <2>1. \A o \in Requests : request'[o] \in {Admins!Idle, request[o]}
    BY <1>1, OverTyped
  <2>2. Admins!Idle.op \notin Admins!RoleOperations
    BY DEF Admins!Idle, Admins!RoleOperations
  <2>3. NobodyRules /\ (Admins!ActiveAdmins # {} => Admins!ActiveAdmins' # {})
    BY SetRoleAccounts DEF AdminInv
  <2> QED
    BY <2>1, <2>2, <2>3 DEF NobodyRules
<1> QED
  BY <1>3, <1>5, <1>6, <1>7, <1>8 DEF AdminInv

-----------------------------------------------------------------------------
(* The first administrator, or another: the account of request r is one, and *)
(* the lifecycle ends where an installation does.                           *)
LEMMA CrownKeeps ==
  ASSUME AdminInv, NEW r \in Requests, Over(r), Admins!Holding(r),
         NEW a \in Logins, request[r].on = {a},
         account' = [b \in Logins |-> IF b \in request[r].on THEN Admins!Administrator ELSE account[b]],
         credential' \in [Credentials -> {"none", "live", "consumed", "revoked"}],
         reissue' \in BOOLEAN, booted' \in Starts,
         settings' \in SettingsRow,
         settings'.lifecycle = "ready", booted' = "migrated" => settings'.configured,
         request[r].op = "bootstrap" \/ settings.lifecycle # "uninitialized",
         \A o \in Requests \ {r} : Admins!Holding(o) => request[o].op # "repair"
  PROVE  AdminInv' /\ Admins!ActiveAdmins' = Admins!ActiveAdmins \cup {a} /\ a \in Admins!ActiveAdmins'
<1>1. Admins!TypeOK /\ Admitted /\ RolesReserved
  BY DEF AdminInv
<1>2. account'[a] = Admins!Administrator /\ \A b \in Logins \ {a} : account'[b] = account[b]
  OBVIOUS
<1>3. /\ Admins!Administrator.exists /\ Admins!Administrator.admin
      /\ ~Admins!Administrator.suspended /\ ~Admins!Administrator.disabled
      /\ Admins!Administrator \in [exists : BOOLEAN, admin : BOOLEAN, suspended : BOOLEAN, disabled : BOOLEAN]
  BY DEF Admins!Administrator, Admins!NoAccount
<1>4. account' \in [Logins -> [exists : BOOLEAN, admin : BOOLEAN, suspended : BOOLEAN, disabled : BOOLEAN]]
  BY <1>1, <1>3 DEF Admins!TypeOK
<1>5. Admins!ActiveAdmins' = Admins!ActiveAdmins \cup {a} /\ a \in Admins!ActiveAdmins'
  BY <1>2, <1>3 DEF Admins!ActiveAdmins, Admins!ActiveAdmin, Admins!Active
<1>6. Admins!Existing' = Admins!Existing \cup {a}
  BY <1>2, <1>3 DEF Admins!Existing
<1>7. Admins!TypeOK' /\ Admitted' /\ LocksExclude'
  BY <1>1, <1>4, <1>6, OverTyped DEF Admins!TypeOK, SettingsRow, Starts
<1>8. RolesReserved'
  <2>1. \A o \in Requests : Admins!Holding(o)' => o # r /\ Admins!Holding(o) /\ request'[o] = request[o]
    BY OverTyped
  <2> SUFFICES ASSUME NEW o \in Requests, o # r, Admins!Holding(o), request'[o] = request[o],
                      request[o].op \in Admins!RoleOperations \cup {"delete"}
               PROVE  /\ request[o].on \subseteq Admins!Existing'
                      /\ \A p \in Requests \ {o} : Admins!Holding(p)' => request[o].on \cap request'[p].on = {}
                      /\ Admins!ActiveAdmins' \ request[o].on # {}
      BY <2>1 DEF RolesReserved, Admins!OtherAdmin
  <2>2. /\ request[o].on \subseteq Admins!Existing
        /\ \A p \in Requests \ {o} : Admins!Holding(p) => request[o].on \cap request[p].on = {}
    BY <1>1 DEF RolesReserved
  <2>3. a \notin request[o].on
    BY <2>2
  <2>4. \A p \in Requests \ {o} : Admins!Holding(p)' => request[o].on \cap request'[p].on = {}
    BY <2>1, <2>2
  <2> QED
    BY <1>5, <1>6, <2>2, <2>3, <2>4
<1>9. EmptyBefore'
  BY DEF EmptyBefore
<1>10. StillCalledFor'
  <2>1. \A o \in Requests \ {r} : Admins!Holding(o) => request[o].op # "bootstrap"
    BY DEF AdminInv, StillCalledFor, LocksExclude, Admins!LockOf
  <2> QED
    BY <2>1, OverTyped DEF StillCalledFor
<1>11. NobodyRules' /\ Admins!NeverLockedOut'
  BY <1>5 DEF NobodyRules, Admins!NeverLockedOut
<1> QED
  BY <1>5, <1>7, <1>8, <1>9, <1>10, <1>11 DEF AdminInv

(* Whom a request for a first administrator is about.                       *)
LEMMA FirstIsAbout ==
  ASSUME AdminInv, NEW r \in Requests, NEW kind \in Admins!FirstOperations, Admins!Commits(r, kind)
  PROVE  Over(r) /\ Admins!Holding(r) /\ \E a \in Logins : request[r].on = {a}
<1>1. Admins!Holding(r) /\ request[r].step # "idle" /\ request[r].op = kind /\ Over(r)
  BY DEF Admins!Commits, Admins!Holding, Over
<1> QED
  BY <1>1 DEF AdminInv, Admitted, Admins!FirstOperations

LEMMA InstallKeeps ==
  ASSUME AdminInv, NEW r \in Requests, Admins!Install(r)
  PROVE  AdminInv' /\ (account' # account => \E a \in Logins : Admins!ActiveAdmins' = {a})
<1>1. Admins!Commits(r, "install") /\ UNCHANGED <<credential, reissue>> /\ Admins!TypeOK
  BY DEF Admins!Install, AdminInv
<1>2. PICK a \in Logins : request[r].on = {a}
  BY <1>1, FirstIsAbout DEF Admins!FirstOperations
<1>3. Over(r) /\ Admins!Holding(r)
  BY <1>1, FirstIsAbout DEF Admins!FirstOperations
<1>4. CASE settings.lifecycle = "absent"
  <2>1. /\ account' = [b \in Logins |-> IF b \in request[r].on THEN Admins!Administrator ELSE account[b]]
        /\ settings' = [lifecycle |-> "ready", repair |-> FALSE, configured |-> TRUE] /\ booted' = "no"
    BY <1>4 DEF Admins!Install
  <2>2. /\ settings' \in SettingsRow /\ booted' \in Starts
        /\ settings'.lifecycle = "ready" /\ booted' # "migrated"
    BY <2>1 DEF SettingsRow, Starts
  <2>3. credential' \in [Credentials -> {"none", "live", "consumed", "revoked"}] /\ reissue' \in BOOLEAN
    BY <1>1 DEF Admins!TypeOK
  <2>4. account' = [b \in Logins |-> IF b \in request[r].on THEN Admins!Administrator ELSE account[b]]
    BY <2>1
  <2>5. request[r].op = "bootstrap" \/ settings.lifecycle # "uninitialized"
    BY <1>4
  <2>6. \A o \in Requests : Admins!Holding(o) => request[o].op # "repair"
    BY <1>4 DEF AdminInv, StillCalledFor
  <2>7. AdminInv' /\ Admins!ActiveAdmins' = Admins!ActiveAdmins \cup {a}
    BY <1>2, <1>3, <2>2, <2>3, <2>4, <2>5, <2>6, CrownKeeps
  <2>8. Admins!ActiveAdmins = {}
    BY <1>4 DEF AdminInv, EmptyBefore, Admins!ActiveAdmins, Admins!ActiveAdmin, Admins!Active,
         Admins!Existing
  <2> QED
    BY <2>7, <2>8
<1>5. CASE settings.lifecycle # "absent"
  <2>1. UNCHANGED <<account, settings, booted>>
    BY <1>5 DEF Admins!Install
  <2>2. Admins!NeverLockedOut'
    BY <2>1 DEF AdminInv, Admins!NeverLockedOut, Admins!ActiveAdmins, Admins!ActiveAdmin,
         Admins!Active
  <2> QED
    BY <1>1, <1>3, <2>1, <2>2, QuietKeeps DEF Admins!TypeOK, SettingsRow, Starts
<1> QED
  BY <1>4, <1>5

LEMMA BootstrapKeeps ==
  ASSUME AdminInv, NEW r \in Requests, Admins!Bootstrap(r)
  PROVE  AdminInv' /\ \E a \in Logins : Admins!ActiveAdmins' = {a}
<1>1. /\ Admins!Commits(r, "bootstrap") /\ UNCHANGED <<reissue, booted>> /\ Admins!TypeOK
      /\ account' = [b \in Logins |-> IF b \in request[r].on THEN Admins!Administrator ELSE account[b]]
      /\ settings' = [settings EXCEPT !.lifecycle = "ready"]
  BY DEF Admins!Bootstrap, AdminInv
<1>2. PICK a \in Logins : request[r].on = {a}
  BY <1>1, FirstIsAbout DEF Admins!FirstOperations
<1>3. Over(r) /\ Admins!Holding(r) /\ request[r].op = "bootstrap"
  BY <1>1, FirstIsAbout DEF Admins!FirstOperations, Admins!Commits
<1>4. settings.lifecycle = "uninitialized" /\ \A o \in Requests : Admins!Holding(o) => request[o].op # "repair"
  BY <1>3 DEF AdminInv, StillCalledFor
<1>5. credential' \in [Credentials -> {"none", "live", "consumed", "revoked"}] /\ reissue' \in BOOLEAN
  BY <1>1 DEF Admins!Bootstrap, Admins!TypeOK
<1>6. account' = [b \in Logins |-> IF b \in request[r].on THEN Admins!Administrator ELSE account[b]]
  BY <1>1
<1>7. /\ settings' \in SettingsRow /\ booted' \in Starts
      /\ settings'.lifecycle = "ready"
      /\ booted' = "migrated" => settings'.configured
  BY <1>1 DEF Admins!TypeOK, AdminInv, Admins!NeverLockedOut, SettingsRow, Starts
<1>8. AdminInv' /\ Admins!ActiveAdmins' = Admins!ActiveAdmins \cup {a}
  BY <1>2, <1>3, <1>4, <1>5, <1>6, <1>7, CrownKeeps
<1>9. Admins!ActiveAdmins = {}
  BY <1>4 DEF AdminInv, EmptyBefore, Admins!ActiveAdmins, Admins!ActiveAdmin, Admins!Active,
       Admins!Existing
<1> QED
  BY <1>8, <1>9

LEMMA RepairKeeps ==
  ASSUME AdminInv, NEW r \in Requests, Admins!Repair(r)
  PROVE  AdminInv' /\ \E a \in Logins : Admins!ActiveAdmins' = {a}
<1>1. /\ Admins!Commits(r, "repair") /\ UNCHANGED <<credential, reissue, booted>> /\ Admins!TypeOK
      /\ account' = [b \in Logins |-> IF b \in request[r].on THEN Admins!Administrator ELSE account[b]]
      /\ settings' = [settings EXCEPT !.repair = FALSE]
  BY DEF Admins!Repair, AdminInv
<1>2. PICK a \in Logins : request[r].on = {a}
  BY <1>1, FirstIsAbout DEF Admins!FirstOperations
<1>3. Over(r) /\ Admins!Holding(r) /\ request[r].op = "repair"
  BY <1>1, FirstIsAbout DEF Admins!FirstOperations, Admins!Commits
<1>4. settings.lifecycle = "ready" /\ Admins!ActiveAdmins = {}
  BY <1>3 DEF AdminInv, StillCalledFor
<1>5. \A o \in Requests \ {r} : Admins!Holding(o) => request[o].op # "repair"
  BY <1>3 DEF AdminInv, LocksExclude
<1>6. /\ settings' \in SettingsRow /\ booted' \in Starts
      /\ settings'.lifecycle = "ready"
      /\ booted' = "migrated" => settings'.configured
  BY <1>1, <1>4 DEF Admins!TypeOK, AdminInv, Admins!NeverLockedOut, SettingsRow, Starts
<1>7. credential' \in [Credentials -> {"none", "live", "consumed", "revoked"}] /\ reissue' \in BOOLEAN
  BY <1>1 DEF Admins!TypeOK
<1>8. account' = [b \in Logins |-> IF b \in request[r].on THEN Admins!Administrator ELSE account[b]]
  BY <1>1
<1>9. request[r].op = "bootstrap" \/ settings.lifecycle # "uninitialized"
  BY <1>4
<1>10. AdminInv' /\ Admins!ActiveAdmins' = Admins!ActiveAdmins \cup {a}
  BY <1>2, <1>3, <1>5, <1>6, <1>7, <1>8, <1>9, CrownKeeps
<1> QED
  BY <1>4, <1>10

-----------------------------------------------------------------------------
LEMMA ExpiryKeeps ==
  ASSUME AdminInv, NEW k \in Credentials, Admins!CredentialExpires(k)
  PROVE  AdminInv'
<1>1. /\ UNCHANGED <<account, settings, reissue, request, booted>> /\ Admins!TypeOK
      /\ credential' = [credential EXCEPT ![k] = "revoked"]
  BY DEF Admins!CredentialExpires, AdminInv
<1>2. credential' \in [Credentials -> {"none", "live", "consumed", "revoked"}]
  BY <1>1 DEF Admins!TypeOK
<1>3. Admins!Existing' = Admins!Existing /\ Admins!ActiveAdmins' = Admins!ActiveAdmins /\ \A r \in Requests : Admins!Holding(r)' <=> Admins!Holding(r)
  BY <1>1 DEF Admins!Existing, Admins!ActiveAdmins, Admins!ActiveAdmin, Admins!Active,
       Admins!Holding
<1>4. Admins!TypeOK'
  BY <1>1, <1>2 DEF Admins!TypeOK
<1>5. Admitted' /\ LocksExclude' /\ RolesReserved'
  BY <1>1, <1>3 DEF AdminInv, Admitted, LocksExclude, RolesReserved, Admins!Administers,
       Admins!OtherAdmin
<1>6. EmptyBefore' /\ StillCalledFor' /\ NobodyRules' /\ Admins!NeverLockedOut'
  BY <1>1, <1>3 DEF AdminInv, EmptyBefore, StillCalledFor, NobodyRules, Admins!NeverLockedOut
<1> QED
  BY <1>4, <1>5, <1>6 DEF AdminInv

(* A registered account is nobody's request's yet that changes roles.       *)
LEMMA RegisterKeeps ==
  ASSUME AdminInv, NEW a \in Logins, Admins!Register(a)
  PROVE  AdminInv' /\ Admins!ActiveAdmins' = Admins!ActiveAdmins
<1>1. /\ UNCHANGED <<settings, credential, reissue, request, booted>> /\ Admins!TypeOK
      /\ settings.lifecycle = "ready" /\ ~account[a].exists
      /\ account' = [account EXCEPT ![a] = [Admins!NoAccount EXCEPT !.exists = TRUE]]
  BY DEF Admins!Register, AdminInv
<1>2. /\ account' \in [Logins -> [exists : BOOLEAN, admin : BOOLEAN, suspended : BOOLEAN, disabled : BOOLEAN]]
      /\ account'[a].exists /\ ~account'[a].admin
      /\ \A b \in Logins \ {a} : account'[b] = account[b]
  BY <1>1 DEF Admins!TypeOK, Admins!NoAccount
<1>3. Admins!ActiveAdmins' = Admins!ActiveAdmins
  BY <1>1, <1>2 DEF Admins!ActiveAdmins, Admins!ActiveAdmin, Admins!Active
<1>4. Admins!Existing' = Admins!Existing \cup {a} /\ a \notin Admins!Existing /\ \A r \in Requests : Admins!Holding(r)' <=> Admins!Holding(r)
  BY <1>1, <1>2 DEF Admins!Existing, Admins!Holding
<1>5. Admins!TypeOK'
  BY <1>1, <1>2 DEF Admins!TypeOK
<1>6. Admitted' /\ LocksExclude'
  BY <1>1, <1>4 DEF AdminInv, Admitted, LocksExclude
<1>7. RolesReserved'
  <2> SUFFICES ASSUME NEW o \in Requests, Admins!Holding(o),
                      request[o].op \in Admins!RoleOperations \cup {"delete"}
               PROVE  /\ request[o].on \subseteq Admins!Existing'
                      /\ \A p \in Requests \ {o} : Admins!Holding(p) => request[o].on \cap request[p].on = {}
                      /\ request[o].op \in {"suspend", "demote", "delete"}
                           /\ (\E b \in request[o].on : account'[b].admin)
                         => Admins!ActiveAdmins' \ request[o].on # {}
      BY <1>1, <1>4 DEF RolesReserved, Admins!Administers, Admins!OtherAdmin
  <2>1. /\ request[o].on \subseteq Admins!Existing
        /\ \A p \in Requests \ {o} : Admins!Holding(p) => request[o].on \cap request[p].on = {}
        /\ request[o].op \in {"suspend", "demote", "delete"}
             /\ (\E b \in request[o].on : account[b].admin)
           => Admins!ActiveAdmins \ request[o].on # {}
    BY DEF AdminInv, RolesReserved, Admins!Administers, Admins!OtherAdmin
  <2>2. \A b \in request[o].on : account'[b] = account[b]
    BY <1>2, <1>4, <2>1 DEF Admins!Existing
  <2> QED
    BY <1>3, <1>4, <2>1, <2>2
<1>8. EmptyBefore' /\ StillCalledFor' /\ NobodyRules' /\ Admins!NeverLockedOut'
  BY <1>1, <1>3, <1>4 DEF AdminInv, EmptyBefore, StillCalledFor, NobodyRules, Admins!NeverLockedOut
<1> QED
  BY <1>3, <1>5, <1>6, <1>7, <1>8 DEF AdminInv

-----------------------------------------------------------------------------
LEMMA AdminStutter ==
  ASSUME AdminInv, UNCHANGED Admins!vars
  PROVE  AdminInv'
<1>1. UNCHANGED <<account, settings, credential, reissue, request, booted>>
  BY DEF Admins!vars
<1>2. /\ Admins!Existing' = Admins!Existing /\ Admins!ActiveAdmins' = Admins!ActiveAdmins
      /\ \A r \in Requests : Admins!Holding(r)' <=> Admins!Holding(r)
  BY <1>1 DEF Admins!Existing, Admins!ActiveAdmins, Admins!ActiveAdmin, Admins!Active,
       Admins!Holding
<1>3. Admins!TypeOK'
  BY <1>1 DEF AdminInv, Admins!TypeOK
<1>4. Admitted' /\ LocksExclude' /\ RolesReserved'
  BY <1>1, <1>2 DEF AdminInv, Admitted, LocksExclude, RolesReserved, Admins!Administers,
       Admins!OtherAdmin
<1>5. EmptyBefore' /\ StillCalledFor' /\ NobodyRules' /\ Admins!NeverLockedOut'
  BY <1>1, <1>2 DEF AdminInv, EmptyBefore, StillCalledFor, NobodyRules, Admins!NeverLockedOut
<1> QED
  BY <1>3, <1>4, <1>5 DEF AdminInv

(* What one step does: the invariant stands, administration goes on, and a    *)
(* request for a first administrator that had an effect leaves one.          *)
FirstOver ==
  /\ \E r \in Requests : Admins!Holding(r) /\ request[r].op \in Admins!FirstOperations /\ request'[r] = Admins!Idle
  /\ account' # account

LEMMA AdminStep ==
  ASSUME AdminInv, [Admins!Next]_(Admins!vars)
  PROVE  /\ AdminInv'
         /\ Admins!ActiveAdmins # {} => Admins!ActiveAdmins' # {}
         /\ FirstOver => \E a \in Logins : Admins!ActiveAdmins' = {a}
<1> DEFINE Good == /\ AdminInv'
                   /\ Admins!ActiveAdmins # {} => Admins!ActiveAdmins' # {}
                   /\ FirstOver => \E a \in Logins : Admins!ActiveAdmins' = {a}
<1>1. ASSUME UNCHANGED account PROVE Admins!ActiveAdmins' = Admins!ActiveAdmins /\ ~FirstOver
  BY <1>1 DEF Admins!ActiveAdmins, Admins!ActiveAdmin, Admins!Active, FirstOver
<1>2. CASE \E r \in Requests, kind \in Acts, who \in Logins \cup Credentials \cup {None},
                a \in Logins : Admins!Start(r, kind, who, {a}) \/ Admins!Start(r, kind, who, {})
  <2>1. PICK r \in Requests, kind \in Acts, who \in Logins \cup Credentials \cup {None},
             a \in Logins : Admins!Start(r, kind, who, {a}) \/ Admins!Start(r, kind, who, {})
    BY <1>2
  <2>2. AdminInv' /\ UNCHANGED account
    BY <2>1, StartKeeps DEF Admins!Start
  <2> QED
    BY <1>1, <2>2
<1>3. ASSUME NEW r \in Requests, Admins!Take(r) \/ Admins!Issue(r) \/ Admins!Boot(r) \/ Admins!Abandon(r)
      PROVE  Good
  <2>1. UNCHANGED account
    BY <1>3 DEF Admins!Take, Admins!Issue, Admins!Boot, Admins!Abandon
  <2>2. AdminInv'
    BY <1>3, TakeKeeps, IssueKeeps, BootKeeps, AbandonKeeps
  <2> QED
    BY <1>1, <2>1, <2>2
<1>4. ASSUME NEW r \in Requests, Admins!Install(r) \/ Admins!Bootstrap(r) \/ Admins!Repair(r)
      PROVE  Good
  <2>1. /\ AdminInv'
        /\ account' # account => \E a \in Logins : Admins!ActiveAdmins' = {a}
    BY <1>4, InstallKeeps, BootstrapKeeps, RepairKeeps
  <2>2. CASE account' = account
    BY <1>1, <2>1, <2>2
  <2>3. CASE account' # account
    BY <2>1, <2>3
  <2> QED
    BY <2>2, <2>3
<1>5. ASSUME NEW r \in Requests,
             NEW kind \in Admins!RoleOperations \cup {"delete"}, Admins!SetRole(r, kind)
      PROVE  Good
  <2>1. AdminInv' /\ (Admins!ActiveAdmins # {} => Admins!ActiveAdmins' # {})
    BY <1>5, SetRoleKeeps, SetRoleAccounts
  <2>2. Admins!Holding(r) /\ request[r].op = kind /\ \A o \in Requests \ {r} : request'[o] = request[o]
    BY <1>5, OverTyped DEF Admins!SetRole, Admins!Commits, Over
  <2>3. \A o \in Requests : Admins!Holding(o) => request[o] # Admins!Idle
    BY DEF Admins!Holding, Admins!Idle
  <2>4. ~FirstOver
    BY <2>2, <2>3 DEF FirstOver, Admins!RoleOperations, Admins!FirstOperations
  <2> QED
    BY <2>1, <2>4
<1>6. ASSUME NEW k \in Credentials, Admins!CredentialExpires(k) PROVE Good
  BY <1>1, <1>6, ExpiryKeeps DEF Admins!CredentialExpires
<1>7. ASSUME NEW a \in Logins, Admins!Register(a) PROVE Good
  <2>1. \A o \in Requests : Admins!Holding(o) => request[o] # Admins!Idle
    BY DEF Admins!Holding, Admins!Idle
  <2>2. ~FirstOver
    BY <1>7, <2>1 DEF FirstOver, Admins!Register
  <2> QED
    BY <1>7, <2>2, RegisterKeeps
<1>8. CASE UNCHANGED Admins!vars
  BY <1>1, <1>8, AdminStutter DEF Admins!vars
<1> QED
  BY <1>2, <1>3, <1>4, <1>5, <1>6, <1>7, <1>8 DEF Admins!Next

(* The type; and whoever serves an installed instance finds an active         *)
(* administrator, or may make one, after its second start at the latest       *)
(* where the first one only gave it a configuration.                        *)
THEOREM AdministrationCorrect ==
  ASSUME BeginningsOK
  PROVE  Admins!Spec => [](Admins!TypeOK /\ Admins!NeverLockedOut)
<1>1. Admins!Init => AdminInv
  BY AdminInit
<1>2. AdminInv /\ [Admins!Next]_(Admins!vars) => AdminInv'
  BY AdminStep
<1>3. AdminInv => Admins!TypeOK /\ Admins!NeverLockedOut
  BY DEF AdminInv
<1> QED
  BY <1>1, <1>2, <1>3, PTL DEF Admins!Spec

(* However many administrators suspend, demote and leave at once, the last    *)
(* active one stays.                                                        *)
THEOREM AdministratorsStay ==
  ASSUME BeginningsOK
  PROVE  Admins!Spec => Admins!AdministratorsRemain
<1>1. Admins!Init => AdminInv
  BY AdminInit
<1>2. AdminInv /\ [Admins!Next]_(Admins!vars) => AdminInv'
  BY AdminStep
<1>3. AdminInv /\ [Admins!Next]_(Admins!vars) => [Admins!ActiveAdmins # {} => (Admins!ActiveAdmins # {})']_(Admins!vars)
  BY AdminStep
<1> QED
  BY <1>1, <1>2, <1>3, PTL DEF Admins!Spec, Admins!AdministratorsRemain

(* Of any number of installers, setup credentials and repairs one makes an    *)
(* administrator.                                                           *)
THEOREM OneIsFirst ==
  ASSUME BeginningsOK
  PROVE  Admins!Spec => Admins!OneFirstAdministrator
<1>1. Admins!Init => AdminInv
  BY AdminInit
<1>2. AdminInv /\ [Admins!Next]_(Admins!vars) => AdminInv'
  BY AdminStep
<1>3. AdminInv /\ [Admins!Next]_(Admins!vars)
        => [(\E r \in Requests : Admins!Holding(r) /\ request[r].op \in Admins!FirstOperations /\ request'[r] = Admins!Idle)
              /\ account' # account
            => Admins!Cardinality(Admins!ActiveAdmins') = 1]_(Admins!vars)
  <2> SUFFICES ASSUME AdminInv, [Admins!Next]_(Admins!vars), FirstOver
               PROVE  Admins!Cardinality(Admins!ActiveAdmins') = 1
      BY DEF FirstOver
  <2>1. PICK a \in Logins : Admins!ActiveAdmins' = {a}
    BY AdminStep
  <2> QED
    BY <2>1, FS_Singleton, AdminsCardinality
<1> QED
  BY <1>1, <1>2, <1>3, PTL DEF Admins!Spec, Admins!OneFirstAdministrator

(* So an instance gets one first administrator, keeps one, and where it has   *)
(* none can be repaired, from its second start on where the first one only    *)
(* gave it a configuration.                                                   *)
THEOREM AdministratorsAlways ==
  ASSUME BeginningsOK
  PROVE  Admins!Spec => AdministratorsKept
<1>1. Admins!Spec => [](Admins!TypeOK /\ Admins!NeverLockedOut)
  BY AdministrationCorrect
<1>2. Admins!Spec => Admins!AdministratorsRemain
  BY AdministratorsStay
<1>3. Admins!Spec => Admins!OneFirstAdministrator
  BY OneIsFirst
<1> QED
  BY <1>1, <1>2, <1>3, PTL DEF AdministratorsKept

-----------------------------------------------------------------------------
(* The restrictions that the staff put on an account (RiskRestrictions), and
   the sign-ins they refuse.                                                *)
CONSTANTS Staff, Tasks, Keys, MaxRestrictions
VARIABLES restrictions, entitled, assurance, task, decided

Risk == INSTANCE RiskRestrictions

(* Null is neither the id of a row nor an expiry (account_risk_restrictions),
   nor a kind of request.                                                   *)
NullOK == None \notin Nat /\ None \notin Risk!Ends /\ None \notin {"signIn", "restrict", "lift"}

RestrictionRow == [key : Keys, until : Risk!Ends \cup {"past"}, open : BOOLEAN]

TaskRow == [pc : {"idle", "asked", "locked", "found"}, kind : {None, "signIn", "restrict", "lift"},
            actor : Risk!Actors \cup {None}, key : Keys \cup {None}, until : Risk!Ends \cup {None},
            row : Nat \cup {None}]

RiskTyped ==
  /\ restrictions \in Seq(RestrictionRow) /\ entitled \subseteq Staff
  /\ assurance \in [Staff -> {"none", "low", "high"}] /\ task \in [Tasks -> TaskRow]
  /\ decided \in [Keys -> Risk!Ends \cup {None}]

(* One row of a key is not revoked (the partial unique index).              *)
OneOpen ==
  \A i, j \in Risk!Rows : restrictions[i].open /\ restrictions[j].open
                     /\ restrictions[i].key = restrictions[j].key => i = j

(* A lock is held by one transaction: that of the account, and that of a row. *)
HoldsAccount(r) == task[r].kind # "lift" /\ task[r].pc \in {"locked", "found"}
HoldsRow(r, i) == task[r].pc = "found" /\ task[r].row = i
OneHolder ==
  \A r, s \in Tasks : r # s =>
    /\ ~(HoldsAccount(r) /\ HoldsAccount(s))
    /\ \A i \in Nat : ~(HoldsRow(r, i) /\ HoldsRow(s, i))

(* What a transaction has found is so until it ends.                        *)
RestrictSound(q) ==
  q.kind = "restrict" =>
    /\ q.key \in Keys /\ q.until \in Risk!Ends /\ (q.row # None => q.pc = "found")
    /\ q.pc = "found" /\ q.row = None =>
         \A i \in Risk!Rows : restrictions[i].open => restrictions[i].key # q.key
    /\ q.pc = "found" /\ q.row # None =>
         q.row \in Risk!Rows /\ restrictions[q.row].open /\ restrictions[q.row].key = q.key
LiftSound(q) ==
  q.kind = "lift" =>
    /\ q.row \in Risk!Rows /\ q.key = restrictions[q.row].key
    /\ q.pc = "found" => restrictions[q.row].open
SignInSound(q) ==
  q.kind = "signIn" =>
    /\ q.row = None /\ (q.pc = "found" => \A k \in Risk!Heeds("authentication") : ~Risk!InForce(k))
TaskSound(q) ==
  /\ RestrictSound(q) /\ LiftSound(q) /\ SignInSound(q)
  /\ q.pc = "idle" \/ q.kind = None => q = Risk!NoTask

RiskInv == RiskTyped /\ OneOpen /\ OneHolder /\ (\A r \in Tasks : TaskSound(task[r])) /\ Risk!AnswersStand

-----------------------------------------------------------------------------
LEMMA RiskTypes ==
  ASSUME RiskTyped
  PROVE  /\ \A i \in Risk!Rows : /\ restrictions[i] \in RestrictionRow /\ restrictions[i].key \in Keys
                            /\ restrictions[i].until \in Risk!Ends \cup {"past"}
                            /\ restrictions[i].open \in BOOLEAN
         /\ Risk!Rows = 1..Len(restrictions) /\ Len(restrictions) \in Nat
         /\ \A r \in Tasks :
              /\ task[r] \in TaskRow
              /\ task[r].pc \in {"idle", "asked", "locked", "found"}
              /\ task[r].kind \in {None, "signIn", "restrict", "lift"}
              /\ task[r].row \in Nat \cup {None} /\ task[r].key \in Keys \cup {None}
              /\ task[r].until \in Risk!Ends \cup {None}
<1>1. restrictions \in Seq(RestrictionRow) /\ task \in [Tasks -> TaskRow]
  BY DEF RiskTyped
<1>2. /\ Len(restrictions) \in Nat /\ Risk!Rows = 1..Len(restrictions)
      /\ \A i \in Risk!Rows : restrictions[i] \in RestrictionRow
  BY <1>1 DEF Risk!Rows
<1>3. \A i \in Risk!Rows : /\ restrictions[i].key \in Keys /\ restrictions[i].until \in Risk!Ends \cup {"past"}
                      /\ restrictions[i].open \in BOOLEAN
  BY <1>2 DEF RestrictionRow
<1>4. \A r \in Tasks :
        /\ task[r] \in TaskRow
        /\ task[r].pc \in {"idle", "asked", "locked", "found"}
        /\ task[r].kind \in {None, "signIn", "restrict", "lift"}
        /\ task[r].row \in Nat \cup {None} /\ task[r].key \in Keys \cup {None}
        /\ task[r].until \in Risk!Ends \cup {None}
  BY <1>1 DEF TaskRow
<1> QED  BY <1>2, <1>3, <1>4

LEMMA NoTaskSound ==
  /\ Risk!NoTask \in TaskRow /\ Risk!NoTask.pc = "idle" /\ Risk!NoTask.kind = None
  /\ Risk!NoTask.row = None
  /\ Risk!NoTask.key = None /\ (None \notin {"signIn", "restrict", "lift"} => TaskSound(Risk!NoTask))
BY DEF Risk!NoTask, TaskRow, TaskSound, RestrictSound, LiftSound, SignInSound

LEMMA RiskInit == ASSUME NullOK PROVE Risk!Init => RiskInv
<1> SUFFICES ASSUME Risk!Init PROVE RiskInv
    OBVIOUS
<1>1. restrictions = <<>> /\ Risk!Rows = {}
  BY DEF Risk!Init, Risk!Rows
<1>2. \A r \in Tasks : task[r] = Risk!NoTask
  BY DEF Risk!Init
<1>3. RiskTyped
  BY <1>1, NoTaskSound DEF RiskTyped, Risk!Init
<1>4. OneOpen /\ OneHolder
  BY <1>1, <1>2, NoTaskSound DEF OneOpen, OneHolder, HoldsAccount, HoldsRow
<1>5. \A r \in Tasks : TaskSound(task[r])
  BY <1>2, NoTaskSound DEF NullOK
<1>6. Risk!AnswersStand
  BY <1>1 DEF Risk!Init, Risk!AnswersStand, Risk!InForce
<1> QED  BY <1>3, <1>4, <1>5, <1>6 DEF RiskInv

(* A step of one transaction that writes no restriction.                    *)
LEMMA TaskMoves ==
  ASSUME NullOK, RiskInv, UNCHANGED <<restrictions, entitled, assurance, decided>>,
         NEW r \in Tasks, NEW q \in TaskRow, task' = [task EXCEPT ![r] = q], TaskSound(q),
         q.kind # "lift" /\ q.pc \in {"locked", "found"} => HoldsAccount(r) \/ Risk!AccountFree,
         q.pc = "found" /\ q.row # None => Risk!RowFree(q.row)
  PROVE  RiskInv'
<1>1. /\ task' \in [Tasks -> TaskRow] /\ task'[r] = q
      /\ \A s \in Tasks \ {r} : task'[s] = task[s]
  BY DEF RiskInv, RiskTyped
<1>2. RiskTyped' /\ OneOpen' /\ Risk!AnswersStand'
  BY <1>1 DEF RiskInv, RiskTyped, OneOpen, Risk!AnswersStand, Risk!Rows, Risk!InForce
<1>3. OneHolder'
  <2> SUFFICES ASSUME NEW s \in Tasks, NEW t \in Tasks, s # t
               PROVE  /\ ~(HoldsAccount(s)' /\ HoldsAccount(t)')
                      /\ \A i \in Nat : ~(HoldsRow(s, i)' /\ HoldsRow(t, i)')
    BY DEF OneHolder, HoldsAccount, HoldsRow
  <2>1. \A u \in Tasks \ {r} : HoldsAccount(r)' => ~HoldsAccount(u)
    BY <1>1 DEF RiskInv, OneHolder, HoldsAccount, Risk!AccountFree
  <2>2. \A u \in Tasks \ {r}, i \in Nat : HoldsRow(r, i)' => ~HoldsRow(u, i)
    BY <1>1 DEF NullOK, HoldsRow, Risk!RowFree
  <2>3. \A u \in Tasks \ {r} :
          (HoldsAccount(u)' <=> HoldsAccount(u)) /\ \A i : HoldsRow(u, i)' <=> HoldsRow(u, i)
    BY <1>1 DEF HoldsAccount, HoldsRow
  <2> QED  BY <2>1, <2>2, <2>3 DEF RiskInv, OneHolder
<1>4. \A s \in Tasks : TaskSound(task[s])'
  <2>1. \A t : TaskSound(t) => TaskSound(t)'
    BY DEF TaskSound, RestrictSound, LiftSound, SignInSound, Risk!Rows, Risk!InForce, Risk!Heeds
  <2> QED  BY <1>1, <2>1 DEF RiskInv
<1> QED  BY <1>2, <1>3, <1>4 DEF RiskInv

(* What a transaction asks for.                                             *)
LEMMA AskKeeps ==
  ASSUME NullOK, RiskInv, NEW r \in Tasks, NEW kind \in {"signIn", "restrict", "lift"},
         NEW actor \in Risk!Actors \cup {None}, NEW k \in Keys \cup {None}, NEW until \in Risk!Ends \cup {None},
         NEW i \in Nat \cup {None}, Risk!Ask(r, kind, actor, k, until, i),
         kind = "restrict" => k \in Keys /\ until \in Risk!Ends /\ i = None,
         kind = "lift" => i \in Risk!Rows /\ k = restrictions[i].key,
         kind = "signIn" => i = None
  PROVE  RiskInv'
<1> DEFINE q == [pc |-> "asked", kind |-> kind, actor |-> actor, key |-> k, until |-> until, row |-> i]
<1>1. q \in TaskRow /\ q.pc = "asked"
  BY DEF TaskRow
<1>2. TaskSound(q)
  BY DEF TaskSound, RestrictSound, LiftSound, SignInSound, NullOK
<1>3. task' = [task EXCEPT ![r] = q] /\ UNCHANGED <<restrictions, entitled, assurance, decided>>
  BY DEF Risk!Ask
<1> HIDE DEF q
<1> QED  BY <1>1, <1>2, <1>3, TaskMoves

LEMMA BeginKeeps ==
  ASSUME NullOK, RiskInv, NEW r \in Tasks,
         \/ Risk!SignIn(r)
         \/ \E actor \in Risk!Actors :
              \/ \E k \in Keys, until \in Risk!Ends : Risk!Restrict(r, actor, k, until)
              \/ \E i \in Risk!Rows : Risk!Lift(r, actor, i)
  PROVE  RiskInv'
<1>1. CASE Risk!SignIn(r)
  BY <1>1, AskKeeps DEF Risk!SignIn
<1>2. ASSUME NEW actor \in Risk!Actors, NEW k \in Keys,
             NEW until \in Risk!Ends, Risk!Restrict(r, actor, k, until)
      PROVE  RiskInv'
  BY <1>2, AskKeeps DEF Risk!Restrict
<1>3. ASSUME NEW actor \in Risk!Actors, NEW i \in Risk!Rows, Risk!Lift(r, actor, i)
      PROVE  RiskInv'
  <2>1. i \in Nat /\ restrictions[i].key \in Keys
    BY RiskTypes DEF RiskInv
  <2> QED  BY <1>3, <2>1, AskKeeps DEF Risk!Lift
<1> QED  BY <1>1, <1>2, <1>3

(* A transaction that ends leaves nothing.                                  *)
LEMMA EndKeeps ==
  ASSUME NullOK, RiskInv, NEW r \in Tasks, Risk!End(r),
         UNCHANGED <<restrictions, entitled, assurance, decided>>
  PROVE  RiskInv'
<1>1. task' = [task EXCEPT ![r] = Risk!NoTask] /\ TaskSound(Risk!NoTask)
  BY NoTaskSound DEF Risk!End, NullOK
<1> QED  BY <1>1, NoTaskSound, TaskMoves

(* One that goes on has the account to itself, or finds a row free.         *)
LEMMA StepKeeps ==
  ASSUME NullOK, RiskInv, NEW r \in Tasks, NEW pc \in {"locked", "found"}, Risk!Step(r, pc),
         UNCHANGED <<restrictions, entitled, assurance, decided>>,
         task[r].pc \in {"asked", "locked"}, task[r].kind \in {"signIn", "restrict", "lift"},
         task[r].kind # "lift" => HoldsAccount(r) \/ Risk!AccountFree,
         pc = "found" => task[r].kind # "restrict",
         pc = "found" /\ task[r].kind = "lift" => Risk!RowFree(task[r].row) /\ restrictions[task[r].row].open,
         pc = "found" /\ task[r].kind = "signIn" => Risk!Passes("authentication")
  PROVE  RiskInv'
<1> DEFINE q == [task[r] EXCEPT !.pc = pc]
<1>1. task[r] \in TaskRow /\ TaskSound(task[r])
  BY RiskTypes DEF RiskInv
<1>2. /\ q \in TaskRow /\ q.pc = pc /\ q.kind = task[r].kind /\ q.key = task[r].key
      /\ q.until = task[r].until /\ q.row = task[r].row
  BY <1>1 DEF TaskRow
<1>3. task' = [task EXCEPT ![r] = q]
  BY DEF Risk!Step, RiskInv, RiskTyped
<1> HIDE DEF q
<1>4. TaskSound(q)
  BY <1>1, <1>2 DEF NullOK, TaskSound, RestrictSound, LiftSound, SignInSound, Risk!Passes
<1>5. q.pc = "found" /\ q.row # None => Risk!RowFree(q.row)
  BY <1>1, <1>2 DEF TaskSound, SignInSound
<1> QED  BY <1>2, <1>3, <1>4, <1>5, TaskMoves

LEMMA StepsKeep ==
  ASSUME NullOK, RiskInv, NEW r \in Tasks,
         Risk!LockAccount(r) \/ Risk!Enforce(r) \/ Risk!Issue(r) \/ Risk!FindOpen(r) \/ Risk!Abort(r)
  PROVE  RiskInv'
<1>1. CASE Risk!LockAccount(r)
  BY <1>1, StepKeeps DEF Risk!LockAccount
<1>2. CASE Risk!Enforce(r)
  <2>1. task[r].kind = "signIn" /\ task[r].pc = "locked" /\ HoldsAccount(r)
    BY <1>2 DEF Risk!Enforce, Risk!At, HoldsAccount
  <2> QED  BY <1>2, <2>1, StepKeeps, EndKeeps DEF Risk!Enforce
<1>3. CASE Risk!Issue(r)
  BY <1>3, EndKeeps DEF Risk!Issue
<1>4. CASE Risk!FindOpen(r)
  BY <1>4, StepKeeps, EndKeeps DEF Risk!FindOpen, Risk!At
<1>5. CASE Risk!Abort(r)
  BY <1>5, EndKeeps DEF Risk!Abort
<1> QED  BY <1>1, <1>2, <1>3, <1>4, <1>5

LEMMA FindKeeps ==
  ASSUME NullOK, RiskInv, NEW r \in Tasks, Risk!Find(r)
  PROVE  RiskInv'
<1> DEFINE found == {i \in Risk!Rows : restrictions[i].open /\ restrictions[i].key = task[r].key}
           n == IF found = {} THEN None ELSE CHOOSE i \in found : TRUE
           q == [task[r] EXCEPT !.pc = "found", !.row = n]
<1>1. /\ task[r].kind = "restrict" /\ task[r].pc = "locked" /\ \A i \in found : Risk!RowFree(i)
      /\ task' = [task EXCEPT ![r].pc = "found", ![r].row = n]
      /\ UNCHANGED <<restrictions, entitled, assurance, decided>>
  BY DEF Risk!Find, Risk!At
<1>2. task[r] \in TaskRow /\ TaskSound(task[r]) /\ \A i \in Risk!Rows : i \in Nat
  BY RiskTypes DEF RiskInv
<1>3. /\ found = {} => n = None
      /\ found # {} => n \in found
  OBVIOUS
<1>4. n \in Nat \cup {None}
  BY <1>2, <1>3
<1> HIDE DEF n
<1>5. /\ q \in TaskRow /\ q.pc = "found" /\ q.kind = "restrict" /\ q.key = task[r].key
      /\ q.until = task[r].until /\ q.row = n
  BY <1>1, <1>2, <1>4 DEF TaskRow
<1>6. task' = [task EXCEPT ![r] = q]
  BY <1>1 DEF RiskInv, RiskTyped
<1> HIDE DEF q
<1>7. TaskSound(q)
  BY <1>1, <1>2, <1>3, <1>5 DEF NullOK, TaskSound, RestrictSound, LiftSound, SignInSound
<1>8. HoldsAccount(r)
  BY <1>1 DEF HoldsAccount
<1>9. n # None => Risk!RowFree(n)
  BY <1>1, <1>3
<1> QED  BY <1>1, <1>5, <1>6, <1>7, <1>8, <1>9, TaskMoves

(* Time, sessions and roles.                                                *)
LEMMA ExpireKeeps ==
  ASSUME NullOK, RiskInv, NEW i \in Risk!Rows, Risk!Expire(i)
  PROVE  RiskInv'
<1>1. /\ restrictions[i].until = "later" /\ UNCHANGED <<entitled, assurance, task>>
      /\ restrictions' = [restrictions EXCEPT ![i].until = "past"]
      /\ decided' = IF restrictions[i].open THEN [decided EXCEPT ![restrictions[i].key] = None] ELSE decided
  BY DEF Risk!Expire
<1> DEFINE x == [restrictions[i] EXCEPT !.until = "past"]
<1>2. /\ restrictions \in Seq(RestrictionRow) /\ restrictions[i] \in RestrictionRow
      /\ i \in 1..Len(restrictions)
  BY RiskTypes DEF RiskInv, RiskTyped
<1>3. /\ x \in RestrictionRow /\ x.key = restrictions[i].key /\ x.open = restrictions[i].open
      /\ x.until = "past"
  BY <1>2 DEF RestrictionRow
<1>4. restrictions' = [restrictions EXCEPT ![i] = x]
  BY <1>1
<1> HIDE DEF x
<1>5. restrictions' \in Seq(RestrictionRow) /\ Risk!Rows' = Risk!Rows
  BY <1>2, <1>3, <1>4 DEF Risk!Rows
<1>6. /\ restrictions'[i] = x /\ \A j \in Risk!Rows \ {i} : restrictions'[j] = restrictions[j]
  BY <1>2, <1>4, <1>5 DEF Risk!Rows
<1>7. \A j \in Risk!Rows : restrictions'[j].key = restrictions[j].key /\ restrictions'[j].open = restrictions[j].open
  BY <1>3, <1>6
<1>8. \A k \in Keys : Risk!InForce(k)' => Risk!InForce(k)
  BY <1>3, <1>5, <1>6 DEF Risk!InForce
<1>9. RiskTyped'
  BY <1>1, <1>5 DEF RiskInv, RiskTyped
<1>10. OneOpen' /\ OneHolder'
  BY <1>1, <1>5, <1>7 DEF RiskInv, OneOpen, OneHolder, HoldsAccount, HoldsRow
<1>11. \A r \in Tasks : TaskSound(task[r])'
  <2>1. \A t : TaskSound(t) => TaskSound(t)'
    BY <1>5, <1>7, <1>8 DEF TaskSound, RestrictSound, LiftSound, SignInSound, Risk!Heeds
  <2> QED  BY <1>1, <2>1 DEF RiskInv
<1>12. Risk!AnswersStand'
  <2> SUFFICES ASSUME NEW k \in Keys PROVE decided'[k] # None <=> Risk!InForce(k)'
    BY DEF Risk!AnswersStand, Risk!InForce
  <2>1. decided[k] # None <=> Risk!InForce(k)
    BY DEF RiskInv, Risk!AnswersStand, Risk!InForce
  <2>2. CASE restrictions[i].open /\ restrictions[i].key = k
    <3>1. decided'[k] = None
      BY <1>1, <2>2 DEF RiskInv, RiskTyped
    <3>2. \A j \in Risk!Rows : restrictions[j].open /\ restrictions[j].key = k => j = i
      BY <2>2 DEF RiskInv, OneOpen
    <3>3. ~Risk!InForce(k)'
      BY <1>3, <1>5, <1>6, <1>7, <3>2 DEF Risk!InForce
    <3> QED  BY <3>1, <3>3
  <2>3. CASE ~(restrictions[i].open /\ restrictions[i].key = k)
    <3>1. decided'[k] = decided[k]
      BY <1>1, <2>3 DEF RiskInv, RiskTyped
    <3>2. Risk!InForce(k)' <=> Risk!InForce(k)
      BY <1>3, <1>5, <1>6, <2>3 DEF Risk!InForce
    <3> QED  BY <2>1, <3>1, <3>2
  <2> QED  BY <2>2, <2>3
<1> QED  BY <1>9, <1>10, <1>11, <1>12 DEF RiskInv

LEMMA StaffKeeps ==
  ASSUME NullOK, RiskInv, NEW s \in Staff,
         Risk!Establish(s) \/ Risk!Fades(s) \/ Risk!RevokeSession(s) \/ Risk!GrantRole(s) \/ Risk!RevokeRole(s)
  PROVE  RiskInv'
<1>1. UNCHANGED <<restrictions, task, decided>>
  BY DEF Risk!Establish, Risk!Fades, Risk!RevokeSession, Risk!ChangeSession, Risk!GrantRole,
       Risk!RevokeRole, Risk!ChangeRoles
<1>2. entitled' \subseteq Staff /\ assurance' \in [Staff -> {"none", "low", "high"}]
  BY DEF Risk!Establish, Risk!Fades, Risk!RevokeSession, Risk!ChangeSession, Risk!GrantRole,
       Risk!RevokeRole, Risk!ChangeRoles, RiskInv, RiskTyped
<1>3. RiskTyped' /\ OneOpen' /\ OneHolder' /\ Risk!AnswersStand'
  BY <1>1, <1>2 DEF RiskInv, RiskTyped, OneOpen, OneHolder, HoldsAccount, HoldsRow,
       Risk!AnswersStand, Risk!Rows, Risk!InForce
<1>4. \A r \in Tasks : TaskSound(task[r])'
  BY <1>1 DEF RiskInv, TaskSound, RestrictSound, LiftSound, SignInSound, Risk!Rows, Risk!InForce,
       Risk!Heeds
<1> QED  BY <1>3, <1>4 DEF RiskInv

(* Writing: a restriction that was found is rewritten, or a new one is added. *)
LEMMA WriteKeeps ==
  ASSUME NullOK, RiskInv, NEW r \in Tasks, Risk!Write(r)
  PROVE  RiskInv'
<1> DEFINE k == task[r].key
           u == task[r].until
<1>1. /\ task[r].kind = "restrict" /\ task[r].pc = "found" /\ task' = [task EXCEPT ![r] = Risk!NoTask]
      /\ UNCHANGED <<entitled, assurance>> /\ decided' = [decided EXCEPT ![k] = u]
  BY DEF Risk!Write, Risk!At, Risk!End
<1>2. /\ TaskSound(task[r]) /\ k \in Keys /\ u \in Risk!Ends /\ restrictions \in Seq(RestrictionRow)
      /\ Risk!Rows = 1..Len(restrictions) /\ Len(restrictions) \in Nat
  BY <1>1, RiskTypes DEF RiskInv, RiskTyped, TaskSound, RestrictSound
<1>3. /\ task' \in [Tasks -> TaskRow] /\ task'[r] = Risk!NoTask
      /\ \A s \in Tasks \ {r} : task'[s] = task[s]
  BY <1>1, NoTaskSound DEF RiskInv, RiskTyped
<1>4. OneHolder'
  <2>1. ~HoldsAccount(r)' /\ \A i : ~HoldsRow(r, i)'
    BY <1>3, NoTaskSound DEF HoldsAccount, HoldsRow
  <2>2. \A s \in Tasks \ {r} :
          (HoldsAccount(s)' <=> HoldsAccount(s)) /\ \A i : HoldsRow(s, i)' <=> HoldsRow(s, i)
    BY <1>3 DEF HoldsAccount, HoldsRow
  <2> QED  BY <2>1, <2>2 DEF RiskInv, OneHolder
<1>5. \A s \in Tasks \ {r} : task[s].kind # "lift" => task[s].pc # "found"
  BY <1>1 DEF RiskInv, OneHolder, HoldsAccount
(* What becomes of the rows, in both cases.                                 *)
<1>6. ASSUME restrictions' \in Seq(RestrictionRow), Risk!Rows \subseteq Risk!Rows',
             \A i \in Risk!Rows : restrictions'[i].key = restrictions[i].key
                             /\ restrictions'[i].open = restrictions[i].open,
             NEW n \in Risk!Rows', restrictions'[n].open, restrictions'[n].key = k, restrictions'[n].until = u,
             \A i \in Risk!Rows : i # n => restrictions'[i] = restrictions[i],
             \A i \in Risk!Rows' : i \in Risk!Rows \/ i = n,
             \A i \in Risk!Rows : restrictions[i].open /\ restrictions[i].key = k => i = n
      PROVE  RiskInv'
  <2>1. RiskTyped'
    BY <1>1, <1>2, <1>3, <1>6 DEF RiskInv, RiskTyped
  <2>2. OneOpen'
    <3> SUFFICES ASSUME NEW i \in Risk!Rows',
                        NEW j \in Risk!Rows', restrictions'[i].open, restrictions'[j].open,
                        restrictions'[i].key = restrictions'[j].key
                 PROVE  i = j
      BY DEF OneOpen
    <3>1. CASE i \in Risk!Rows /\ j \in Risk!Rows
      BY <1>6, <3>1 DEF RiskInv, OneOpen
    <3>2. CASE i = n \/ j = n
      BY <1>6, <3>2
    <3> QED  BY <1>6, <3>1, <3>2
  <2>3. \A s \in Tasks : TaskSound(task[s])'
    <3> SUFFICES ASSUME NEW s \in Tasks, s # r PROVE TaskSound(task[s])'
      <4>1. TaskSound(task[r])'
        BY <1>3, NoTaskSound DEF NullOK, TaskSound, RestrictSound, LiftSound, SignInSound
      <4> QED  BY <4>1
    <3>1. TaskSound(task[s]) /\ task'[s] = task[s] /\ (task[s].kind # "lift" => task[s].pc # "found")
      BY <1>3, <1>5 DEF RiskInv
    <3> QED  BY <1>6, <3>1 DEF TaskSound, RestrictSound, LiftSound, SignInSound
  <2>4. Risk!AnswersStand'
    <3> SUFFICES ASSUME NEW j \in Keys PROVE decided'[j] # None <=> Risk!InForce(j)'
      BY DEF Risk!AnswersStand, Risk!InForce
    <3>1. decided[j] # None <=> Risk!InForce(j)
      BY DEF RiskInv, Risk!AnswersStand, Risk!InForce
    <3>2. CASE j = k
      <4>1. decided'[j] = u /\ u # None
        BY <1>1, <1>2, <3>2 DEF RiskInv, RiskTyped, NullOK
      <4>2. Risk!InForce(j)'
        BY <1>2, <1>6, <3>2 DEF Risk!InForce, Risk!Ends
      <4> QED  BY <4>1, <4>2
    <3>3. CASE j # k
      <4>1. decided'[j] = decided[j]
        BY <1>1, <3>3 DEF RiskInv, RiskTyped
      <4>2. Risk!InForce(j)' <=> Risk!InForce(j)
        BY <1>6, <3>3 DEF Risk!InForce
      <4> QED  BY <3>1, <4>1, <4>2
    <3> QED  BY <3>2, <3>3
  <2> QED  BY <1>4, <2>1, <2>2, <2>3, <2>4 DEF RiskInv
<1>7. CASE task[r].row = None
  <2> DEFINE x == [key |-> k, until |-> u, open |-> TRUE]
             n == Len(restrictions) + 1
  <2>1. restrictions' = Append(restrictions, x) /\ x \in RestrictionRow
    BY <1>2, <1>7 DEF Risk!Write, RestrictionRow
  <2>2. /\ restrictions' \in Seq(RestrictionRow) /\ Len(restrictions') = n /\ restrictions'[n] = x
        /\ \A i \in 1..Len(restrictions) : restrictions'[i] = restrictions[i]
    BY <1>2, <2>1
  <2>3. Risk!Rows' = 1..n
    BY <2>2 DEF Risk!Rows
  <2>4. /\ Risk!Rows \subseteq Risk!Rows' /\ n \in Risk!Rows' /\ n \notin Risk!Rows
        /\ \A i \in Risk!Rows' : i \in Risk!Rows \/ i = n
    BY <1>2, <2>3
  <2>5. \A i \in Risk!Rows : restrictions[i].open => restrictions[i].key # k
    BY <1>1, <1>2, <1>7 DEF TaskSound, RestrictSound
  <2> HIDE DEF n
  <2> QED  BY <1>2, <1>6, <2>2, <2>4, <2>5
<1>8. CASE task[r].row # None
  <2> DEFINE n == task[r].row
             x == [restrictions[n] EXCEPT !.until = u]
  <2>1. /\ n \in Risk!Rows /\ restrictions[n].open /\ restrictions[n].key = k
        /\ restrictions[n] \in RestrictionRow
    BY <1>1, <1>2, <1>8, RiskTypes DEF RiskInv, TaskSound, RestrictSound
  <2>2. /\ x \in RestrictionRow /\ x.key = k /\ x.open = restrictions[n].open /\ x.until = u
    BY <1>2, <2>1 DEF RestrictionRow
  <2>3. restrictions' = [restrictions EXCEPT ![n] = x]
    BY <1>8 DEF Risk!Write
  <2> HIDE DEF x
  <2>4. restrictions' \in Seq(RestrictionRow) /\ Risk!Rows' = Risk!Rows /\ restrictions'[n] = x
        /\ \A i \in Risk!Rows : i # n => restrictions'[i] = restrictions[i]
    BY <1>2, <2>1, <2>2, <2>3 DEF Risk!Rows
  <2>5. \A i \in Risk!Rows : restrictions[i].open /\ restrictions[i].key = k => i = n
    BY <2>1 DEF RiskInv, OneOpen
  <2> HIDE DEF n
  <2> QED  BY <1>6, <2>1, <2>2, <2>4, <2>5
<1> QED  BY <1>7, <1>8

(* Revoking: the one that was found is the one in force, if any is.         *)
LEMMA EntitlementsKeep ==
  ASSUME NullOK, RiskInv, NEW r \in Tasks, Risk!Revoke(r)
  PROVE  RiskInv'
<1> DEFINE i == task[r].row
           k == task[r].key
           refused == Risk!HighImpact(k, None) /\ task[r].actor \in Staff \ entitled
<1>1. /\ task[r].kind = "lift" /\ task[r].pc = "found" /\ Risk!End(r)
      /\ UNCHANGED <<entitled, assurance>>
      /\ IF refused THEN UNCHANGED <<restrictions, decided>>
         ELSE /\ restrictions' = [restrictions EXCEPT ![i].open = FALSE]
              /\ decided' = [decided EXCEPT ![k] = None]
  BY DEF Risk!Revoke, Risk!At
<1> HIDE DEF refused
<1>2. CASE refused
  BY <1>1, <1>2, EndKeeps
<1>3. CASE ~refused
  <2>1. /\ i \in Risk!Rows /\ i \in Nat /\ k = restrictions[i].key /\ restrictions[i].open
        /\ k \in Keys
        /\ restrictions[i] \in RestrictionRow /\ restrictions \in Seq(RestrictionRow)
    BY <1>1, RiskTypes DEF RiskInv, RiskTyped, TaskSound, LiftSound
  <2> DEFINE x == [restrictions[i] EXCEPT !.open = FALSE]
  <2>2. x \in RestrictionRow /\ x.key = k /\ ~x.open
    BY <2>1 DEF RestrictionRow
  <2>3. restrictions' = [restrictions EXCEPT ![i] = x]
    BY <1>1, <1>3
  <2> HIDE DEF x
  <2>4. restrictions' \in Seq(RestrictionRow) /\ Risk!Rows' = Risk!Rows /\ restrictions'[i] = x
        /\ \A j \in Risk!Rows : j # i => restrictions'[j] = restrictions[j]
    BY <2>1, <2>2, <2>3 DEF Risk!Rows
  <2>5. /\ task' \in [Tasks -> TaskRow] /\ task'[r] = Risk!NoTask
        /\ \A s \in Tasks \ {r} : task'[s] = task[s]
    BY <1>1, NoTaskSound DEF RiskInv, RiskTyped, Risk!End
  <2>6. RiskTyped'
    BY <1>1, <1>3, <2>1, <2>4, <2>5 DEF RiskInv, RiskTyped
  <2>7. OneOpen'
    BY <2>2, <2>4 DEF RiskInv, OneOpen
  <2>8. OneHolder'
    <3>1. ~HoldsAccount(r)' /\ \A j : ~HoldsRow(r, j)'
      BY <2>5, NoTaskSound DEF HoldsAccount, HoldsRow
    <3>2. \A s \in Tasks \ {r} :
            (HoldsAccount(s)' <=> HoldsAccount(s)) /\ \A j : HoldsRow(s, j)' <=> HoldsRow(s, j)
      BY <2>5 DEF HoldsAccount, HoldsRow
    <3> QED  BY <3>1, <3>2 DEF RiskInv, OneHolder
  <2>9. \A j \in Keys : Risk!InForce(j)' <=> Risk!InForce(j) /\ j # k
    <3>1. \A j \in Risk!Rows : restrictions[j].open /\ restrictions[j].key = k => j = i
      BY <2>1 DEF RiskInv, OneOpen
    <3> QED  BY <2>1, <2>2, <2>4, <3>1 DEF Risk!InForce
  <2>10. \A s \in Tasks : TaskSound(task[s])'
    <3>1. TaskSound(task[r])'
      BY <2>5, NoTaskSound DEF NullOK, TaskSound, RestrictSound, LiftSound, SignInSound
    <3>2. ASSUME NEW s \in Tasks, s # r PROVE TaskSound(task[s])'
      <4>1. TaskSound(task[s]) /\ task'[s] = task[s] /\ (task[s].pc = "found" => task[s].row # i)
        BY <1>1, <2>1, <2>5, <3>2 DEF RiskInv, OneHolder, HoldsRow
      <4>2. \A j \in Risk!Rows : restrictions'[j].key = restrictions[j].key
        BY <2>1, <2>2, <2>4
      <4>3. RestrictSound(task[s])'
        BY <2>2, <2>4, <4>1, <4>2 DEF TaskSound, RestrictSound
      <4>4. LiftSound(task[s])'
        BY <2>4, <4>1, <4>2 DEF TaskSound, LiftSound
      <4>5. SignInSound(task[s])'
        BY <2>9, <4>1 DEF TaskSound, SignInSound, Risk!Heeds
      <4> QED  BY <4>1, <4>3, <4>4, <4>5 DEF TaskSound
    <3> QED  BY <3>1, <3>2
  <2>11. Risk!AnswersStand'
    <3> SUFFICES ASSUME NEW j \in Keys PROVE decided'[j] # None <=> Risk!InForce(j)'
      BY DEF Risk!AnswersStand, Risk!InForce
    <3>1. decided[j] # None <=> Risk!InForce(j)
      BY DEF RiskInv, Risk!AnswersStand, Risk!InForce
    <3>2. decided'[j] = IF j = k THEN None ELSE decided[j]
      BY <1>1, <1>3, <2>1 DEF RiskInv, RiskTyped
    <3> QED  BY <2>9, <3>1, <3>2
  <2> QED  BY <2>6, <2>7, <2>8, <2>10, <2>11 DEF RiskInv
<1> QED  BY <1>2, <1>3

LEMMA RiskStep == ASSUME NullOK PROVE RiskInv /\ [Risk!Next]_(Risk!riskVars) => RiskInv'
<1> SUFFICES ASSUME RiskInv, [Risk!Next]_(Risk!riskVars) PROVE RiskInv'
    OBVIOUS
<1>1. CASE UNCHANGED Risk!riskVars
  <2>1. RiskTyped' /\ OneOpen' /\ OneHolder' /\ Risk!AnswersStand'
    BY <1>1 DEF Risk!riskVars, RiskInv, RiskTyped, OneOpen, OneHolder, HoldsAccount, HoldsRow,
       Risk!AnswersStand, Risk!Rows, Risk!InForce
  <2>2. \A r \in Tasks : TaskSound(task[r])'
    BY <1>1 DEF Risk!riskVars, RiskInv, TaskSound, RestrictSound, LiftSound, SignInSound,
         Risk!Rows, Risk!InForce, Risk!Heeds
  <2> QED  BY <2>1, <2>2 DEF RiskInv
<1>2. ASSUME NEW r \in Tasks,
             \/ Risk!SignIn(r)
             \/ \E actor \in Risk!Actors :
                  \/ \E k \in Keys, until \in Risk!Ends : Risk!Restrict(r, actor, k, until)
                  \/ \E i \in Risk!Rows : Risk!Lift(r, actor, i)
      PROVE  RiskInv'
  BY <1>2, BeginKeeps
<1>3. ASSUME NEW r \in Tasks, Risk!LockAccount(r) \/ Risk!Enforce(r) \/ Risk!Issue(r) \/ Risk!FindOpen(r) \/ Risk!Abort(r)
      PROVE  RiskInv'
  BY <1>3, StepsKeep
<1>4. ASSUME NEW r \in Tasks, Risk!Find(r) \/ Risk!Write(r) \/ Risk!Revoke(r) PROVE RiskInv'
  BY <1>4, FindKeeps, WriteKeeps, EntitlementsKeep
<1>5. ASSUME NEW i \in Risk!Rows, Risk!Expire(i) PROVE RiskInv'
  BY <1>5, ExpireKeeps
<1>6. ASSUME NEW s \in Staff,
             Risk!Establish(s) \/ Risk!Fades(s) \/ Risk!RevokeSession(s) \/ Risk!GrantRole(s) \/ Risk!RevokeRole(s)
      PROVE  RiskInv'
  BY <1>6, StaffKeeps
<1> QED  BY <1>1, <1>2, <1>3, <1>4, <1>5, <1>6 DEF Risk!Next

(* Restrictions of an account: what staff and administrators were answered last
   is what the account is under, until it expires, and no session is issued
   under a restriction that was answered before (risk/service.ts,
   admin/service.ts, the issuing of sessions).                              *)
THEOREM RestrictionsCorrect ==
  ASSUME NullOK
  PROVE  Risk!Spec => [](Risk!TypeOK /\ Risk!RestrictionsSound)
<1>1. Risk!Init => RiskInv
  BY RiskInit
<1>2. RiskInv /\ [Risk!Next]_(Risk!riskVars) => RiskInv'
  BY RiskStep
<1>3. RiskInv => Risk!TypeOK /\ Risk!AnswersStand /\ Risk!IssuedUnrestricted
  <2> SUFFICES ASSUME RiskInv PROVE Risk!TypeOK /\ Risk!AnswersStand /\ Risk!IssuedUnrestricted
      OBVIOUS
  <2>1. \A r \in Tasks : task[r].row \in Risk!Rows \cup {None}
    <3> SUFFICES ASSUME NEW r \in Tasks PROVE task[r].row \in Risk!Rows \cup {None}
        OBVIOUS
    <3>1. TaskSound(task[r]) /\ task[r].kind \in {None, "signIn", "restrict", "lift"}
      BY RiskTypes DEF RiskInv
    <3> QED  BY <3>1, NoTaskSound DEF TaskSound, RestrictSound, LiftSound, SignInSound
  <2>2. Risk!TypeOK
    BY <2>1, RiskTypes DEF Risk!TypeOK, RiskInv, RiskTyped, OneOpen
  <2>3. Risk!IssuedUnrestricted
    <3> SUFFICES ASSUME NEW r \in Tasks, Risk!At(r, "signIn", "found"),
                        NEW k \in Risk!Heeds("authentication")
                 PROVE  decided[k] = None
      BY DEF Risk!IssuedUnrestricted
    <3>1. ~Risk!InForce(k)
      BY DEF RiskInv, TaskSound, SignInSound, Risk!At
    <3> QED  BY <3>1 DEF RiskInv, Risk!AnswersStand, Risk!Heeds, Risk!InForce
  <2> QED  BY <2>2, <2>3 DEF RiskInv
<1> QED  BY <1>1, <1>2, <1>3, PTL DEF Risk!Spec, Risk!RestrictionsSound

-----------------------------------------------------------------------------
(* The page that pairs a device with an account, against the pairings of the
   server (ConnectPage).                                                    *)
(* Null is no pairing, the page is opened a number of times, and the bounds
   are numbers.                                                             *)
PagesOK ==
  /\ None \notin Pairings /\ MaxLosses \in Nat /\ MaxFailures \in Nat
  /\ \E n \in Nat : Pages = 1..n

OperationRow ==
  [kind : Pairing!Kinds, step : {"none", "delete", "post", "end", "made", "failed"},
   old : Pairings \cup {None}, made : Pairings \cup {None}, on : {"current", "other"}]
AnswerRow == [of : Pairings, says : {"pending", "consumed", "expired"}]

(* A pairing that no device can take any more, or that was lost sight of.   *)
Lasting(p) == Pairing!Waits(p) /\ p \notin over
Lost(p) == p \in astray \/ (rows[p] # "unused" /\ ~Lasting(p))

(* What the page and its operations know was created.                       *)
Made(p) == p # None => rows[p] # "unused"
NamedCreated ==
  /\ Made(shown) /\ Made(saved) /\ Made(rendered.of)
  /\ \A a \in answers : Made(a.of)
  /\ \A i \in Pages : Made(op[i].made)

PageSound ==
  /\ view # "away" => page \in Pages
  /\ view # "ready" => shown = None

(* Only an operation that has made a pairing holds one, one that deletes
   knows which, and a page that is not signed in has no operation.          *)
OperationSound(i) ==
  /\ op[i].kind = "idle" => op[i] = Pairing!Idle
  /\ op[i].step # "made" => op[i].made = None
  /\ op[i].step = "made" => op[i].made \in Pairings
  /\ op[i].step = "delete" => op[i].old \in Pairings
  /\ i > page \/ (i = page /\ view \in {"loading", "coded"}) => op[i] = Pairing!Idle
OperationsSound == \A i \in Pages : OperationSound(i)

(* An operation deletes what the page shows, and goes on once that cannot be
   taken any more.                                                          *)
BusyWith ==
  Pairing!Here =>
    /\ op[page].step = "delete" => op[page].old = shown
    /\ op[page].step \in {"end", "post", "made"} => shown = None \/ Lost(shown)

TakenLinked == \A p \in Pairings : rows[p] = "taken" => p \in linked \cup exchanging

(* The answers to polls were true, and what they say is final or astray.    *)
AnswersTrue ==
  \A a \in answers :
    /\ a.says = "expired" => Lost(a.of)
    /\ a.says = "consumed" => Lost(a.of) /\ a.of \in linked \cup exchanging \cup astray

ShownLive == Pairing!Here /\ shown # None => status = "pending" \/ Lost(shown)
(* What was rendered last is a pairing with its status.                     *)
RenderedSound ==
  /\ rendered.of # None /\ rendered.status # "pending" => Lost(rendered.of)
  /\ view # "ready" => rendered.of = None

PageInv ==
  /\ Pairing!TypeOK /\ NamedCreated /\ PageSound /\ OperationsSound /\ BusyWith /\ TakenLinked
  /\ AnswersTrue
  /\ ShownLive /\ RenderedSound /\ Pairing!NoSpareLink /\ Pairing!ConnectedIsTrue

-----------------------------------------------------------------------------
LEMMA PageTypes ==
  ASSUME Pairing!TypeOK
  PROVE  /\ op \in [Pages -> OperationRow] /\ answers \subseteq AnswerRow
         /\ \A i \in Pages : op[i] \in OperationRow
         /\ \A o \in OperationRow :
              /\ o.kind \in Pairing!Kinds
              /\ o.step \in {"none", "delete", "post", "end", "made", "failed"}
              /\ o.old \in Pairings \cup {None} /\ o.made \in Pairings \cup {None}
              /\ o.on \in {"current", "other"}
         /\ \A a \in answers : a.of \in Pairings /\ a.says \in {"pending", "consumed", "expired"}
         /\ \A p \in Pairings : rows[p] \in {"unused", "new", "open", "taken", "gone"}
BY DEF Pairing!TypeOK, OperationRow, AnswerRow

LEMMA IdleRow ==
  /\ Pairing!Idle \in OperationRow /\ Pairing!Idle.kind = "idle" /\ Pairing!Idle.made = None
  /\ Pairing!Idle.step = "none"
BY DEF Pairing!Idle, OperationRow, Pairing!Kinds

LEMMA PairingCardinality == \A S : Pairing!Cardinality(S) = Cardinality(S)
BY Zenon DEF Pairing!Cardinality, Cardinality

LEMMA NextPage ==
  ASSUME PagesOK, page \in 0..Pairing!Cardinality(Pages), page + 1 \in Pages
  PROVE  page + 1 \in 0..Pairing!Cardinality(Pages)
<1>1. PICK n \in Nat : Pages = 1..n
  BY DEF PagesOK
<1>2. Cardinality(1..n) = n
  BY FS_Interval
<1> QED
  BY <1>1, <1>2, PairingCardinality

LEMMA PageIsNumber ==
  ASSUME PagesOK, page \in 0..Pairing!Cardinality(Pages)
  PROVE  page \in Nat /\ \A i \in Pages : i \in Nat
<1>1. PICK n \in Nat : Pages = 1..n
  BY DEF PagesOK
<1> QED
  BY <1>1

-----------------------------------------------------------------------------
(* Whatever happens, what was created was created, and no lost pairing is
   found again.                                                             *)
Onward ==
  /\ astray \subseteq astray'
  /\ \A p \in Pairings :
       /\ rows[p] # "unused" => rows'[p] # "unused"
       /\ Lost(p) => Lost(p)'
       /\ p \in linked \cup exchanging \cup astray => p \in linked' \cup exchanging' \cup astray'

LEMMA QuietOnward ==
  ASSUME UNCHANGED Pairing!serverVars, astray \subseteq astray'
  PROVE  Onward /\ (TakenLinked => TakenLinked')
BY DEF Pairing!serverVars, Onward, Lost, Lasting, Pairing!Waits, TakenLinked

LEMMA CancelOnward ==
  ASSUME Pairing!TypeOK,
         NEW q \in Pairings, rows' = Pairing!Cancelled(q), UNCHANGED <<over, linked, exchanging>>,
         astray \subseteq astray'
  PROVE  /\ Onward /\ (TakenLinked => TakenLinked') /\ ~Lasting(q)' /\ (rows[q] # "unused" => Lost(q)')
         /\ rows' \in [Pairings -> {"unused", "new", "open", "taken", "gone"}]
<1>1. /\ rows' \in [Pairings -> {"unused", "new", "open", "taken", "gone"}]
      /\ rows'[q] = (IF Pairing!Waits(q) THEN "gone" ELSE rows[q])
      /\ \A p \in Pairings \ {q} : rows'[p] = rows[p]
  BY DEF Pairing!Cancelled, Pairing!TypeOK
<1>2. Onward /\ ~Lasting(q)' /\ (TakenLinked => TakenLinked')
  BY <1>1 DEF Onward, Lost, Lasting, Pairing!Waits, TakenLinked
<1>3. rows[q] # "unused" => Lost(q)'
  BY <1>1, <1>2 DEF Lost, Pairing!Waits
<1> QED
  BY <1>1, <1>2, <1>3

LEMMA CreateOnward ==
  ASSUME Pairing!TypeOK, NEW q \in Pairings, rows[q] = "unused", rows' = Pairing!Created(q),
         UNCHANGED <<over, linked, exchanging>>, astray \subseteq astray'
  PROVE  /\ Onward /\ (TakenLinked => TakenLinked') /\ rows'[q] = "new"
         /\ rows' \in [Pairings -> {"unused", "new", "open", "taken", "gone"}]
         /\ \A p \in Pairings \ {q} : Lasting(p)' => Lasting(p)
<1>1. /\ rows' \in [Pairings -> {"unused", "new", "open", "taken", "gone"}] /\ rows'[q] = "new"
      /\ \A p \in Pairings \ {q} : rows'[p] = rows[p] \/ (rows'[p] = "gone" /\ rows[p] # "unused")
  BY DEF Pairing!Created, Pairing!TypeOK, Pairing!Waits
<1> QED
  BY <1>1 DEF Onward, Lost, Lasting, Pairing!Waits, TakenLinked

(* A lost pairing is not live unless it is astray, and none comes back.     *)
LEMMA NoneBack ==
  ASSUME Onward, NEW p \in Pairings, Lasting(p)', rows[p] # "unused"
  PROVE  Lasting(p) \/ p \in astray'
BY DEF Onward, Lost

(* What an action that leaves a part of the page alone keeps.               *)
LEMMA AnswersKept ==
  ASSUME Pairing!TypeOK, Onward, AnswersTrue, answers' \subseteq answers
  PROVE  AnswersTrue'
BY PageTypes DEF AnswersTrue, Onward

LEMMA ShownKept ==
  ASSUME Pairing!TypeOK, Onward, ShownLive, Pairing!ConnectedIsTrue, UNCHANGED <<shown, status>>, Pairing!Here' => Pairing!Here
  PROVE  ShownLive' /\ Pairing!ConnectedIsTrue'
BY DEF Pairing!TypeOK, Onward, ShownLive, Pairing!ConnectedIsTrue

LEMMA RenderedKept ==
  ASSUME Pairing!TypeOK, Onward, RenderedSound, UNCHANGED rendered, view' = "ready" \/ view' = view
  PROVE  RenderedSound'
BY DEF Pairing!TypeOK, Onward, RenderedSound

LEMMA OperationsKept ==
  ASSUME Pairing!TypeOK, Onward, OperationsSound, BusyWith, UNCHANGED <<op, page, view, shown>>
  PROVE  OperationsSound' /\ BusyWith'
BY DEF Pairing!TypeOK, Onward, OperationsSound, OperationSound, BusyWith, Pairing!Here

(* A link that can be used is in sight if what was in sight stays so, and what
   comes to be usable comes into sight.                                     *)
LEMMA SpareKept ==
  ASSUME PagesOK, PageInv, Onward,
         \A p \in Pairings : Pairing!Usable(p)' =>
           Pairing!Usable(p) \/ p \in astray' \cup {saved'} \/ (Pairing!Here' /\ shown' = p /\ status' = "pending"),
         \A p \in farewells : p \in farewells' \/ p \in astray' \/ ~Pairing!Usable(p)',
         saved # None => saved' = saved \/ Lost(saved) \/ saved \in astray' \cup farewells'
                         \/ (Pairing!Here' /\ shown' = saved /\ status' = "pending"),
         Pairing!Here /\ shown # None /\ status = "pending" =>
           \/ Pairing!Here' /\ shown' = shown /\ status' = "pending"
           \/ Lost(shown) \/ shown \in astray' \cup farewells' \cup {saved'}
  PROVE  Pairing!NoSpareLink'
<1> SUFFICES ASSUME NEW p \in Pairings, Pairing!Usable(p)', Pairing!Usable(p)
             PROVE  \/ p \in astray' \cup farewells' \cup {saved'}
                    \/ Pairing!Here' /\ shown' = p /\ status' = "pending"
  BY DEF Pairing!NoSpareLink
<1>1. p # None
  BY DEF PagesOK
<1>2. Lost(p) => p \in astray'
  BY DEF Onward, Lost, Lasting, Pairing!Waits, Pairing!Usable
<1>3. CASE p \in astray
  BY <1>3 DEF Onward
<1>4. CASE p \in farewells
  BY <1>4
<1>5. CASE p = saved
  BY <1>1, <1>2, <1>5
<1>6. CASE Pairing!Here /\ shown = p /\ status = "pending"
  BY <1>1, <1>2, <1>6
<1> QED
  BY <1>3, <1>4, <1>5, <1>6 DEF PageInv, Pairing!NoSpareLink

(* A step of the server, or of a farewell: the page does not see it.        *)
LEMMA Unseen ==
  ASSUME PagesOK, PageInv, Onward, Pairing!TypeOK', TakenLinked', UNCHANGED <<Pairing!pageVars, saved, op>>,
         \A p \in farewells : p \in farewells' \/ p \in astray' \/ ~Pairing!Usable(p)',
         \A p \in Pairings : Pairing!Usable(p)' => Pairing!Usable(p) \/ p \in astray'
  PROVE  PageInv'
<1> USE DEF PageInv
<1>1. UNCHANGED <<page, view, shown, status, target, method, rendered, answers, saved, op>>
  BY DEF Pairing!pageVars, Pairing!shownVars
<1>2. NamedCreated'
  BY <1>1, PageTypes DEF NamedCreated, Onward, Made, Pairing!TypeOK
<1>3. PageSound' /\ OperationsSound' /\ BusyWith'
  BY <1>1, OperationsKept DEF PageSound
<1>4. AnswersTrue' /\ ShownLive' /\ Pairing!ConnectedIsTrue'
  BY <1>1, AnswersKept, ShownKept DEF Pairing!Here
<1>5. RenderedSound'
  BY <1>1, RenderedKept
<1>6. Pairing!NoSpareLink'
  BY <1>1, SpareKept DEF Pairing!Here
<1> QED
  BY <1>2, <1>3, <1>4, <1>5, <1>6

-----------------------------------------------------------------------------
(* The server.                                                              *)

LEMMA ElapseKeeps ==
  ASSUME PagesOK, PageInv, NEW p \in Pairings, Pairing!Elapse(p)
  PROVE  PageInv'
<1>1. /\ rows[p] # "unused" /\ over' = over \cup {p}
      /\ UNCHANGED <<rows, linked, exchanging, Pairing!pageVars, saved, op, farewells, astray,
                     losses, failures>>
  BY DEF Pairing!Elapse
<1>2. Onward
  BY <1>1 DEF Onward, Lost, Lasting, Pairing!Waits
<1>3. Pairing!TypeOK' /\ TakenLinked'
  BY <1>1 DEF PageInv, Pairing!TypeOK, TakenLinked, Pairing!pageVars, Pairing!shownVars
<1>5. \A q \in Pairings : Pairing!Usable(q)' => Pairing!Usable(q) \/ q \in astray'
  BY <1>1 DEF Pairing!Usable
<1> QED
  BY <1>1, <1>2, <1>3, <1>5, Unseen

LEMMA TakingKeeps ==
  ASSUME PagesOK, PageInv, NEW p \in Pairings, Pairing!Take(p)
  PROVE  PageInv'
<1>1. /\ rows[p] = "open" /\ rows' = [rows EXCEPT ![p] = "taken"] /\ exchanging' = exchanging \cup {p}
      /\ UNCHANGED <<over, linked, Pairing!pageVars, saved, op, farewells, astray, losses, failures>>
  BY DEF Pairing!Take
<1>2. /\ rows' \in [Pairings -> {"unused", "new", "open", "taken", "gone"}]
      /\ rows'[p] = "taken" /\ \A q \in Pairings \ {p} : rows'[q] = rows[q]
  BY <1>1 DEF PageInv, Pairing!TypeOK
<1>3. Onward
  BY <1>1, <1>2 DEF Onward, Lost, Lasting, Pairing!Waits
<1>4. Pairing!TypeOK' /\ TakenLinked'
  BY <1>1, <1>2 DEF PageInv, Pairing!TypeOK, TakenLinked, Pairing!pageVars, Pairing!shownVars
<1>5. \A q \in Pairings : Pairing!Usable(q)' => Pairing!Usable(q) \/ q \in astray'
  BY <1>1, <1>2 DEF Pairing!Usable
<1> QED
  BY <1>1, <1>2, <1>3, <1>5, <1>4, Unseen

LEMMA GrantKeeps ==
  ASSUME PagesOK, PageInv, NEW p \in Pairings, Pairing!Grant(p)
  PROVE  PageInv'
<1>1. /\ exchanging' = exchanging \ {p} /\ linked' = linked \cup {p}
      /\ UNCHANGED <<rows, over, Pairing!pageVars, saved, op, farewells, astray, losses, failures>>
  BY DEF Pairing!Grant
<1>2. Onward
  BY <1>1 DEF Onward, Lost, Lasting, Pairing!Waits
<1>3. Pairing!TypeOK' /\ TakenLinked'
  BY <1>1 DEF PageInv, Pairing!TypeOK, TakenLinked, Pairing!pageVars, Pairing!shownVars
<1>5. \A q \in Pairings : Pairing!Usable(q)' => Pairing!Usable(q) \/ q \in astray'
  BY <1>1 DEF Pairing!Usable
<1> QED
  BY <1>1, <1>2, <1>3, <1>5, Unseen

LEMMA GiveBackKeeps ==
  ASSUME PagesOK, PageInv, NEW p \in Pairings, Pairing!GiveBack(p)
  PROVE  PageInv'
<1>1. /\ exchanging' = exchanging \ {p} /\ astray' = astray \cup {p}
      /\ failures' \in 0..MaxFailures
      /\ rows' = [rows EXCEPT ![p] = IF @ = "taken" THEN "open" ELSE @]
      /\ UNCHANGED <<over, linked, Pairing!pageVars, saved, op, farewells, losses>>
  BY DEF Pairing!GiveBack, PagesOK, PageInv, Pairing!TypeOK
<1>2. /\ rows' \in [Pairings -> {"unused", "new", "open", "taken", "gone"}]
      /\ rows'[p] # "taken" /\ (rows'[p] = rows[p] \/ rows[p] = "taken") /\ (rows'[p] = "unused" <=> rows[p] = "unused")
      /\ \A q \in Pairings \ {p} : rows'[q] = rows[q]
  BY <1>1 DEF PageInv, Pairing!TypeOK
<1>3. Onward
  BY <1>1, <1>2 DEF Onward, Lost, Lasting, Pairing!Waits
<1>4. Pairing!TypeOK' /\ TakenLinked'
  BY <1>1, <1>2 DEF PageInv, Pairing!TypeOK, TakenLinked, Pairing!pageVars, Pairing!shownVars
<1>5. \A q \in Pairings : Pairing!Usable(q)' => Pairing!Usable(q) \/ q \in astray'
  BY <1>1, <1>2 DEF Pairing!Usable
<1> QED
  BY <1>1, <1>2, <1>3, <1>5, <1>4, Unseen

LEMMA FarewellKeeps ==
  ASSUME PagesOK, PageInv, NEW p \in Pairings, Pairing!Farewell(p)
  PROVE  PageInv'
<1>1. /\ farewells' = farewells \ {p} /\ losses' \in 0..MaxLosses
      /\ UNCHANGED <<over, linked, exchanging, Pairing!pageVars, saved, op, failures>>
  BY DEF Pairing!Farewell, Pairing!Lose, PagesOK, PageInv, Pairing!TypeOK
<1>2. CASE rows' = Pairing!Cancelled(p) /\ UNCHANGED <<losses, astray>>
  <2>1. /\ Onward /\ TakenLinked' /\ ~Lasting(p)'
        /\ rows' \in [Pairings -> {"unused", "new", "open", "taken", "gone"}]
    BY <1>1, <1>2, CancelOnward DEF PageInv
  <2>2. Pairing!TypeOK'
    BY <1>1, <1>2, <2>1 DEF PageInv, Pairing!TypeOK, Pairing!pageVars, Pairing!shownVars
  <2>3. ~Pairing!Usable(p)' /\ \A q \in Pairings : Pairing!Usable(q)' => Pairing!Usable(q)
    BY <1>1, <1>2 DEF Pairing!Cancelled, Pairing!Waits, Pairing!Usable, PageInv, Pairing!TypeOK
  <2> QED
    BY <1>1, <2>1, <2>2, <2>3, Unseen
<1>3. CASE astray' = astray \cup {p} /\ UNCHANGED rows
  <2>1. Onward /\ TakenLinked'
    BY <1>1, <1>3, QuietOnward DEF PageInv, Pairing!serverVars
  <2>2. Pairing!TypeOK'
    BY <1>1, <1>3 DEF PageInv, Pairing!TypeOK, Pairing!pageVars, Pairing!shownVars
  <2> QED
    BY <1>1, <1>3, <2>1, <2>2, Unseen DEF Pairing!Usable
<1> QED
  BY <1>2, <1>3 DEF Pairing!Farewell

-----------------------------------------------------------------------------
(* The page.  A step of it leaves the server alone.                         *)

LEMMA QuietNoSpare ==
  ASSUME PagesOK, PageInv, UNCHANGED Pairing!serverVars, astray \subseteq astray',
         \A p \in Pairings : p \in farewells => p \in farewells',
         saved # None => saved' = saved \/ Lost(saved) \/ saved \in astray' \cup farewells'
                         \/ (Pairing!Here' /\ shown' = saved /\ status' = "pending"),
         Pairing!Here /\ shown # None /\ status = "pending" =>
           \/ Pairing!Here' /\ shown' = shown /\ status' = "pending"
           \/ Lost(shown) \/ shown \in astray' \cup farewells' \cup {saved'}
  PROVE  Pairing!NoSpareLink'
<1>1. Onward
  BY QuietOnward
<1>2. \A p \in Pairings : Pairing!Usable(p)' => Pairing!Usable(p)
  BY DEF Pairing!serverVars, Pairing!Usable
<1>3. farewells \subseteq Pairings
  BY DEF PageInv, Pairing!TypeOK
<1> QED
  BY <1>1, <1>2, <1>3, SpareKept

LEMMA OpenKeeps ==
  ASSUME PagesOK, PageInv, NEW from \in {"loading", "coded"}, Pairing!Open(from)
  PROVE  PageInv'
<1> USE DEF PageInv
<1>1. /\ view = "away" /\ page + 1 \in Pages /\ page' = page + 1 /\ view' = from
      /\ shown' = None /\ status' = "none" /\ rendered' = Pairing!Nothing /\ answers' = {}
      /\ target' \in {"current", "other"} /\ method' \in {"code", "qr"}
      /\ UNCHANGED <<Pairing!serverVars, farewells, astray, losses, failures, saved, op>>
  BY DEF Pairing!Open, Pairing!Untouched
<1>2. Onward /\ TakenLinked'
  BY <1>1, QuietOnward
<1>3. page \in 0..Pairing!Cardinality(Pages)
  BY DEF Pairing!TypeOK
<1>4. page' \in 0..Pairing!Cardinality(Pages) /\ page \in Nat /\ \A i \in Pages : i \in Nat
  BY <1>1, <1>3, NextPage, PageIsNumber
<1>5. Pairing!TypeOK'
  BY <1>1, <1>4 DEF Pairing!TypeOK, Pairing!serverVars, Pairing!Nothing
<1>6. NamedCreated'
  BY <1>1, <1>2 DEF NamedCreated, Made, Pairing!serverVars, Pairing!Nothing
<1>7. PageSound'
  BY <1>1 DEF PageSound
<1>8. OperationsSound'
  <2>1. \A i \in Pages : i >= page + 1 => op[i] = Pairing!Idle
    BY <1>4 DEF OperationsSound, OperationSound
  <2>2. \A i \in Pages : (i > page' \/ i = page') => op[i] = Pairing!Idle
    BY <1>1, <1>4, <2>1
  <2> QED
    BY <1>1, <2>2 DEF OperationsSound, OperationSound
<1>9. BusyWith' /\ AnswersTrue' /\ ShownLive' /\ RenderedSound' /\ Pairing!ConnectedIsTrue'
  BY <1>1 DEF BusyWith, AnswersTrue, ShownLive, RenderedSound, Pairing!Nothing, Pairing!ConnectedIsTrue, Pairing!Here
<1>10. Pairing!NoSpareLink'
  BY <1>1, QuietNoSpare DEF Pairing!Here
<1> QED
  BY <1>2, <1>5, <1>6, <1>7, <1>8, <1>9, <1>10

LEMMA SignedInKeeps ==
  ASSUME PagesOK, PageInv, Pairing!SignedIn
  PROVE  PageInv'
<1> USE DEF PageInv
<1>1. /\ view \in {"loading", "coded"} /\ view' = "ready"
      /\ UNCHANGED <<Pairing!serverVars, farewells, losses, failures, page, target, method, rendered,
                     answers, op>>
  BY DEF Pairing!SignedIn
<1> DEFINE again == view = "loading" /\ saved # None /\ saved \notin over
<1>2. /\ again => shown' = saved /\ status' = "pending" /\ saved' = saved
      /\ ~again => shown' = None /\ status' = "none" /\ saved' = None
      /\ astray' = (IF view = "coded" /\ saved # None THEN astray \cup {saved} ELSE astray)
      /\ saved \in Pairings \cup {None}
  BY DEF Pairing!SignedIn, Pairing!TypeOK
<1>3. /\ \/ shown' = saved /\ status' = "pending" /\ saved' = saved /\ saved # None
         \/ shown' = None /\ status' = "none" /\ saved' = None
      /\ astray \subseteq astray' /\ astray' \subseteq Pairings
      /\ saved # None /\ saved' # saved => saved \in over \/ saved \in astray'
  BY <1>1, <1>2 DEF Pairing!TypeOK
<1> HIDE DEF again
<1>4. Onward /\ TakenLinked'
  BY <1>1, <1>3, QuietOnward
<1>5. Pairing!TypeOK'
  BY <1>1, <1>2, <1>3 DEF Pairing!TypeOK, Pairing!serverVars
<1>6. NamedCreated'
  BY <1>1, <1>3 DEF NamedCreated, Made, Pairing!serverVars
<1>7. PageSound' /\ ~Pairing!Here
  BY <1>1 DEF PageSound, Pairing!Here
<1>8. OperationsSound'
  BY <1>1 DEF OperationsSound, OperationSound
<1>9. BusyWith'
  BY <1>1, IdleRow DEF BusyWith, OperationsSound, OperationSound, PageSound
<1>10. AnswersTrue'
  BY <1>1, <1>4, AnswersKept
<1>11. ShownLive' /\ RenderedSound' /\ Pairing!ConnectedIsTrue'
  BY <1>1, <1>3, <1>4, RenderedKept DEF ShownLive, Pairing!ConnectedIsTrue
<1>12. Pairing!NoSpareLink'
  <2>1. saved # None => saved' = saved \/ Lost(saved) \/ saved \in astray'
    BY <1>3 DEF Lost, Lasting, NamedCreated, Made
  <2> QED
    BY <1>1, <1>3, <1>7, <2>1, QuietNoSpare
<1> QED
  BY <1>4, <1>5, <1>6, <1>7, <1>8, <1>9, <1>10, <1>11, <1>12

LEMMA RenderKeeps ==
  ASSUME PagesOK, PageInv, Pairing!Render
  PROVE  PageInv'
<1> USE DEF PageInv
<1>1. /\ Pairing!Here /\ rendered' = [of |-> shown, status |-> status]
      /\ rows' = [p \in Pairings |-> IF p = shown /\ status = "pending" /\ rows[p] = "new"
                                     THEN "open" ELSE rows[p]]
      /\ UNCHANGED <<over, linked, exchanging, farewells, astray, losses, failures, page, view,
                     shown, status, target, method, answers, saved, op>>
  BY DEF Pairing!Render, Pairing!shownVars
<1>2. /\ rows' \in [Pairings -> {"unused", "new", "open", "taken", "gone"}]
      /\ \A p \in Pairings :
           rows'[p] = rows[p] \/ (rows[p] = "new" /\ rows'[p] = "open" /\ p = shown /\ status = "pending")
  BY <1>1 DEF Pairing!TypeOK
<1>3. Onward /\ TakenLinked'
  <2>1. \A p \in Pairings :
          (Lasting(p)' <=> Lasting(p)) /\ (rows[p] = "unused" <=> rows'[p] = "unused")
    BY <1>1, <1>2 DEF Lasting, Pairing!Waits
  <2>2. TakenLinked'
    BY <1>1, <1>2 DEF TakenLinked
  <2> QED
    BY <1>1, <2>1, <2>2 DEF Onward, Lost
<1>4. Pairing!TypeOK'
  BY <1>1, <1>2 DEF Pairing!TypeOK
<1>5. NamedCreated'
  BY <1>1, <1>2, PageTypes DEF NamedCreated, Made, Pairing!TypeOK
<1>6. PageSound' /\ OperationsSound' /\ BusyWith'
  BY <1>1, <1>3, OperationsKept DEF PageSound
<1>7. AnswersTrue' /\ ShownLive' /\ Pairing!ConnectedIsTrue'
  BY <1>1, <1>3, AnswersKept, ShownKept DEF Pairing!Here
<1>8. RenderedSound'
  BY <1>1, <1>3 DEF RenderedSound, ShownLive, Onward, Pairing!Here, Pairing!TypeOK
<1>9. Pairing!NoSpareLink'
  <2>1. \A p \in Pairings : Pairing!Usable(p)' => Pairing!Usable(p) \/ (p = shown /\ status = "pending")
    BY <1>1, <1>2 DEF Pairing!Usable
  <2> QED
    BY <1>1, <1>3, <2>1, SpareKept DEF Pairing!Here
<1> QED
  BY <1>3, <1>4, <1>5, <1>6, <1>7, <1>8, <1>9

(* What the page says of a pairing changes: it is true of the one it is about,
   and another one that is shown is lost sight of.                          *)
LEMMA StatusKeeps ==
  ASSUME PagesOK, PageInv, Pairing!Here,
         NEW b \in Pairings, status' \in {"pending", "consumed", "expired"},
         status' # "pending" => Lost(b),
         status' = "consumed" => b \in linked \cup exchanging \cup astray,
         astray' = (IF shown # b /\ shown # None THEN astray \cup {shown} ELSE astray),
         answers' \subseteq answers,
         UNCHANGED <<Pairing!serverVars, farewells, losses, failures, page, view, shown, target,
                     method,
                     rendered, saved, op>>
  PROVE  PageInv'
<1> USE DEF PageInv
<1>1. astray \subseteq astray' /\ astray' \subseteq Pairings /\ Pairing!Here'
  BY DEF Pairing!TypeOK, Pairing!Here
<1>2. Onward /\ TakenLinked'
  BY <1>1, QuietOnward
<1>3. Pairing!TypeOK'
  BY <1>1 DEF Pairing!TypeOK, Pairing!serverVars
<1>4. NamedCreated' /\ PageSound'
  BY <1>1 DEF NamedCreated, Made, Pairing!serverVars, PageSound
<1>5. OperationsSound' /\ BusyWith' /\ AnswersTrue'
  BY <1>2, OperationsKept, AnswersKept
<1>6. shown # None => shown \in astray' \/ (shown = b /\ (status' # "pending" => Lost(shown)))
  BY <1>1
<1>7. ShownLive' /\ Pairing!ConnectedIsTrue'
  BY <1>1, <1>2, <1>6 DEF ShownLive, Pairing!ConnectedIsTrue, Onward, Lost, Pairing!serverVars
<1>8. RenderedSound'
  BY <1>2, RenderedKept
<1>9. Pairing!NoSpareLink'
  BY <1>1, <1>6, QuietNoSpare
<1> QED
  BY <1>2, <1>3, <1>4, <1>5, <1>7, <1>8, <1>9

LEMMA CountDownKeeps ==
  ASSUME PagesOK, PageInv, Pairing!CountDown
  PROVE  PageInv'
<1> DEFINE b == Pairing!Bound
<1>1. /\ Pairing!Here /\ b \in Pairings /\ b \in over /\ status' = "expired"
      /\ astray' = (IF shown # b /\ shown # None THEN astray \cup {shown} ELSE astray)
      /\ answers' \subseteq answers
      /\ UNCHANGED <<Pairing!serverVars, farewells, losses, failures, page, view, shown, target,
                     method,
                     rendered, saved, op>>
  BY DEF Pairing!CountDown, Pairing!Bound, PageInv, Pairing!TypeOK
<1>2. Lost(b)
  BY <1>1 DEF Pairing!Bound, PageInv, NamedCreated, Made, Lost, Lasting, PagesOK
<1> QED
  BY <1>1, <1>2, StatusKeeps

LEMMA PollKeeps ==
  ASSUME PagesOK, PageInv, Pairing!Poll
  PROVE  PageInv'
<1> USE DEF PageInv
<1> DEFINE b == Pairing!Bound
           a == [of |-> b, says |-> Pairing!Says(b)]
<1>1. /\ Pairing!Here /\ b \in Pairings /\ answers' = answers \cup {a}
      /\ UNCHANGED <<Pairing!serverVars, farewells, astray, losses, failures, page, view, shown,
                     status,
                     target, method, rendered, saved, op>>
  BY DEF Pairing!Poll, Pairing!Bound, Pairing!Untouched, Pairing!shownVars, Pairing!TypeOK
<1>2. rows[b] # "unused"
  BY <1>1 DEF Pairing!Bound, NamedCreated, Made, PagesOK
<1>3. /\ Pairing!Says(b) \in {"pending", "consumed", "expired"}
      /\ Pairing!Says(b) = "expired" => Lost(b)
      /\ Pairing!Says(b) = "consumed" => Lost(b) /\ b \in linked \cup exchanging
  BY <1>1, <1>2 DEF Pairing!Says, Lost, Lasting, Pairing!Waits, TakenLinked
<1>4. a \in AnswerRow /\ a.of = b /\ a.says = Pairing!Says(b)
  BY <1>1, <1>3 DEF AnswerRow
<1> HIDE DEF a, b
<1>5. Onward /\ TakenLinked'
  BY <1>1, QuietOnward
<1>6. Pairing!TypeOK'
  BY <1>1, <1>4 DEF Pairing!TypeOK, Pairing!serverVars, AnswerRow
<1>7. NamedCreated'
  BY <1>1, <1>2, <1>4 DEF NamedCreated, Made, Pairing!serverVars
<1>8. PageSound' /\ OperationsSound' /\ BusyWith'
  BY <1>1, <1>5, OperationsKept DEF PageSound
<1>9. AnswersTrue'
  BY <1>1, <1>3, <1>4, <1>5, PageTypes DEF AnswersTrue, Onward
<1>10. ShownLive' /\ Pairing!ConnectedIsTrue'
  BY <1>1, <1>5, ShownKept DEF Pairing!Here
<1>11. RenderedSound'
  BY <1>1, <1>5, RenderedKept
<1>12. Pairing!NoSpareLink'
  BY <1>1, QuietNoSpare DEF Pairing!Here
<1> QED
  BY <1>5, <1>6, <1>7, <1>8, <1>9, <1>10, <1>11, <1>12

LEMMA AnsweredKeeps ==
  ASSUME PagesOK, PageInv, NEW a \in answers, Pairing!Answered(a)
  PROVE  PageInv'
<1>1. /\ a.of \in Pairings /\ a.says \in {"pending", "consumed", "expired"}
      /\ answers' = answers \ {a}
      /\ UNCHANGED <<Pairing!serverVars, farewells, losses, failures, page, view, shown, target,
                     method,
                     rendered, saved, op>>
  BY PageTypes DEF PageInv, Pairing!Answered
<1>2. CASE Pairing!Here /\ Pairing!Active(a)
  <2>1. /\ status' = a.says
        /\ astray' = (IF a.of # shown /\ shown # None THEN astray \cup {shown} ELSE astray)
    BY <1>2 DEF Pairing!Answered
  <2>2. /\ a.says = "expired" => Lost(a.of)
        /\ a.says = "consumed" => Lost(a.of) /\ a.of \in linked \cup exchanging \cup astray
    BY DEF PageInv, AnswersTrue
  <2> QED
    BY <1>1, <1>2, <2>1, <2>2, StatusKeeps
<1>3. CASE ~(Pairing!Here /\ Pairing!Active(a))
  <2> USE DEF PageInv
  <2>1. UNCHANGED <<status, astray>>
    BY <1>3 DEF Pairing!Answered
  <2>2. Onward /\ TakenLinked'
    BY <1>1, <2>1, QuietOnward
  <2>3. Pairing!TypeOK' /\ NamedCreated' /\ PageSound'
    BY <1>1, <2>1 DEF Pairing!TypeOK, Pairing!serverVars, NamedCreated, Made, PageSound
  <2>4. OperationsSound' /\ BusyWith' /\ AnswersTrue'
    BY <1>1, <2>1, <2>2, OperationsKept, AnswersKept
  <2>5. ShownLive' /\ Pairing!ConnectedIsTrue'
    BY <1>1, <2>1, <2>2, ShownKept DEF Pairing!Here
  <2>6. RenderedSound'
    BY <1>1, <2>2, RenderedKept
  <2>7. Pairing!NoSpareLink'
    BY <1>1, <2>1, QuietNoSpare DEF Pairing!Here
  <2> QED
    BY <2>2, <2>3, <2>4, <2>5, <2>6, <2>7
<1> QED
  BY <1>2, <1>3

-----------------------------------------------------------------------------
(* The operations.                                                          *)

LEMMA OperationStarts ==
  ASSUME PagesOK, PageInv, Pairing!Here, ~Pairing!Busy,
         NEW kind \in Pairing!Kinds \ {"idle"}, Pairing!Start(kind),
         target' \in {"current", "other"}, method' \in {"code", "qr"},
         UNCHANGED <<Pairing!serverVars, farewells, astray, losses, failures, page, view, shown,
                     status,
                     rendered, answers, saved>>
  PROVE  PageInv'
<1> USE DEF PageInv
<1> DEFINE o == [kind |-> kind, step |-> Pairing!FirstStep(kind), old |-> Pairing!Pending, made |-> None, on |-> target]
<1>1. page \in Pages /\ op[page] = Pairing!Idle /\ op' = [op EXCEPT ![page] = o]
  BY DEF PageSound, Pairing!Here, Pairing!Busy, OperationsSound, OperationSound, Pairing!Start
<1>2. /\ Pairing!Pending \in Pairings \cup {None}
      /\ Pairing!FirstStep(kind) \in {"delete", "post", "end"}
      /\ Pairing!FirstStep(kind) = "delete" => Pairing!Pending = shown /\ Pairing!Pending \in Pairings
      /\ Pairing!FirstStep(kind) # "delete" => shown = None \/ Lost(shown)
  BY DEF Pairing!Pending, Pairing!FirstStep, Pairing!TypeOK, ShownLive
<1>3. /\ o \in OperationRow /\ o.kind # "idle" /\ o.step = Pairing!FirstStep(kind)
      /\ o.old = Pairing!Pending
      /\ o.made = None
  BY <1>2 DEF OperationRow, Pairing!TypeOK
<1> HIDE DEF o
<1>4. /\ op' \in [Pages -> OperationRow] /\ op'[page] = o
      /\ \A i \in Pages \ {page} : op'[i] = op[i]
  BY <1>1, <1>3, PageTypes
<1>5. Onward /\ TakenLinked'
  BY QuietOnward
<1>6. Pairing!TypeOK'
  BY <1>4 DEF Pairing!TypeOK, Pairing!serverVars, OperationRow
<1>7. NamedCreated' /\ PageSound'
  BY <1>3, <1>4 DEF NamedCreated, Made, Pairing!serverVars, PageSound
<1>8. OperationsSound'
  <2>1. page \in Nat
    BY PageIsNumber DEF Pairing!TypeOK
  <2>2. ~(page > page) /\ view = "ready"
    BY <2>1 DEF Pairing!Here
  <2> QED
    BY <1>2, <1>3, <1>4, <2>2 DEF OperationsSound, OperationSound
<1>9. BusyWith'
  BY <1>2, <1>3, <1>4, <1>5 DEF BusyWith, Onward, Pairing!TypeOK, Pairing!Here
<1>10. AnswersTrue' /\ ShownLive' /\ Pairing!ConnectedIsTrue'
  BY <1>5, AnswersKept, ShownKept DEF Pairing!Here
<1>11. RenderedSound'
  BY <1>5, RenderedKept
<1>12. Pairing!NoSpareLink'
  BY QuietNoSpare DEF Pairing!Here
<1> QED
  BY <1>5, <1>6, <1>7, <1>8, <1>9, <1>10, <1>11, <1>12

(* The page turns to another way of connecting, and shows what it showed or,
   if that is not pending, nothing.                                         *)
LEMMA TurnKeeps ==
  ASSUME PagesOK, PageInv, Pairing!Here, ~Pairing!Busy,
         target' \in {"current", "other"}, method' \in {"code", "qr"},
         \/ UNCHANGED <<shown, status>>
         \/ Pairing!Pending = None /\ shown' = None /\ status' = "none",
         UNCHANGED <<Pairing!serverVars, farewells, astray, losses, failures, page, view,
                     rendered, answers, saved, op>>
  PROVE  PageInv'
<1> USE DEF PageInv
<1>1. Onward /\ TakenLinked' /\ page \in Pages /\ op[page] = Pairing!Idle
  BY QuietOnward DEF PageSound, Pairing!Here, Pairing!Busy, OperationsSound, OperationSound
<1>2. Pairing!TypeOK'
  BY DEF Pairing!TypeOK, Pairing!serverVars
<1>3. NamedCreated' /\ PageSound'
  BY DEF NamedCreated, Made, Pairing!serverVars, PageSound, Pairing!Here
<1>4. OperationsSound' /\ BusyWith'
  BY <1>1, IdleRow DEF OperationsSound, OperationSound, BusyWith
<1>5. AnswersTrue'
  BY <1>1, AnswersKept
<1>6. ShownLive' /\ Pairing!ConnectedIsTrue'
  BY <1>1, ShownKept DEF ShownLive, Pairing!ConnectedIsTrue, Pairing!Here
<1>7. RenderedSound'
  BY <1>1, RenderedKept
<1>8. Pairing!NoSpareLink'
  BY QuietNoSpare DEF Pairing!Here, Pairing!Pending
<1> QED
  BY <1>1, <1>2, <1>3, <1>4, <1>5, <1>6, <1>7, <1>8

LEMMA ButtonsKeep ==
  ASSUME PagesOK, PageInv,
         Pairing!Create \/ Pairing!Cancel \/ Pairing!ToScan \/ Pairing!ToCode \/ (\E by \in {"turn", "type"} : Pairing!ChangeTarget(by))
  PROVE  PageInv'
<1>1. /\ target \in {"current", "other"} /\ method \in {"code", "qr"}
      /\ {"create", "cancel", "turn", "type", "code"} \subseteq Pairing!Kinds \ {"idle"}
  BY DEF PageInv, Pairing!TypeOK, Pairing!Kinds
<1>2. CASE Pairing!Create \/ Pairing!Cancel
  BY <1>1, <1>2, OperationStarts DEF Pairing!Create, Pairing!Cancel, Pairing!Untouched,
       Pairing!pageVars, Pairing!shownVars
<1>3. CASE Pairing!ToScan
  <2>1. /\ Pairing!Here /\ ~Pairing!Busy /\ method' \in {"code", "qr"}
        /\ target' \in {"current", "other"}
        /\ UNCHANGED <<Pairing!serverVars, farewells, astray, losses, failures, page, view, shown,
                       status,
                       rendered, answers, saved>>
        /\ Pairing!Start("create") \/ UNCHANGED op
    BY <1>1, <1>3 DEF Pairing!ToScan, Pairing!Untouched, Pairing!shownVars
  <2> QED
    BY <1>1, <2>1, OperationStarts, TurnKeeps
<1>4. CASE Pairing!ToCode
  <2>1. /\ Pairing!Here /\ ~Pairing!Busy /\ target' \in {"current", "other"}
        /\ UNCHANGED <<Pairing!serverVars, farewells, astray, losses, failures, page, view,
                       rendered, answers, saved>>
    BY <1>1, <1>4 DEF Pairing!ToCode, Pairing!Untouched
  <2>2. \/ Pairing!Start("code") /\ method' \in {"code", "qr"} /\ UNCHANGED <<shown, status>>
        \/ /\ Pairing!Pending = None /\ shown' = None /\ status' = "none" /\ method' \in {"code", "qr"}
           /\ UNCHANGED op
    BY <1>1, <1>4 DEF Pairing!ToCode, Pairing!shownVars
  <2> QED
    BY <1>1, <2>1, <2>2, OperationStarts, TurnKeeps
<1>5. ASSUME NEW by \in {"turn", "type"}, Pairing!ChangeTarget(by)
      PROVE  PageInv'
  <2>1. /\ Pairing!Here /\ ~Pairing!Busy
        /\ UNCHANGED <<Pairing!serverVars, farewells, astray, losses, failures, page, view, shown,
                       status,
                       rendered, answers, saved>>
        /\ target' \in {"current", "other"} /\ method' \in {"code", "qr"}
        /\ Pairing!Start(by) \/ UNCHANGED op
    BY <1>1, <1>5 DEF Pairing!ChangeTarget, Pairing!Untouched, Pairing!shownVars
  <2> QED
    BY <1>1, <2>1, OperationStarts, TurnKeeps
<1> QED
  BY <1>2, <1>3, <1>4, <1>5

LEMMA FailKeeps ==
  ASSUME PagesOK, PageInv, NEW i \in Pages, Pairing!Fail(i)
  PROVE  PageInv'
<1> USE DEF PageInv
<1>1. /\ op[i].step = "failed" /\ op' = [op EXCEPT ![i] = Pairing!Idle]
      /\ UNCHANGED <<Pairing!serverVars, farewells, astray, losses, failures, page, view, shown,
                     status,
                     target, method, rendered, answers, saved>>
  BY DEF Pairing!Fail, Pairing!Done, Pairing!Untouched, Pairing!pageVars, Pairing!shownVars
<1>2. /\ op' \in [Pages -> OperationRow] /\ op'[i] = Pairing!Idle /\ op[i].made = None
      /\ \A j \in Pages \ {i} : op'[j] = op[j]
  BY <1>1, PageTypes, IdleRow DEF OperationsSound, OperationSound
<1>3. Onward /\ TakenLinked'
  BY <1>1, QuietOnward
<1>4. Pairing!TypeOK'
  BY <1>1, <1>2 DEF Pairing!TypeOK, Pairing!serverVars, OperationRow
<1>5. NamedCreated' /\ PageSound'
  BY <1>1, <1>2, IdleRow DEF NamedCreated, Made, Pairing!serverVars, PageSound
<1>6. OperationsSound'
  BY <1>1, <1>2, IdleRow DEF OperationsSound, OperationSound
<1>7. BusyWith'
  BY <1>1, <1>2, <1>3, IdleRow DEF BusyWith, Onward, Pairing!TypeOK, Pairing!Here, PageSound
<1>8. AnswersTrue' /\ ShownLive' /\ Pairing!ConnectedIsTrue'
  BY <1>1, <1>3, AnswersKept, ShownKept DEF Pairing!Here
<1>9. RenderedSound'
  BY <1>1, <1>3, RenderedKept
<1>10. Pairing!NoSpareLink'
  BY <1>1, QuietNoSpare DEF Pairing!Here
<1> QED
  BY <1>3, <1>4, <1>5, <1>6, <1>7, <1>8, <1>9, <1>10

LEMMA LossTyped ==
  ASSUME PagesOK, Pairing!TypeOK, Pairing!Lose \/ UNCHANGED losses
  PROVE  losses' \in 0..MaxLosses
BY DEF PagesOK, Pairing!TypeOK, Pairing!Lose

LEMMA ReachDeleteKeeps ==
  ASSUME PagesOK, PageInv, NEW i \in Pages, Pairing!ReachDelete(i)
  PROVE  PageInv'
<1> USE DEF PageInv
<1>1. PICK answer \in BOOLEAN, reached \in BOOLEAN :
        /\ answer => reached
        /\ Pairing!Lose \/ UNCHANGED losses
        /\ rows' = (IF reached THEN Pairing!Cancelled(op[i].old) ELSE rows)
        /\ op' = [op EXCEPT ![i].step = IF answer THEN "end" ELSE "failed"]
  BY DEF Pairing!ReachDelete
<1>0. losses' \in 0..MaxLosses
  BY <1>1, LossTyped
<1>2. /\ op[i].step = "delete" /\ op[i].old \in Pairings /\ op[i].made = None /\ op[i].kind # "idle"
      /\ UNCHANGED <<over, linked, exchanging, page, view, shown, status, target, method, rendered,
                     answers, saved, farewells, astray, failures>>
  BY IdleRow DEF Pairing!ReachDelete, Pairing!pageVars, Pairing!shownVars, OperationsSound,
       OperationSound
<1>d. PICK d \in Pairings : d = op[i].old
  BY <1>2
<1> DEFINE s == IF answer THEN "end" ELSE "failed"
           o == [op[i] EXCEPT !.step = s]
<1>3. /\ o \in OperationRow /\ o.kind = op[i].kind /\ o.step = s /\ o.made = None /\ o.old = op[i].old
      /\ s \in {"end", "failed"} /\ (s = "end" => reached)
  BY <1>1, <1>2, PageTypes DEF OperationRow
<1>4. op' = [op EXCEPT ![i] = o]
  BY <1>1
<1> HIDE DEF s, o
<1>5. /\ op' \in [Pages -> OperationRow] /\ op'[i] = o
      /\ \A j \in Pages \ {i} : op'[j] = op[j]
  BY <1>3, <1>4, PageTypes
<1>6. /\ Onward /\ TakenLinked' /\ rows' \in [Pairings -> {"unused", "new", "open", "taken", "gone"}]
      /\ (reached /\ rows[d] # "unused") => Lost(d)'
      /\ \A p \in Pairings : Pairing!Usable(p)' => Pairing!Usable(p)
  <2>1. CASE reached
    <3>1. rows' = Pairing!Cancelled(d)
      BY <1>1, <1>d, <2>1
    <3>2. \A p \in Pairings : Pairing!Usable(p)' => Pairing!Usable(p)
      BY <1>2, <3>1 DEF Pairing!Cancelled, Pairing!Waits, Pairing!Usable, Pairing!TypeOK
    <3> QED
      BY <1>2, <2>1, <3>1, <3>2, CancelOnward
  <2>2. CASE ~reached
    BY <1>1, <1>2, <2>2, QuietOnward DEF Pairing!serverVars, Pairing!TypeOK, Pairing!Usable
  <2> QED
    BY <2>1, <2>2
<1>8. Pairing!TypeOK'
  BY <1>0, <1>2, <1>5, <1>6 DEF Pairing!TypeOK, OperationRow
<1>9. NamedCreated' /\ PageSound'
  BY <1>2, <1>3, <1>5, <1>6, PageTypes DEF NamedCreated, Made, Onward, PageSound, Pairing!TypeOK
<1>10. OperationsSound'
  BY <1>2, <1>3, <1>5, IdleRow DEF OperationsSound, OperationSound
<1>11. BusyWith'
  <2> SUFFICES ASSUME Pairing!Here, TRUE
               PROVE  /\ op'[page].step = "delete" => op'[page].old = shown
                      /\ op'[page].step \in {"end", "post", "made"} =>
                           \A p \in Pairings : p = shown => Lost(p)'
    <3>1. shown \in Pairings \cup {None}
      BY DEF Pairing!TypeOK
    <3> QED
      BY <1>2, <3>1 DEF BusyWith, Pairing!Here
  <2>1. page \in Pages
    BY DEF PageSound, Pairing!Here
  <2>2. CASE page # i
    BY <1>5, <1>6, <2>1, <2>2 DEF BusyWith, Onward, Pairing!TypeOK, PagesOK
  <2>3. CASE page = i
    <3>1. d = shown /\ rows[shown] # "unused"
      BY <1>2, <1>d, <2>3 DEF BusyWith, NamedCreated, Made, PagesOK
    <3>2. reached => \A p \in Pairings : p = shown => Lost(p)'
      BY <1>6, <3>1
    <3> QED
      BY <1>3, <1>5, <2>3, <3>2
  <2> QED
    BY <2>2, <2>3
<1>12. AnswersTrue' /\ ShownLive' /\ Pairing!ConnectedIsTrue'
  BY <1>2, <1>6, AnswersKept, ShownKept DEF Pairing!Here
<1>13. RenderedSound'
  BY <1>2, <1>6, RenderedKept
<1>14. Pairing!NoSpareLink'
  BY <1>2, <1>6, SpareKept DEF Pairing!Here
<1> QED
  BY <1>6, <1>8, <1>9, <1>10, <1>11, <1>12, <1>13, <1>14

(* The pairing that is created is in the hands of its operation; where the
   answer is lost, nobody ever learns of it.                                *)
LEMMA ReachPostKeeps ==
  ASSUME PagesOK, PageInv, NEW i \in Pages, Pairing!ReachPost(i)
  PROVE  PageInv'
<1> USE DEF PageInv
<1>1. /\ op[i].step = "post" /\ op[i].made = None /\ op[i].kind # "idle"
      /\ UNCHANGED <<over, linked, exchanging, page, view, shown, status, target, method, rendered,
                     answers, saved, farewells, astray, failures>>
  BY IdleRow DEF Pairing!ReachPost, Pairing!pageVars, Pairing!shownVars, OperationsSound,
       OperationSound
<1>0. losses' \in 0..MaxLosses
  BY LossTyped DEF Pairing!ReachPost
<1>2. PICK s \in {"made", "failed"}, m \in Pairings \cup {None} :
        /\ op' = [op EXCEPT ![i] = [@ EXCEPT !.step = s, !.made = m]]
        /\ s = "made" <=> m # None
        /\ \/ UNCHANGED rows /\ s = "failed"
           \/ \E p \in Pairings : rows[p] = "unused" /\ rows' = Pairing!Created(p) /\ m \in {p, None}
  <2>1. CASE Pairing!Lose /\ UNCHANGED rows /\ op' = [op EXCEPT ![i].step = "failed"]
    <3>1. op[i] \in OperationRow /\ op \in [Pages -> OperationRow]
      BY PageTypes
    <3>2. [op[i] EXCEPT !.step = "failed"] = [op[i] EXCEPT !.step = "failed", !.made = None]
      BY <1>1, <3>1 DEF OperationRow
    <3>3. op' = [op EXCEPT ![i] = [@ EXCEPT !.step = "failed", !.made = None]]
      BY <2>1, <3>1, <3>2
    <3> QED
      BY <2>1, <3>3
  <2>2. ASSUME NEW p \in Pairings,
               NEW answer \in BOOLEAN, rows[p] = "unused", rows' = Pairing!Created(p),
               op' = [op EXCEPT ![i] = [@ EXCEPT !.step = IF answer THEN "made" ELSE "failed",
                                                 !.made = IF answer THEN p ELSE None]]
        PROVE  \E s \in {"made", "failed"}, m \in Pairings \cup {None} :
                 /\ op' = [op EXCEPT ![i] = [@ EXCEPT !.step = s, !.made = m]]
                 /\ s = "made" <=> m # None
                 /\ \/ UNCHANGED rows /\ s = "failed"
                    \/ \E q \in Pairings : rows[q] = "unused" /\ rows' = Pairing!Created(q) /\ m \in {q, None}
    <3>1. CASE answer
      <4>1. /\ p \in Pairings \cup {None} /\ p # None
            /\ op' = [op EXCEPT ![i] = [@ EXCEPT !.step = "made", !.made = p]]
        BY <2>2, <3>1 DEF PagesOK
      <4> QED
        BY <2>2, <4>1
    <3>2. CASE ~answer
      <4>1. op' = [op EXCEPT ![i] = [@ EXCEPT !.step = "failed", !.made = None]]
        BY <2>2, <3>2
      <4> QED
        BY <2>2, <4>1
    <3> QED
      BY <3>1, <3>2
  <2> QED
    BY <2>1, <2>2 DEF Pairing!ReachPost
<1> DEFINE o == [op[i] EXCEPT !.step = s, !.made = m]
<1>3. /\ o \in OperationRow /\ o.kind = op[i].kind /\ o.step = s /\ o.made = m
  BY <1>1, <1>2, PageTypes DEF OperationRow
<1>4. op' = [op EXCEPT ![i] = o]
  BY <1>2
<1> HIDE DEF o
<1>5. /\ op' \in [Pages -> OperationRow] /\ op'[i] = o
      /\ \A j \in Pages \ {i} : op'[j] = op[j]
  BY <1>3, <1>4, PageTypes
<1>6. /\ Onward /\ TakenLinked' /\ rows' \in [Pairings -> {"unused", "new", "open", "taken", "gone"}]
      /\ m # None => rows'[m] # "unused"
      /\ \A p \in Pairings : Pairing!Usable(p)' => Pairing!Usable(p)
  <2>1. CASE UNCHANGED rows /\ s = "failed"
    BY <1>1, <1>2, <2>1, QuietOnward DEF Pairing!serverVars, Pairing!TypeOK, Pairing!Usable
  <2>2. CASE ~(UNCHANGED rows /\ s = "failed")
    <3>1. PICK q \in Pairings : rows[q] = "unused" /\ rows' = Pairing!Created(q) /\ m \in {q, None}
      BY <1>2, <2>2
    <3>2. /\ Onward /\ TakenLinked' /\ rows'[q] = "new"
          /\ rows' \in [Pairings -> {"unused", "new", "open", "taken", "gone"}]
      BY <1>1, <3>1, CreateOnward
    <3>3. \A p \in Pairings : Pairing!Usable(p)' => Pairing!Usable(p)
      BY <1>1, <3>1 DEF Pairing!Usable, Pairing!Created, Pairing!TypeOK
    <3> QED
      BY <3>1, <3>2, <3>3
  <2> QED
    BY <1>2, <2>1, <2>2
<1>7. Pairing!TypeOK'
  BY <1>0, <1>1, <1>5, <1>6 DEF Pairing!TypeOK, OperationRow
<1>8. NamedCreated' /\ PageSound'
  BY <1>1, <1>3, <1>5, <1>6, PageTypes DEF NamedCreated, Made, Onward, PageSound, Pairing!TypeOK
<1>9. OperationsSound'
  BY <1>1, <1>2, <1>3, <1>5, IdleRow DEF OperationsSound, OperationSound
<1>10. BusyWith'
  BY <1>1, <1>2, <1>3, <1>5, <1>6 DEF BusyWith, Pairing!Here, Onward, Pairing!TypeOK, PageSound
<1>11. AnswersTrue' /\ ShownLive' /\ Pairing!ConnectedIsTrue'
  BY <1>1, <1>6, AnswersKept, ShownKept DEF Pairing!Here
<1>12. RenderedSound'
  BY <1>1, <1>6, RenderedKept
<1>13. Pairing!NoSpareLink'
  BY <1>1, <1>6, SpareKept DEF Pairing!Here
<1> QED
  BY <1>6, <1>7, <1>8, <1>9, <1>10, <1>11, <1>12, <1>13

LEMMA EndDeleteKeeps ==
  ASSUME PagesOK, PageInv, NEW i \in Pages, Pairing!EndDelete(i)
  PROVE  PageInv'
<1> USE DEF PageInv
<1>1. /\ op[i].step = "end" /\ op[i].made = None /\ op[i].kind # "idle"
      /\ saved' = (IF op[i].kind = "code" THEN saved ELSE None)
      /\ astray' = (IF saved' = saved THEN astray ELSE astray \cup ({saved} \ {None, shown}))
      /\ UNCHANGED <<Pairing!serverVars, page, view, rendered, answers, farewells, losses, failures>>
  BY IdleRow DEF Pairing!EndDelete, Pairing!Displaced, OperationsSound, OperationSound
<1>2. astray \subseteq astray' /\ astray' \subseteq Pairings
  BY <1>1 DEF Pairing!TypeOK
<1>3. Onward /\ TakenLinked'
  BY <1>1, <1>2, QuietOnward
<1>4. PICK o \in OperationRow :
        /\ op' = [op EXCEPT ![i] = o]
        /\ o = Pairing!Idle \/ (o.step = "post" /\ o.kind = "create" /\ o.made = None /\ op[i].kind = "create")
        /\ op[i].kind # "create" => o = Pairing!Idle
  <2>1. CASE op[i].kind = "create"
    <3>1. op[i] \in OperationRow /\ op' = [op EXCEPT ![i] = [@ EXCEPT !.step = "post", !.old = None]]
      BY <2>1, PageTypes DEF Pairing!EndDelete
    <3>2. /\ [op[i] EXCEPT !.step = "post", !.old = None] \in OperationRow
          /\ [op[i] EXCEPT !.step = "post", !.old = None].step = "post"
          /\ [op[i] EXCEPT !.step = "post", !.old = None].kind = "create"
          /\ [op[i] EXCEPT !.step = "post", !.old = None].made = None
      BY <1>1, <2>1, <3>1 DEF OperationRow
    <3>3. op' = [op EXCEPT ![i] = [op[i] EXCEPT !.step = "post", !.old = None]]
      BY <3>1, PageTypes
    <3> QED
      BY <2>1, <3>2, <3>3
  <2>2. CASE op[i].kind # "create"
    BY <2>2, IdleRow DEF Pairing!EndDelete, Pairing!Done
  <2> QED
    BY <2>1, <2>2
<1>5. /\ op' \in [Pages -> OperationRow] /\ op'[i] = o
      /\ \A j \in Pages \ {i} : op'[j] = op[j]
  BY <1>4, PageTypes
<1>6. /\ target' \in {"current", "other"} /\ method' \in {"code", "qr"}
      /\ \/ UNCHANGED <<shown, status>> /\ (Pairing!On(i) => op[i].kind = "create")
         \/ shown' = None /\ status' = "none" /\ Pairing!On(i)
  <2>1. CASE op[i].kind = "create"
    BY <2>1 DEF Pairing!EndDelete, Pairing!shownVars, Pairing!TypeOK
  <2>2. CASE op[i].kind # "create" /\ Pairing!On(i)
    BY <2>2 DEF Pairing!EndDelete, Pairing!TypeOK
  <2>3. CASE op[i].kind # "create" /\ ~Pairing!On(i)
    BY <2>3 DEF Pairing!EndDelete, Pairing!shownVars, Pairing!TypeOK
  <2> QED
    BY <2>1, <2>2, <2>3
<1>7. Pairing!On(i) => shown = None \/ Lost(shown)
  BY <1>1 DEF Pairing!On, BusyWith
<1>8. Pairing!TypeOK'
  BY <1>1, <1>2, <1>5, <1>6 DEF Pairing!TypeOK, Pairing!serverVars, OperationRow
<1>9. NamedCreated' /\ PageSound'
  BY <1>1, <1>4, <1>5, <1>6, IdleRow DEF NamedCreated, Made, Pairing!serverVars, PageSound
<1>10. OperationsSound'
  BY <1>1, <1>4, <1>5, IdleRow DEF OperationsSound, OperationSound
<1>11. BusyWith'
  <2>1. CASE Pairing!Here /\ page = i
    BY <1>1, <1>3, <1>4, <1>5, <1>6, <1>7, <2>1, IdleRow DEF BusyWith, Onward, Pairing!TypeOK,
         Pairing!On, Pairing!Here
  <2>2. CASE ~(Pairing!Here /\ page = i)
    BY <1>1, <1>3, <1>5, <1>6, <2>2 DEF BusyWith, Onward, Pairing!TypeOK, Pairing!On,
         Pairing!Here, PageSound
  <2> QED
    BY <2>1, <2>2
<1>12. AnswersTrue' /\ ShownLive' /\ Pairing!ConnectedIsTrue'
  <2>1. AnswersTrue'
    BY <1>1, <1>3, AnswersKept
  <2>2. CASE UNCHANGED <<shown, status>>
    BY <1>1, <1>3, <2>1, <2>2, ShownKept DEF Pairing!Here
  <2>3. CASE shown' = None
    BY <2>1, <2>3 DEF ShownLive, Pairing!ConnectedIsTrue
  <2> QED
    BY <1>6, <2>2, <2>3
<1>13. RenderedSound'
  BY <1>1, <1>3, RenderedKept
<1>14. Pairing!NoSpareLink'
  <2>1. Pairing!Here /\ shown # None /\ status = "pending" =>
          (Pairing!Here' /\ shown' = shown /\ status' = "pending") \/ Lost(shown)
    BY <1>1, <1>6, <1>7 DEF Pairing!Here
  <2>2. saved # None => saved' = saved \/ Lost(saved) \/ saved \in astray'
                        \/ (Pairing!Here' /\ shown' = saved /\ status' = "pending")
    BY <1>1, <2>1 DEF ShownLive, PageSound, Pairing!Here
  <2> QED
    BY <1>1, <1>2, <2>1, <2>2, QuietNoSpare
<1> QED
  BY <1>3, <1>8, <1>9, <1>10, <1>11, <1>12, <1>13, <1>14

LEMMA EndPostKeeps ==
  ASSUME PagesOK, PageInv, NEW i \in Pages, Pairing!EndPost(i)
  PROVE  PageInv'
<1> USE DEF PageInv
<1>1. PICK p \in Pairings : p = op[i].made /\ rows[p] # "unused"
  BY DEF Pairing!EndPost, OperationsSound, OperationSound, NamedCreated, Made, PagesOK
<1>2. /\ op[i].step = "made" /\ op' = [op EXCEPT ![i] = Pairing!Idle]
      /\ rows' = (IF rows[p] = "new" /\ op[i].on = "current"
                 THEN [rows EXCEPT ![p] = "open"] ELSE rows)
      /\ shown' = (IF Pairing!On(i) THEN p ELSE shown)
      /\ status' = (IF Pairing!On(i) THEN "pending" ELSE status)
      /\ saved' = (IF op[i].on = "current" THEN p ELSE saved)
      /\ astray' = (IF saved' = saved THEN astray ELSE astray \cup ({saved} \ {None, shown}))
      /\ UNCHANGED <<over, linked, exchanging, page, view, target, method, rendered, answers,
                     farewells, losses, failures>>
  BY <1>1 DEF Pairing!EndPost, Pairing!Displaced, Pairing!Done
<1>3. /\ op' \in [Pages -> OperationRow] /\ op'[i] = Pairing!Idle
      /\ \A j \in Pages \ {i} : op'[j] = op[j]
  BY <1>2, PageTypes, IdleRow
<1>4. /\ astray \subseteq astray' /\ astray' \subseteq Pairings /\ p # None
      /\ saved \in Pairings \cup {None} /\ shown \in Pairings \cup {None}
  BY <1>2 DEF Pairing!TypeOK, PagesOK
<1>5. /\ rows' \in [Pairings -> {"unused", "new", "open", "taken", "gone"}]
      /\ \A q \in Pairings : rows'[q] = rows[q] \/ (rows[q] = "new" /\ rows'[q] = "open")
  BY <1>2 DEF Pairing!TypeOK
<1>6. /\ Onward /\ TakenLinked'
      /\ \A q \in Pairings :
           (Lasting(q)' <=> Lasting(q)) /\ (rows[q] = "unused" <=> rows'[q] = "unused")
  <2>1. \A q \in Pairings : (Lasting(q)' <=> Lasting(q)) /\ (rows[q] = "unused" <=> rows'[q] = "unused")
    BY <1>2, <1>5 DEF Lasting, Pairing!Waits
  <2>2. TakenLinked'
    BY <1>2, <1>5 DEF TakenLinked
  <2>3. \A q \in Pairings : Lost(q) => Lost(q)'
    BY <1>4, <2>1 DEF Lost
  <2> QED
    BY <1>2, <1>4, <2>1, <2>2, <2>3 DEF Onward
<1>7. Pairing!On(i) => shown = None \/ Lost(shown)
  BY <1>2 DEF Pairing!On, BusyWith
<1>8. Pairing!TypeOK'
  BY <1>2, <1>3, <1>4, <1>5 DEF Pairing!TypeOK, OperationRow
<1>9. NamedCreated'
  BY <1>1, <1>2, <1>3, <1>4, <1>6, PageTypes, IdleRow DEF NamedCreated, Made, Pairing!TypeOK
<1>10. PageSound'
  BY <1>2 DEF PageSound, Pairing!On, Pairing!Here
<1>11. OperationsSound'
  BY <1>2, <1>3, IdleRow DEF OperationsSound, OperationSound
<1>12. BusyWith'
  <2>1. CASE Pairing!Here /\ page = i
    BY <1>2, <1>3, <2>1, IdleRow DEF BusyWith
  <2>2. CASE ~(Pairing!Here /\ page = i)
    BY <1>2, <1>3, <1>4, <1>6, <2>2 DEF BusyWith, Onward, Pairing!On, Pairing!Here, PageSound
  <2> QED
    BY <2>1, <2>2
<1>13. AnswersTrue' /\ ShownLive' /\ Pairing!ConnectedIsTrue'
  <2>1. AnswersTrue'
    BY <1>2, <1>6, AnswersKept
  <2>2. CASE Pairing!On(i)
    BY <1>2, <2>1, <2>2 DEF ShownLive, Pairing!ConnectedIsTrue
  <2>3. CASE ~Pairing!On(i)
    BY <1>2, <1>6, <2>1, <2>3, ShownKept DEF Pairing!Here
  <2> QED
    BY <2>2, <2>3
<1>14. RenderedSound'
  BY <1>2, <1>6, RenderedKept
<1>15. Pairing!NoSpareLink'
  <2>1. \A q \in Pairings : Pairing!Usable(q)' => Pairing!Usable(q) \/ q = saved'
    BY <1>1, <1>2, <1>5 DEF Pairing!Usable, Pairing!TypeOK
  <2>2. Pairing!Here /\ shown # None /\ status = "pending" =>
          (Pairing!Here' /\ shown' = shown /\ status' = "pending") \/ Lost(shown)
    BY <1>2, <1>7 DEF Pairing!Here
  <2>3. saved # None => saved' = saved \/ Lost(saved) \/ saved \in astray'
                        \/ (Pairing!Here' /\ shown' = saved /\ status' = "pending")
    BY <1>2, <2>2 DEF ShownLive, PageSound, Pairing!Here
  <2> QED
    BY <1>2, <1>6, <2>1, <2>2, <2>3, SpareKept
<1> QED
  BY <1>6, <1>8, <1>9, <1>10, <1>11, <1>12, <1>13, <1>14, <1>15

-----------------------------------------------------------------------------
(* The page is left or reloaded.                                            *)

LEMMA LeaveKeeps ==
  ASSUME PagesOK, PageInv, Pairing!Leave
  PROVE  PageInv'
<1> USE DEF PageInv
<1>1. /\ view # "away" /\ view' = "away" /\ saved' = (IF rendered.of = None THEN saved ELSE None)
      /\ farewells' = farewells \cup ({Pairing!Bound} \ {None})
      /\ astray' = astray \cup ({saved, shown} \ {None, rendered.of, saved'})
      /\ shown' = None /\ status' = "none" /\ rendered' = Pairing!Nothing /\ answers' = {}
      /\ UNCHANGED <<Pairing!serverVars, losses, failures, page, target, method, op>>
  BY DEF Pairing!Leave
<1>2. astray \subseteq astray' /\ astray' \subseteq Pairings /\ farewells' \subseteq Pairings
  BY <1>1 DEF Pairing!TypeOK, Pairing!Bound
<1>3. Onward /\ TakenLinked'
  BY <1>1, <1>2, QuietOnward
<1>4. Pairing!TypeOK'
  BY <1>1, <1>2 DEF Pairing!TypeOK, Pairing!serverVars, Pairing!Nothing
<1>5. NamedCreated' /\ PageSound' /\ OperationsSound'
  BY <1>1 DEF NamedCreated, Made, Pairing!serverVars, PageSound, OperationsSound, OperationSound,
       Pairing!Nothing
<1>6. BusyWith' /\ AnswersTrue' /\ ShownLive' /\ RenderedSound' /\ Pairing!ConnectedIsTrue'
  BY <1>1 DEF BusyWith, AnswersTrue, ShownLive, RenderedSound, Pairing!ConnectedIsTrue,
       Pairing!Here, Pairing!Nothing
<1>7. Pairing!NoSpareLink'
  <2>1. rendered.of # None => Lost(rendered.of) \/ rendered.of \in farewells'
    BY <1>1 DEF RenderedSound, Pairing!Bound
  <2>2. /\ shown # None => Lost(shown) \/ shown \in astray' \cup farewells' \cup {saved'}
        /\ saved # None => saved' = saved \/ Lost(saved) \/ saved \in astray' \cup farewells'
    BY <1>1, <2>1
  <2> QED
    BY <1>1, <1>2, <2>2, QuietNoSpare
<1> QED
  BY <1>3, <1>4, <1>5, <1>6, <1>7

LEMMA ReloadKeeps ==
  ASSUME PagesOK, PageInv, Pairing!Reload
  PROVE  PageInv'
<1> USE DEF PageInv
<1>1. /\ view' = "away" /\ shown' = None /\ status' = "none" /\ rendered' = Pairing!Nothing /\ answers' = {}
      /\ op' = [i \in Pages |-> Pairing!Idle]
      /\ astray' = astray \cup ({shown} \ {None, saved})
      /\ UNCHANGED <<Pairing!serverVars, farewells, losses, failures, page, target, method, saved>>
  BY DEF Pairing!Reload
<1>2. astray \subseteq astray' /\ astray' \subseteq Pairings
  BY <1>1, PageTypes DEF Pairing!TypeOK
<1>3. Onward /\ TakenLinked'
  BY <1>1, <1>2, QuietOnward
<1>4. op' \in [Pages -> OperationRow] /\ \A i \in Pages : op'[i] = Pairing!Idle
  BY <1>1, IdleRow
<1>5. Pairing!TypeOK'
  BY <1>1, <1>2, <1>4 DEF Pairing!TypeOK, Pairing!serverVars, OperationRow, Pairing!Nothing
<1>6. NamedCreated' /\ PageSound' /\ OperationsSound'
  BY <1>1, <1>4, IdleRow DEF NamedCreated, Made, Pairing!serverVars, PageSound, OperationsSound,
       OperationSound, Pairing!Nothing
<1>7. BusyWith' /\ AnswersTrue' /\ ShownLive' /\ RenderedSound' /\ Pairing!ConnectedIsTrue'
  BY <1>1 DEF BusyWith, AnswersTrue, ShownLive, RenderedSound, Pairing!ConnectedIsTrue,
       Pairing!Here, Pairing!Nothing
<1>8. Pairing!NoSpareLink'
  <2>1. shown # None => shown \in astray' \cup {saved'}
    BY <1>1
  <2> QED
    BY <1>1, <1>2, <2>1, QuietNoSpare
<1> QED
  BY <1>3, <1>5, <1>6, <1>7, <1>8

-----------------------------------------------------------------------------
LEMMA PageInitially ==
  ASSUME PagesOK, Pairing!Init
  PROVE  PageInv
<1>1. /\ rows = [p \in Pairings |-> "unused"] /\ over = {} /\ linked = {} /\ exchanging = {}
      /\ page = 0 /\ view = "away" /\ shown = None /\ status = "none" /\ target = "current"
      /\ method = "qr" /\ rendered = Pairing!Nothing /\ answers = {} /\ saved = None /\ farewells = {}
      /\ astray = {} /\ losses = 0 /\ failures = 0
  BY DEF Pairing!Init
<1>2. op \in [Pages -> OperationRow] /\ \A i \in Pages : op[i] = Pairing!Idle
  BY IdleRow DEF Pairing!Init
<1>3. 0 \in 0..Pairing!Cardinality(Pages)
  <2>1. PICK n \in Nat : Pages = 1..n
    BY DEF PagesOK
  <2>2. Cardinality(1..n) = n
    BY FS_Interval
  <2> QED
    BY <2>1, <2>2, PairingCardinality
<1>4. Pairing!TypeOK
  BY <1>1, <1>2, <1>3 DEF Pairing!TypeOK, OperationRow, PagesOK, Pairing!Nothing
<1>5. NamedCreated /\ PageSound /\ OperationsSound
  BY <1>1, <1>2, IdleRow DEF NamedCreated, Made, PageSound, OperationsSound, OperationSound, Pairing!Nothing
<1>6. BusyWith /\ TakenLinked /\ AnswersTrue /\ ShownLive /\ RenderedSound /\ Pairing!ConnectedIsTrue
  BY <1>1 DEF BusyWith, TakenLinked, AnswersTrue, ShownLive, RenderedSound, Pairing!ConnectedIsTrue,
       Pairing!Nothing,       Pairing!Here
<1>7. Pairing!NoSpareLink
  BY <1>1 DEF Pairing!NoSpareLink, Pairing!Usable
<1> QED
  BY <1>4, <1>5, <1>6, <1>7 DEF PageInv

LEMMA PageStays ==
  ASSUME PagesOK, PageInv, [Pairing!Next]_(Pairing!connectVars)
  PROVE  PageInv'
<1>1. CASE Pairing!Next
  <2>1. \A p \in Pairings :
          Pairing!Elapse(p) \/ Pairing!Take(p) \/ Pairing!Grant(p) \/ Pairing!GiveBack(p)
          \/ Pairing!Farewell(p) => PageInv'
    BY ElapseKeeps, TakingKeeps, GrantKeeps, GiveBackKeeps, FarewellKeeps
  <2>2. \A i \in Pages : Pairing!Step(i) => PageInv'
    BY ReachDeleteKeeps, ReachPostKeeps, EndDeleteKeeps, EndPostKeeps, FailKeeps DEF Pairing!Step
  <2> QED
    BY <1>1, <2>1, <2>2, OpenKeeps, SignedInKeeps, RenderKeeps, CountDownKeeps, PollKeeps,
         AnsweredKeeps,
       ButtonsKeep, LeaveKeeps, ReloadKeeps DEF Pairing!Next
<1>2. CASE UNCHANGED Pairing!connectVars
  <2>1. /\ UNCHANGED Pairing!serverVars
        /\ UNCHANGED <<Pairing!pageVars, saved, op, farewells, astray, losses, failures>>
    BY <1>2 DEF Pairing!connectVars
  <2>2. UNCHANGED <<rows, over, linked, exchanging, page, view, shown, status, target, method,
                    rendered, answers>>
    BY <2>1 DEF Pairing!serverVars, Pairing!pageVars, Pairing!shownVars
  <2>3. Onward /\ TakenLinked' /\ Pairing!TypeOK'
    BY <2>1, <2>2, QuietOnward DEF PageInv, Pairing!TypeOK
  <2> QED
    BY <2>1, <2>2, <2>3, Unseen DEF Pairing!Usable
<1> QED
  BY <1>1, <1>2

(* A link that was given out and can still be used is one the person sees or
   the browser remembers, or its last DELETE is under way; and when the page
   says that the device is connected, it is.  So for any number of pairings,
   of times the page is opened and of polls under way, with the exceptions
   that `astray' remembers.                                                 *)
THEOREM ConnectPageCorrect ==
  ASSUME PagesOK
  PROVE  Pairing!Spec => [](Pairing!TypeOK /\ Pairing!NoSpareLink /\ Pairing!ConnectedIsTrue)
<1>1. Pairing!Init => PageInv
  BY PageInitially
<1>2. PageInv /\ [Pairing!Next]_(Pairing!connectVars) => PageInv'
  BY PageStays
<1>3. PageInv => Pairing!TypeOK /\ Pairing!NoSpareLink /\ Pairing!ConnectedIsTrue
  BY DEF PageInv
<1> QED
  BY <1>1, <1>2, <1>3, PTL DEF Pairing!Spec

-----------------------------------------------------------------------------
(* Its other half, where the code that a device shows is typed (ConnectCode). *)
(* Codes are not null, nor part of one; the bounds are numbers.             *)
CodesOK == None \notin Codes /\ Typing!Partial \notin Codes /\ MaxRequests \in Nat /\ MaxLosses \in Nat

(* Loads are numbered in their order, and the last one is of the field.     *)
LoadsFollow ==
  \A l \in loads : l.number <= number /\ (l.number = number /\ ~crossed => l.code = field)
DecisionsFollow == \A d \in deciding : ~crossed => d.code = field

(* What an answer says is settled at the server.                            *)
Settled(c, s) == s \in {"approved", "denied"} => gate[c] = s
AnswersSettled ==
  /\ \A l \in loads : Settled(l.code, l.says)
  /\ \A d \in deciding : d.says = "done" => gate[d.code] = d.action

OutcomeNamed == completed # "none" => outcomeOf \in Codes
SignedOut == ~signedIn => ~busy /\ loads = {} /\ authorization = None

CodeInv ==
  /\ Typing!TypeOK /\ LoadsFollow /\ DecisionsFollow /\ AnswersSettled /\ OutcomeNamed /\ SignedOut
  /\ Typing!OfTheFieldTyped /\ Typing!OutcomeIsTrue /\ Typing!WaitsForSomething

LoadRow == [number : 0..MaxRequests, code : Codes,
            says : {"waiting", "pending", "approved", "denied", "unknown", "lost"}]
DecisionRow == [code : Codes, action : {"approved", "denied"},
                says : {"waiting", "done", "refused", "lost"}]

-----------------------------------------------------------------------------
LEMMA CodeTypes ==
  ASSUME Typing!TypeOK
  PROVE  /\ number \in Nat /\ loads \subseteq LoadRow /\ deciding \subseteq DecisionRow
         /\ \A l \in loads : l.number \in Nat /\ l.code \in Codes
         /\ \A d \in deciding : d.code \in Codes /\ d.action \in {"approved", "denied"}
BY DEF Typing!TypeOK, LoadRow, DecisionRow

(* A load begins with a number of its own.                                  *)
LEMMA LoadKeeps ==
  ASSUME CodesOK, CodeInv, NEW c \in Codes, NEW n \in 0..MaxRequests, n > number, Typing!Load(c, n),
         field' \in {field, c}, (~crossed' => ~crossed /\ field' = c), crossed' \in BOOLEAN,
         signedIn' = TRUE,
         authorization' \in {authorization, None}, field' # field => authorization' = None,
         (field' # field /\ ~crossed') => (deciding = {} /\ completed = "none"),
         UNCHANGED <<gate, link, completed, deciding, outcomeOf, lostAnswers>>
  PROVE  CodeInv'
<1> USE DEF CodeInv
<1>1. /\ number \in Nat /\ n \in Nat
      /\ \A l \in loads : l.number \in Nat /\ l.code \in Codes
  BY CodeTypes DEF CodesOK
<1>2. /\ loads' = loads \cup {[number |-> n, code |-> c, says |-> "waiting"]} /\ number' = n
      /\ busy' = TRUE
  BY DEF Typing!Load
<1>3. Typing!TypeOK'
  BY <1>2 DEF Typing!TypeOK
<1>4. LoadsFollow'
  BY <1>1, <1>2 DEF LoadsFollow
<1>5. DecisionsFollow' /\ Typing!OfTheFieldTyped'
  BY DEF DecisionsFollow, Typing!OfTheFieldTyped
<1>6. AnswersSettled'
  BY <1>2 DEF AnswersSettled, Settled
<1>7. OutcomeNamed' /\ Typing!OutcomeIsTrue' /\ SignedOut'
  BY DEF OutcomeNamed, Typing!OutcomeIsTrue, SignedOut
<1>8. Typing!WaitsForSomething'
  <2>1. [number |-> n, code |-> c, says |-> "waiting"] \in loads'
    BY <1>2
  <2>2. \E l \in loads' : l.number = number'
    BY <2>1, <1>2
  <2> QED
    BY <2>2 DEF Typing!WaitsForSomething, Typing!Current
<1> QED
  BY <1>3, <1>4, <1>5, <1>6, <1>7, <1>8

LEMMA SignInKeeps ==
  ASSUME CodesOK, CodeInv, Typing!SignIn
  PROVE  CodeInv'
<1> USE DEF CodeInv
<1>1. CASE link # None /\ number < MaxRequests
  <2>1. /\ link \in Codes /\ number \in Nat /\ number + 1 \in 0..MaxRequests /\ number + 1 > number
        /\ Typing!Load(link, number + 1) /\ crossed \in BOOLEAN
    BY <1>1, CodeTypes DEF Typing!SignIn, Typing!TypeOK, CodesOK
  <2>2. /\ field' = field /\ (crossed' <=> (crossed \/ field # link)) /\ crossed' \in BOOLEAN
        /\ signedIn' = TRUE
        /\ UNCHANGED <<gate, link, completed, deciding, outcomeOf, lostAnswers, authorization>>
    BY <1>1, <2>1 DEF Typing!SignIn
  <2> QED
    BY <2>1, <2>2, LoadKeeps
<1>2. CASE ~(link # None /\ number < MaxRequests)
  <2>1. /\ signedIn' = TRUE /\ link = None /\ crossed \in BOOLEAN /\ crossed' = crossed
        /\ UNCHANGED <<gate, link, field, number, loads, authorization, busy, completed,
                       deciding, outcomeOf, lostAnswers>>
    BY <1>2 DEF Typing!SignIn, Typing!TypeOK
  <2> QED
    BY <2>1 DEF Typing!TypeOK, LoadsFollow, DecisionsFollow, AnswersSettled, Settled,
         OutcomeNamed, SignedOut,
                Typing!OfTheFieldTyped, Typing!OutcomeIsTrue, Typing!WaitsForSomething, Typing!Current
<1> QED
  BY <1>1, <1>2

LEMMA ViewKeeps ==
  ASSUME CodesOK, CodeInv, Typing!View
  PROVE  CodeInv'
<1>1. /\ field \in Codes /\ number \in Nat /\ number + 1 \in 0..MaxRequests /\ number + 1 > number
      /\ Typing!Load(field, number + 1) /\ crossed \in BOOLEAN /\ signedIn = TRUE
  BY CodeTypes DEF CodeInv, Typing!View, Typing!TypeOK, CodesOK
<1>2. UNCHANGED <<gate, link, signedIn, field, authorization, completed, deciding, outcomeOf,
                  crossed, lostAnswers>>
  BY DEF Typing!View
<1> QED
  BY <1>1, <1>2, LoadKeeps

LEMMA TypeKeeps ==
  ASSUME CodesOK, CodeInv, NEW v \in Codes \cup {Typing!Partial}, Typing!Type(v)
  PROVE  CodeInv'
<1> USE DEF CodeInv
<1>1. /\ completed = "none" /\ field' = v /\ authorization' = None /\ number \in Nat
      /\ number + 2 \in 0..MaxRequests /\ number + 1 \in 0..MaxRequests
      /\ number + 2 > number /\ number + 1 > number
      /\ crossed' = (crossed \/ deciding # {}) /\ crossed' \in BOOLEAN
      /\ UNCHANGED <<gate, link, signedIn, completed, deciding, outcomeOf, lostAnswers>>
  <2>1. number \in Nat /\ number + 2 <= MaxRequests /\ MaxRequests \in Nat
    BY CodeTypes DEF Typing!Type, CodesOK
  <2>2. /\ number + 2 \in 0..MaxRequests /\ number + 1 \in 0..MaxRequests
        /\ number + 2 > number /\ number + 1 > number
    BY <2>1
  <2>3. crossed' = (crossed \/ deciding # {})
    BY DEF Typing!Type
  <2>4. crossed' \in BOOLEAN
    BY <2>3
  <2>5. /\ completed = "none" /\ field' = v /\ authorization' = None
        /\ UNCHANGED <<gate, link, signedIn, completed, deciding, outcomeOf, lostAnswers>>
    BY DEF Typing!Type
  <2> QED
    BY <2>1, <2>2, <2>3, <2>4, <2>5
<1>2. CASE signedIn /\ v \in Codes
  <2>1. Typing!Load(v, number + 2) /\ signedIn' = TRUE
    BY <1>1, <1>2 DEF Typing!Type, Typing!TypeOK
  <2> QED
    BY <1>1, <1>2, <2>1, LoadKeeps
<1>3. CASE ~(signedIn /\ v \in Codes)
  <2>1. number' = number + 1 /\ UNCHANGED <<loads, busy>>
    BY <1>3 DEF Typing!Type
  <2>2. \A l \in loads : l.number \in Nat /\ l.number <= number /\ l.number # number'
    BY <1>1, <2>1, CodeTypes DEF LoadsFollow
  <2>3. Typing!TypeOK'
    BY <1>1, <2>1 DEF Typing!TypeOK
  <2>4. LoadsFollow'
    BY <1>1, <2>1, <2>2 DEF LoadsFollow
  <2>5. /\ DecisionsFollow' /\ Typing!OfTheFieldTyped' /\ OutcomeNamed' /\ Typing!OutcomeIsTrue'
        /\ SignedOut'
    BY <1>1, <2>1 DEF DecisionsFollow, Typing!OfTheFieldTyped, OutcomeNamed, Typing!OutcomeIsTrue,
         SignedOut
  <2>6. AnswersSettled'
    BY <1>1, <2>1 DEF AnswersSettled, Settled
  <2>7. Typing!WaitsForSomething'
    BY <1>1, <1>3, <2>1 DEF Typing!WaitsForSomething, SignedOut
  <2> QED
    BY <2>3, <2>4, <2>5, <2>6, <2>7
<1> QED
  BY <1>2, <1>3

LEMMA LoadReadKeeps ==
  ASSUME CodesOK, CodeInv, NEW l \in loads, Typing!Read(l)
  PROVE  CodeInv'
<1> USE DEF CodeInv
<1>1. PICK s \in {"pending", "approved", "denied", "unknown", "lost"} :
        /\ loads' = (loads \ {l}) \cup {[l EXCEPT !.says = s]}
        /\ Settled(l.code, s) /\ lostAnswers' \in 0..MaxLosses
  <2>1. l.code \in Codes /\ gate[l.code] \in {"pending", "approved", "denied", "expired", "unknown"}
    BY CodeTypes DEF Typing!TypeOK
  <2>2. CASE loads' = (loads \ {l}) \cup {[l EXCEPT !.says = Typing!Shows(l.code)]} /\ UNCHANGED lostAnswers
    BY <2>1, <2>2 DEF Typing!Shows, Settled, Typing!TypeOK
  <2>3. CASE lostAnswers < MaxLosses /\ lostAnswers' = lostAnswers + 1
             /\ loads' = (loads \ {l}) \cup {[l EXCEPT !.says = "lost"]}
    BY <2>3 DEF Settled, Typing!TypeOK, CodesOK
  <2> QED
    BY <2>2, <2>3 DEF Typing!Read
<1>2. UNCHANGED <<gate, link, signedIn, field, number, authorization, busy, completed, deciding,
                  outcomeOf, crossed>>
  BY DEF Typing!Read
<1> DEFINE m == [l EXCEPT !.says = s]
<1>3. m \in LoadRow /\ m.number = l.number /\ m.code = l.code /\ m.says = s
  BY CodeTypes DEF LoadRow
<1>4. loads' = (loads \ {l}) \cup {m}
  BY <1>1
<1> HIDE DEF m
<1>5. Typing!TypeOK'
  BY <1>1, <1>2, <1>3, <1>4 DEF Typing!TypeOK, LoadRow
<1>6. LoadsFollow' /\ AnswersSettled'
  BY <1>1, <1>2, <1>3, <1>4 DEF LoadsFollow, AnswersSettled, Settled
<1>7. DecisionsFollow' /\ Typing!OfTheFieldTyped' /\ OutcomeNamed' /\ Typing!OutcomeIsTrue'
  BY <1>2 DEF DecisionsFollow, Typing!OfTheFieldTyped, OutcomeNamed, Typing!OutcomeIsTrue
<1>8. SignedOut'
  BY <1>2 DEF SignedOut
<1>9. Typing!WaitsForSomething'
  <2>1. \A k \in loads : Typing!Current(k) => \E h \in loads' : h.number = number'
    BY <1>2, <1>3, <1>4 DEF Typing!Current
  <2> QED
    BY <2>1, <1>2 DEF Typing!WaitsForSomething, Typing!Current
<1> QED
  BY <1>5, <1>6, <1>7, <1>8, <1>9

LEMMA LoadedKeeps ==
  ASSUME CodesOK, CodeInv, NEW l \in loads, Typing!Loaded(l)
  PROVE  CodeInv'
<1> USE DEF CodeInv
<1>1. /\ loads' = loads \ {l} /\ l.code \in Codes
      /\ UNCHANGED <<gate, link, signedIn, field, number, deciding, crossed, lostAnswers>>
  BY CodeTypes DEF Typing!Loaded
<1>2. LoadsFollow' /\ DecisionsFollow' /\ AnswersSettled'
  BY <1>1 DEF LoadsFollow, DecisionsFollow, AnswersSettled, Settled
<1>3. signedIn
  BY DEF SignedOut
<1>4. CASE ~Typing!Current(l)
  <2>1. UNCHANGED <<authorization, busy, completed, outcomeOf>>
    BY <1>4 DEF Typing!Loaded
  <2> QED
    BY <1>1, <1>2, <1>3, <1>4, <2>1
    DEF Typing!TypeOK, OutcomeNamed, SignedOut, Typing!OfTheFieldTyped, Typing!OutcomeIsTrue,
        Typing!WaitsForSomething, Typing!Current
<1>5. CASE Typing!Current(l)
  <2>1. /\ authorization' \in {l.code, None} /\ busy' = FALSE
        /\ \/ l.says \in {"approved", "denied"} /\ completed' = l.says /\ outcomeOf' = l.code
           \/ UNCHANGED <<completed, outcomeOf>>
    BY <1>5 DEF Typing!Loaded
  <2>2. ~crossed => l.code = field
    BY <1>5 DEF Typing!Current, LoadsFollow
  <2>3. l.says \in {"approved", "denied"} => gate[l.code] = l.says
    BY DEF AnswersSettled, Settled
  <2>4. Typing!TypeOK'
    BY <1>1, <2>1 DEF Typing!TypeOK
  <2>5. Typing!OfTheFieldTyped' /\ OutcomeNamed' /\ Typing!OutcomeIsTrue'
    BY <1>1, <2>1, <2>2, <2>3 DEF Typing!OfTheFieldTyped, OutcomeNamed, Typing!OutcomeIsTrue
  <2>6. SignedOut' /\ Typing!WaitsForSomething'
    BY <1>1, <1>3, <2>1 DEF SignedOut, Typing!WaitsForSomething
  <2> QED
    BY <1>2, <2>4, <2>5, <2>6
<1> QED
  BY <1>4, <1>5

LEMMA DecideKeeps ==
  ASSUME CodesOK, CodeInv, NEW action \in {"approved", "denied"}, Typing!Decide(action)
  PROVE  CodeInv'
<1> USE DEF CodeInv
<1> DEFINE d == [code |-> authorization, action |-> action, says |-> "waiting"]
<1>1. /\ authorization \in Codes /\ signedIn /\ busy' = TRUE /\ deciding' = deciding \cup {d}
      /\ UNCHANGED <<gate, link, signedIn, field, number, loads, authorization, completed,
                     outcomeOf, crossed, lostAnswers>>
  BY DEF Typing!Decide, Typing!TypeOK, SignedOut
<1>2. d.code = authorization /\ d.says = "waiting" /\ d \in DecisionRow /\ d \in deciding'
  BY <1>1 DEF DecisionRow
<1> HIDE DEF d
<1>3. Typing!TypeOK'
  BY <1>1, <1>2 DEF Typing!TypeOK, DecisionRow
<1>4. LoadsFollow' /\ DecisionsFollow' /\ AnswersSettled'
  BY <1>1, <1>2 DEF LoadsFollow, DecisionsFollow, AnswersSettled, Settled, Typing!OfTheFieldTyped,
       CodesOK
<1>5. /\ Typing!OfTheFieldTyped' /\ OutcomeNamed' /\ Typing!OutcomeIsTrue' /\ SignedOut'
      /\ Typing!WaitsForSomething'
  BY <1>1, <1>2 DEF Typing!OfTheFieldTyped, OutcomeNamed, Typing!OutcomeIsTrue, SignedOut,
       Typing!WaitsForSomething
<1> QED
  BY <1>3, <1>4, <1>5

(* What is approved or denied stays so.                                     *)
FinalStays == \A c \in Codes : gate[c] \in {"approved", "denied"} => gate'[c] = gate[c]

LEMMA RuleKeeps ==
  ASSUME CodesOK, CodeInv, NEW d \in deciding, Typing!Rule(d)
  PROVE  CodeInv'
<1> USE DEF CodeInv
<1>1. d \in DecisionRow /\ d.code \in Codes /\ d.action \in {"approved", "denied"}
  BY CodeTypes DEF DecisionRow
<1>2. /\ UNCHANGED <<link, signedIn, field, number, loads, authorization, busy, completed,
                     outcomeOf, crossed>>
      /\ gate' = (IF Typing!Accepts(d) THEN [gate EXCEPT ![d.code] = d.action] ELSE gate)
      /\ gate \in [Codes -> {"pending", "approved", "denied", "expired", "unknown"}]
  BY DEF Typing!Rule, Typing!TypeOK
<1>3. /\ gate' \in [Codes -> {"pending", "approved", "denied", "expired", "unknown"}] /\ FinalStays
      /\ Typing!Accepts(d) => gate'[d.code] = d.action
  BY <1>1, <1>2 DEF Typing!Accepts, FinalStays
<1>4. PICK s \in {"done", "refused", "lost"} :
        /\ deciding' = (deciding \ {d}) \cup {[d EXCEPT !.says = s]}
        /\ s = "done" => Typing!Accepts(d)
        /\ lostAnswers' \in 0..MaxLosses
  BY DEF Typing!Rule, Typing!TypeOK, CodesOK
<1> DEFINE e == [d EXCEPT !.says = s]
<1>5. e \in DecisionRow /\ e.code = d.code /\ e.action = d.action /\ e.says = s
  BY <1>1 DEF DecisionRow
<1>6. deciding' = (deciding \ {d}) \cup {e}
  BY <1>4
<1> HIDE DEF e
<1>7. Typing!TypeOK'
  BY <1>2, <1>3, <1>4, <1>5, <1>6 DEF Typing!TypeOK, DecisionRow
<1>8. LoadsFollow' /\ DecisionsFollow'
  BY <1>2, <1>5, <1>6 DEF LoadsFollow, DecisionsFollow
<1>9. AnswersSettled'
  <2>1. \A l \in loads : l.code \in Codes
    BY CodeTypes
  <2>2. \A x \in deciding : x.code \in Codes /\ x.action \in {"approved", "denied"}
    BY CodeTypes
  <2> QED
    BY <1>2, <1>3, <1>4, <1>5, <1>6, <2>1, <2>2 DEF AnswersSettled, Settled, FinalStays
<1>10. Typing!OfTheFieldTyped' /\ OutcomeNamed' /\ SignedOut'
  BY <1>2 DEF Typing!OfTheFieldTyped, OutcomeNamed, SignedOut
<1>11. Typing!OutcomeIsTrue'
  BY <1>2, <1>3 DEF Typing!OutcomeIsTrue, OutcomeNamed, FinalStays, Typing!TypeOK
<1>12. Typing!WaitsForSomething'
  BY <1>2, <1>6 DEF Typing!WaitsForSomething, Typing!Current
<1> QED
  BY <1>7, <1>8, <1>9, <1>10, <1>11, <1>12

LEMMA DecidedKeeps ==
  ASSUME CodesOK, CodeInv, NEW d \in deciding, Typing!Decided(d)
  PROVE  CodeInv'
<1> USE DEF CodeInv
<1>1. /\ d.code \in Codes /\ d.action \in {"approved", "denied"}
      /\ deciding' = deciding \ {d} /\ busy' = FALSE
      /\ UNCHANGED <<gate, link, signedIn, field, number, loads, authorization, crossed, lostAnswers>>
  BY CodeTypes DEF Typing!Decided
<1>2. \/ d.says = "done" /\ completed' = d.action /\ outcomeOf' = d.code
      \/ UNCHANGED <<completed, outcomeOf>>
  BY DEF Typing!Decided
<1>3. Typing!TypeOK'
  BY <1>1, <1>2 DEF Typing!TypeOK
<1>4. LoadsFollow' /\ DecisionsFollow' /\ AnswersSettled'
  BY <1>1 DEF LoadsFollow, DecisionsFollow, AnswersSettled, Settled
<1>5. OutcomeNamed' /\ Typing!OutcomeIsTrue' /\ Typing!OfTheFieldTyped'
  BY <1>1, <1>2 DEF OutcomeNamed, Typing!OutcomeIsTrue, Typing!OfTheFieldTyped, AnswersSettled,
       DecisionsFollow
<1>6. SignedOut' /\ Typing!WaitsForSomething'
  BY <1>1 DEF SignedOut, Typing!WaitsForSomething
<1> QED
  BY <1>3, <1>4, <1>5, <1>6

LEMMA LapseKeeps ==
  ASSUME CodesOK, CodeInv, NEW c \in Codes, Typing!Lapse(c)
  PROVE  CodeInv'
<1> USE DEF CodeInv
<1>1. /\ gate' \in [Codes -> {"pending", "approved", "denied", "expired", "unknown"}] /\ FinalStays
      /\ UNCHANGED <<link, signedIn, field, number, loads, authorization, busy, completed, deciding,
                     outcomeOf, crossed, lostAnswers>>
  BY DEF Typing!Lapse, Typing!TypeOK, FinalStays
<1>2. /\ \A l \in loads : l.code \in Codes
      /\ \A d \in deciding : d.code \in Codes /\ d.action \in {"approved", "denied"}
  BY CodeTypes
<1>3. Typing!TypeOK'
  BY <1>1 DEF Typing!TypeOK
<1>4. LoadsFollow' /\ DecisionsFollow'
  BY <1>1 DEF LoadsFollow, DecisionsFollow
<1>5. AnswersSettled'
  BY <1>1, <1>2 DEF AnswersSettled, Settled, FinalStays
<1>6. OutcomeNamed' /\ Typing!OutcomeIsTrue' /\ Typing!OfTheFieldTyped'
  BY <1>1 DEF OutcomeNamed, Typing!OutcomeIsTrue, Typing!OfTheFieldTyped, FinalStays, Typing!TypeOK
<1>7. SignedOut' /\ Typing!WaitsForSomething'
  BY <1>1 DEF SignedOut, Typing!WaitsForSomething, Typing!Current
<1> QED
  BY <1>3, <1>4, <1>5, <1>6, <1>7

LEMMA CodeInitially ==
  ASSUME CodesOK, Typing!Init
  PROVE  CodeInv
<1>1. Typing!TypeOK
  <2>1. gate \in [Codes -> {"pending", "approved", "denied", "expired", "unknown"}]
    <3>1. gate \in [Codes -> {"pending", "unknown"}]
      BY DEF Typing!Init
    <3> QED
      BY <3>1
  <2>2. link \in Codes \cup {None} /\ field \in Codes \cup {Typing!Partial}
    BY DEF Typing!Init
  <2>3. number \in 0..MaxRequests /\ lostAnswers \in 0..MaxLosses
    BY DEF Typing!Init, CodesOK
  <2>4. /\ signedIn = FALSE /\ busy = FALSE /\ crossed = FALSE /\ loads = {} /\ deciding = {}
        /\ authorization = None /\ outcomeOf = None /\ completed = "none"
    BY DEF Typing!Init
  <2> QED
    BY <2>1, <2>2, <2>3, <2>4 DEF Typing!TypeOK
<1>2. LoadsFollow /\ DecisionsFollow /\ AnswersSettled /\ OutcomeNamed /\ SignedOut
  BY DEF Typing!Init, LoadsFollow, DecisionsFollow, AnswersSettled, OutcomeNamed, SignedOut
<1>3. Typing!OfTheFieldTyped /\ Typing!OutcomeIsTrue /\ Typing!WaitsForSomething
  BY DEF Typing!Init, Typing!OfTheFieldTyped, Typing!OutcomeIsTrue, Typing!WaitsForSomething
<1> QED
  BY <1>1, <1>2, <1>3 DEF CodeInv

LEMMA CodeStays ==
  ASSUME CodesOK, CodeInv, [Typing!Next]_(Typing!codeVars)
  PROVE  CodeInv'
<1>1. CASE Typing!Next
  BY <1>1, SignInKeeps, ViewKeeps, TypeKeeps, LoadReadKeeps, LoadedKeeps, DecideKeeps, RuleKeeps,
     DecidedKeeps, LapseKeeps DEF Typing!Next
<1>2. CASE UNCHANGED Typing!codeVars
  BY <1>2 DEF Typing!codeVars, CodeInv, Typing!TypeOK, LoadsFollow, DecisionsFollow,
       AnswersSettled, Settled, OutcomeNamed,
              SignedOut, Typing!OfTheFieldTyped, Typing!OutcomeIsTrue, Typing!WaitsForSomething, Typing!Current
<1> QED
  BY <1>1, <1>2

(* The page where a code is typed shows the device whose code is in the field,
   says of its outcome what the server decided, and waits only for something.  *)
THEOREM CodesCorrect ==
  ASSUME CodesOK
  PROVE  Typing!Spec => [](/\ Typing!TypeOK /\ Typing!OfTheFieldTyped
                           /\ Typing!OutcomeIsTrue /\ Typing!WaitsForSomething)
<1>1. Typing!Init => CodeInv
  BY CodeInitially
<1>2. CodeInv /\ [Typing!Next]_(Typing!codeVars) => CodeInv'
  BY CodeStays
<1>3. CodeInv => /\ Typing!TypeOK /\ Typing!OfTheFieldTyped
                 /\ Typing!OutcomeIsTrue /\ Typing!WaitsForSomething
  BY DEF CodeInv
<1> QED
  BY <1>1, <1>2, <1>3, PTL DEF Typing!Spec

(* So what the page that connects a device shows is so, on either half of it,
   with the exceptions that `astray' remembers.                             *)
THEOREM ConnectingCorrect ==
  ASSUME PagesOK, CodesOK
  PROVE  Pairing!Spec /\ Typing!Spec => []ConnectPageSound
<1> QED
  BY ConnectPageCorrect, CodesCorrect, PTL DEF ConnectPageSound
=============================================================================
