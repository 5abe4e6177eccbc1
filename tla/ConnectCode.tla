---------------------------- MODULE ConnectCode ----------------------------
(***************************************************************************)
(* The other half of the page of ConnectPage: a person types the code that *)
(* a device shows, looks at the device and lets it in or not               *)
(* (apps/web/components/device-connection.tsx: loadAuthorization, decide), *)
(* against the authorizations of the server (auth/                         *)
(* device-authorization-service.ts, whose sessions AuthSessions models).   *)
(*                                                                         *)
(* The field stays open to typing while requests are under way.  Each load *)
(* has a number, and each change of the field takes one: an answer that is *)
(* not of the last number is ignored, and so is its `finally'.  A decision *)
(* has no number.                                                          *)
(***************************************************************************)
EXTENDS Integers, FiniteSets

CONSTANTS
  Codes,       \* complete codes that can be typed
  None,
  MaxRequests, \* bound on the numbers of requests
  MaxLosses    \* bound on requests whose answer is lost

VARIABLES
  gate,        \* code -> the state of its authorization at the server
  link,        \* the code in the address the page was opened with, or None
  signedIn,
  field,       \* what the field holds: a code, or "part" of one
  number,      \* authorizationRequestId
  loads,       \* loads under way, or answered and not yet seen
  authorization, busy, completed,
  deciding,    \* decisions under way
  outcomeOf,   \* history: the code that `completed' is about
  crossed,     \* history: the field changed before sign-in, or during a decision
  lostAnswers

codeVars == <<gate, link, signedIn, field, number, loads, authorization, busy, completed,
              deciding, outcomeOf, crossed, lostAnswers>>

Partial == "part"

Init ==
  /\ gate \in [Codes -> {"pending", "unknown"}]
  /\ link \in Codes \cup {None} /\ field = (IF link = None THEN Partial ELSE link)
  /\ signedIn = FALSE /\ number = 0 /\ loads = {} /\ authorization = None /\ busy = FALSE
  /\ completed = "none" /\ deciding = {} /\ outcomeOf = None /\ crossed = FALSE
  /\ lostAnswers = 0

(* loadAuthorization begins: it has the next number.                         *)
Load(c, n) ==
  /\ loads' = loads \cup {[number |-> n, code |-> c, says |-> "waiting"]}
  /\ number' = n /\ busy' = TRUE

(* The answer of /v1/web/session: the code of the link is loaded, whatever
   the field holds by then.                                                  *)
SignIn ==
  /\ ~signedIn /\ signedIn' = TRUE
  /\ crossed' = (crossed \/ (link # None /\ field # link))
  /\ IF link # None /\ number < MaxRequests THEN Load(link, number + 1)
     ELSE link = None /\ UNCHANGED <<loads, number, busy>>
  /\ UNCHANGED <<gate, link, field, authorization, completed, deciding, outcomeOf, lostAnswers>>

(* The field is shown until something is decided.                            *)
Type(v) ==
  /\ completed = "none" /\ v # field /\ number + 2 <= MaxRequests
  /\ field' = v /\ authorization' = None
  /\ crossed' = (crossed \/ deciding # {})
  /\ IF signedIn /\ v \in Codes THEN Load(v, number + 2)
     ELSE number' = number + 1 /\ UNCHANGED <<loads, busy>>
  /\ UNCHANGED <<gate, link, signedIn, completed, deciding, outcomeOf, lostAnswers>>

View ==
  /\ signedIn /\ authorization = None /\ completed = "none" /\ ~busy
  /\ field \in Codes /\ number < MaxRequests
  /\ Load(field, number + 1)
  /\ UNCHANGED <<gate, link, signedIn, field, authorization, completed, deciding, outcomeOf,
                 crossed, lostAnswers>>

(* getByUserCode, which knows no expiry, or no answer.                       *)
Shows(c) == IF gate[c] = "expired" THEN "pending" ELSE gate[c]
Read(l) ==
  /\ l \in loads /\ l.says = "waiting"
  /\ \/ loads' = (loads \ {l}) \cup {[l EXCEPT !.says = Shows(l.code)]} /\ UNCHANGED lostAnswers
     \/ /\ lostAnswers < MaxLosses /\ lostAnswers' = lostAnswers + 1
        /\ loads' = (loads \ {l}) \cup {[l EXCEPT !.says = "lost"]}
  /\ UNCHANGED <<gate, link, signedIn, field, number, authorization, busy, completed, deciding,
                 outcomeOf, crossed>>

(* Fault: the answers to every load are taken.                               *)
AnyLoad(l) == l.number \in 0..MaxRequests
Current(l) == l.number = number
Known == {"pending", "approved", "denied"}
Loaded(l) ==
  /\ l \in loads /\ l.says # "waiting" /\ loads' = loads \ {l}
  /\ IF ~Current(l) THEN UNCHANGED <<authorization, busy, completed, outcomeOf>>
     ELSE /\ authorization' = (IF l.says \in Known THEN l.code ELSE None)
          /\ busy' = FALSE
          /\ IF l.says \in {"approved", "denied"}
             THEN completed' = l.says /\ outcomeOf' = l.code
             ELSE UNCHANGED <<completed, outcomeOf>>
  /\ UNCHANGED <<gate, link, signedIn, field, number, deciding, crossed, lostAnswers>>

Decide(action) ==
  /\ authorization # None /\ completed = "none" /\ ~busy
  /\ busy' = TRUE
  /\ deciding' = deciding \cup {[code |-> authorization, action |-> action, says |-> "waiting"]}
  /\ UNCHANGED <<gate, link, signedIn, field, number, loads, authorization, completed,
                 outcomeOf, crossed, lostAnswers>>

(* approve, deny: only what is pending is decided; what this account approved
   is approved again.  The answer may be lost.                               *)
(* Fault: the state of the authorization is not part of the update.          *)
Whatever(d) == gate[d.code] # "unknown"
Accepts(d) == gate[d.code] = "pending" \/ (gate[d.code] = "approved" /\ d.action = "approved")
Rule(d) ==
  /\ d \in deciding /\ d.says = "waiting"
  /\ gate' = (IF Accepts(d) THEN [gate EXCEPT ![d.code] = d.action] ELSE gate)
  /\ \/ /\ UNCHANGED lostAnswers
        /\ deciding' = (deciding \ {d}) \cup
             {[d EXCEPT !.says = IF Accepts(d) THEN "done" ELSE "refused"]}
     \/ /\ lostAnswers < MaxLosses /\ lostAnswers' = lostAnswers + 1
        /\ deciding' = (deciding \ {d}) \cup {[d EXCEPT !.says = "lost"]}
  /\ UNCHANGED <<link, signedIn, field, number, loads, authorization, busy, completed,
                 outcomeOf, crossed>>

Decided(d) ==
  /\ d \in deciding /\ d.says # "waiting"
  /\ deciding' = deciding \ {d} /\ busy' = FALSE
  /\ IF d.says = "done" THEN completed' = d.action /\ outcomeOf' = d.code
     ELSE UNCHANGED <<completed, outcomeOf>>
  /\ UNCHANGED <<gate, link, signedIn, field, number, loads, authorization, crossed, lostAnswers>>

(* The device gives up (cancel), or the five minutes are over.               *)
Lapse(c) ==
  /\ gate[c] = "pending"
  /\ \E s \in {"denied", "expired"} : gate' = [gate EXCEPT ![c] = s]
  /\ UNCHANGED <<link, signedIn, field, number, loads, authorization, busy, completed, deciding,
                 outcomeOf, crossed, lostAnswers>>

Next ==
  \/ SignIn \/ View
  \/ \E v \in Codes \cup {Partial} : Type(v)
  \/ \E l \in loads : Read(l) \/ Loaded(l)
  \/ \E action \in {"approved", "denied"} : Decide(action)
  \/ \E d \in deciding : Rule(d) \/ Decided(d)
  \/ \E c \in Codes : Lapse(c)

Spec == Init /\ [][Next]_codeVars

-----------------------------------------------------------------------------

(* The state of the codes, the field and the requests.                      *)
TypeOK ==
  /\ gate \in [Codes -> {"pending", "approved", "denied", "expired", "unknown"}]
  /\ link \in Codes \cup {None} /\ field \in Codes \cup {Partial}
  /\ signedIn \in BOOLEAN /\ busy \in BOOLEAN /\ crossed \in BOOLEAN
  /\ number \in 0..MaxRequests /\ lostAnswers \in 0..MaxLosses
  /\ loads \subseteq [number : 0..MaxRequests, code : Codes,
                      says : {"waiting", "pending", "approved", "denied", "unknown", "lost"}]
  /\ deciding \subseteq [code : Codes, action : {"approved", "denied"},
                         says : {"waiting", "done", "refused", "lost"}]
  /\ authorization \in Codes \cup {None} /\ outcomeOf \in Codes \cup {None}
  /\ completed \in {"none", "approved", "denied"}

(* The device on the page, and the outcome, are of the code in the field:
   answers to codes typed before are ignored, in whatever order they come
   (authorizationRequestId).  Unless the field changed where no number
   guards it: before sign-in with a link, or during a decision.              *)
OfTheFieldTyped ==
  /\ (authorization # None /\ ~crossed) => authorization = field
  /\ (completed # "none" /\ ~crossed) => outcomeOf = field

(* What the page says of an outcome is what the server decided, also when an
   answer was lost and the person tried again.                               *)
OutcomeIsTrue == completed # "none" => gate[outcomeOf] = completed

(* The page waits for something, or for the rest of a code: a field that was
   changed to part of a code while a load was under way keeps the buttons
   disabled until another code is complete (loadAuthorization: finally).     *)
WaitsForSomething ==
  busy => \/ \E l \in loads : Current(l)
          \/ deciding # {} \/ field = Partial
=============================================================================
