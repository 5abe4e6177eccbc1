------------------------------ MODULE Realtime ------------------------------
(***************************************************************************)
(* The WebSocket of GET /v1/sync/events (routes/events.ts) and the change  *)
(* notifier (sync/notifier.ts), for one workspace and one server process.  *)
(*                                                                         *)
(* A socket authenticates with its first message.  The handler awaits the  *)
(* token, the device and the capabilities, and the socket may close in the *)
(* meantime; only a socket that is still open subscribes and joins the     *)
(* room of the workspace.  Every later message awaits a query of the       *)
(* device, so that the messages of one socket are handled in any order.    *)
(* A timer re-examines the device and the access of every connection.      *)
(*                                                                         *)
(* The socket keeps the order of what is sent on it: what a peer shows is  *)
(* updated when the server sends.  `woken' is the client of the documents: *)
(* it pulls after `authenticated' and after each workspace.changed.        *)
(***************************************************************************)
EXTENDS Integers, FiniteSets

CONSTANTS
  Sockets,      \* sockets
  Opened,       \* bound: those of them that are opened
  DeviceOf,     \* the device each authenticates for
  Documents,    \* documents of the workspace
  Types,        \* the types of message that name a document
  Rechecked,    \* sockets whose timer is followed
  None,
  MaxMessages,  \* bound on messages after authentication
  MaxCommits,   \* bound on commits of commands to the workspace
  MaxStalls     \* bound on peers that stop reading or vanish

VARIABLES
  socket,       \* socket -> its state at the server
  connection,   \* sockets with a PresenceConnection: the room of the workspace
  subscribed,   \* sockets with listeners in the notifier
  presence,     \* socket -> the document its cursor is in, or None
  follows,      \* socket -> documents it subscribed to
  handling,     \* socket -> messages that await the device query
  checking,     \* sockets whose authorizationCheck is running
  probing,      \* sockets whose access a members-changed notice has examined
  stalled,      \* sockets that are full, or whose peer is gone
  shown,        \* socket -> the <<document, device>> its client shows
  asked,        \* <<p, c, d>>: p was sent the sync-request of c for document d
  standing,     \* device -> "member", "removed" from the workspace or "revoked"
  committed,    \* commands committed to the workspace
  publishing,   \* those whose notice has not been sent to the database
  notices,      \* notices not yet delivered by the database
  lost,         \* a notice of a commit was lost
  woken, pulled,\* socket -> its client has to pull, and the commits it has
  sent          \* messages so far

socketVars == <<socket, connection, subscribed, handling, checking, probing>>
presenceVars == <<presence, follows, shown, asked>>
wakeVars == <<committed, publishing, notices, lost, woken, pulled>>
rtVars == <<socketVars, presenceVars, wakeVars, stalled, standing, sent>>

Devices == {DeviceOf[c] : c \in Sockets}
Messages == [type : Types, document : Documents] \cup {[type |-> "presence.clear", document |-> None]}
Hello == [type |-> "authenticate", document |-> None]

Init ==
  /\ socket = [c \in Sockets |-> "unused"]
  /\ connection = {} /\ subscribed = {} /\ checking = {} /\ probing = {} /\ stalled = {}
  /\ presence = [c \in Sockets |-> None]
  /\ follows = [c \in Sockets |-> {}]
  /\ handling = [c \in Sockets |-> {}]
  /\ shown = [c \in Sockets |-> {}]
  /\ asked = {}
  /\ standing = [d \in Devices |-> "member"]
  /\ committed = 0 /\ publishing = 0 /\ notices = {} /\ lost = FALSE
  /\ woken = [c \in Sockets |-> FALSE]
  /\ pulled = [c \in Sockets |-> 0]
  /\ sent = 0

Open(c) == socket[c] \in {"connected", "verifying", "authenticated"}

(* assertDeviceActive, and the capability content.read besides.              *)
Active(c) == standing[DeviceOf[c]] # "revoked"
Reads(c)  == standing[DeviceOf[c]] = "member"

(* sendWithBackpressure closes the socket of a consumer that is too slow.    *)
Overrun(peers) == peers \cap stalled
Closing(cs) == [c \in Sockets |-> IF c \in cs /\ Open(c) THEN "closing" ELSE socket[c]]

-----------------------------------------------------------------------------
(* Opening a socket, and the message that authenticates it.                 *)

Connect(c) ==
  /\ c \in Opened /\ socket[c] = "unused"
  /\ socket' = [socket EXCEPT ![c] = "connected"]
  /\ UNCHANGED <<connection, subscribed, handling, checking, probing,
                 presenceVars, wakeVars, stalled, standing, sent>>

(* The first message; one more while it is verified closes the socket.      *)
Authenticate(c) ==
  /\ socket[c] \in {"connected", "verifying"}
  /\ socket' = [socket EXCEPT ![c] = IF socket[c] = "connected" THEN "verifying" ELSE "closing"]
  /\ handling' = [handling EXCEPT ![c] = @ \cup {Hello}]
  /\ UNCHANGED <<connection, subscribed, checking, probing,
                 presenceVars, wakeVars, stalled, standing, sent>>

(* A socket closed while it was verified subscribes to nothing.             *)
AlwaysOpen(c) == TRUE
StillOpen(c) == socket[c] = "verifying"

(* The token, the device and the capabilities have been read.               *)
Verified(c) ==
  /\ Hello \in handling[c]
  /\ handling' = [handling EXCEPT ![c] = @ \ {Hello}]
  /\ \/ /\ ~Reads(c)
        /\ socket' = Closing({c})
        /\ UNCHANGED <<connection, subscribed, woken>>
     \/ /\ Reads(c) /\ StillOpen(c)
        /\ socket' = [socket EXCEPT ![c] = IF @ = "verifying" THEN "authenticated" ELSE @]
        /\ connection' = connection \cup {c}
        /\ subscribed' = subscribed \cup {c}
        /\ woken' = [woken EXCEPT ![c] = TRUE]
     \/ /\ Reads(c) /\ ~StillOpen(c)
        /\ UNCHANGED <<socket, connection, subscribed, woken>>
  /\ UNCHANGED <<presenceVars, checking, probing, committed, publishing, notices, lost,
                 pulled, stalled, standing, sent>>

(* authTimeout, sessionTimeout, or the client closes.                       *)
Close(c) ==
  /\ Open(c)
  /\ socket' = Closing({c})
  /\ UNCHANGED <<connection, subscribed, handling, checking, probing,
                 presenceVars, wakeVars, stalled, standing, sent>>

-----------------------------------------------------------------------------
(* Presence.                                                                *)

(* What the clients show after presence.cleared of a cursor of socket c was
   sent to its room.                                                        *)
Cleared(c) ==
  [p \in Sockets |->
    IF p \in connection \ {c} /\ Open(p) /\ presence[c] # None
      THEN shown[p] \ {<<presence[c], DeviceOf[c]>>} ELSE shown[p]]

Peers(c) == {p \in connection \ {c} : Open(p)}

(* clearPresence.                                                           *)
ClearPresence(c) ==
  /\ presence' = [presence EXCEPT ![c] = None]
  /\ shown' = Cleared(c)
  /\ socket' = Closing(IF presence[c] # None THEN Overrun(Peers(c)) ELSE {})

(* A cursor that enters a document clears the one it had, is shown those
   already in the document, and is announced to the room.                   *)
Unmoved(c, d) == shown
Left(c, d)    == IF presence[c] = d THEN shown ELSE Cleared(c)

Following(c, d) == {p \in connection \ {c} : d \in follows[p]}
Present(c, d)   == {p \in connection \ {c} : presence[p] = d}

EnterDocument(c, d) ==
  LET present == {<<d, DeviceOf[p]>> : p \in Present(c, d)}
      entering == presence[c] # d
  IN /\ presence' = [presence EXCEPT ![c] = d]
     /\ shown' = [p \in Sockets |->
          Left(c, d)[p] \cup (IF p = c /\ entering THEN present ELSE {})
                         \cup (IF p \in Peers(c) THEN {<<d, DeviceOf[c]>>} ELSE {})]
     /\ socket' = Closing(Overrun(Peers(c) \cup (IF entering /\ present # {} THEN {c} ELSE {})))

Viewers(c, d)   == {p \in Peers(c) : presence[p] = d}
Followers(c, d) == {p \in Peers(c) : d \in follows[p]}

(* handleDocumentSubscription: those who follow the document are asked to
   send what the newcomer may lack.                                         *)
Subscribe(c, d) ==
  LET peers == Followers(c, d)
  IN /\ follows' = [follows EXCEPT ![c] = @ \cup {d}]
     /\ IF d \in follows[c]
          THEN UNCHANGED <<asked, socket>>
          ELSE /\ asked' = asked \cup {<<p, c, d>> : p \in peers}
               /\ socket' = Closing(Overrun(peers))

-----------------------------------------------------------------------------
(* A message after authentication: the device is read, then it is handled.  *)

Receive(c, m) ==
  /\ socket[c] = "authenticated" /\ sent < MaxMessages
  /\ handling' = [handling EXCEPT ![c] = @ \cup {m}]
  /\ sent' = sent + 1
  /\ UNCHANGED <<socket, connection, subscribed, checking, probing,
                 presenceVars, wakeVars, stalled, standing>>

Apply(c, m) ==
  \/ /\ m.type = "presence.update" /\ EnterDocument(c, m.document)
     /\ UNCHANGED <<follows, asked>>
  \/ /\ m.type = "presence.clear" /\ ClearPresence(c)
     /\ UNCHANGED <<follows, asked>>
  \/ /\ m.type = "document.subscribe" /\ Subscribe(c, m.document)
     /\ UNCHANGED <<presence, shown>>
  \/ /\ m.type = "document.unsubscribe"
     /\ follows' = [follows EXCEPT ![c] = @ \ {m.document}]
     /\ asked' = {a \in asked : a[3] # m.document \/ c \notin {a[1], a[2]}}
     /\ UNCHANGED <<socket, presence, shown>>

Handle(c, m) ==
  /\ m \in handling[c] /\ m # Hello
  /\ handling' = [handling EXCEPT ![c] = @ \ {m}]
  /\ \/ /\ ~Active(c)
        /\ socket' = Closing({c})
        /\ UNCHANGED presenceVars
     \/ Active(c) /\ Open(c) /\ Apply(c, m)
     \/ Active(c) /\ ~Open(c) /\ UNCHANGED <<socket, presenceVars>>
  /\ UNCHANGED <<connection, subscribed, checking, probing, wakeVars, stalled, standing, sent>>

-----------------------------------------------------------------------------
(* The end of a socket: its close event runs cleanup.                       *)

UnsubscribeDevice(c) == {p \in subscribed : DeviceOf[p] # DeviceOf[c]}
Unsubscribed(c)      == subscribed \ {c}

Cleanup(c) ==
  /\ connection' = connection \ {c}
  /\ subscribed' = Unsubscribed(c)
  /\ follows' = [follows EXCEPT ![c] = {}]
  /\ asked' = {a \in asked : c \notin {a[1], a[2]}}
  /\ presence' = [presence EXCEPT ![c] = None]
  /\ shown' = [Cleared(c) EXCEPT ![c] = {}]
  /\ socket' = [Closing(IF presence[c] # None THEN Overrun(Peers(c)) ELSE {})
                  EXCEPT ![c] = "closed"]

Closed(c) ==
  /\ socket[c] = "closing"
  /\ Cleanup(c)
  /\ UNCHANGED <<handling, checking, probing, wakeVars, stalled, standing, sent>>

(* The heartbeat found no pong since its last ping: socket.terminate().     *)
NeverAgain(c) == FALSE
Silent(c)     == c \in stalled

Terminate(c) ==
  /\ Silent(c) /\ Open(c)
  /\ socket' = Closing({c})
  /\ UNCHANGED <<connection, subscribed, handling, checking, probing,
                 presenceVars, wakeVars, stalled, standing, sent>>

End(c) == Terminate(c) \/ Closed(c)

(* A consumer stops reading, or its host disappears.                        *)
Stall(c) ==
  /\ Open(c) /\ c \notin stalled /\ Cardinality(stalled) < MaxStalls
  /\ stalled' = stalled \cup {c}
  /\ UNCHANGED <<socketVars, presenceVars, wakeVars, standing, sent>>

-----------------------------------------------------------------------------
(* Authorization that ends: the device is revoked, the account suspended, its
   credentials change, or the member is removed; only the last is announced. *)

Disallow(d) ==
  /\ standing[d] = "member" /\ Rechecked # {}
  /\ \/ standing' = [standing EXCEPT ![d] = "revoked"] /\ UNCHANGED notices
     \/ /\ standing' = [standing EXCEPT ![d] = "removed"]
        /\ notices' \in {notices, notices \cup {"workspace.members-changed"}}
  /\ UNCHANGED <<socketVars, presenceVars, committed, publishing, lost, woken, pulled,
                 stalled, sent>>

(* The five second interval; it never runs twice at once.                   *)
StartCheck(c) ==
  /\ c \in (connection \cap Rechecked) \ checking
  /\ checking' = checking \cup {c}
  /\ UNCHANGED <<socket, connection, subscribed, handling, probing,
                 presenceVars, wakeVars, stalled, standing, sent>>

(* assertConnectionActive.                                                  *)
DeviceOnly(c)       == Active(c)
ConnectionActive(c) == Active(c) /\ Reads(c)

FinishCheck(c) ==
  /\ c \in checking
  /\ checking' = checking \ {c}
  /\ socket' = Closing(IF ConnectionActive(c) THEN {} ELSE {c})
  /\ UNCHANGED <<connection, subscribed, handling, probing,
                 presenceVars, wakeVars, stalled, standing, sent>>

Recheck(c) == StartCheck(c) \/ FinishCheck(c)

(* A members-changed notice makes every subscriber examine its own access.  *)
FinishProbe(c) ==
  /\ c \in probing
  /\ probing' = probing \ {c}
  /\ socket' = Closing(IF Reads(c) THEN {} ELSE {c})
  /\ UNCHANGED <<connection, subscribed, handling, checking,
                 presenceVars, wakeVars, stalled, standing, sent>>

-----------------------------------------------------------------------------
(* Commands and their notices (durable-sync/service.ts).                    *)

(* #command publishes after its transaction has committed.                  *)
Commit ==
  /\ committed < MaxCommits
  /\ committed' = committed + 1
  /\ publishing' = publishing + 1
  /\ UNCHANGED <<socketVars, presenceVars, notices, lost, woken, pulled, stalled, standing, sent>>

(* A publication that fails, or a process that ends before it, loses it.    *)
Publish ==
  /\ publishing > 0
  /\ publishing' = publishing - 1
  /\ \/ notices' = notices \cup {"workspace.changed"} /\ UNCHANGED lost
     \/ lost' = TRUE /\ UNCHANGED notices
  /\ UNCHANGED <<socketVars, presenceVars, committed, woken, pulled, stalled, standing, sent>>

(* The database delivers a notice to the listeners of the process.          *)
Dispatch(n) ==
  LET to == {c \in subscribed : Open(c)}
  IN /\ n \in notices
     /\ notices' = notices \ {n}
     /\ socket' = Closing(Overrun(to))
     /\ woken' = [c \in Sockets |-> woken[c] \/ (n = "workspace.changed" /\ c \in to \ stalled)]
     /\ probing' = IF n = "workspace.members-changed" THEN probing \cup subscribed ELSE probing
     /\ UNCHANGED <<connection, subscribed, handling, checking, presenceVars,
                    committed, publishing, lost, pulled, stalled, standing, sent>>

(* The client pulls until it has every event.                               *)
Pull(c) ==
  /\ woken[c] /\ socket[c] = "authenticated"
  /\ woken' = [woken EXCEPT ![c] = FALSE]
  /\ pulled' = [pulled EXCEPT ![c] = committed]
  /\ UNCHANGED <<socketVars, presenceVars, committed, publishing, notices, lost,
                 stalled, standing, sent>>

-----------------------------------------------------------------------------
Next ==
  \/ \E c \in Sockets :
       \/ Connect(c) \/ Authenticate(c) \/ Verified(c) \/ Close(c) \/ End(c)
       \/ Stall(c) \/ Recheck(c) \/ FinishProbe(c)
       \/ Pull(c)
       \/ \E m \in Messages : Receive(c, m)
       \/ \E m \in handling[c] : Handle(c, m)
  \/ \E d \in Devices : Disallow(d)
  \/ Commit \/ Publish
  \/ \E n \in notices : Dispatch(n)

-----------------------------------------------------------------------------
TypeOK ==
  /\ \A c \in Sockets :
       /\ socket[c] \in {"unused", "connected", "verifying", "authenticated", "closing", "closed"}
       /\ presence[c] \in Documents \cup {None}
       /\ follows[c] \subseteq Documents
       /\ handling[c] \subseteq Messages \cup {Hello}
       /\ shown[c] \subseteq Documents \X Devices
       /\ woken[c] \in BOOLEAN /\ pulled[c] \in 0..committed
  /\ connection \cup subscribed \cup checking \cup probing \cup stalled \subseteq Sockets
  /\ asked \subseteq Sockets \X Sockets \X Documents
  /\ publishing \in 0..committed

(* A socket that has closed is in no room, has no listener and no cursor:
   cleanup runs once, and nothing that was awaited then joins it again.     *)
ClosedLeavesNothing ==
  \A c \in Sockets : socket[c] = "closed" =>
    c \notin connection \cup subscribed /\ presence[c] = None

(* A client shows the cursor of a device in a document only while a socket
   of that device has it there.                                             *)
ShownIsPresent ==
  \A c \in Sockets : socket[c] = "authenticated" =>
    \A s \in shown[c] : \E p \in connection : s = <<presence[p], DeviceOf[p]>>

(* Two clients with their cursor in one document show each other, provided
   the device has had one socket: presence.cleared names the device, so that
   the end of its former socket hides the cursor of its new one.            *)
PresentIsShown ==
  \A c, p \in Sockets :
    /\ c # p /\ socket[c] = "authenticated" /\ socket[p] = "authenticated"
    /\ presence[c] # None /\ presence[c] = presence[p]
    /\ \A q \in Sockets \ {p} : DeviceOf[q] = DeviceOf[p] => socket[q] = "unused"
    => <<presence[p], DeviceOf[p]>> \in shown[c]

(* Of two sockets that follow a document, one was asked to bring the other
   up to date, whichever came first.                                        *)
FollowersMeet ==
  \A c, p \in Sockets :
    c # p /\ socket[c] = "authenticated" /\ socket[p] = "authenticated" =>
      \A d \in follows[c] \cap follows[p] : {<<c, p, d>>, <<p, c, d>>} \cap asked # {}

(* When every notice has been published, delivered and answered by a pull, a
   connected client has every command: none is committed between its pull
   and its subscription, and another socket that closes silences nobody.    *)
QuietMeansCurrent ==
  \A c \in Sockets :
    /\ socket[c] = "authenticated" /\ ~woken[c] /\ publishing = 0 /\ ~lost
    /\ "workspace.changed" \notin notices
    => pulled[c] = committed
=============================================================================
