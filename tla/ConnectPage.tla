---------------------------- MODULE ConnectPage ----------------------------
(***************************************************************************)
(* The page that pairs a device with an account, by a QR code or by the    *)
(* application on the same computer (apps/web/components/                  *)
(* device-connection.tsx), against the pairings of the server              *)
(* (auth/device-pairing-service.ts, routes/device-pairings.ts).            *)
(*                                                                         *)
(* An operation of the page awaits the answers of the server and keeps     *)
(* what its closure saw when it began; the polls and the countdown go on   *)
(* meanwhile.  They belong to an effect, which follows the state of the    *)
(* page only after the next rendering, as does what the clean-up of the    *)
(* page withdraws (`rendered').  A page that is left keeps its operation;  *)
(* one that is reloaded drops it, though a request may still reach the     *)
(* server.  A browser and the server agree on when the five minutes of a   *)
(* pairing are over.                                                       *)
(***************************************************************************)
EXTENDS Integers, FiniteSets

CONSTANTS
  Pairings,     \* 1..n: the pairings that may be created, in this order
  Pages,        \* 1..n: the page, each time that it is opened
  MaxOpenings,  \* bound: the times that it is
  None,
  MaxAnswers,   \* bound on answers to polls under way at once
  MaxLosses,    \* bound on requests and answers lost
  MaxTaken,     \* bound on pairings that devices take
  MaxFailures   \* bound on exchanges that fail after they took the pairing

VARIABLES
  row,          \* pairing -> its row: "unused", "new" (nobody was given its link),
                \* "open", "taken" or "gone"
  over,         \* pairings whose five minutes are over
  linked,       \* pairings that gave a device its session
  exchanging,   \* exchanges that have taken the pairing and create the session
  page,         \* the number of the page that was opened last
  view,         \* "away", "loading", "coded" (by the link of a code), "ready"
  shown, status,\* the pairing on the page and what the page says of it
  target, method,
  rendered,     \* the pairing and its status as of the last rendering: what the
                \* effects know (activePairing)
  answers,      \* answers to its polls under way
  saved,        \* the pairing in the session storage of the browser
  op,           \* page -> its operation on pairings
  farewells,    \* pairings whose page sent a last DELETE
  astray,       \* history: pairings that were lost sight of, for a reason below
  losses, failures

serverVars == <<row, over, linked, exchanging>>
shownVars  == <<shown, status>>
pageVars   == <<page, view, shownVars, target, method, rendered, answers>>
connectVars == <<serverVars, pageVars, saved, op, farewells, astray, losses, failures>>

Idle == [kind |-> "idle", step |-> "none", old |-> None, made |-> None,
         on |-> "current"]
Kinds == {"idle", "create", "cancel", "turn", "type", "code"}
Nothing == [of |-> None, status |-> "none"]

Init ==
  /\ row = [p \in Pairings |-> "unused"]
  /\ over = {} /\ linked = {} /\ exchanging = {}
  /\ page = 0 /\ view = "away"
  /\ shown = None /\ status = "none" /\ target = "current" /\ method = "qr"
  /\ rendered = Nothing /\ answers = {} /\ saved = None
  /\ op = [i \in Pages |-> Idle]
  /\ farewells = {} /\ astray = {} /\ losses = 0 /\ failures = 0

-----------------------------------------------------------------------------
(* The server.                                                               *)

Waits(p) == row[p] \in {"new", "open"}

(* getStatus: what a poll is told.                                           *)
Says(p) == CASE row[p] = "gone"  -> "expired"       \* 404
             [] row[p] = "taken" -> "consumed"
             [] OTHER            -> IF p \in over THEN "expired" ELSE "pending"

(* create: the rows of the account that are used or over go.                 *)
Created(p) ==
  [q \in Pairings |-> IF q = p THEN "new"
                      ELSE IF row[q] = "taken" \/ (Waits(q) /\ q \in over) THEN "gone"
                      ELSE row[q]]

(* cancel: the row goes unless a device took it.                             *)
Cancelled(p) == [row EXCEPT ![p] = IF Waits(p) THEN "gone" ELSE @]

(* The pairing that the effect counts down and polls.                        *)
Bound == IF rendered.status = "pending" THEN rendered.of ELSE None

Elapse(p) ==
  /\ row[p] # "unused" /\ p \notin over
  /\ row[p] = "gone" => p \in {shown, saved, Bound}
  /\ over' = over \cup {p}
  /\ UNCHANGED <<row, linked, exchanging, pageVars, saved, op, farewells, astray,
                 losses, failures>>

(* exchange: the device that read the link takes the pairing ...             *)
Take(p) ==
  /\ row[p] = "open" /\ p \notin over
  /\ Cardinality(linked \cup exchanging) < MaxTaken
  /\ row' = [row EXCEPT ![p] = "taken"]
  /\ exchanging' = exchanging \cup {p}
  /\ UNCHANGED <<over, linked, pageVars, saved, op, farewells, astray, losses,
                 failures>>

(* ... and gets its session, ...                                             *)
Grant(p) ==
  /\ p \in exchanging
  /\ exchanging' = exchanging \ {p} /\ linked' = linked \cup {p}
  /\ UNCHANGED <<row, over, pageVars, saved, op, farewells, astray, losses, failures>>

(* ... or createDeviceSession fails and the pairing is given back, which a
   page may have been told was consumed, and polls no more.                  *)
GiveBack(p) ==
  /\ p \in exchanging /\ failures < MaxFailures
  /\ failures' = failures + 1
  /\ exchanging' = exchanging \ {p}
  /\ row' = [row EXCEPT ![p] = IF @ = "taken" THEN "open" ELSE @]
  /\ astray' = astray \cup {p}
  /\ UNCHANGED <<over, linked, pageVars, saved, op, farewells, losses>>

-----------------------------------------------------------------------------
(* The page is opened; the answer of /v1/web/session makes it ready.         *)

Here == view = "ready"
Untouched == UNCHANGED <<serverVars, farewells, astray, losses, failures>>

Open(from) ==
  /\ view = "away" /\ page + 1 \in Pages /\ page < MaxOpenings
  /\ page' = page + 1 /\ view' = from
  /\ shown' = None /\ status' = "none"
  /\ target' = (IF from = "coded" THEN "other" ELSE "current")
  /\ method' = (IF from = "coded" THEN "code" ELSE "qr")
  /\ rendered' = Nothing /\ answers' = {}
  /\ Untouched /\ UNCHANGED <<saved, op>>

(* readCurrentDevicePairing: the pairing that was saved is shown again unless
   its time is over; a page opened by the link of a code forgets it.         *)
SignedIn ==
  /\ view \in {"loading", "coded"} /\ view' = "ready"
  /\ LET again == view = "loading" /\ saved # None /\ saved \notin over
     IN  /\ shown'  = (IF again THEN saved ELSE None)
         /\ status' = (IF again THEN "pending" ELSE "none")
         /\ saved'  = (IF again THEN saved ELSE None)
         /\ astray' = (IF view = "coded" /\ saved # None THEN astray \cup {saved} ELSE astray)
  /\ UNCHANGED <<serverVars, farewells, losses, failures, page, target, method,
                 rendered, answers, op>>

(* The page is rendered, which may show the link of a QR code, and its effects
   are set up again.                                                         *)
Render ==
  /\ Here /\ rendered # [of |-> shown, status |-> status]
  /\ rendered' = [of |-> shown, status |-> status]
  /\ row' = [p \in Pairings |-> IF p = shown /\ status = "pending" /\ row[p] = "new"
                                THEN "open" ELSE row[p]]
  /\ UNCHANGED <<over, linked, exchanging, farewells, astray, losses, failures, page, view,
                 shownVars, target, method, answers, saved, op>>

(* updateRemaining: nothing is left of the five minutes.                     *)
CountDown ==
  /\ Here /\ Bound # None /\ Bound \in over /\ status # "expired"
  /\ status' = "expired"
  /\ astray' = (IF shown # Bound /\ shown # None THEN astray \cup {shown} ELSE astray)
  /\ UNCHANGED <<serverVars, farewells, losses, failures, page, view, shown, target,
                 method, rendered, answers, saved, op>>

Poll ==
  /\ Here /\ Bound # None /\ Cardinality(answers) < MaxAnswers
  /\ answers' = answers \cup {[of |-> Bound, says |-> Says(Bound)]}
  /\ Untouched /\ UNCHANGED <<page, view, shownVars, target, method, rendered, saved, op>>

(* An answer counts while the effect that asked is set up: it changes what
   the page says, also when another pairing was shown since.                 *)
Active(a) == a.of = Bound
Answered(a) ==
  /\ a \in answers /\ answers' = answers \ {a}
  /\ status' = (IF Here /\ Active(a) THEN a.says ELSE status)
  /\ astray' = (IF Here /\ Active(a) /\ a.of # shown /\ shown # None
                THEN astray \cup {shown} ELSE astray)
  /\ UNCHANGED <<serverVars, farewells, losses, failures, page, view, shown, target,
                 method, rendered, saved, op>>

-----------------------------------------------------------------------------
(* The operations: each begins at a button, and the buttons are disabled
   while pairingBusy.                                                        *)

Busy == op[page].kind # "idle"
Pending == IF status = "pending" THEN shown ELSE None
(* Fault: a new pairing does not withdraw the one it replaces.               *)
Unreplaced(kind) ==
  IF kind = "create" THEN "post" ELSE IF Pending # None THEN "delete" ELSE "end"
FirstStep(kind) ==
  IF Pending # None THEN "delete" ELSE IF kind = "create" THEN "post" ELSE "end"
Start(kind) ==
  op' = [op EXCEPT ![page] = [kind |-> kind, step |-> FirstStep(kind), old |-> Pending,
                              made |-> None, on |-> target]]

(* Bound: a pairing is left for each operation that will make one.          *)
Left == Cardinality({p \in Pairings : row[p] = "unused"})
          > Cardinality({i \in Pages : op[i].kind = "create" /\ op[i].step # "made"})

ByCode == target = "other" /\ method = "code"
ByScan == target = "other" /\ method = "qr"

Create ==
  /\ Here /\ ~Busy /\ Left
  /\ ByScan \/ (target = "current" /\ status # "consumed")
  /\ Start("create")
  /\ Untouched /\ UNCHANGED <<pageVars, saved>>

Cancel ==
  /\ Here /\ ~Busy /\ shown # None
  /\ ByScan \/ (target = "current" /\ status = "pending")
  /\ Start("cancel")
  /\ Untouched /\ UNCHANGED <<pageVars, saved>>

(* changeTarget, useDeviceCode: a pairing that is shown is cancelled first.  *)
ChangeTarget(by) ==
  /\ Here /\ ~Busy /\ (by = "type" => target = "current")
  /\ IF shown # None
     THEN Start(by) /\ UNCHANGED <<target, method>>
     ELSE /\ target' = (IF target = "current" THEN "other" ELSE "current")
          /\ method' = (IF by = "type" THEN "code" ELSE method)
          /\ UNCHANGED op
  /\ Untouched /\ UNCHANGED <<page, view, shownVars, rendered, answers, saved>>

(* changeMethod: a QR code is made at once, or the one shown is withdrawn.   *)
ToScan ==
  /\ Here /\ ~Busy /\ ByCode
  /\ method' = "qr" /\ Left
  /\ IF shown = None \/ status # "pending" THEN Start("create") ELSE UNCHANGED op
  /\ Untouched /\ UNCHANGED <<page, view, shownVars, target, rendered, answers, saved>>
ToCode ==
  /\ Here /\ ~Busy /\ ByScan
  /\ IF Pending # None
     THEN Start("code") /\ UNCHANGED <<shownVars, method>>
     ELSE shown' = None /\ status' = "none" /\ method' = "code" /\ UNCHANGED op
  /\ Untouched /\ UNCHANGED <<page, view, target, rendered, answers, saved>>

(* The DELETE of an operation: it reaches the server, or it or its answer is
   lost (the request is given up after fifteen seconds).                     *)
Lose == losses < MaxLosses /\ losses' = losses + 1
ReachDelete(i) ==
  /\ op[i].step = "delete"
  /\ \E answer \in BOOLEAN, reached \in BOOLEAN :
       /\ answer => reached
       /\ IF answer THEN UNCHANGED losses ELSE Lose
       /\ row' = (IF reached THEN Cancelled(op[i].old) ELSE row)
       /\ op' = [op EXCEPT ![i].step = IF answer THEN "end" ELSE "failed"]
  /\ UNCHANGED <<over, linked, exchanging, pageVars, saved, farewells, astray, failures>>

(* The POST of an operation; nobody learns of a pairing whose answer is lost. *)
ReachPost(i) ==
  /\ op[i].step = "post"
  /\ \/ \E p \in Pairings, answer \in BOOLEAN :
          /\ row[p] = "unused" /\ \A q \in Pairings : q < p => row[q] # "unused"
          /\ row' = Created(p)
          /\ IF answer THEN UNCHANGED losses ELSE Lose
          /\ op' = [op EXCEPT ![i] = [@ EXCEPT !.step = IF answer THEN "made" ELSE "failed",
                                               !.made = IF answer THEN p ELSE None]]
     \/ /\ Lose /\ UNCHANGED row
        /\ op' = [op EXCEPT ![i].step = "failed"]
  /\ UNCHANGED <<over, linked, exchanging, pageVars, saved, farewells, astray, failures>>

(* The page continues after the await.  One that was left changes the storage
   of the browser all the same.                                              *)
On(i) == Here /\ i = page
Done(i) == op' = [op EXCEPT ![i] = Idle]

(* What the storage held is forgotten there and shown nowhere: one page put it
   there, another one removes it.                                            *)
Displaced == astray' = (IF saved' = saved THEN astray ELSE astray \cup ({saved} \ {None, shown}))

(* cancelPairing, changeMethod: nothing is shown any more.                   *)
EndDelete(i) ==
  /\ op[i].step = "end"
  /\ saved' = (IF op[i].kind = "code" THEN saved ELSE None)
  /\ Displaced
  /\ IF op[i].kind = "create"
     THEN op' = [op EXCEPT ![i] = [@ EXCEPT !.step = "post", !.old = None]] /\ UNCHANGED <<shownVars, target, method>>
     ELSE /\ Done(i)
          /\ IF On(i)
             THEN /\ shown' = None /\ status' = "none"
                  /\ target' = (IF op[i].kind \notin {"turn", "type"} THEN target
                                ELSE IF op[i].on = "current" THEN "other" ELSE "current")
                  /\ method' = (IF op[i].kind \in {"type", "code"} THEN "code" ELSE method)
             ELSE UNCHANGED <<shownVars, target, method>>
  /\ UNCHANGED <<serverVars, page, view, rendered, answers, farewells, losses, failures>>

(* replacePairing, openPairingInNoteGen: the new pairing is shown.  On this
   computer it is saved, and the application is opened with its link, whether
   the page is still there or not.                                           *)
EndPost(i) ==
  /\ op[i].step = "made" /\ Done(i)
  /\ LET p == op[i].made IN
     /\ row' = (IF row[p] = "new" /\ op[i].on = "current" THEN [row EXCEPT ![p] = "open"] ELSE row)
     /\ shown'  = (IF On(i) THEN p ELSE shown)
     /\ status' = (IF On(i) THEN "pending" ELSE status)
     /\ saved'  = (IF op[i].on = "current" THEN p ELSE saved)
  /\ Displaced
  /\ UNCHANGED <<over, linked, exchanging, page, view, target, method, rendered, answers,
                 farewells, losses, failures>>

(* The error is shown, and the page is as it was.                            *)
Fail(i) ==
  /\ op[i].step = "failed" /\ Done(i)
  /\ Untouched /\ UNCHANGED <<pageVars, saved>>

-----------------------------------------------------------------------------
(* The page is left: the clean-up of the effect forgets the pairing that was
   rendered last, and asks the server to delete it, without waiting.  One that
   came since, or that another page put into the storage, is lost sight of.  *)
Leave ==
  /\ view # "away" /\ view' = "away"
  /\ saved' = (IF rendered.of = None THEN saved ELSE None)
  /\ farewells' = farewells \cup ({Bound} \ {None})
  /\ astray' = astray \cup ({saved, shown} \ {None, rendered.of, saved'})
  /\ shown' = None /\ status' = "none" /\ rendered' = Nothing /\ answers' = {}
  /\ UNCHANGED <<serverVars, losses, failures, page, target, method, op>>

Farewell(p) ==
  /\ p \in farewells /\ farewells' = farewells \ {p}
  /\ \/ row' = Cancelled(p) /\ UNCHANGED <<losses, astray>>
     \/ Lose /\ astray' = astray \cup {p} /\ UNCHANGED row
  /\ UNCHANGED <<over, linked, exchanging, pageVars, saved, op, failures>>

(* It is reloaded: nothing of it is left but the storage.  A request reached
   the server before that, or never does.                                    *)
Reload ==
  /\ view # "away" /\ view' = "away"
  /\ shown' = None /\ status' = "none" /\ rendered' = Nothing /\ answers' = {}
  /\ op' = [i \in Pages |-> Idle]
  /\ astray' = astray \cup ({shown} \ {None, saved})
  /\ UNCHANGED <<serverVars, farewells, losses, failures, page, target, method, saved>>

Step(i) == ReachDelete(i) \/ ReachPost(i) \/ EndDelete(i) \/ EndPost(i) \/ Fail(i)

Next ==
  \/ \E p \in Pairings : Elapse(p) \/ Take(p) \/ Grant(p) \/ GiveBack(p) \/ Farewell(p)
  \/ \E from \in {"loading", "coded"} : Open(from)
  \/ SignedIn \/ Render \/ CountDown \/ Poll
  \/ \E a \in answers : Answered(a)
  \/ Create \/ Cancel \/ ToScan \/ ToCode
  \/ \E by \in {"turn", "type"} : ChangeTarget(by)
  \/ \E i \in Pages : Step(i)
  \/ Leave \/ Reload

(* Requests are answered or given up, React renders, and time goes by.       *)
Spec ==
  /\ Init /\ [][Next]_connectVars
  /\ WF_connectVars(Render) /\ WF_connectVars(CountDown)
  /\ \A p \in Pairings : WF_connectVars(Elapse(p))
  /\ \A i \in Pages : WF_connectVars(Step(i))

-----------------------------------------------------------------------------

(* The state of the pairings, of the page and of its operations.            *)
TypeOK ==
  /\ row \in [Pairings -> {"unused", "new", "open", "taken", "gone"}]
  /\ over \subseteq Pairings /\ linked \subseteq Pairings
  /\ exchanging \subseteq Pairings /\ farewells \subseteq Pairings /\ astray \subseteq Pairings
  /\ page \in 0..Cardinality(Pages) /\ view \in {"away", "loading", "coded", "ready"}
  /\ shown \in Pairings \cup {None}
  /\ rendered \in [of : Pairings \cup {None}, status : {"none", "pending", "consumed", "expired"}]
  /\ saved \in Pairings \cup {None}
  /\ status \in {"none", "pending", "consumed", "expired"}
  /\ target \in {"current", "other"} /\ method \in {"code", "qr"}
  /\ answers \subseteq [of : Pairings, says : {"pending", "consumed", "expired"}]
  /\ op \in [Pages -> [kind : Kinds, step : {"none", "delete", "post", "end", "made", "failed"},
                       old : Pairings \cup {None}, made : Pairings \cup {None},
                       on : {"current", "other"}]]
  /\ losses \in 0..MaxLosses /\ failures \in 0..MaxFailures

(* A link that was given to somebody and can still be used is one that the
   page shows, that the browser remembers for the next page, or that the
   server is being asked to delete: whatever a page replaced, withdrew or left
   no longer connects a device (replacePairing, cancelPairing, the clean-up),
   through polls that come late and operations that outlive their page.
   Except (`astray'): a link whose exchange failed after a poll said that it
   was taken; one that the answer to a poll for the previous link marked; one
   that the storage held and another page, or the link of a code, removed
   from it; one the page was left with before it was rendered; a QR code on a
   page that was reloaded; one whose last DELETE was lost.                   *)
Usable(p) == row[p] = "open" /\ p \notin over
NoSpareLink ==
  \A p \in Pairings : Usable(p) =>
    \/ p \in astray \cup farewells \cup {saved}
    \/ Here /\ shown = p /\ status = "pending"

(* When the page says that the device is connected, a device has taken the
   pairing it shows (with the same exceptions).                              *)
ConnectedIsTrue ==
  (Here /\ status = "consumed" /\ shown # None) => shown \in linked \cup exchanging \cup astray

(* A pairing does not stay pending on the page: it is connected, withdrawn or
   over in the end, also when every poll fails; and no operation keeps the
   buttons disabled.                                                         *)
Waiting(p) == Here /\ shown = p /\ status = "pending"
PendingEnds == \A p \in Pairings : Waiting(p) ~> ~Waiting(p)
BusyEnds == \A i \in Pages : (op[i].kind # "idle") ~> (op[i].kind = "idle")
=============================================================================
