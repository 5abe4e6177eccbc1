---------------------------- MODULE MCWorkspaces ----------------------------
(***************************************************************************)
(* The workspaces of an account, the members of a library, the sockets     *)
(* that listen to it and the page that connects a device, in scenarios; an *)
(* initial state chooses the one that runs.                                *)
(*   lifecycle  three workspaces, created, adopted, removed, recovered and *)
(*              finally removed, under a limit of two                      *)
(*   operated   a workspace, counted by all or by administrators only,     *)
(*              which they remove and recover; holds, a deletion of the    *)
(*              account that is cancelled, and other accounts' removals    *)
(*   keys       the keys of one workspace                                  *)
(*   members    two people invite, update and remove each other            *)
(*   cursors    two sockets move their cursors between two documents       *)
(*   reconnect  a device opens a second socket, another shows its cursor   *)
(*   followers  two sockets follow a document, one may stall               *)
(*   waking     the sockets of reconnect, a command is committed           *)
(*   authority  a socket stalls, and its device loses its access           *)
(*   page       a page makes links, polls, is left or reloaded, and a      *)
(*              request of it is lost                                      *)
(***************************************************************************)
EXTENDS LibraryPromises

CONSTANTS ann, bob, a1, a2, b, Scenarios

VARIABLES scenario,
          row, over, linked, exchanging, page, view, offered, status, target, method, rendered,
          answers, saved, op, farewells, astray, losses, undone

peopleVars    == <<members, invitation, request, granted, held, admitted>>
realtimeVars  == <<socket, connection, subscribed, presence, follows, handling, checking,
                   probing, stalled, shown, asked, standing, committed, publishing, notices,
                   lost, woken, pulled, sent>>
connectVars   == <<row, over, linked, exchanging, page, view, offered, status, target, method,
                   rendered, answers, saved, op, farewells, astray, losses, undone>>
libraryVars   == <<scenario, wsVars, peopleVars>>
mcVars        == <<libraryVars, realtimeVars, connectVars>>

Device == [c \in {a1, a2, b} |-> IF c = b THEN "second" ELSE "first"]

(* The configuration gives the constants of lifecycle, members, reconnect.  *)
Keys      == INSTANCE Workspaces WITH Creatable <- {1}, Limit <- 1, Versions <- {1, 2},
               Rekeyed <- {1}, MaxFailures <- 0, MaxActions <- 0
Operated  == INSTANCE Workspaces WITH Creatable <- {1}, Batch <- 1,
               Placed <- {"hold", "case", "others"}, MaxActions <- 2

Cursors   == INSTANCE Realtime WITH Opened <- {a1, b}, Documents <- {1, 2}, MaxMessages <- 4
Followers == INSTANCE Realtime WITH Opened <- {a1, b},
               Types <- {"document.subscribe", "document.unsubscribe"},
               MaxMessages <- 3, MaxStalls <- 1
Waking    == INSTANCE Realtime WITH Documents <- {}, Types <- {},
               MaxMessages <- 0, MaxCommits <- 1
Authority == INSTANCE Realtime WITH Opened <- {a1}, Rechecked <- {a1}, MaxStalls <- 1

Page      == INSTANCE ConnectPage WITH Pairings <- {1, 2}, Pages <- {1}, MaxOpenings <- 1,
               MaxAnswers <- 1, MaxLosses <- 1, MaxTaken <- 0, MaxFailures <- 0,
               shown <- offered, failures <- undone

MCInit ==
  /\ scenario \in Scenarios /\ Sharing!Init
  /\ IF scenario = "keys" THEN Keys!Init ELSE Init
  /\ scenario # "operated" => counted
  /\ IF scenario = "authority" THEN Authority!Init ELSE Channel!Init
  /\ Page!Init

MCNext ==
  \/ /\ UNCHANGED <<scenario, connectVars>>
     /\ \/ scenario = "lifecycle" /\ Next         /\ UNCHANGED <<peopleVars, realtimeVars>>
        \/ scenario = "operated"  /\ Operated!Next /\ UNCHANGED <<peopleVars, realtimeVars>>
        \/ scenario = "keys"      /\ Keys!Next    /\ UNCHANGED <<peopleVars, realtimeVars>>
        \/ scenario = "members"   /\ Sharing!Next /\ UNCHANGED <<wsVars, realtimeVars>>
  \/ /\ UNCHANGED <<libraryVars, connectVars>>
     /\ \/ scenario = "cursors"   /\ Cursors!Next
        \/ scenario = "reconnect" /\ Channel!Next
        \/ scenario = "followers" /\ Followers!Next
        \/ scenario = "waking"    /\ Waking!Next
        \/ scenario = "authority" /\ Authority!Next
  \/ scenario = "page" /\ Page!Next /\ UNCHANGED <<libraryVars, realtimeVars>>

(* Maintenance runs every hour; the interval and the heartbeat of a socket
   go off, and a socket that closes has its close event.  The browser
   renders, counts down and gives a request up, and time goes by.           *)
MCSpec ==
  /\ MCInit /\ [][MCNext]_mcVars
  /\ WF_wsVars(scenario = "lifecycle" /\ MaintenanceStep)
  /\ WF_wsVars(scenario = "operated" /\ Operated!MaintenanceStep)
  /\ WF_realtimeVars(scenario = "authority" /\ Authority!Recheck(a1))
  /\ WF_realtimeVars(scenario = "authority" /\ Authority!End(a1))
  /\ WF_connectVars(scenario = "page" /\ Page!Render)
  /\ WF_connectVars(scenario = "page" /\ Page!CountDown)
  /\ \A n \in {1, 2} : WF_connectVars(scenario = "page" /\ Page!Elapse(n))
  /\ WF_connectVars(scenario = "page" /\ Page!Step(1))

(* The state of the modules of the scenario that runs.                      *)
MCTypeOK ==
  CASE scenario = "lifecycle"  -> TypeOK
    [] scenario = "keys"       -> Keys!TypeOK
    [] scenario = "operated"   -> Operated!TypeOK
    [] scenario = "members"    -> Sharing!TypeOK
    [] scenario = "cursors"    -> Cursors!TypeOK
    [] scenario = "followers"  -> Followers!TypeOK
    [] scenario = "reconnect"  -> Channel!TypeOK
    [] scenario = "waking"     -> Waking!TypeOK
    [] scenario = "authority"  -> Authority!TypeOK
    [] scenario = "page"       -> Page!TypeOK

(* The library that the devices of the account have settled on as default
   is never deleted, also by a request that was checked before (remove); and
   a library whose retention is over is removed for good, or recovered before
   that, also where a removal failed half-way (#cleanupDeletedWorkspaces), if
   from some time on nothing stands in its way: no hold, no open case, and
   not twenty other candidates, which maintenance can never remove while
   they are held or their blobs cannot be deleted.                          *)
LibrariesSettle ==
  /\ [][scenario = "lifecycle" => DefaultStays]_mcVars
  /\ [][scenario = "operated" => Operated!DefaultStays]_mcVars
  /\ \A s \in 1..3 :
       (scenario = "lifecycle" /\ Expired(s)) ~> ~(scenario = "lifecycle" /\ Expired(s))
  /\ (<>[](scenario = "operated" /\ Operated!Unopposed)) =>
       Operated!Expired(1) ~> ~Operated!Expired(1)

(* docs/operations.md:111: a connection whose device was revoked is closed,
   and one whose account was removed from the workspace as well, although
   nobody announces it (authorizationCheck); and the cursor of a peer that
   has vanished does not stay (heartbeat).  On the page a pairing does not
   stay pending, nor do its buttons stay disabled (updateRemaining,
   pairingBusy), also when every poll fails.                                *)
ConnectionsEnd ==
  LET open  == scenario = "authority" /\ socket[a1] = "authenticated" /\ ~Authority!Reads(a1)
      stays == scenario = "authority" /\ a1 \in stalled /\ presence[a1] # None
      waits(n) == scenario = "page" /\ Page!Waiting(n)
      works == scenario = "page" /\ op[1].kind # "idle"
  IN  /\ (open ~> ~open) /\ (stays ~> ~stays)
      /\ \A n \in {1, 2} : waits(n) ~> ~waits(n)
      /\ works ~> ~works
=============================================================================
