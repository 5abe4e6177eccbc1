-------------------------- MODULE LibraryPromises --------------------------
(***************************************************************************)
(* The workspaces of an account with the two components beside them, the   *)
(* members of a library and the realtime channel of a workspace, and with  *)
(* what these promise: MCWorkspaces checks it on instances of them, and    *)
(* WorkspacesProofs proves it.                                             *)
(***************************************************************************)
EXTENDS Workspaces

(* The members of a library share no state with its lifecycle but its id.   *)
CONSTANTS People, Owner, Capabilities, Invitations, Callers
VARIABLES members, invitation, request, granted, held, admitted

Sharing == INSTANCE WorkspaceMembers

(* What members and open invitations hold the owner has given to somebody;
   each capability is handed on by one who held it during the request that
   handed it on (assertGrantable); and a link lets in one account (accept).   *)
MembershipSound ==
  /\ []Sharing!BackToOwner
  /\ []Sharing!LinkAdmitsOne
  /\ [][Sharing!NothingOutOfThinAir]_(Sharing!memberVars)

CONSTANTS
  Sockets, Opened, DeviceOf, Documents, Types, Rechecked, MaxMessages, MaxCommits, MaxStalls
VARIABLES
  socket, connection, subscribed, presence, follows, handling, checking, probing,
  stalled, shown, asked, standing, committed, publishing, notices, lost, woken, pulled, sent

Channel == INSTANCE Realtime

(* A connection that closed leaves nothing behind; a cursor that is shown is
   present, one that is present is shown to whoever has the document open,
   also after reconnects; two devices that follow one document hear each
   other (handlePresenceMessage, handleDocumentSubscription); and when no
   wake-up is under way, every open connection has every command.           *)
RealtimeSound ==
  /\ Channel!ClosedLeavesNothing /\ Channel!ShownIsPresent /\ Channel!PresentIsShown
  /\ Channel!FollowersMeet /\ Channel!QuietMeansCurrent
=============================================================================
