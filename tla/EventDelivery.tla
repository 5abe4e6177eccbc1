---------------------------- MODULE EventDelivery ----------------------------
(***************************************************************************)
(* What the event feed of a workspace promises its devices, with no page,  *)
(* cursor, retention window or snapshot in sight: the server has one       *)
(* history, and what a device has taken over is always the beginning of a  *)
(* history the server served, with no event missing in the middle.  Only   *)
(* the restoration of a backup takes the end of the history away; until    *)
(* then a device never falls back.                                         *)
(***************************************************************************)
EXTENDS Integers, Sequences

CONSTANTS
  Devices,
  Epochs    \* restore epochs

VARIABLES
  history,  \* the events of the workspace: an event is known by its place
            \* and by the epoch it was written in
  lost,     \* the histories that a restore has cut
  copy      \* what each device has taken over

vars == <<history, lost, copy>>

BeginningsOf(h) == {SubSeq(h, 1, n) : n \in 0..Len(h)}

Init ==
  /\ history = <<>>
  /\ lost = {}
  /\ copy = [d \in Devices |-> <<>>]

Publish ==
  /\ \E e \in Epochs : history' = Append(history, e)
  /\ UNCHANGED <<lost, copy>>

Restore ==
  /\ history' \in BeginningsOf(history)
  /\ lost' = lost \cup {history}
  /\ UNCHANGED copy

(* A device takes over more of the history it follows, in order and without
   a hole, which may be one that a restore has cut meanwhile ...            *)
Advance(d) ==
  /\ \E h \in lost \cup {history} : \E c \in BeginningsOf(h) :
       /\ copy[d] \in BeginningsOf(c)
       /\ copy' = [copy EXCEPT ![d] = c]
  /\ UNCHANGED <<history, lost>>

(* ... and gives up what it has only when the history does not begin so.    *)
Rejoin(d) ==
  /\ copy[d] \notin BeginningsOf(history)
  /\ \E c \in BeginningsOf(history) : copy' = [copy EXCEPT ![d] = c]
  /\ UNCHANGED <<history, lost>>

Next ==
  \/ Publish
  \/ Restore
  \/ \E d \in Devices : Advance(d) \/ Rejoin(d)

Spec == Init /\ [][Next]_vars
=============================================================================
