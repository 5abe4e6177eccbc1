------------------------ MODULE RuntimeConfiguration ------------------------
(***************************************************************************)
(* The runtime configuration of an instance: one row of the database that   *)
(* administrators edit on a web page, and a copy of it in every server      *)
(* process, which serves requests by its copy.  An update names the         *)
(* revision its form was read at.  A process reads the row again after an   *)
(* update of its own, and when another process notifies it; the reads of    *)
(* one process may overlap, and the last one to be answered is kept.        *)
(*                                                                         *)
(* Of the settings only those remain that are judged together: whether mail *)
(* is sent (to an SMTP server that asks for a name) and whether there is a  *)
(* password, which is stored and never sent to the page.  A process whose   *)
(* copy does not load goes on with the settings it had; those are left out. *)
(* A mishap is a crash of a process.                                        *)
(***************************************************************************)
EXTENDS Integers

CONSTANTS Processes, Editors, MaxRevision, MaxMishaps, None

VARIABLES
  row,         \* the stored configuration and its revision
  process,     \* a server process: its copy of the row, the reads under way
  form,        \* the row as an administrator's page shows it
  saving,      \* the update an administrator has sent
  misjudged,   \* an update was accepted by a copy other than the row it replaced
  mishap

vars == <<row, process, form, saving, misjudged, mishap>>

Row == [revision : 0..MaxRevision, smtp : BOOLEAN, password : BOOLEAN]
Changes == {"keep", "set", "clear"}

Idle == [at |-> "idle", on |-> None, base |-> None, judged |-> None, smtp |-> FALSE,
         change |-> None, read |-> None]

(* A server does not start, and does not take over, a configuration that is
   not complete: to send mail it needs the password.                        *)
Complete(smtp, password) == smtp => password
Loads(r) == Complete(r.smtp, r.password)

TypeOK ==
  /\ row \in Row
  /\ \A p \in Processes :
       /\ process[p].mode \in {"up", "booting", "down"}
       /\ process[p].state \in Row /\ process[p].newest \in 0..row.revision
       /\ process[p].reads \in SUBSET Row /\ process[p].notified \in BOOLEAN
  /\ \A a \in Editors :
       /\ form[a] \in Row \cup {None}
       /\ saving[a].at \in {"idle", "judged", "saved", "refused", "read saved", "read refused"}

Init ==
  /\ row = [revision |-> 0, smtp |-> FALSE, password |-> FALSE]
  /\ process = [p \in Processes |->
       [mode |-> "up", state |-> row, newest |-> 0, reads |-> {}, notified |-> FALSE]]
  /\ form = [a \in Editors |-> None]
  /\ saving = [a \in Editors |-> Idle]
  /\ misjudged = FALSE /\ mishap = 0

(* getRuntimeConfiguration: the copy of the process that answers.           *)
Show(a, p) ==
  /\ process[p].mode = "up" /\ saving[a].at = "idle"
  /\ form' = [form EXCEPT ![a] = process[p].state]
  /\ UNCHANGED <<row, process, saving, misjudged, mishap>>

HasPassword(change, before) == change = "set" \/ (change = "keep" /\ before)

(* The update is judged by the process's copy, before it is stored.         *)
Judge(a, p) ==
  /\ process[p].mode = "up" /\ form[a] # None /\ saving[a].at = "idle"
  /\ form[a].revision < MaxRevision
  /\ \E smtp \in BOOLEAN, change \in Changes :
       /\ Complete(smtp, HasPassword(change, process[p].state.password))
       /\ saving' = [saving EXCEPT ![a] =
            [Idle EXCEPT !.at = "judged", !.on = p, !.base = form[a],
               !.judged = process[p].state, !.smtp = smtp, !.change = change]]
  /\ form' = [form EXCEPT ![a] = None]
  /\ UNCHANGED <<row, process, misjudged, mishap>>

(* Fault: the revision is not compared.                                     *)
Unconditional(a) == row.revision < MaxRevision
Expected(a) == row.revision = saving[a].base.revision

Stored(a) ==
  [revision |-> row.revision + 1, smtp |-> saving[a].smtp,
   password |-> HasPassword(saving[a].change, row.password)]

Save(a) ==
  /\ saving[a].at = "judged"
  /\ \/ /\ Expected(a)
        /\ row' = Stored(a)
        /\ saving' = [saving EXCEPT ![a] = [Idle EXCEPT !.at = "saved", !.on = saving[a].on]]
        /\ misjudged' = (misjudged \/ saving[a].judged # row)
     \/ /\ ~Expected(a)
        /\ saving' = [saving EXCEPT ![a] = [Idle EXCEPT !.at = "refused", !.on = saving[a].on]]
        /\ UNCHANGED <<row, misjudged>>
  /\ UNCHANGED <<process, form, mishap>>

(* The update's own read of the row, and its end: the copy is taken over,
   and the other processes are notified.  A read that does not load ends the
   request with an error, before the notification.                          *)
ReadAgain(a) ==
  /\ saving[a].at \in {"saved", "refused"}
  /\ saving' = [saving EXCEPT ![a].read = row,
                  ![a].at = IF @ = "saved" THEN "read saved" ELSE "read refused"]
  /\ UNCHANGED <<row, process, form, misjudged, mishap>>

Taken(p, r) ==
  [process[p] EXCEPT !.state = r, !.newest = IF r.revision > @ THEN r.revision ELSE @]

Notified(others) ==
  [p \in Processes |-> [others[p] EXCEPT !.notified = @ \/ others[p].mode = "up"]]

(* Fault: a process that wrote does not tell the others.                    *)
Untold(others) == others
Told(others) == Notified(others)

Answer(a) ==
  /\ saving[a].at \in {"read saved", "read refused"}
  /\ LET taken == [process EXCEPT ![saving[a].on] = Taken(saving[a].on, saving[a].read)]
     IN  process' = IF saving[a].at = "read saved" /\ Loads(saving[a].read)
                    THEN Told(taken) ELSE taken
  /\ saving' = [saving EXCEPT ![a] = Idle]
  /\ UNCHANGED <<row, form, misjudged, mishap>>

(* A notification starts a read that nothing waits for.                     *)
Reload(p) ==
  /\ process[p].notified
  /\ process' = [process EXCEPT ![p].notified = FALSE, ![p].reads = @ \cup {row}]
  /\ UNCHANGED <<row, form, saving, misjudged, mishap>>

Land(p) ==
  /\ \E r \in process[p].reads :
       process' = [process EXCEPT ![p] = [Taken(p, r) EXCEPT !.reads = @ \ {r}]]
  /\ UNCHANGED <<row, form, saving, misjudged, mishap>>

Crash(p) ==
  /\ mishap < MaxMishaps /\ process[p].mode # "down"
  /\ mishap' = mishap + 1
  /\ process' = [process EXCEPT ![p].mode = "down", ![p].reads = {}, ![p].notified = FALSE]
  /\ saving' = [a \in Editors |-> IF saving[a].on = p THEN Idle ELSE saving[a]]
  /\ UNCHANGED <<row, form, misjudged>>

(* initialize reads the row first and listens for notifications after that. *)
Boot(p) ==
  /\ process[p].mode = "down" /\ Loads(row)
  /\ process' = [process EXCEPT ![p] = [Taken(p, row) EXCEPT !.mode = "booting"]]
  /\ UNCHANGED <<row, form, saving, misjudged, mishap>>

Listen(p) ==
  /\ process[p].mode = "booting"
  /\ process' = [process EXCEPT ![p].mode = "up"]
  /\ UNCHANGED <<row, form, saving, misjudged, mishap>>

Next ==
  \/ \E a \in Editors : Save(a) \/ ReadAgain(a) \/ Answer(a)
  \/ \E a \in Editors, p \in Processes : Show(a, p) \/ Judge(a, p)
  \/ \E p \in Processes : Reload(p) \/ Land(p) \/ Crash(p) \/ Boot(p) \/ Listen(p)

Spec == Init /\ [][Next]_vars
------------------------------------------------------------------------------
(* Whoever replaces the configuration has seen what they replace: the page
   was filled from the copy of any process, however old, and the update is
   carried out by another (updateRuntimeConfiguration).                     *)
NothingOverwritten ==
  [][row' # row => \E a \in Editors : saving[a].at = "judged" /\ saving'[a].at = "saved"
                                       /\ saving[a].base = row]_vars

(* A stored configuration loads, so a server that restarts comes up again,
   as long as each update was judged by the row it replaced.  A copy that is
   older, or that an older read overtook, accepts one that no server loads. *)
StoredLoads == ~misjudged => Loads(row)

(* When no update, no notification and no read is under way, every process
   has taken over the stored configuration (docs/operations.md:33), until a
   process has crashed: one that dies before it notifies tells nobody, and
   one that boots hears nothing between its read and its LISTEN.  It may have
   gone back to an older one since, when an older read was answered last.   *)
Quiet ==
  /\ \A a \in Editors : saving[a].at = "idle"
  /\ \A p \in Processes : ~process[p].notified /\ process[p].reads = {}

QuietMeansTaken ==
  Quiet /\ mishap = 0 /\ ~misjudged => \A p \in Processes : process[p].newest = row.revision
=============================================================================
