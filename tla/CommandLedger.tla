--------------------------- MODULE CommandLedger ---------------------------
(***************************************************************************)
(* The ledger of a workspace's commands (sync_commands) and the requests   *)
(* that carry them: DurableSyncService.commands, #command and              *)
(* #recordRejectedCommand (durable-sync/service.ts).  A request sends its  *)
(* commands one after the other; each runs in a transaction of its own,    *)
(* and a final refusal is recorded by a second one, which may fail.        *)
(*                                                                         *)
(* What a command does to the workspace is modelled in SyncCommands; here  *)
(* it is applied, opens a conflict, or is refused.  Left out: the removal  *)
(* of old rows by maintenance, whose retention is assumed longer than a    *)
(* client's retries.                                                       *)
(***************************************************************************)
EXTENDS Integers, Sequences

CONSTANTS
  Batches,        \* of each request: its commands, each with an id and a body
  RequiredBy,     \* of some commands: the command they require
  Large,          \* bodies over the lower limit of maxObjectBytes
  MaxIncidents,   \* bound: failures and changes of the limit
  MaxSends,       \* bound: attempts of each request
  MaxRestores     \* bound: restores of the database

VARIABLES
  log,        \* the ledger's row and the effects of each command
  saved,      \* a dump of them
  epoch,      \* the server's sync epoch
  lowered,    \* maxObjectBytes is lowered
  request,    \* of each request: its attempt, and what its client was told
  incidents

ledgerVars == <<log, saved, epoch, lowered, request, incidents>>

Senders  == DOMAIN Batches
Ids      == UNION {{Batches[r][i].id : i \in DOMAIN Batches[r]} : r \in Senders}
Bodies   == UNION {{Batches[r][i].body : i \in DOMAIN Batches[r]} : r \in Senders}
NoEntry  == [status |-> "none", body |-> 0, epoch |-> 0]
Untold(r) == [i \in DOMAIN Batches[r] |-> "nothing"]
Answers  == {"nothing", "applied", "conflict", "denied", "final", "refused", "again"}

(* The ledger of a database, and what a request remembers.                  *)
Epochs   == 1..(MaxRestores + 1)
Database ==
  [entry   : [Ids -> [status : {"none", "applied", "conflict", "rejected"},
                      body : Bodies \cup {0}, epoch : Epochs \cup {0}]],
   effects : [Ids -> Seq({"applied", "conflict"} \X Bodies)]]

RequestRow(r) ==
  [at : {"idle", "running", "recording"}, next : DOMAIN Batches[r], sends : 0..MaxSends[r],
   epoch : Epochs, told : [DOMAIN Batches[r] -> Answers]]

(* Rows and requests have their types (sync_commands, commands).            *)
TypeOK ==
  /\ log \in Database /\ saved \in Database
  /\ epoch \in Epochs /\ lowered \in BOOLEAN /\ incidents \in 0..MaxIncidents
  /\ DOMAIN request = Senders
  /\ \A r \in Senders : request[r] \in RequestRow(r)

Init ==
  /\ log = [entry |-> [c \in Ids |-> NoEntry], effects |-> [c \in Ids |-> <<>>]]
  /\ saved = log /\ epoch = 1 /\ lowered = TRUE /\ incidents = 0
  /\ request = [r \in Senders |-> [at |-> "idle", next |-> 1, sends |-> 0, epoch |-> 1,
                                   told |-> Untold(r)]]

Command(r) == Batches[r][request[r].next]
Entry(r)   == log.entry[Command(r).id]

(* The answer to the command at hand; the next one follows.                 *)
Told(r, answer) ==
  LET last == request[r].next = Len(Batches[r]) IN
  request' = [request EXCEPT ![r].told[request[r].next] = answer,
                             ![r].next = IF last THEN 1 ELSE @ + 1,
                             ![r].at = IF last THEN "idle" ELSE "running"]

-----------------------------------------------------------------------------
(* A client that knows the current epoch sends its batch, or sends it again. *)
Send(r) ==
  /\ request[r].at = "idle" /\ request[r].sends < MaxSends[r]
  /\ request' = [request EXCEPT ![r] = [at |-> "running", next |-> 1, sends |-> @.sends + 1,
                                        epoch |-> epoch, told |-> Untold(r)]]
  /\ UNCHANGED <<log, saved, epoch, lowered, incidents>>

(* Checked before the ledger is read: the capability, as the batch found it
   when it began, and the size, as the configuration has it now.            *)
Denied(r) ==
  /\ request[r].at = "running" /\ Told(r, "denied")
  /\ UNCHANGED <<log, saved, epoch, lowered, incidents>>

TooLarge(r) ==
  /\ request[r].at = "running" /\ lowered /\ Command(r).body \in Large
  /\ request' = [request EXCEPT ![r].at = "recording"]
  /\ UNCHANGED <<log, saved, epoch, lowered, incidents>>

Fits(r) == request[r].at = "running" /\ ~(lowered /\ Command(r).body \in Large)

(* The command has a row: its answer, or a refusal for another body or another
   epoch.                                                                   *)
AnswerKnown(r) ==
  LET e == Entry(r) IN
  /\ Fits(r) /\ e.status # "none"
  /\ IF e.epoch # epoch \/ e.body # Command(r).body THEN Told(r, "refused")
     ELSE Told(r, IF e.status = "rejected" THEN "final" ELSE e.status)
  /\ UNCHANGED <<log, saved, epoch, lowered, incidents>>

(* Fault: a required command need only be known.                            *)
RequirementKnown(c) ==
  c \in DOMAIN RequiredBy => log.entry[RequiredBy[c]].status # "none"
RequirementMet(c) ==
  c \in DOMAIN RequiredBy =>
    log.entry[RequiredBy[c]].status = "applied" /\ log.entry[RequiredBy[c]].epoch = epoch

(* The command takes effect in the transaction that writes its row.         *)
Execute(r, outcome) ==
  LET c == Command(r).id
      b == Command(r).body
  IN /\ Fits(r) /\ Entry(r).status = "none" /\ RequirementMet(c)
     /\ log' = [entry   |-> [log.entry EXCEPT ![c] = [status |-> outcome, body |-> b, epoch |-> epoch]],
                effects |-> [log.effects EXCEPT ![c] = Append(@, <<outcome, b>>)]]
     /\ Told(r, outcome)
     /\ UNCHANGED <<saved, epoch, lowered, incidents>>

(* It is refused: for good, for reasons of the moment, or to be sent again. *)
Refuse(r) ==
  /\ Fits(r) /\ Entry(r).status = "none"
  /\ \/ Told(r, "refused") \/ Told(r, "again")
     \/ request' = [request EXCEPT ![r].at = "recording"]
  /\ UNCHANGED <<log, saved, epoch, lowered, incidents>>

(* Fault: a row that is there is written over.                              *)
RecordAnyway(r) == TRUE
RecordIfNone(r) == Entry(r).status = "none"

Record(r) ==
  /\ request[r].at = "recording" /\ Told(r, "final")
  /\ \/ /\ RecordIfNone(r)
        /\ log' = [log EXCEPT !.entry[Command(r).id] =
                     [status |-> "rejected", body |-> Command(r).body, epoch |-> epoch]]
        /\ UNCHANGED incidents
     \/ ~RecordIfNone(r) /\ UNCHANGED <<log, incidents>>
     \/ incidents < MaxIncidents /\ incidents' = incidents + 1 /\ UNCHANGED log
  /\ UNCHANGED <<saved, epoch, lowered>>

(* Anything but an ApiError ends the request; so does its process, or the
   connection that would have carried the answer.                           *)
Fail(r) ==
  /\ request[r].at # "idle" /\ incidents < MaxIncidents /\ incidents' = incidents + 1
  /\ request' = [request EXCEPT ![r].at = "idle", ![r].told = Untold(r)]
  /\ UNCHANGED <<log, saved, epoch, lowered>>

-----------------------------------------------------------------------------
ChangeLimit ==
  /\ incidents < MaxIncidents /\ incidents' = incidents + 1 /\ lowered' = ~lowered
  /\ UNCHANGED <<log, saved, epoch, request>>

Dump == saved' = log /\ UNCHANGED <<log, epoch, lowered, request, incidents>>

(* Fault: the restored database keeps the epoch.                            *)
SameEpoch == epoch
NextEpoch == epoch + 1

(* The server is stopped; the requests it ran are lost.                     *)
Restore ==
  /\ epoch <= MaxRestores /\ epoch' = NextEpoch /\ log' = saved
  /\ request' = [r \in Senders |-> [request[r] EXCEPT !.at = "idle"]]
  /\ UNCHANGED <<saved, lowered, incidents>>

Attempt(r) ==
  \/ Send(r) \/ Denied(r) \/ TooLarge(r) \/ AnswerKnown(r) \/ Refuse(r) \/ Record(r) \/ Fail(r)
  \/ \E outcome \in {"applied", "conflict"} : Execute(r, outcome)

Next == (\E r \in Senders : Attempt(r)) \/ ChangeLimit \/ Dump \/ Restore

Spec == Init /\ [][Next]_ledgerVars

-----------------------------------------------------------------------------
(* A command takes effect once, with the body and the outcome its row gives,
   however many requests carry it, and no later refusal takes its place.    *)
EffectsAsRecorded ==
  \A c \in Ids :
    log.effects[c] = IF log.entry[c].status \in {"applied", "conflict"}
                     THEN <<<<log.entry[c].status, log.entry[c].body>>>> ELSE <<>>

(* A command that requires another one takes effect only where that one was
   applied, in this history of the database: it does not rest on a refusal, on a
   conflict, or on what a restore took away.                                *)
RequiredApplied ==
  \A c \in DOMAIN RequiredBy :
    log.effects[c] # <<>> =>
      LET e == log.effects[RequiredBy[c]] IN e # <<>> /\ e[1][1] = "applied"

(* What a client was told in the server's epoch is what the database holds:
   after a restore, whoever still believes an older answer knows an older epoch. *)
ToldIsTrue ==
  \A r \in Senders : \A i \in DOMAIN Batches[r] :
    request[r].epoch = epoch /\ request[r].told[i] \in {"applied", "conflict"} =>
      log.effects[Batches[r][i].id] = <<<<request[r].told[i], Batches[r][i].body>>>>
=============================================================================
