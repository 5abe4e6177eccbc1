---------------------------- MODULE SupportCases ----------------------------
(***************************************************************************)
(* The support cases of one hosted account: their messages and diagnostic  *)
(* snapshots (support/service.ts), the fence of an account that is being   *)
(* deleted (compliance/deletion-fence.ts), and what maintenance erases     *)
(* (maintenance/service.ts).                                               *)
(*                                                                         *)
(* A request has authenticated when it begins its transaction.  It then    *)
(* waits for its locks (the account's, the row of the case), reads, and    *)
(* commits.  PostgreSQL's now() is when a transaction began, so messages   *)
(* are listed in the order in which their transactions began: `turn'.      *)
(* Nothing in src closes a case, and who it is assigned to is left out.    *)
(***************************************************************************)
EXTENDS Integers, Sequences

CONSTANTS
  Requests,
  Staff,
  Keys,      \* idempotency keys
  Bodies,
  None,
  MaxCases,
  MaxBegun   \* bound on the transactions begun

VARIABLES
  account,   \* "open", "fenced", "purged", or "dropped" (removed without a case of deletion)
  cases,     \* the cases that exist, by number, with their status
  messages,  \* the messages, each with its turn (created_at)
  snapshot,  \* case -> its diagnostic snapshot
  task,      \* request -> its transaction
  lock,      \* who holds the lock of the account
  doomed,    \* messages the purge under way has deleted and not committed
  begun,
  named,     \* history: the answers to those who created a case
  crossed    \* history: cases with a message listed before one that was there already

supportVars == <<account, cases, messages, snapshot, task, lock, doomed, begun, named, crossed>>

Numbers  == 1..MaxCases
Customer == "account"
Purge    == "purge"
NoTask   == [op |-> "none", by |-> None, key |-> None, body |-> None, case |-> 0,
             at |-> "idle", found |-> None, turn |-> 0]

Init ==
  /\ account = "open" /\ cases = <<>> /\ messages = {}
  /\ snapshot = [c \in Numbers |-> "none"]
  /\ task = [r \in Requests |-> NoTask] /\ lock = None /\ doomed = {}
  /\ begun = 0 /\ named = {} /\ crossed = {}

(* The message of a transaction, in a case.                                  *)
Message(t, c) ==
  [op |-> t.op, by |-> t.by, key |-> t.key, body |-> t.body, case |-> c, turn |-> t.turn]
Writes(t)   == t.op \in {"create", "append", "reply", "note"}
OfAccount(t) == t.by = Customer

-----------------------------------------------------------------------------
(* A transaction begins; a customer has just shown a session that is valid.  *)
Begin(r, t) ==
  /\ task[r] = NoTask /\ begun < MaxBegun /\ begun' = begun + 1
  /\ OfAccount(t) => account = "open"
  /\ task' = [task EXCEPT ![r] = [t EXCEPT !.at = "begun", !.turn = begun + 1]]
  /\ UNCHANGED <<account, cases, messages, snapshot, lock, doomed, named, crossed>>

Asked(op, by, key, body, c) ==
  [NoTask EXCEPT !.op = op, !.by = by, !.key = key, !.body = body, !.case = c]

(* createCase, appendCustomerMessage, appendStaffMessage (a reply, or a note
   for the staff only), createDiagnosticGrant, revokeDiagnosticGrant.        *)
Start(r) ==
  \/ \E k \in Keys, b \in Bodies : Begin(r, Asked("create", Customer, k, b, 0))
  \/ \E c \in DOMAIN cases :
       \/ \E k \in Keys, b \in Bodies : Begin(r, Asked("append", Customer, k, b, c))
       \/ \E k \in Keys, b \in Bodies, s \in Staff, op \in {"reply", "note"} :
            Begin(r, Asked(op, s, k, b, c))
       \/ \E op \in {"grant", "revoke"} : Begin(r, Asked(op, Customer, None, None, c))

(* Fault: the case is created without the account's lock.                    *)
LocksOthers(t) == OfAccount(t) /\ t.op # "create"
LocksAccount(t) == OfAccount(t)
LocksCase(t) == t.op \in {"append", "reply", "note", "grant"}
RowFree(c) == \A r \in Requests : ~(task[r].at = "in" /\ LocksCase(task[r]) /\ task[r].case = c)

(* What an earlier request with this key left: of the account in any case for
   a new case, of the same author in this case otherwise.                    *)
Earlier(t) ==
  {m \in messages : /\ m.key = t.key /\ m.by = t.by
                    /\ t.op = "create" \/ m.case = t.case}

(* Fault: the fence is not asked.                                            *)
Anyone(t) == \E r \in Requests : task[r] = t
Allowed(t) == OfAccount(t) => account \notin {"fenced", "purged"}
HasAccount(t) == OfAccount(t) => account \notin {"purged", "dropped"}

(* The locks are taken, and the fence and the earlier message read.          *)
Enter(r) ==
  LET t == task[r] IN
  /\ t.at = "begun"
  /\ LocksAccount(t) => lock = None
  /\ LocksCase(t) => RowFree(t.case)
  /\ IF Allowed(t) /\ HasAccount(t)
     THEN /\ \E m \in (IF Writes(t) /\ Earlier(t) # {} THEN Earlier(t) ELSE {None}) :
               task' = [task EXCEPT ![r] = [@ EXCEPT !.at = "in", !.found = m]]
          /\ lock' = (IF LocksAccount(t) THEN r ELSE lock)
     ELSE task' = [task EXCEPT ![r] = NoTask] /\ UNCHANGED lock
  /\ UNCHANGED <<account, cases, messages, snapshot, doomed, begun, named, crossed>>

-----------------------------------------------------------------------------
(* The transaction ends.                                                     *)
Ends(r) ==
  /\ task[r].at = "in" /\ task' = [task EXCEPT ![r] = NoTask]
  /\ lock' = (IF lock = r THEN None ELSE lock)
  /\ UNCHANGED <<account, doomed, begun>>

SameInput(m, t) == m.op = t.op /\ m.body = t.body
Repeat(r) ==
  LET t == task[r] IN
  /\ Ends(r) /\ t.found # None
  /\ named' = (IF t.op = "create" /\ SameInput(t.found, t)
               THEN named \cup {[key |-> t.key, case |-> t.found.case]} ELSE named)
  /\ UNCHANGED <<cases, messages, snapshot, crossed>>

(* The message is inserted; a key that another member of the staff used
   in this case is refused by the unique index.                              *)
Taken(t, c) == \E m \in messages : /\ m.case = c /\ m.key = t.key
                                   /\ OfAccount(m) = OfAccount(t)
Status(op) == IF op = "reply" THEN "waiting_for_user" ELSE "waiting_for_support"
(* Fault: a note for the staff counts as a reply.                            *)
AnyMessage(op)  == op \in {"create", "append", "reply", "note"}
ForCustomer(op) == op # "note"

CasesWith(t, c) ==
  IF t.op = "create" THEN Append(cases, Status(t.op))
  ELSE IF ForCustomer(t.op) THEN [cases EXCEPT ![c] = Status(t.op)]
  ELSE cases

Insert(r) ==
  LET t == task[r]
      c == IF t.op = "create" THEN Len(cases) + 1 ELSE t.case
      late == \E m \in messages : m.case = c /\ m.turn > t.turn
  IN /\ Writes(t) /\ t.found = None /\ Ends(r)
     /\ IF Taken(t, c)
        THEN UNCHANGED <<cases, messages, named, crossed>>
        ELSE /\ c \in Numbers
             /\ messages' = messages \cup {Message(t, c)}
             /\ cases' = CasesWith(t, c)
             /\ named' = (IF t.op = "create" THEN named \cup {[key |-> t.key, case |-> c]} ELSE named)
             /\ crossed' = (IF late THEN crossed \cup {c} ELSE crossed)
     /\ UNCHANGED snapshot

(* A snapshot is kept for a time; revoking it erases it.  Bound: one a case.  *)
ChangeSnapshot(r) ==
  LET t == task[r] IN
  /\ t.op \in {"grant", "revoke"} /\ Ends(r)
  /\ IF t.op = "grant" THEN snapshot[t.case] = "none" ELSE snapshot[t.case] # "none"
  /\ snapshot' = [snapshot EXCEPT ![t.case] = IF t.op = "grant" THEN "live" ELSE "erased"]
  /\ UNCHANGED <<cases, messages, named, crossed>>

(* The connection is lost before the commit.                                 *)
Abort(r) ==
  /\ Ends(r)
  /\ UNCHANGED <<cases, messages, snapshot, named, crossed>>

-----------------------------------------------------------------------------
(* Deletion of the account is requested, or canceled (AccountDeletion).      *)
Fence ==
  /\ lock = None /\ account \in {"open", "fenced"}
  /\ account' = (IF account = "open" THEN "fenced" ELSE "open")
  /\ UNCHANGED <<cases, messages, snapshot, task, lock, doomed, begun, named, crossed>>

(* #finalizePurgingDeletionAccounts: snapshots and messages go, then the cases
   are taken off the account, each when its row is free, and all is committed
   at once.                                                                  *)
StartPurge ==
  /\ account = "fenced" /\ lock = None
  /\ lock' = Purge /\ doomed' = messages
  /\ UNCHANGED <<account, cases, messages, snapshot, task, begun, named, crossed>>
EndPurge ==
  /\ lock = Purge /\ \A c \in DOMAIN cases : RowFree(c)
  /\ lock' = None /\ account' = "purged" /\ doomed' = {}
  /\ messages' = messages \ doomed
  /\ snapshot' = [c \in Numbers |-> IF snapshot[c] = "none" THEN "none" ELSE "erased"]
  /\ UNCHANGED <<cases, task, begun, named, crossed>>

(* runOnce: an account that was disabled without a case of deletion goes, and
   its cases stay as they are.                                               *)
Drop ==
  /\ account = "open" /\ lock = None
  /\ account' = "dropped"
  /\ UNCHANGED <<cases, messages, snapshot, task, lock, doomed, begun, named, crossed>>

Expire(c) ==
  /\ snapshot[c] = "live" /\ snapshot' = [snapshot EXCEPT ![c] = "expired"]
  /\ UNCHANGED <<account, cases, messages, task, lock, doomed, begun, named, crossed>>
Erase ==
  /\ \E c \in Numbers : snapshot[c] = "expired"
  /\ snapshot' = [c \in Numbers |-> IF snapshot[c] = "expired" THEN "erased" ELSE snapshot[c]]
  /\ UNCHANGED <<account, cases, messages, task, lock, doomed, begun, named, crossed>>

Next ==
  \/ \E r \in Requests : Start(r) \/ Enter(r) \/ Repeat(r) \/ Insert(r) \/ ChangeSnapshot(r) \/ Abort(r)
  \/ Fence \/ StartPurge \/ EndPurge \/ Drop \/ Erase
  \/ \E c \in Numbers : Expire(c)

Spec == Init /\ [][Next]_supportVars

-----------------------------------------------------------------------------

(* The tables of support and the transactions on them.                      *)
TypeOK ==
  /\ account \in {"open", "fenced", "purged", "dropped"}
  /\ cases \in Seq({"waiting_for_support", "waiting_for_user"}) /\ Len(cases) <= MaxCases
  /\ \A m \in messages : /\ m.key \in Keys /\ m.by \in Staff \cup {Customer} /\ m.body \in Bodies
                          /\ m.case \in DOMAIN cases /\ m.turn \in 1..begun
  /\ snapshot \in [Numbers -> {"none", "live", "expired", "erased"}]
  /\ \A r \in Requests : task[r].at \in {"idle", "begun", "in"}
  /\ lock \in Requests \cup {None, Purge} /\ doomed \subseteq messages
  /\ begun \in 0..MaxBegun

(* A request to create a case that is sent again, also while the first is
   under way, leads to the same case, and no case is there twice.            *)
OneCasePerKey ==
  /\ \A a, b \in named : a.key = b.key => a.case = b.case
  /\ \A m, n \in messages : (m.op = "create" /\ n.op = "create" /\ m.key = n.key) => m = n

(* Who a case waits for is who did not write the last message that both see:
   notes, repeated requests and refused ones do not change it.  As long as the
   account is there, and no message was listed before one that was written
   earlier: its transaction had begun first.                                 *)
Seen(c) == {m \in messages : m.case = c /\ m.op # "note"}
WaitsForTheOther ==
  account \in {"open", "fenced"} =>
    \A c \in DOMAIN cases \ crossed :
      \E m \in Seen(c) : /\ \A n \in Seen(c) : n.turn <= m.turn
                         /\ cases[c] = Status(m.op)

(* Nothing a customer writes is taken while the account is being deleted,
   also of a request that had shown a valid session before.                  *)
Written == {m \in messages : OfAccount(m)}
FencedTakesNothing ==
  [][account = "fenced" /\ account' # "open" => Written' \subseteq Written]_supportVars

(* Nothing a customer wrote or let be read is there after the purge, although
   requests that had authenticated before were still under way.              *)
PurgedIsClean ==
  account = "purged" => /\ Written = {}
                        /\ \A c \in Numbers : snapshot[c] \in {"none", "erased"}

(* A case that was asked for once is there once and waits for who has not
   written last, and nothing of a purged account is left.                   *)
SupportSound == OneCasePerKey /\ WaitsForTheOther /\ PurgedIsClean
=============================================================================
