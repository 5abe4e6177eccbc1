----------------------------- MODULE MailOutbox -----------------------------
(***************************************************************************)
(* The mail outbox: messages that a business transaction enqueued, their   *)
(* encrypted bodies, and the worker processes that claim a message under a *)
(* lease, hand it to the provider and report.  Every statement a worker    *)
(* sends to the database is a step of its own, so that leases run out,     *)
(* tokens are revoked, administrators cancel and processes die between any *)
(* two.                                                                    *)
(*                                                                         *)
(* Time is abstract: a lease, a back-off and the life of a body each end   *)
(* at some moment.  Nothing keeps a lease alive while its worker waits for *)
(* the provider.                                                           *)
(***************************************************************************)
EXTENDS Integers

CONSTANTS
  Messages,
  ActionMails,   \* messages whose payload names an account action token
  Invitations,   \* invitation messages
  Workers,       \* server processes; each has a workerId of its own
  MaxAttempts,   \* outbox_messages.max_attempts
  MaxFaults,     \* bound: database errors
  MaxFreezes,    \* bound: times the operator leaves the normal mode
  None

ASSUME MessagesAssumption ==
  /\ ActionMails \subseteq Messages /\ Invitations \subseteq Messages
  /\ ActionMails \cap Invitations = {}
ASSUME MaxAttemptsAssumption == MaxAttempts \in Nat \ {0}
ASSUME BoundsAssumption == MaxFaults \in Nat /\ MaxFreezes \in Nat
ASSUME NoneAssumption == None \notin Workers /\ None \notin Messages

VARIABLES
  outbox,    \* outbox_messages
  sealed,    \* the bodies in mail_secret_payloads that are not erased
  fresh,     \* the messages whose body has not expired
  token,     \* of the token or invitation a message carries
  mode,      \* maintenance_state.mode
  worker,    \* where the runOnce of each process stands
  erasing,   \* bodies an administrator's request is about to erase
  swept,     \* expired bodies the maintenance run has just erased
  accepted,  \* how often the provider took each message, in each attempt
  faults,
  freezes

tables == <<outbox, sealed, fresh, token, mode>>
requests == <<erasing, swept>>
counters == <<faults, freezes>>
vars == <<tables, requests, worker, accepted, counters>>

Validity == {"valid", "spent", "revoked"}

Statuses == {"absent", "pending", "sending", "sent", "dead_letter"}

Row == [status : Statuses, attempts : 0..MaxAttempts,
        lockedBy : Workers \cup {None}, leased : BOOLEAN, due : BOOLEAN]

Steps == {"idle", "sweeping", "claiming", "checking", "resolving", "discarding",
          "sending", "delivered", "failing", "refused", "erasing", "gone"}

(* claim and attempts are the claimed row as the worker remembers it; swept
   are the bodies of the messages its claim has given up.                   *)
WorkerState == [step : Steps, claim : Messages \cup {None},
                attempts : 0..MaxAttempts, swept : SUBSET Messages]

(* The rows have their types and a worker knows what it works on.           *)
TypeOK ==
  /\ outbox \in [Messages -> Row]
  /\ sealed \in SUBSET Messages /\ fresh \in SUBSET Messages
  /\ token \in [Messages -> Validity]
  /\ mode \in {"normal", "frozen"}
  /\ worker \in [Workers -> WorkerState]
  /\ erasing \in SUBSET Messages /\ swept \in SUBSET Messages
  /\ accepted \in [Messages -> [1..MaxAttempts -> Nat]]
  /\ faults \in 0..MaxFaults /\ freezes \in 0..MaxFreezes

Absent == [status |-> "absent", attempts |-> 0, lockedBy |-> None,
           leased |-> FALSE, due |-> FALSE]

Idle == [step |-> "idle", claim |-> None, attempts |-> 0, swept |-> {}]

Init ==
  /\ outbox = [m \in Messages |-> Absent]
  /\ sealed = {} /\ fresh = {}
  /\ token = [m \in Messages |-> "valid"]
  /\ mode = "normal"
  /\ worker = [w \in Workers |-> Idle]
  /\ erasing = {} /\ swept = {}
  /\ accepted = [m \in Messages |-> [n \in 1..MaxAttempts |-> 0]]
  /\ faults = 0 /\ freezes = 0

-----------------------------------------------------------------------------
(* Rows.                                                                    *)

Open(m) == outbox[m].status \in {"pending", "sending"}

Released(row, status) ==
  [row EXCEPT !.status = status, !.lockedBy = None, !.leased = FALSE]

DeadLettered(S) ==
  [m \in Messages |-> IF m \in S THEN Released(outbox[m], "dead_letter")
                      ELSE outbox[m]]

(* Fault: a process that died in its last attempt is forgotten.             *)
FinalPending(row) == row.attempts >= MaxAttempts /\ row.status = "pending"

(* The attempts are used up and nobody works on the last one any more.      *)
FinalLeaseExpired(row) ==
  /\ row.attempts >= MaxAttempts
  /\ \/ row.status = "sending" /\ ~row.leased
     \/ row.status = "pending"

(* Fault: the budget is not looked at when an expired lease is taken over.  *)
ClaimableForever(row) ==
  \/ row.status = "pending" /\ row.due /\ row.attempts < MaxAttempts
  \/ row.status = "sending" /\ ~row.leased

Claimable(row) ==
  /\ \/ row.status = "pending" /\ row.due
     \/ row.status = "sending" /\ ~row.leased
  /\ row.attempts < MaxAttempts

(* Fault: taking a message over is not counted as an attempt.               *)
ClaimedUncounted(row, w) ==
  [row EXCEPT !.status = "sending", !.lockedBy = w, !.leased = TRUE,
              !.attempts = IF row.status = "pending" THEN @ + 1 ELSE @]

Claimed(row, w) ==
  [row EXCEPT !.status = "sending", !.lockedBy = w, !.leased = TRUE,
              !.attempts = @ + 1]

(* Fault: a report goes to the row whoever holds it now.                    *)
HeldByAnyone(m, w) == outbox[m].status = "sending"

(* The condition on every report of a worker.                               *)
HeldBy(m, w) == outbox[m].status = "sending" /\ outbox[m].lockedBy = w

-----------------------------------------------------------------------------
(* What enqueues, revokes and cancels messages.                             *)

(* The token, the body and the message are written by one transaction.      *)
Enqueue(m) ==
  /\ outbox[m].status = "absent"
  /\ outbox' = [outbox EXCEPT ![m].status = "pending", ![m].due = TRUE]
  /\ sealed' = sealed \cup {m}
  /\ fresh' = fresh \cup {m}
  /\ UNCHANGED <<token, mode, requests, worker, accepted, counters>>

(* A token is used, or replaced by a resend or a reset; an invitation is used
   up.  The message stays.                                                  *)
SpendToken(m) ==
  /\ m \in ActionMails \cup Invitations
  /\ outbox[m].status # "absent" /\ token[m] = "valid"
  /\ token' = [token EXCEPT ![m] = "spent"]
  /\ UNCHANGED <<outbox, sealed, fresh, mode, requests, worker, accepted, counters>>

(* revoke, and the first half of replaceAndSend: a message nobody has claimed
   is cancelled with the invitation; its body is erased after the commit.   *)
RevokeInvitation(m) ==
  LET cancelled == {n \in {m} : outbox[n].status = "pending"}
  IN  /\ m \in Invitations
      /\ outbox[m].status # "absent" /\ token[m] # "revoked"
      /\ token' = [token EXCEPT ![m] = "revoked"]
      /\ outbox' = DeadLettered(cancelled)
      /\ erasing' = erasing \cup cancelled
      /\ UNCHANGED <<sealed, fresh, mode, swept, worker, accepted, counters>>

CancelPending(m) ==
  /\ outbox[m].status = "pending"
  /\ outbox' = DeadLettered({m})
  /\ erasing' = erasing \cup {m}
  /\ UNCHANGED <<sealed, fresh, token, mode, swept, worker, accepted, counters>>

EraseCancelled(m) ==
  /\ m \in erasing
  /\ sealed' = sealed \ {m}
  /\ erasing' = erasing \ {m}
  /\ UNCHANGED <<outbox, fresh, token, mode, swept, worker, accepted, counters>>

-----------------------------------------------------------------------------
(* The runOnce of a worker.                                                 *)

Goto(w, step) == worker' = [worker EXCEPT ![w].step = step]

Done(w) == worker' = [worker EXCEPT ![w] = Idle]

(* The mode is read, and acted upon later.                                  *)
RunOnce(w) ==
  /\ worker[w].step = "idle"
  /\ mode = "normal"
  /\ Goto(w, "sweeping")
  /\ UNCHANGED <<tables, requests, accepted, counters>>

(* claim, first statement: what used up its attempts is given up.           *)
GiveUpExpired(w) ==
  LET final == {m \in Messages : FinalLeaseExpired(outbox[m])}
  IN  /\ worker[w].step = "sweeping"
      /\ outbox' = DeadLettered(final)
      /\ worker' = [worker EXCEPT ![w].step = "claiming", ![w].swept = final]
      /\ UNCHANGED <<sealed, fresh, token, mode, requests, accepted, counters>>

EraseGivenUp(w) ==
  /\ worker[w].step = "claiming"
  /\ \E m \in worker[w].swept :
       /\ sealed' = sealed \ {m}
       /\ worker' = [worker EXCEPT ![w].swept = @ \ {m}]
  /\ UNCHANGED <<outbox, fresh, token, mode, requests, accepted, counters>>

(* claim, last statement.                                                   *)
Claim(w) ==
  /\ worker[w].step = "claiming" /\ worker[w].swept = {}
  /\ \E m \in Messages :
       /\ Claimable(outbox[m])
       /\ outbox' = [outbox EXCEPT ![m] = Claimed(@, w)]
       /\ worker' = [worker EXCEPT ![w].step = "checking", ![w].claim = m,
                                   ![w].attempts = outbox'[m].attempts]
  /\ UNCHANGED <<sealed, fresh, token, mode, requests, accepted, counters>>

NothingToClaim(w) ==
  /\ worker[w].step = "claiming" /\ worker[w].swept = {}
  /\ \A m \in Messages : ~Claimable(outbox[m])
  /\ Done(w)
  /\ UNCHANGED <<tables, requests, accepted, counters>>

(* isStillDeliverable: the token lives as long as the body that carries it. *)
Deliverable(m) ==
  m \in ActionMails \cup Invitations => token[m] = "valid" /\ m \in fresh

CheckToken(w) ==
  /\ worker[w].step = "checking"
  /\ Goto(w, IF Deliverable(worker[w].claim) THEN "resolving" ELSE "discarding")
  /\ UNCHANGED <<tables, requests, accepted, counters>>

(* A body that is erased or has expired cannot be read.                     *)
Resolve(w) ==
  /\ worker[w].step = "resolving"
  /\ Goto(w, IF worker[w].claim \in sealed \cap fresh THEN "sending" ELSE "discarding")
  /\ UNCHANGED <<tables, requests, accepted, counters>>

(* The provider takes the message, and says so or not; or it does not.      *)
Send(w) ==
  LET m == worker[w].claim
  IN  /\ worker[w].step = "sending"
      /\ \/ /\ accepted' = [accepted EXCEPT ![m][worker[w].attempts] = @ + 1]
            /\ Goto(w, "delivered") \/ Goto(w, "failing")
         \/ /\ UNCHANGED accepted
            /\ Goto(w, "failing") \/ Goto(w, "refused")
      /\ UNCHANGED <<tables, requests, counters>>

(* Fault: the body is erased whether the report counted or not.             *)
AlwaysErase(changed) == TRUE

EraseAfter(changed) == changed

(* A report of worker w: the row takes it only while w holds it, and when a
   final one was taken the body is erased in a statement of its own.        *)
Report(w, row, final) ==
  LET m == worker[w].claim
      changed == HeldBy(m, w)
  IN  /\ outbox' = IF changed THEN [outbox EXCEPT ![m] = row] ELSE outbox
      /\ IF final /\ EraseAfter(changed) THEN Goto(w, "erasing") ELSE Done(w)
      /\ UNCHANGED <<sealed, fresh, token, mode, requests, accepted, counters>>

Discard(w) ==
  /\ worker[w].step = "discarding"
  /\ Report(w, Released(outbox[worker[w].claim], "dead_letter"), TRUE)

MarkSent(w) ==
  /\ worker[w].step = "delivered"
  /\ Report(w, Released(outbox[worker[w].claim], "sent"), TRUE)

Terminal(attempts, retryable) == ~retryable \/ attempts >= MaxAttempts

(* fail: back into the queue, later, or given up.                           *)
Fail(w) ==
  LET row == outbox[worker[w].claim]
      terminal == Terminal(worker[w].attempts, worker[w].step = "failing")
  IN  /\ worker[w].step \in {"failing", "refused"}
      /\ Report(w, [Released(row, IF terminal THEN "dead_letter" ELSE "pending")
                      EXCEPT !.due = FALSE],
                terminal)

Erase(w) ==
  /\ worker[w].step = "erasing"
  /\ sealed' = sealed \ {worker[w].claim}
  /\ Done(w)
  /\ UNCHANGED <<outbox, fresh, token, mode, requests, accepted, counters>>

-----------------------------------------------------------------------------
(* Errors, crashes, time, maintenance.                                      *)

(* A statement fails: the run is over and its lease stays.  Only the report
   that a message was sent is inside the try block, and is taken for a
   failure of the provider (so is the erase after it, to no effect).        *)
StatementFails(w) ==
  /\ faults < MaxFaults
  /\ worker[w].step \notin {"idle", "gone", "sending"}
  /\ IF worker[w].step = "delivered" THEN Goto(w, "failing") ELSE Done(w)
  /\ faults' = faults + 1
  /\ UNCHANGED <<tables, requests, accepted, freezes>>

(* A process dies; a new one has another workerId.                          *)
Crash(w) ==
  /\ worker[w].step # "gone"
  /\ \E v \in Workers \ {w} : worker[v].step # "gone"
  /\ worker' = [worker EXCEPT ![w] = [Idle EXCEPT !.step = "gone"]]
  /\ UNCHANGED <<tables, requests, accepted, counters>>

(* An administrator's request or the maintenance run dies half-way.         *)
RequestDies ==
  /\ erasing \cup swept # {}
  /\ erasing' = {} /\ swept' = {}
  /\ UNCHANGED <<tables, worker, accepted, counters>>

LeaseExpires(m) ==
  /\ outbox[m].leased
  /\ outbox' = [outbox EXCEPT ![m].leased = FALSE]
  /\ UNCHANGED <<sealed, fresh, token, mode, requests, worker, accepted, counters>>

BackoffEnds(m) ==
  /\ outbox[m].status = "pending" /\ ~outbox[m].due
  /\ outbox' = [outbox EXCEPT ![m].due = TRUE]
  /\ UNCHANGED <<sealed, fresh, token, mode, requests, worker, accepted, counters>>

BodyExpires(m) ==
  /\ m \in fresh
  /\ fresh' = fresh \ {m}
  /\ UNCHANGED <<outbox, sealed, token, mode, requests, worker, accepted, counters>>

(* Fault: only the bodies of messages still in the queue are looked at.      *)
ExpiredOpenBodies == {m \in sealed \ fresh : Open(m)}

ExpiredBodies == sealed \ fresh

(* The maintenance run: expired bodies are erased ...                       *)
EraseExpired ==
  /\ swept = {} /\ ExpiredBodies # {}
  /\ swept' = ExpiredBodies
  /\ sealed' = sealed \ ExpiredBodies
  /\ UNCHANGED <<outbox, fresh, token, mode, erasing, worker, accepted, counters>>

(* ... and, in another statement, their messages given up.                  *)
GiveUpSwept ==
  /\ swept # {}
  /\ outbox' = DeadLettered({m \in swept : Open(m)})
  /\ swept' = {}
  /\ UNCHANGED <<sealed, fresh, token, mode, erasing, worker, accepted, counters>>

Freeze ==
  /\ mode = "normal" /\ freezes < MaxFreezes
  /\ mode' = "frozen"
  /\ freezes' = freezes + 1
  /\ UNCHANGED <<outbox, sealed, fresh, token, requests, worker, accepted, faults>>

Unfreeze ==
  /\ mode = "frozen"
  /\ mode' = "normal"
  /\ UNCHANGED <<outbox, sealed, fresh, token, requests, worker, accepted, counters>>

-----------------------------------------------------------------------------
ClaimSteps(w) == GiveUpExpired(w) \/ EraseGivenUp(w) \/ Claim(w) \/ NothingToClaim(w)

Deliver(w) == Resolve(w) \/ Send(w) \/ MarkSent(w) \/ Fail(w)

WorkerStep(w) ==
  RunOnce(w) \/ ClaimSteps(w) \/ CheckToken(w) \/ Deliver(w) \/ Discard(w) \/ Erase(w)

Time(m) == LeaseExpires(m) \/ BackoffEnds(m) \/ BodyExpires(m)

Administration(m) ==
  Enqueue(m) \/ SpendToken(m) \/ RevokeInvitation(m) \/ CancelPending(m)

Maintenance == EraseExpired \/ GiveUpSwept

Next ==
  \/ \E w \in Workers : WorkerStep(w) \/ StatementFails(w) \/ Crash(w)
  \/ \E m \in Messages : Administration(m) \/ EraseCancelled(m) \/ Time(m)
  \/ Maintenance \/ RequestDies \/ Freeze \/ Unfreeze

(* The timer of each live process runs, the provider answers, time passes,
   maintenance runs every hour, and the operator returns to normal.         *)
Fairness ==
  /\ \A w \in Workers : WF_vars(WorkerStep(w))
  /\ \A m \in Messages :
       WF_vars(LeaseExpires(m)) /\ WF_vars(BackoffEnds(m)) /\ WF_vars(BodyExpires(m))
  /\ WF_vars(Maintenance)
  /\ WF_vars(Unfreeze)

Spec == Init /\ [][Next]_vars

FairSpec == Spec /\ Fairness

-----------------------------------------------------------------------------
(* Whatever leases, crashes and cancellations do: a message is handed over
   at most once for each of at most MaxAttempts attempts, is recorded as sent
   only if the provider took it, and never leaves a final status.           *)
Record(status) ==
  IF status = "sent" THEN "done"
  ELSE IF status = "dead_letter" THEN "given_up"
  ELSE IF status = "absent" THEN "absent" ELSE "open"

Work ==
  INSTANCE LeasedWork WITH
    Items <- Messages, Budget <- MaxAttempts,
    state <- [m \in Messages |-> Record(outbox[m].status)],
    tries <- [m \in Messages |-> outbox[m].attempts],
    effects <- accepted

AtLeastOnceInBudget == Work!Spec

(* A worker that lost its lease cannot report on the attempt that took the
   message over: what it reports is only taken for the attempt it made.     *)
ReportsOwnAttempt ==
  [][\A w \in Workers : \A m \in Messages :
       /\ worker[w].claim = m
       /\ worker'[w] # worker[w]
       /\ outbox'[m] # outbox[m]
       => outbox[m].lockedBy = w /\ outbox[m].attempts = worker[w].attempts]_vars

(* No report, sweep or cancellation erases the body of a message that may
   still be sent; only its expiry does.                                     *)
BodyKept == \A m \in Messages : Open(m) /\ m \in fresh => m \in sealed

(* outbox-worker.ts:52-54: outside the normal mode delivery is frozen, "the
   durable row remains pending"; docs/account-service/14-local-test-plan.md:124:
   nothing is claimed.                                                      *)
NotClaimedWhileFrozen ==
  [][mode # "normal" =>
       \A m \in Messages : outbox'[m].attempts = outbox[m].attempts]_vars

(* Every message that was enqueued is settled.                              *)
EverythingSettled == \A m \in Messages : Open(m) ~> ~Open(m)

(* No body outlives its message, whatever died between the two.             *)
BodiesErased ==
  \A m \in Messages : (outbox[m].status # "absent" /\ ~Open(m)) ~> m \notin sealed
=============================================================================
