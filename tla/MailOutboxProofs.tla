-------------------------- MODULE MailOutboxProofs --------------------------
(***************************************************************************)
(* Proofs about the mail outbox, for any messages, processes and number of *)
(* attempts: the tables keep their types, the outbox implements LeasedWork, *)
(* a worker only reports on its own attempt, and no body is erased under a *)
(* message that may still be sent; and about the settings it is sent with: *)
(* a stored configuration loads, and all processes come to run with it.    *)
(***************************************************************************)
EXTENDS MailOutbox, SettingsPromise, TLAPS

-----------------------------------------------------------------------------
(* Rows and workers stay rows and workers.                                  *)

LEMMA ReleasedIsRow ==
  ASSUME NEW entry \in Row, NEW status \in Statuses
  PROVE  Released(entry, status) \in Row
BY DEF Released, Row

LEMMA DeadLetteredIsTable ==
  ASSUME outbox \in [Messages -> Row], NEW S
  PROVE  DeadLettered(S) \in [Messages -> Row]
BY ReleasedIsRow DEF DeadLettered, Statuses

LEMMA ClaimedIsRow ==
  ASSUME NEW entry \in Row, NEW w \in Workers, Claimable(entry)
  PROVE  Claimed(entry, w) \in Row
<1>1. entry.attempts < MaxAttempts
  BY DEF Claimable
<1>2. entry.attempts + 1 \in 0..MaxAttempts
  BY <1>1, MaxAttemptsAssumption DEF Row
<1> QED
  BY <1>2 DEF Claimed, Row, Statuses

LEMMA CountedIsRow ==
  ASSUME NEW D, NEW f \in [D -> Nat], NEW n \in D
  PROVE  [f EXCEPT ![n] = @ + 1] \in [D -> Nat]
OBVIOUS

LEMMA CountedIsMore ==
  ASSUME NEW D, NEW f \in [D -> Nat], NEW n \in D
  PROVE  [f EXCEPT ![n] = @ + 1][n] = f[n] + 1
OBVIOUS

(* One more acceptance in one attempt at one message.                       *)
LEMMA CountedIsTable ==
  ASSUME NEW D, NEW f \in [Messages -> [D -> Nat]], NEW m \in Messages, NEW n \in D
  PROVE  [f EXCEPT ![m][n] = @ + 1] \in [Messages -> [D -> Nat]]
<1>1. [f EXCEPT ![m][n] = @ + 1] = [f EXCEPT ![m] = [f[m] EXCEPT ![n] = @ + 1]]
  OBVIOUS
<1>2. [f[m] EXCEPT ![n] = @ + 1] \in [D -> Nat]
  BY CountedIsRow
<1> QED
  BY <1>1, <1>2

LEMMA IdleIsWorker == Idle \in WorkerState
BY MaxAttemptsAssumption DEF Idle, WorkerState, Steps

LEMMA MovedIsWorker ==
  ASSUME worker \in [Workers -> WorkerState], NEW w \in Workers
  PROVE  /\ \A step \in Steps : Goto(w, step) => worker' \in [Workers -> WorkerState]
         /\ Done(w) => worker' \in [Workers -> WorkerState]
BY IdleIsWorker DEF Goto, Done, WorkerState

(* The steps in which a worker holds a message.                             *)
Working == {"checking", "resolving", "discarding", "sending", "delivered",
            "failing", "refused", "erasing"}

(* A worker holds a message exactly in these steps, and its attempt is one
   that the row has counted.                                                *)
ClaimsCounted ==
  \A w \in Workers :
    /\ worker[w].step \in Working =>
         /\ worker[w].claim \in Messages
         /\ worker[w].attempts \in 1..outbox[worker[w].claim].attempts
    /\ worker[w].step \notin Working => worker[w].claim = None

-----------------------------------------------------------------------------
(* The types, action by action.                                             *)

(* The steps of a run that only move a worker on.                           *)
LEMMA MovesType ==
  ASSUME TypeOK, NEW w \in Workers,
         \/ RunOnce(w) \/ NothingToClaim(w) \/ CheckToken(w) \/ Resolve(w)
         \/ StatementFails(w) \/ Crash(w)
  PROVE  TypeOK'
<1>1. worker' \in [Workers -> WorkerState]
  <2>1. CASE RunOnce(w)
    BY <2>1, MovedIsWorker DEF RunOnce, Steps, TypeOK
  <2>2. CASE NothingToClaim(w)
    BY <2>2, MovedIsWorker DEF NothingToClaim, TypeOK
  <2>3. CASE CheckToken(w)
    BY <2>3, MovedIsWorker DEF CheckToken, Steps, TypeOK
  <2>4. CASE Resolve(w)
    BY <2>4, MovedIsWorker DEF Resolve, Steps, TypeOK
  <2>5. CASE StatementFails(w)
    BY <2>5, MovedIsWorker DEF StatementFails, Steps, TypeOK
  <2>6. CASE Crash(w)
    <3>1. [Idle EXCEPT !.step = "gone"] \in WorkerState
      BY IdleIsWorker DEF WorkerState, Steps
    <3> QED
      BY <2>6, <3>1 DEF Crash, TypeOK
  <2> QED
    BY <2>1, <2>2, <2>3, <2>4, <2>5, <2>6
<1>2. faults' \in 0..MaxFaults
  <2>1. CASE StatementFails(w)
    BY <2>1, BoundsAssumption DEF StatementFails, TypeOK
  <2> QED
    BY <2>1 DEF RunOnce, NothingToClaim, CheckToken, Resolve, Crash, counters, TypeOK
<1>3. UNCHANGED <<tables, requests, accepted, freezes>>
  BY DEF RunOnce, NothingToClaim, CheckToken, Resolve, StatementFails, Crash, counters
<1> QED
  BY <1>1, <1>2, <1>3 DEF TypeOK, tables, requests

LEMMA GiveUpExpiredType ==
  ASSUME TypeOK, NEW w \in Workers, GiveUpExpired(w)
  PROVE  TypeOK'
<1>1. outbox' \in [Messages -> Row]
  BY DeadLetteredIsTable DEF GiveUpExpired, TypeOK
<1>2. PICK final \in SUBSET Messages :
        worker' = [worker EXCEPT ![w].step = "claiming", ![w].swept = final]
  BY DEF GiveUpExpired
<1>3. worker' \in [Workers -> WorkerState]
  <2>1. worker' = [worker EXCEPT
          ![w] = [worker[w] EXCEPT !.step = "claiming", !.swept = final]]
    BY <1>2 DEF TypeOK
  <2>2. [worker[w] EXCEPT !.step = "claiming", !.swept = final] \in WorkerState
    BY ZenonT(60) DEF WorkerState, Steps, TypeOK
  <2> QED
    BY <2>1, <2>2 DEF TypeOK
<1> QED
  BY <1>1, <1>3 DEF GiveUpExpired, requests, counters, TypeOK

LEMMA EraseGivenUpType ==
  ASSUME TypeOK, NEW w \in Workers, EraseGivenUp(w)
  PROVE  TypeOK'
<1>1. PICK m \in worker[w].swept :
        /\ sealed' = sealed \ {m}
        /\ worker' = [worker EXCEPT ![w].swept = @ \ {m}]
  BY DEF EraseGivenUp
<1>2. worker' \in [Workers -> WorkerState]
  BY <1>1, ZenonT(60) DEF WorkerState, TypeOK
<1> QED
  BY <1>1, <1>2 DEF EraseGivenUp, requests, counters, TypeOK

LEMMA ClaimType ==
  ASSUME TypeOK, NEW w \in Workers, Claim(w)
  PROVE  TypeOK'
<1>1. PICK m \in Messages :
        /\ Claimable(outbox[m])
        /\ outbox' = [outbox EXCEPT ![m] = Claimed(@, w)]
        /\ worker' = [worker EXCEPT ![w].step = "checking", ![w].claim = m,
                                    ![w].attempts = outbox'[m].attempts]
  BY DEF Claim
<1>2. outbox' \in [Messages -> Row]
  BY <1>1, ClaimedIsRow DEF TypeOK
<1>3. PICK n \in 0..MaxAttempts :
        worker' = [worker EXCEPT ![w].step = "checking", ![w].claim = m,
                                 ![w].attempts = n]
  BY <1>1, <1>2 DEF Row
<1>4. worker' \in [Workers -> WorkerState]
  <2> DEFINE claiming == [worker[w] EXCEPT !.step = "checking", !.claim = m,
                                           !.attempts = n]
  <2>1. worker' = [worker EXCEPT ![w] = claiming]
    BY <1>3 DEF TypeOK
  <2>2. claiming \in WorkerState
    BY ZenonT(60) DEF WorkerState, Steps, TypeOK
  <2> QED
    BY <2>1, <2>2 DEF TypeOK
<1> QED
  BY <1>2, <1>4 DEF Claim, requests, counters, TypeOK

LEMMA SendType ==
  ASSUME TypeOK, ClaimsCounted, NEW w \in Workers, Send(w)
  PROVE  TypeOK'
<1>1. worker[w].claim \in Messages /\ worker[w].attempts \in 1..MaxAttempts
  BY MaxAttemptsAssumption DEF Send, ClaimsCounted, Working, TypeOK, Row
<1>2. accepted' \in [Messages -> [1..MaxAttempts -> Nat]]
  <2>1. PICK m \in Messages, n \in 1..MaxAttempts :
          \/ accepted' = accepted
          \/ accepted' = [accepted EXCEPT ![m][n] = @ + 1]
    BY <1>1 DEF Send
  <2>2. accepted \in [Messages -> [1..MaxAttempts -> Nat]]
    BY DEF TypeOK
  <2>3. [accepted EXCEPT ![m][n] = @ + 1] \in [Messages -> [1..MaxAttempts -> Nat]]
    BY <2>2, CountedIsTable
  <2> QED
    BY <2>1, <2>2, <2>3
<1>3. worker' \in [Workers -> WorkerState]
  BY MovedIsWorker DEF Send, Steps, TypeOK
<1> QED
  BY <1>2, <1>3 DEF Send, tables, requests, counters, TypeOK

LEMMA ReportType ==
  ASSUME TypeOK, NEW w \in Workers, worker[w].claim \in Messages,
         NEW entry \in Row, NEW final, Report(w, entry, final)
  PROVE  TypeOK'
<1>1. outbox' \in [Messages -> Row]
  BY DEF TypeOK, Report
<1>2. worker' \in [Workers -> WorkerState]
  BY MovedIsWorker DEF Report, Steps, TypeOK
<1> QED
  BY <1>1, <1>2 DEF TypeOK, Report, requests, counters

(* What each kind of report writes is a row.                                *)
LEMMA ReportsType ==
  ASSUME TypeOK, ClaimsCounted, NEW w \in Workers,
         Discard(w) \/ MarkSent(w) \/ Fail(w)
  PROVE  TypeOK'
<1> DEFINE entry == outbox[worker[w].claim]
<1>1. worker[w].claim \in Messages
  BY DEF Discard, MarkSent, Fail, ClaimsCounted, Working
<1>2. entry \in Row
  BY <1>1 DEF TypeOK
<1>3. CASE Discard(w)
  BY <1>1, <1>2, <1>3, ReleasedIsRow, ReportType DEF Discard, Statuses
<1>4. CASE MarkSent(w)
  BY <1>1, <1>2, <1>4, ReleasedIsRow, ReportType DEF MarkSent, Statuses
<1>5. CASE Fail(w)
  <2> DEFINE terminal == Terminal(worker[w].attempts, worker[w].step = "failing")
             later == [Released(entry, IF terminal THEN "dead_letter" ELSE "pending")
                         EXCEPT !.due = FALSE]
  <2>1. (IF terminal THEN "dead_letter" ELSE "pending") \in Statuses
    BY DEF Statuses
  <2>2. \A r \in Row : [r EXCEPT !.due = FALSE] \in Row
    BY DEF Row
  <2>3. later \in Row
    BY <1>2, <2>1, <2>2, ReleasedIsRow
  <2>4. Report(w, later, terminal)
    BY <1>5 DEF Fail
  <2> QED
    BY <1>1, <2>3, <2>4, ReportType
<1> QED
  BY <1>3, <1>4, <1>5

LEMMA EraseType ==
  ASSUME TypeOK, NEW w \in Workers, Erase(w)
  PROVE  TypeOK'
<1>1. worker' \in [Workers -> WorkerState]
  BY MovedIsWorker DEF Erase, TypeOK
<1> QED
  BY <1>1 DEF Erase, requests, counters, TypeOK

(* What happens to a message outside the workers.                           *)
LEMMA MessageType ==
  ASSUME TypeOK, NEW m \in Messages,
         Administration(m) \/ EraseCancelled(m) \/ Time(m)
  PROVE  TypeOK'
<1>1. CASE Enqueue(m)
  <2> DEFINE enqueued == [outbox[m] EXCEPT !.status = "pending", !.due = TRUE]
  <2>1. outbox' = [outbox EXCEPT ![m] = enqueued]
    BY <1>1 DEF Enqueue, TypeOK
  <2>2. enqueued \in Row
    BY ZenonT(60) DEF Row, Statuses, TypeOK
  <2>3. outbox' \in [Messages -> Row]
    BY <2>1, <2>2 DEF TypeOK
  <2> QED
    BY <1>1, <2>3 DEF Enqueue, requests, counters, TypeOK
<1>2. CASE SpendToken(m)
  BY <1>2 DEF SpendToken, requests, counters, TypeOK, Validity
<1>3. CASE RevokeInvitation(m)
  <2>1. outbox' \in [Messages -> Row]
    BY <1>3, DeadLetteredIsTable DEF RevokeInvitation, TypeOK
  <2> QED
    BY <1>3, <2>1 DEF RevokeInvitation, counters, TypeOK, Validity
<1>4. CASE CancelPending(m)
  <2>1. outbox' \in [Messages -> Row]
    BY <1>4, DeadLetteredIsTable DEF CancelPending, TypeOK
  <2> QED
    BY <1>4, <2>1 DEF CancelPending, counters, TypeOK
<1>5. CASE EraseCancelled(m)
  BY <1>5 DEF EraseCancelled, counters, TypeOK
<1>6. CASE LeaseExpires(m)
  BY <1>6, ZenonT(60) DEF LeaseExpires, requests, counters, TypeOK, Row
<1>7. CASE BackoffEnds(m)
  BY <1>7, ZenonT(60) DEF BackoffEnds, requests, counters, TypeOK, Row
<1>8. CASE BodyExpires(m)
  BY <1>8 DEF BodyExpires, requests, counters, TypeOK
<1> QED
  BY <1>1, <1>2, <1>3, <1>4, <1>5, <1>6, <1>7, <1>8 DEF Administration, Time

LEMMA MaintenanceType ==
  ASSUME TypeOK, Maintenance \/ RequestDies \/ Freeze \/ Unfreeze
  PROVE  TypeOK'
<1>1. CASE EraseExpired
  BY <1>1 DEF EraseExpired, ExpiredBodies, counters, TypeOK
<1>2. CASE GiveUpSwept
  <2>1. outbox' \in [Messages -> Row]
    BY <1>2, DeadLetteredIsTable DEF GiveUpSwept, TypeOK
  <2> QED
    BY <1>2, <2>1 DEF GiveUpSwept, counters, TypeOK
<1>3. CASE RequestDies
  BY <1>3 DEF RequestDies, tables, counters, TypeOK
<1>4. CASE Freeze
  BY <1>4, BoundsAssumption DEF Freeze, requests, TypeOK
<1>5. CASE Unfreeze
  BY <1>5 DEF Unfreeze, requests, counters, TypeOK
<1> QED
  BY <1>1, <1>2, <1>3, <1>4, <1>5 DEF Maintenance

(* Every step.                                                              *)
LEMMA StepType ==
  ASSUME TypeOK, ClaimsCounted, [Next]_vars
  PROVE  TypeOK'
<1>1. CASE \E w \in Workers : WorkerStep(w) \/ StatementFails(w) \/ Crash(w)
  BY <1>1, MovesType, GiveUpExpiredType, EraseGivenUpType, ClaimType, SendType,
     ReportsType, EraseType
  DEF WorkerStep, ClaimSteps, Deliver
<1>2. CASE \E m \in Messages : Administration(m) \/ EraseCancelled(m) \/ Time(m)
  BY <1>2, MessageType
<1>3. CASE Maintenance \/ RequestDies \/ Freeze \/ Unfreeze
  BY <1>3, MaintenanceType
<1>4. CASE UNCHANGED vars
  BY <1>4 DEF vars, tables, requests, counters, TypeOK
<1> QED
  BY <1>1, <1>2, <1>3, <1>4 DEF Next

-----------------------------------------------------------------------------
(* The inductive invariant.                                                 *)

(* Two workers never hold the same attempt at a message.                    *)
AttemptsDistinct ==
  \A w, v \in Workers :
    /\ w # v
    /\ worker[w].step \in Working /\ worker[v].step \in Working
    /\ worker[w].claim = worker[v].claim
    => worker[w].attempts # worker[v].attempts

(* An attempt nobody has begun was not accepted.                            *)
NoneBeyondAttempts ==
  \A m \in Messages : \A n \in 1..MaxAttempts :
    /\ accepted[m][n] \in 0..1
    /\ n > outbox[m].attempts => accepted[m][n] = 0

(* An attempt is accepted while its worker sends, and not before.           *)
AcceptedBySend ==
  \A w \in Workers :
    LET taken == accepted[worker[w].claim][worker[w].attempts]
    IN  /\ worker[w].step \in {"checking", "resolving", "sending"} => taken = 0
        /\ worker[w].step = "delivered" => taken = 1

(* The worker named in a row that is being sent, if it still works on it, is
   in the attempt the row counts.                                           *)
HolderInAttempt ==
  \A m \in Messages : \A w \in Workers :
    HeldBy(m, w) /\ worker[w].claim = m => worker[w].attempts = outbox[m].attempts

Final(m) == outbox[m].status \in {"sent", "dead_letter"}

(* Whoever is about to erase a body has seen its message settled.           *)
ErasedLate ==
  /\ \A m \in erasing : Final(m)
  /\ \A w \in Workers : \A m \in worker[w].swept : Final(m)
  /\ \A w \in Workers : worker[w].step = "erasing" => Final(worker[w].claim)

IInv ==
  /\ TypeOK
  /\ ClaimsCounted
  /\ AttemptsDistinct
  /\ NoneBeyondAttempts
  /\ AcceptedBySend
  /\ HolderInAttempt
  /\ ErasedLate
  /\ BodyKept

-----------------------------------------------------------------------------
(* What all steps but a claim have in common.                               *)

(* Rows keep their attempts, stay settled and get no new holder.            *)
RowsSettle ==
  \A m \in Messages :
    /\ outbox'[m].attempts = outbox[m].attempts
    /\ Final(m) => Final(m)'
    /\ \A w \in Workers : HeldBy(m, w)' => HeldBy(m, w)

(* Workers keep what they hold or let it go.                                *)
WorkersMove ==
  \A w \in Workers :
    /\ worker'[w].step \in Working =>
         /\ worker[w].step \in Working
         /\ worker'[w].claim = worker[w].claim
         /\ worker'[w].attempts = worker[w].attempts
    /\ worker'[w].step \notin Working => worker'[w].claim = None

Unsent == {"checking", "resolving", "sending"}

(* No worker gets to a message before or after the provider took it.        *)
SendsKept ==
  \A w \in Workers :
    /\ worker'[w].step \in Unsent => worker[w].step \in Unsent
    /\ worker'[w].step = "delivered" => worker[w].step = "delivered"

LEMMA DeadLetteredSettles ==
  ASSUME TypeOK, NEW S, \A m \in Messages \cap S : Open(m),
         outbox' = DeadLettered(S)
  PROVE  RowsSettle
<1> SUFFICES ASSUME NEW m \in Messages
             PROVE  /\ outbox'[m].attempts = outbox[m].attempts
                    /\ Final(m) => Final(m)'
                    /\ \A w \in Workers : HeldBy(m, w)' => HeldBy(m, w)
  BY DEF RowsSettle
<1>1. outbox[m] \in Row
  BY DEF TypeOK
<1>2. CASE m \in S
  <2>1. outbox'[m] = Released(outbox[m], "dead_letter")
    BY <1>2 DEF DeadLettered
  <2>2. /\ outbox'[m].attempts = outbox[m].attempts
        /\ outbox'[m].status = "dead_letter"
    BY <1>1, <2>1 DEF Released, Row
  <2> QED
    BY <2>2 DEF Final, HeldBy
<1>3. CASE m \notin S
  <2>1. outbox'[m] = outbox[m]
    BY <1>3 DEF DeadLettered
  <2> QED
    BY <2>1 DEF Final, HeldBy
<1> QED
  BY <1>2, <1>3

LEMMA RowsUnchangedSettle ==
  ASSUME UNCHANGED outbox
  PROVE  RowsSettle
BY DEF RowsSettle, Final, HeldBy

LEMMA WorkersUnchangedMove ==
  ASSUME ClaimsCounted, UNCHANGED worker
  PROVE  WorkersMove /\ SendsKept
BY DEF WorkersMove, SendsKept, ClaimsCounted

(* A worker that ends its run lets its message go.                          *)
LEMMA DoneMoves ==
  ASSUME TypeOK, ClaimsCounted, NEW w \in Workers, NEW end \in {"idle", "gone"},
         worker' = [worker EXCEPT ![w] = [Idle EXCEPT !.step = end]]
  PROVE  WorkersMove /\ SendsKept
<1>1. worker'[w].step = end /\ worker'[w].claim = None
  BY DEF Idle, TypeOK
<1>2. \A v \in Workers : v # w => worker'[v] = worker[v]
  BY DEF TypeOK
<1> QED
  BY <1>1, <1>2 DEF WorkersMove, SendsKept, ClaimsCounted, Working, Unsent

LEMMA DoneIsMove ==
  ASSUME TypeOK, ClaimsCounted, NEW w \in Workers, Done(w)
  PROVE  WorkersMove /\ SendsKept
<1>1. [Idle EXCEPT !.step = "idle"] = Idle
  BY DEF Idle
<1> QED
  BY <1>1, DoneMoves DEF Done

(* A worker that goes on holds what it held.                                *)
LEMMA GotoMoves ==
  ASSUME TypeOK, ClaimsCounted, NEW w \in Workers, NEW step, Goto(w, step),
         worker[w].step \in Working <=> step \in Working,
         step \in Unsent => worker[w].step \in Unsent
  PROVE  /\ WorkersMove
         /\ step # "delivered" => SendsKept
<1>1. worker'[w] = [worker[w] EXCEPT !.step = step]
  BY DEF Goto, TypeOK
<1>2. /\ worker'[w].step = step
      /\ worker'[w].claim = worker[w].claim
      /\ worker'[w].attempts = worker[w].attempts
  BY <1>1 DEF TypeOK, WorkerState
<1>3. \A v \in Workers : v # w => worker'[v] = worker[v]
  BY DEF Goto, TypeOK
<1> QED
  BY <1>2, <1>3 DEF WorkersMove, SendsKept, ClaimsCounted

(* The steps of a run between its statements on the outbox.                 *)
LEMMA MovesSettle ==
  ASSUME TypeOK, ClaimsCounted, NEW w \in Workers,
         \/ RunOnce(w) \/ NothingToClaim(w) \/ CheckToken(w) \/ Resolve(w)
         \/ StatementFails(w) \/ Crash(w) \/ Erase(w)
  PROVE  RowsSettle /\ WorkersMove /\ SendsKept /\ UNCHANGED accepted
<1>1. UNCHANGED <<outbox, accepted>>
  BY DEF RunOnce, NothingToClaim, CheckToken, Resolve, StatementFails, Crash, Erase,
     tables
<1>2. WorkersMove /\ SendsKept
  <2>1. CASE RunOnce(w)
    BY <2>1, GotoMoves DEF RunOnce, Working, Unsent
  <2>2. CASE NothingToClaim(w)
    BY <2>2, DoneIsMove DEF NothingToClaim
  <2>3. CASE CheckToken(w)
    BY <2>3, GotoMoves DEF CheckToken, Working, Unsent
  <2>4. CASE Resolve(w)
    BY <2>4, GotoMoves DEF Resolve, Working, Unsent
  <2>5. CASE StatementFails(w)
    BY <2>5, GotoMoves, DoneIsMove DEF StatementFails, Working, Unsent
  <2>6. CASE Crash(w)
    BY <2>6, DoneMoves DEF Crash
  <2>7. CASE Erase(w)
    BY <2>7, DoneIsMove DEF Erase
  <2> QED
    BY <2>1, <2>2, <2>3, <2>4, <2>5, <2>6, <2>7
<1> QED
  BY <1>1, <1>2, RowsUnchangedSettle

(* The statements before the claim hold no message.                         *)
LEMMA SweepSettles ==
  ASSUME TypeOK, ClaimsCounted, NEW w \in Workers,
         GiveUpExpired(w) \/ EraseGivenUp(w)
  PROVE  RowsSettle /\ WorkersMove /\ SendsKept /\ UNCHANGED accepted
<1>1. RowsSettle
  <2>1. CASE GiveUpExpired(w)
    <3>1. \A m \in {n \in Messages : FinalLeaseExpired(outbox[n])} : Open(m)
      BY DEF FinalLeaseExpired, Open
    <3> QED
      BY <2>1, <3>1, DeadLetteredSettles DEF GiveUpExpired
  <2>2. CASE EraseGivenUp(w)
    BY <2>2, RowsUnchangedSettle DEF EraseGivenUp
  <2> QED
    BY <2>1, <2>2
<1>2. /\ worker'[w].step = "claiming"
      /\ worker'[w].claim = worker[w].claim
      /\ worker[w].step \in {"sweeping", "claiming"}
      /\ \A v \in Workers : v # w => worker'[v] = worker[v]
  BY DEF GiveUpExpired, EraseGivenUp, TypeOK, WorkerState
<1>3. WorkersMove /\ SendsKept
  BY <1>2 DEF WorkersMove, SendsKept, ClaimsCounted, Working, Unsent
<1> QED
  BY <1>1, <1>3 DEF GiveUpExpired, EraseGivenUp

(* A report touches only the row its worker holds.                          *)
LEMMA ReportSettles ==
  ASSUME TypeOK, ClaimsCounted, NEW w \in Workers, worker[w].step \in Working,
         NEW entry \in Row, NEW final, Report(w, entry, final),
         entry.attempts = outbox[worker[w].claim].attempts,
         entry.status # "sending",
         final => entry.status \in {"sent", "dead_letter"}
  PROVE  RowsSettle /\ WorkersMove /\ SendsKept /\ UNCHANGED accepted
<1> DEFINE m == worker[w].claim
<1>1. m \in Messages
  BY DEF ClaimsCounted
<1>2. RowsSettle
  <2>1. CASE HeldBy(m, w)
    <3>1. outbox' = [outbox EXCEPT ![m] = entry]
      BY <2>1 DEF Report
    <3>2. ~Final(m)
      BY <2>1 DEF HeldBy, Final
    <3>3. outbox'[m] = entry /\ \A n \in Messages : n # m => outbox'[n] = outbox[n]
      BY <1>1, <3>1 DEF TypeOK
    <3> QED
      BY <3>2, <3>3 DEF RowsSettle, Final, HeldBy
  <2>2. CASE ~HeldBy(m, w)
    BY <2>2, RowsUnchangedSettle DEF Report
  <2> QED
    BY <2>1, <2>2
<1>3. WorkersMove /\ SendsKept
  BY GotoMoves, DoneIsMove DEF Report, Working, Unsent
<1> QED
  BY <1>2, <1>3 DEF Report

(* The three reports write rows that are settled or wait again.             *)
LEMMA ReportsSettle ==
  ASSUME TypeOK, ClaimsCounted, NEW w \in Workers,
         Discard(w) \/ MarkSent(w) \/ Fail(w)
  PROVE  RowsSettle /\ WorkersMove /\ SendsKept /\ UNCHANGED accepted
<1> DEFINE entry == outbox[worker[w].claim]
<1>1. worker[w].claim \in Messages /\ worker[w].step \in Working
  BY DEF Discard, MarkSent, Fail, ClaimsCounted, Working
<1>2. entry \in Row
  BY <1>1 DEF TypeOK
<1>3. \A status \in Statuses :
        /\ Released(entry, status) \in Row
        /\ Released(entry, status).attempts = entry.attempts
        /\ Released(entry, status).status = status
  BY <1>2, ReleasedIsRow DEF Released, Row
<1>4. CASE Discard(w)
  <2>1. Report(w, Released(entry, "dead_letter"), TRUE)
    BY <1>4 DEF Discard
  <2> QED
    BY <1>1, <1>3, <2>1, ReportSettles DEF Statuses
<1>5. CASE MarkSent(w)
  <2>1. Report(w, Released(entry, "sent"), TRUE)
    BY <1>5 DEF MarkSent
  <2> QED
    BY <1>1, <1>3, <2>1, ReportSettles DEF Statuses
<1>6. CASE Fail(w)
  <2> DEFINE terminal == Terminal(worker[w].attempts, worker[w].step = "failing")
             released == Released(entry, IF terminal THEN "dead_letter" ELSE "pending")
             later == [released EXCEPT !.due = FALSE]
  <2>1. Report(w, later, terminal)
    BY <1>6 DEF Fail
  <2>2. /\ released \in Row /\ released.attempts = entry.attempts
        /\ released.status = IF terminal THEN "dead_letter" ELSE "pending"
    BY <1>3 DEF Statuses
  <2>3. \A r \in Row : /\ [r EXCEPT !.due = FALSE] \in Row
                       /\ [r EXCEPT !.due = FALSE].attempts = r.attempts
                       /\ [r EXCEPT !.due = FALSE].status = r.status
    BY DEF Row
  <2>4. later \in Row /\ later.attempts = entry.attempts
    BY <2>2, <2>3
  <2>5. later.status # "sending" /\ (terminal => later.status \in {"sent", "dead_letter"})
    BY <2>2, <2>3
  <2> QED
    BY <1>1, <2>1, <2>4, <2>5, ReportSettles
<1> QED
  BY <1>4, <1>5, <1>6

(* What goes on outside the workers.                                        *)
LEMMA OutsideSettles ==
  ASSUME TypeOK, ClaimsCounted,
         \/ \E m \in Messages : Administration(m) \/ EraseCancelled(m) \/ Time(m)
         \/ Maintenance \/ RequestDies \/ Freeze \/ Unfreeze
         \/ UNCHANGED vars
  PROVE  RowsSettle /\ WorkersMove /\ SendsKept /\ UNCHANGED accepted
<1>1. UNCHANGED <<worker, accepted>>
  BY DEF Administration, Enqueue, SpendToken, RevokeInvitation, CancelPending,
     EraseCancelled, Time, LeaseExpires, BackoffEnds, BodyExpires, Maintenance,
     EraseExpired, GiveUpSwept, RequestDies, Freeze, Unfreeze, vars
<1>2. RowsSettle
  <2>1. ASSUME NEW m \in Messages, Enqueue(m) \/ LeaseExpires(m) \/ BackoffEnds(m)
        PROVE  RowsSettle
    <3>1. \A n \in Messages : n # m => outbox'[n] = outbox[n]
      BY <2>1 DEF Enqueue, LeaseExpires, BackoffEnds, TypeOK
    <3>2. /\ outbox'[m].attempts = outbox[m].attempts
          /\ outbox'[m].lockedBy = outbox[m].lockedBy
          /\ \/ outbox'[m].status = outbox[m].status
             \/ outbox[m].status = "absent" /\ outbox'[m].status = "pending"
      <4>1. CASE Enqueue(m)
        BY <4>1 DEF Enqueue, TypeOK, Row
      <4>2. CASE LeaseExpires(m)
        BY <4>2 DEF LeaseExpires, TypeOK, Row
      <4>3. CASE BackoffEnds(m)
        BY <4>3 DEF BackoffEnds, TypeOK, Row
      <4> QED
        BY <2>1, <4>1, <4>2, <4>3
    <3> QED
      BY <3>1, <3>2 DEF RowsSettle, Final, HeldBy
  <2>2. ASSUME NEW m \in Messages, RevokeInvitation(m)
        PROVE  RowsSettle
    <3>1. \A n \in {k \in {m} : outbox[k].status = "pending"} : Open(n)
      BY DEF Open
    <3> QED
      BY <2>2, <3>1, DeadLetteredSettles DEF RevokeInvitation
  <2>3. ASSUME NEW m \in Messages, CancelPending(m)
        PROVE  RowsSettle
    BY <2>3, DeadLetteredSettles DEF CancelPending, Open
  <2>4. CASE GiveUpSwept
    BY <2>4, DeadLetteredSettles DEF GiveUpSwept
  <2>5. CASE UNCHANGED outbox
    BY <2>5, RowsUnchangedSettle
  <2> QED
    BY <2>1, <2>2, <2>3, <2>4, <2>5
    DEF Administration, SpendToken, EraseCancelled, Time, BodyExpires, Maintenance,
        EraseExpired, RequestDies, Freeze, Unfreeze, vars, tables
<1> QED
  BY <1>1, <1>2, WorkersUnchangedMove

(* The provider takes a message in the worker's own attempt, or does not.   *)
LEMMA SendSettles ==
  ASSUME TypeOK, ClaimsCounted, NEW w \in Workers, Send(w)
  PROVE  /\ RowsSettle /\ WorkersMove
         /\ worker[w].step = "sending"
         /\ worker'[w].step \in {"delivered", "failing", "refused"}
         /\ \A v \in Workers : v # w => worker'[v] = worker[v]
         /\ \/ UNCHANGED accepted /\ worker'[w].step # "delivered"
            \/ accepted' = [accepted EXCEPT ![worker[w].claim][worker[w].attempts] = @ + 1]
<1>1. PICK step \in {"delivered", "failing", "refused"} :
        /\ Goto(w, step)
        /\ \/ UNCHANGED accepted /\ step # "delivered"
           \/ accepted' = [accepted EXCEPT ![worker[w].claim][worker[w].attempts] = @ + 1]
  BY DEF Send
<1>2. worker[w].step = "sending"
  BY DEF Send
<1>3. WorkersMove
  BY <1>1, <1>2, GotoMoves DEF Working, Unsent
<1>4. RowsSettle
  BY RowsUnchangedSettle DEF Send, tables
<1>5. worker'[w].step = step /\ \A v \in Workers : v # w => worker'[v] = worker[v]
  BY <1>1 DEF Goto, TypeOK, WorkerState
<1> QED
  BY <1>1, <1>2, <1>3, <1>4, <1>5

(* A claim takes a row nobody holds, or whose lease is over, into its next
   attempt.                                                                 *)
LEMMA ClaimTakes ==
  ASSUME TypeOK, ClaimsCounted, NEW w \in Workers, Claim(w)
  PROVE  /\ worker[w].step = "claiming" /\ worker[w].swept = {}
         /\ UNCHANGED <<sealed, fresh, token, mode, requests, accepted, counters>>
         /\ \A v \in Workers : v # w => worker'[v] = worker[v]
         /\ \E m \in Messages :
              /\ Open(m) /\ outbox[m].attempts < MaxAttempts
              /\ outbox' = [outbox EXCEPT ![m] = Claimed(outbox[m], w)]
              /\ outbox'[m].attempts = outbox[m].attempts + 1
              /\ outbox'[m].status = "sending" /\ outbox'[m].lockedBy = w
              /\ \A n \in Messages : n # m => outbox'[n] = outbox[n]
              /\ worker'[w].step = "checking" /\ worker'[w].claim = m
              /\ worker'[w].attempts = outbox[m].attempts + 1
              /\ worker'[w].swept = worker[w].swept
<1>1. PICK m \in Messages :
        /\ Claimable(outbox[m])
        /\ outbox' = [outbox EXCEPT ![m] = Claimed(@, w)]
        /\ worker' = [worker EXCEPT ![w].step = "checking", ![w].claim = m,
                                    ![w].attempts = outbox'[m].attempts]
  BY DEF Claim
<1>2. Open(m) /\ outbox[m].attempts < MaxAttempts
  BY <1>1 DEF Claimable, Open
<1>3. outbox'[m] = Claimed(outbox[m], w)
  BY <1>1 DEF TypeOK
<1>4. /\ outbox'[m].attempts = outbox[m].attempts + 1
      /\ outbox'[m].status = "sending" /\ outbox'[m].lockedBy = w
  BY <1>3 DEF Claimed, Row, TypeOK
<1>5. \A n \in Messages : n # m => outbox'[n] = outbox[n]
  BY <1>1 DEF TypeOK
<1>6. PICK n : n = outbox[m].attempts + 1 /\
        worker' = [worker EXCEPT ![w].step = "checking", ![w].claim = m,
                                 ![w].attempts = n]
  BY <1>1, <1>4
<1>7. worker'[w] = [worker[w] EXCEPT !.step = "checking", !.claim = m, !.attempts = n]
  BY <1>6 DEF TypeOK
<1>8. /\ worker'[w].step = "checking" /\ worker'[w].claim = m
      /\ worker'[w].attempts = n
      /\ worker'[w].swept = worker[w].swept
  BY <1>7 DEF TypeOK, WorkerState
<1>9. \A v \in Workers : v # w => worker'[v] = worker[v]
  BY <1>6 DEF TypeOK
<1> QED
  BY <1>1, <1>2, <1>4, <1>5, <1>6, <1>8, <1>9 DEF Claim

-----------------------------------------------------------------------------
(* The invariant, part by part.                                             *)

(* A step other than a claim keeps who holds what in which attempt.         *)
LEMMA HoldersKept ==
  ASSUME TypeOK, TypeOK', ClaimsCounted, AttemptsDistinct, HolderInAttempt,
         RowsSettle, WorkersMove
  PROVE  ClaimsCounted' /\ AttemptsDistinct' /\ HolderInAttempt'
<1>1. ClaimsCounted'
  <2> SUFFICES ASSUME NEW w \in Workers, worker'[w].step \in Working
               PROVE  /\ worker'[w].claim \in Messages
                      /\ worker'[w].attempts \in 1..outbox'[worker'[w].claim].attempts
    BY DEF ClaimsCounted, WorkersMove
  <2>1. /\ worker[w].step \in Working
        /\ worker'[w].claim = worker[w].claim
        /\ worker'[w].attempts = worker[w].attempts
    BY DEF WorkersMove
  <2>2. worker[w].claim \in Messages /\ worker[w].attempts \in 1..outbox[worker[w].claim].attempts
    BY <2>1 DEF ClaimsCounted
  <2>3. outbox'[worker[w].claim].attempts = outbox[worker[w].claim].attempts
    BY <2>2 DEF RowsSettle
  <2> QED
    BY <2>1, <2>2, <2>3
<1>2. AttemptsDistinct'
  BY DEF AttemptsDistinct, WorkersMove
<1>3. HolderInAttempt'
  <2> SUFFICES ASSUME NEW m \in Messages, NEW w \in Workers,
                      HeldBy(m, w)', worker'[w].claim = m
               PROVE  worker'[w].attempts = outbox'[m].attempts
    BY DEF HolderInAttempt
  <2>1. worker'[w].step \in Working
    BY NoneAssumption DEF WorkersMove
  <2>2. worker'[w].claim = worker[w].claim /\ worker'[w].attempts = worker[w].attempts
    BY <2>1 DEF WorkersMove
  <2>3. HeldBy(m, w) /\ outbox'[m].attempts = outbox[m].attempts
    BY DEF RowsSettle
  <2> QED
    BY <2>2, <2>3 DEF HolderInAttempt
<1> QED
  BY <1>1, <1>2, <1>3

(* ... and, unless it sends, what was accepted.                             *)
LEMMA AcceptedKept ==
  ASSUME NoneBeyondAttempts, AcceptedBySend, RowsSettle, WorkersMove, SendsKept,
         UNCHANGED accepted
  PROVE  NoneBeyondAttempts' /\ AcceptedBySend'
<1>1. NoneBeyondAttempts'
  BY DEF NoneBeyondAttempts, RowsSettle
<1>2. AcceptedBySend'
  <2> SUFFICES ASSUME NEW w \in Workers,
                      worker'[w].step \in Unsent \cup {"delivered"}
               PROVE  LET taken == accepted[worker'[w].claim][worker'[w].attempts]
                      IN  /\ worker'[w].step \in Unsent => taken = 0
                          /\ worker'[w].step = "delivered" => taken = 1
    BY DEF AcceptedBySend, Unsent
  <2>1. worker'[w].claim = worker[w].claim /\ worker'[w].attempts = worker[w].attempts
    BY DEF WorkersMove, Working, Unsent
  <2> QED
    BY <2>1 DEF AcceptedBySend, SendsKept, Unsent
<1> QED
  BY <1>1, <1>2

LEMMA SendAccepts ==
  ASSUME IInv, NEW w \in Workers, Send(w)
  PROVE  NoneBeyondAttempts' /\ AcceptedBySend'
<1> DEFINE m == worker[w].claim
           n == worker[w].attempts
<1> USE DEF IInv
<1>1. worker[w].step = "sending"
  BY SendSettles
<1>2. m \in Messages /\ n \in 1..outbox[m].attempts /\ n \in 1..MaxAttempts
  BY <1>1, MaxAttemptsAssumption DEF ClaimsCounted, Working, TypeOK, Row
<1>3. accepted[m][n] = 0
  BY <1>1 DEF AcceptedBySend
<1>4. RowsSettle /\ WorkersMove
  BY SendSettles
<1>5. /\ worker'[w].step \in {"delivered", "failing", "refused"}
      /\ \A v \in Workers : v # w => worker'[v] = worker[v]
  BY SendSettles
<1>6. worker'[w].claim = m /\ worker'[w].attempts = n
  BY <1>4, <1>5 DEF WorkersMove, Working
<1>7. CASE UNCHANGED accepted /\ worker'[w].step # "delivered"
  <2>1. SendsKept
    BY <1>5, <1>7 DEF SendsKept, Unsent
  <2> QED
    BY <1>4, <1>7, <2>1, AcceptedKept
<1>8. CASE accepted' = [accepted EXCEPT ![m][n] = @ + 1]
  <2>1. \A k \in Messages, i \in 1..MaxAttempts :
          accepted'[k][i] = IF k = m /\ i = n THEN 1 ELSE accepted[k][i]
    <3>1. accepted' = [accepted EXCEPT ![m] = [accepted[m] EXCEPT ![n] = @ + 1]]
      BY <1>2, <1>8 DEF TypeOK
    <3>2. accepted[m] \in [1..MaxAttempts -> Nat]
      BY <1>2 DEF TypeOK
    <3>3. [accepted[m] EXCEPT ![n] = @ + 1][n] = 1
      <4>1. [accepted[m] EXCEPT ![n] = @ + 1][n] = accepted[m][n] + 1
        BY <1>2, <3>2, CountedIsMore
      <4> HIDE DEF m, n
      <4> QED
        BY <1>3, <4>1
    <3>4. \A i \in 1..MaxAttempts : i # n => [accepted[m] EXCEPT ![n] = @ + 1][i] = accepted[m][i]
      BY <3>2
    <3> QED
      BY <1>2, <3>1, <3>3, <3>4 DEF TypeOK
  <2>2. NoneBeyondAttempts'
    <3>1. \A k \in Messages : outbox'[k].attempts = outbox[k].attempts
      BY <1>4 DEF RowsSettle
    <3>2. ~(n > outbox[m].attempts)
      BY <1>2 DEF TypeOK, Row
    <3> QED
      BY <2>1, <3>1, <3>2 DEF NoneBeyondAttempts
  <2>3. AcceptedBySend'
    <3> SUFFICES ASSUME NEW v \in Workers, worker'[v].step \in Unsent \cup {"delivered"}
                 PROVE  LET taken == accepted'[worker'[v].claim][worker'[v].attempts]
                        IN  /\ worker'[v].step \in Unsent => taken = 0
                            /\ worker'[v].step = "delivered" => taken = 1
      BY DEF AcceptedBySend, Unsent
    <3>1. CASE v = w
      BY <1>2, <1>5, <1>6, <2>1, <3>1 DEF Unsent
    <3>2. CASE v # w
      <4>1. worker'[v] = worker[v] /\ worker[v].step \in Working
        BY <1>5, <3>2 DEF Working, Unsent
      <4>2. /\ worker[v].claim \in Messages
            /\ worker[v].attempts \in 1..MaxAttempts
        BY <4>1, MaxAttemptsAssumption DEF ClaimsCounted, TypeOK, Row
      <4>3. worker[v].claim # m \/ worker[v].attempts # n
        BY <1>1, <3>2, <4>1 DEF AttemptsDistinct, Working
      <4>4. accepted'[worker[v].claim][worker[v].attempts]
              = accepted[worker[v].claim][worker[v].attempts]
        BY <2>1, <4>2, <4>3
      <4> QED
        BY <4>1, <4>4 DEF AcceptedBySend, Unsent
    <3> QED
      BY <3>1, <3>2
  <2> QED
    BY <2>2, <2>3
<1> QED
  BY <1>7, <1>8, SendSettles

(* A claim begins an attempt that nobody has made.                          *)
LEMMA ClaimBegins ==
  ASSUME IInv, TypeOK', NEW w \in Workers, Claim(w)
  PROVE  /\ ClaimsCounted' /\ AttemptsDistinct' /\ HolderInAttempt'
         /\ NoneBeyondAttempts' /\ AcceptedBySend'
<1> USE DEF IInv
<1>1. /\ worker[w].step = "claiming" /\ UNCHANGED accepted
      /\ \A v \in Workers : v # w => worker'[v] = worker[v]
  BY ClaimTakes
<1>2. PICK m \in Messages :
        /\ Open(m) /\ outbox[m].attempts < MaxAttempts
        /\ outbox'[m].attempts = outbox[m].attempts + 1
        /\ outbox'[m].status = "sending" /\ outbox'[m].lockedBy = w
        /\ \A n \in Messages : n # m => outbox'[n] = outbox[n]
        /\ worker'[w].step = "checking" /\ worker'[w].claim = m
        /\ worker'[w].attempts = outbox[m].attempts + 1
  BY ClaimTakes
<1>3. \A n \in Messages : outbox[n].attempts \in 0..MaxAttempts
  BY DEF TypeOK, Row
<1>4. ClaimsCounted'
  BY <1>1, <1>2, <1>3, MaxAttemptsAssumption DEF ClaimsCounted, Working
<1>5. AttemptsDistinct'
  <2>1. \A v \in Workers : v # w /\ worker'[v].step \in Working /\ worker'[v].claim = m
          => worker'[v].attempts <= outbox[m].attempts
    BY <1>1, <1>3 DEF ClaimsCounted
  <2>2. \A v \in Workers : v # w /\ worker'[v].step \in Working /\ worker'[v].claim = m
          => worker'[v].attempts # worker'[w].attempts
    BY <1>1, <1>2, <1>3, <2>1, MaxAttemptsAssumption DEF ClaimsCounted
  <2> QED
    BY <1>1, <1>2, <2>2 DEF AttemptsDistinct
<1>6. HolderInAttempt'
  BY <1>1, <1>2 DEF HolderInAttempt, HeldBy
<1>7. NoneBeyondAttempts'
  BY <1>1, <1>2, <1>3, MaxAttemptsAssumption DEF NoneBeyondAttempts
<1>8. AcceptedBySend'
  <2>1. accepted[m][outbox[m].attempts + 1] = 0
    BY <1>2, <1>3, MaxAttemptsAssumption DEF NoneBeyondAttempts
  <2> QED
    BY <1>1, <1>2, <2>1 DEF AcceptedBySend
<1> QED
  BY <1>4, <1>5, <1>6, <1>7, <1>8

(* A worker goes to erase only after its report settled the message.        *)
LEMMA ReportErases ==
  ASSUME TypeOK, ClaimsCounted, NEW w \in Workers,
         Discard(w) \/ MarkSent(w) \/ Fail(w), worker'[w].step = "erasing"
  PROVE  Final(worker[w].claim)'
<1> DEFINE m == worker[w].claim
<1>1. m \in Messages
  BY DEF Discard, MarkSent, Fail, ClaimsCounted, Working
<1>2. outbox[m] \in Row
  BY <1>1 DEF TypeOK
<1>3. PICK entry, final :
        /\ Report(w, entry, final)
        /\ final => entry.status \in {"sent", "dead_letter"}
  <2>1. \A status \in Statuses : Released(outbox[m], status).status = status
    BY <1>2 DEF Released, Row
  <2>2. CASE Discard(w) \/ MarkSent(w)
    BY <2>1, <2>2 DEF Discard, MarkSent, Statuses
  <2>3. CASE Fail(w)
    <3> DEFINE terminal == Terminal(worker[w].attempts, worker[w].step = "failing")
               released == Released(outbox[m], IF terminal THEN "dead_letter" ELSE "pending")
    <3>1. Report(w, [released EXCEPT !.due = FALSE], terminal)
      BY <2>3 DEF Fail
    <3>2. (IF terminal THEN "dead_letter" ELSE "pending") \in Statuses
      BY DEF Statuses
    <3>3. released \in Row /\ released.status = IF terminal THEN "dead_letter" ELSE "pending"
      BY <1>2, <2>1, <3>2, ReleasedIsRow
    <3>4. \A r \in Row : [r EXCEPT !.due = FALSE].status = r.status
      BY DEF Row
    <3>5. terminal => [released EXCEPT !.due = FALSE].status = "dead_letter"
      BY <3>3, <3>4
    <3> QED
      BY <3>1, <3>5
  <2> QED
    BY <2>2, <2>3
<1>4. Done(w) => worker'[w].step # "erasing"
  BY DEF Done, Idle, TypeOK
<1>5. final /\ HeldBy(m, w) /\ Goto(w, "erasing")
  BY <1>3, <1>4 DEF Report, EraseAfter
<1>6. worker'[w].claim = m
  BY <1>5 DEF Goto, TypeOK, WorkerState
<1>7. outbox'[m] = entry
  BY <1>1, <1>3, <1>5 DEF Report, TypeOK
<1> QED
  BY <1>3, <1>5, <1>6, <1>7 DEF Final

LEMMA ReportKeepsSwept ==
  ASSUME TypeOK, NEW w \in Workers, Discard(w) \/ MarkSent(w) \/ Fail(w)
  PROVE  worker'[w].swept \in {{}, worker[w].swept}
BY DEF Discard, MarkSent, Fail, Report, Goto, Done, Idle, TypeOK, WorkerState

(* Settled messages stay settled in every step.                             *)
LEMMA FinalStays ==
  ASSUME TypeOK, ClaimsCounted, [Next]_vars
  PROVE  \A m \in Messages : Final(m) => Final(m)'
<1>1. ASSUME NEW w \in Workers, Claim(w)
      PROVE  \A m \in Messages : Final(m) => Final(m)'
  BY <1>1, ClaimTakes DEF Open, Final
<1>2. CASE \E w \in Workers : WorkerStep(w) \/ StatementFails(w) \/ Crash(w)
  BY <1>1, <1>2, MovesSettle, SweepSettles, ReportsSettle, SendSettles, ZenonT(60)
  DEF WorkerStep, ClaimSteps, Deliver, RowsSettle
<1>3. CASE \/ \E m \in Messages : Administration(m) \/ EraseCancelled(m) \/ Time(m)
           \/ Maintenance \/ RequestDies \/ Freeze \/ Unfreeze
           \/ UNCHANGED vars
  BY <1>3, OutsideSettles DEF RowsSettle
<1> QED
  BY <1>2, <1>3 DEF Next

(* What is to be erased was settled before.                                 *)
LEMMA ErasedLateKept ==
  ASSUME IInv, [Next]_vars
  PROVE  ErasedLate'
<1> USE DEF IInv
<1>1. \A m \in Messages : Final(m) => Final(m)'
  BY FinalStays
<1>2. \A m \in erasing' : Final(m)'
  <2>1. CASE UNCHANGED erasing
    BY <1>1, <2>1 DEF ErasedLate, TypeOK
  <2>2. ASSUME NEW m \in Messages, RevokeInvitation(m) \/ CancelPending(m)
        PROVE  \A n \in erasing' : Final(n)'
    <3>1. PICK S \in SUBSET Messages : outbox' = DeadLettered(S) /\ erasing' = erasing \cup S
      BY <2>2 DEF RevokeInvitation, CancelPending
    <3>2. \A n \in S : outbox'[n].status = "dead_letter"
      BY <3>1 DEF DeadLettered, Released, TypeOK, Row
    <3> QED
      BY <1>1, <3>1, <3>2 DEF ErasedLate, Final, TypeOK
  <2>3. ASSUME NEW m \in Messages, EraseCancelled(m)
        PROVE  \A n \in erasing' : Final(n)'
    BY <1>1, <2>3 DEF EraseCancelled, ErasedLate, TypeOK
  <2>4. CASE RequestDies
    BY <2>4 DEF RequestDies
  <2> QED
    BY <2>1, <2>2, <2>3, <2>4, ZenonT(60)
    DEF Next, WorkerStep, ClaimSteps, Deliver, RunOnce, GiveUpExpired, EraseGivenUp,
        Claim, NothingToClaim, CheckToken, Resolve, Send, MarkSent, Fail, Discard,
        Report, Erase, StatementFails, Crash, Administration, Enqueue, SpendToken,
        Time, LeaseExpires, BackoffEnds, BodyExpires, Maintenance, EraseExpired,
        GiveUpSwept, Freeze, Unfreeze, requests, vars
<1>3. \A w \in Workers :
        /\ \A m \in worker'[w].swept : Final(m)'
        /\ worker'[w].step = "erasing" => Final(worker[w].claim)'
  <2>2. ASSUME NEW v \in Workers, WorkerStep(v) \/ StatementFails(v) \/ Crash(v)
        PROVE  /\ \A m \in worker'[v].swept : Final(m)'
               /\ worker'[v].step = "erasing" => Final(worker[v].claim)'
    <3>0. \A m \in worker[v].swept : Final(m)'
      BY <1>1 DEF ErasedLate, TypeOK, WorkerState
    <3>1. ASSUME NEW step \in Steps \ {"erasing"}, Goto(v, step)
          PROVE  worker'[v].step = step /\ worker'[v].swept = worker[v].swept
      BY <3>1 DEF Goto, TypeOK, WorkerState
    <3>2. ASSUME worker'[v].swept = {}, worker'[v].step # "erasing"
          PROVE  /\ \A m \in worker'[v].swept : Final(m)'
                 /\ worker'[v].step = "erasing" => Final(worker[v].claim)'
      BY <3>2
    <3>3. Done(v) => worker'[v].swept = {} /\ worker'[v].step # "erasing"
      BY DEF Done, Idle, TypeOK
    <3>4. CASE RunOnce(v) \/ NothingToClaim(v) \/ CheckToken(v) \/ Resolve(v) \/ Send(v)
               \/ StatementFails(v) \/ Erase(v)
      BY <3>0, <3>1, <3>3, <3>4
      DEF RunOnce, NothingToClaim, CheckToken, Resolve, Send, StatementFails, Erase, Steps
    <3>5. CASE Crash(v)
      BY <3>5 DEF Crash, Idle, TypeOK
    <3>6. CASE GiveUpExpired(v)
      <4> DEFINE final == {m \in Messages : FinalLeaseExpired(outbox[m])}
      <4>1. outbox' = DeadLettered(final)
        BY <3>6 DEF GiveUpExpired
      <4>2. \A m \in final : outbox'[m].status = "dead_letter"
        BY <4>1 DEF DeadLettered, Released, TypeOK, Row
      <4>3. worker'[v].swept = final /\ worker'[v].step = "claiming"
        BY <3>6 DEF GiveUpExpired, TypeOK, WorkerState
      <4> QED
        BY <4>2, <4>3 DEF Final
    <3>7. CASE EraseGivenUp(v)
      <4>1. worker'[v].swept \subseteq worker[v].swept /\ worker'[v].step = "claiming"
        BY <3>7 DEF EraseGivenUp, TypeOK, WorkerState
      <4> QED
        BY <3>0, <4>1
    <3>8. CASE Claim(v)
      BY <3>8, ClaimTakes
    <3>9. CASE Discard(v) \/ MarkSent(v) \/ Fail(v)
      BY <3>0, <3>3, <3>9, ReportErases, ReportKeepsSwept
    <3> QED
      BY <2>2, <3>4, <3>5, <3>6, <3>7, <3>8, <3>9 DEF WorkerStep, ClaimSteps, Deliver
  <2>3. ASSUME NEW v \in Workers, WorkerStep(v) \/ StatementFails(v) \/ Crash(v)
        PROVE  \A w \in Workers : w # v => worker'[w] = worker[w]
    BY <2>3 DEF WorkerStep, ClaimSteps, Deliver, RunOnce, GiveUpExpired, EraseGivenUp,
       Claim, NothingToClaim, CheckToken, Resolve, Send, MarkSent, Fail, Discard,
       Report, Erase, StatementFails, Crash, Goto, Done, TypeOK
  <2>4. \A w \in Workers : \A m \in Messages :
          worker[w].step = "erasing" /\ worker[w].claim = m => Final(m)'
    BY <1>1 DEF ErasedLate
  <2>5. \A w \in Workers : \A m \in worker[w].swept : Final(m)'
    BY <1>1 DEF ErasedLate, TypeOK, WorkerState
  <2>6. \/ UNCHANGED worker
        \/ \E v \in Workers : WorkerStep(v) \/ StatementFails(v) \/ Crash(v)
    BY DEF Next, Administration, Enqueue, SpendToken, RevokeInvitation, CancelPending,
       EraseCancelled, Time, LeaseExpires, BackoffEnds, BodyExpires, Maintenance,
       EraseExpired, GiveUpSwept, RequestDies, Freeze, Unfreeze, vars
  <2>7. ASSUME NEW w \in Workers, worker'[w] = worker[w]
        PROVE  /\ \A m \in worker'[w].swept : Final(m)'
               /\ worker'[w].step = "erasing" => Final(worker[w].claim)'
    <3>1. worker[w].step = "erasing" => worker[w].claim \in Messages
      BY DEF ClaimsCounted, Working
    <3> QED
      BY <2>4, <2>5, <2>7, <3>1 DEF Final
  <2> QED
    BY <2>2, <2>3, <2>6, <2>7
<1> QED
  BY <1>2, <1>3 DEF ErasedLate

(* Only enqueuing puts a message into the queue.                            *)
LEMMA OpensOnce ==
  ASSUME TypeOK, ClaimsCounted, [Next]_vars, NEW m \in Messages, Open(m)', ~Open(m)
  PROVE  Enqueue(m)
<1>1. ASSUME NEW S, outbox' = DeadLettered(S)
      PROVE  FALSE
  <2>1. outbox'[m] \in {outbox[m], Released(outbox[m], "dead_letter")}
    BY <1>1 DEF DeadLettered
  <2>2. Released(outbox[m], "dead_letter").status = "dead_letter"
    BY DEF Released, TypeOK, Row
  <2> QED
    BY <2>1, <2>2 DEF Open
<1>2. ASSUME NEW w \in Workers, Claim(w)
      PROVE  FALSE
  BY <1>2, ClaimTakes DEF Open
<1>3. ASSUME NEW w \in Workers, NEW entry, NEW final, Report(w, entry, final)
      PROVE  FALSE
  <2>1. outbox'[m] = outbox[m] \/ HeldBy(m, w)
    BY <1>3 DEF Report, TypeOK
  <2> QED
    BY <2>1 DEF HeldBy, Open
<1>4. ASSUME NEW n \in Messages, LeaseExpires(n) \/ BackoffEnds(n)
      PROVE  FALSE
  <2>1. CASE LeaseExpires(n)
    <3>1. outbox'[m].status = outbox[m].status
      BY <2>1 DEF LeaseExpires, TypeOK, Row
    <3> QED
      BY <3>1 DEF Open
  <2>2. CASE BackoffEnds(n)
    <3>1. outbox'[m].status = outbox[m].status
      BY <2>2 DEF BackoffEnds, TypeOK, Row
    <3> QED
      BY <3>1 DEF Open
  <2> QED
    BY <1>4, <2>1, <2>2
<1>5. ASSUME NEW n \in Messages, Enqueue(n)
      PROVE  n = m
  BY <1>5 DEF Enqueue, Open, TypeOK
<1>6. CASE UNCHANGED outbox
  BY <1>6, SMTT(40) DEF Open
<1> QED
  BY <1>1, <1>2, <1>3, <1>4, <1>5, <1>6
  DEF Next, WorkerStep, ClaimSteps, Deliver, RunOnce, GiveUpExpired, EraseGivenUp,
      NothingToClaim, CheckToken, Resolve, Send, MarkSent, Fail, Discard, Erase,
      StatementFails, Crash, Administration, SpendToken, RevokeInvitation,
      CancelPending, EraseCancelled, Time, BodyExpires, Maintenance, EraseExpired,
      GiveUpSwept, RequestDies, Freeze, Unfreeze, tables, vars

(* A body that lives on is erased only when its message was settled.        *)
LEMMA ErasedOnceSettled ==
  ASSUME IInv, [Next]_vars, NEW m \in Messages, m \in sealed, m \notin sealed'
  PROVE  Final(m) \/ m \notin fresh'
<1> USE DEF IInv
<1>1. ASSUME NEW w \in Workers, EraseGivenUp(w)
      PROVE  Final(m)
  BY <1>1 DEF EraseGivenUp, ErasedLate
<1>2. ASSUME NEW w \in Workers, Erase(w)
      PROVE  Final(m)
  BY <1>2 DEF Erase, ErasedLate
<1>3. ASSUME NEW n \in Messages, EraseCancelled(n)
      PROVE  Final(m)
  BY <1>3 DEF EraseCancelled, ErasedLate
<1>4. CASE EraseExpired
  BY <1>4 DEF EraseExpired, ExpiredBodies
<1>5. ASSUME NEW n \in Messages, Enqueue(n)
      PROVE  FALSE
  BY <1>5 DEF Enqueue
<1>6. CASE UNCHANGED sealed
  BY <1>6
<1> QED
  BY <1>1, <1>2, <1>3, <1>4, <1>5, <1>6, ZenonT(60)
  DEF Next, WorkerStep, ClaimSteps, Deliver, RunOnce, GiveUpExpired, Claim,
      NothingToClaim, CheckToken, Resolve, Send, MarkSent, Fail, Discard, Report,
      StatementFails, Crash, Administration, SpendToken, RevokeInvitation,
      CancelPending, Time, LeaseExpires, BackoffEnds, BodyExpires, Maintenance,
      GiveUpSwept, RequestDies, Freeze, Unfreeze, tables, vars

(* An expired body does not come back.                                      *)
LEMMA FreshOnce ==
  ASSUME [Next]_vars, NEW m \in Messages, m \in fresh', m \notin fresh
  PROVE  Enqueue(m)
BY ZenonT(60) DEF Next, WorkerStep, ClaimSteps, Deliver, RunOnce, GiveUpExpired, EraseGivenUp,
     Claim,
   NothingToClaim, CheckToken, Resolve, Send, MarkSent, Fail, Discard, Report, Erase,
   StatementFails, Crash, Administration, Enqueue, SpendToken, RevokeInvitation,
   CancelPending, EraseCancelled, Time, LeaseExpires, BackoffEnds, BodyExpires,
   Maintenance, EraseExpired, GiveUpSwept, RequestDies, Freeze, Unfreeze, tables, vars

LEMMA BodyStays ==
  ASSUME IInv, [Next]_vars
  PROVE  BodyKept'
<1> SUFFICES ASSUME NEW m \in Messages, Open(m)', m \in fresh'
             PROVE  m \in sealed'
  BY DEF BodyKept
<1>1. CASE Enqueue(m)
  BY <1>1 DEF Enqueue
<1>2. CASE ~Enqueue(m)
  <2>1. Open(m) /\ m \in fresh
    BY <1>2, OpensOnce, FreshOnce DEF IInv
  <2>2. m \in sealed
    BY <2>1 DEF IInv, BodyKept
  <2> QED
    BY <2>1, <2>2, ErasedOnceSettled DEF Open, Final
<1> QED
  BY <1>1, <1>2

-----------------------------------------------------------------------------
(* The invariant is inductive.                                              *)

LEMMA InitInvariant ==
  ASSUME Init
  PROVE  IInv
<1>1. Absent \in Row
  BY MaxAttemptsAssumption DEF Absent, Row, Statuses
<1>2. TypeOK
  BY <1>1, IdleIsWorker, BoundsAssumption DEF Init, TypeOK, Validity
<1>3. \A w \in Workers : worker[w].step = "idle" /\ worker[w].claim = None /\ worker[w].swept = {}
  BY DEF Init, Idle
<1>4. ClaimsCounted /\ AttemptsDistinct /\ AcceptedBySend /\ HolderInAttempt
  BY <1>3, NoneAssumption
  DEF ClaimsCounted, AttemptsDistinct, AcceptedBySend, HolderInAttempt, Working
<1>5. NoneBeyondAttempts
  BY DEF Init, NoneBeyondAttempts
<1>6. ErasedLate /\ BodyKept
  BY <1>3 DEF Init, ErasedLate, BodyKept
<1> QED
  BY <1>2, <1>4, <1>5, <1>6 DEF IInv

LEMMA StepInvariant ==
  ASSUME IInv, [Next]_vars
  PROVE  IInv'
<1> USE DEF IInv
<1>1. TypeOK' /\ ErasedLate' /\ BodyKept'
  BY StepType, ErasedLateKept, BodyStays
<1>2. ASSUME RowsSettle, WorkersMove, SendsKept, UNCHANGED accepted
      PROVE  IInv'
  BY <1>1, <1>2, HoldersKept, AcceptedKept
<1>3. ASSUME NEW w \in Workers, WorkerStep(w) \/ StatementFails(w) \/ Crash(w)
      PROVE  IInv'
  <2>1. CASE Claim(w)
    BY <1>1, <2>1, ClaimBegins
  <2>2. CASE Send(w)
    BY <1>1, <2>2, SendSettles, SendAccepts, HoldersKept
  <2>3. CASE ~Claim(w) /\ ~Send(w)
    BY <1>2, <1>3, <2>3, MovesSettle, SweepSettles, ReportsSettle
    DEF WorkerStep, ClaimSteps, Deliver
  <2> QED
    BY <2>1, <2>2, <2>3
<1>4. CASE \/ \E m \in Messages : Administration(m) \/ EraseCancelled(m) \/ Time(m)
           \/ Maintenance \/ RequestDies \/ Freeze \/ Unfreeze
           \/ UNCHANGED vars
  BY <1>2, <1>4, OutsideSettles
<1> QED
  BY <1>3, <1>4 DEF Next

LEMMA Invariance == Spec => []IInv
<1>1. Init => IInv
  BY InitInvariant
<1>2. IInv /\ [Next]_vars => IInv'
  BY StepInvariant
<1> QED
  BY <1>1, <1>2, PTL DEF Spec

(* The rows of outbox_messages and what each process remembers keep their
   types through claims, reports, crashes, revocations and maintenance.     *)
THEOREM MailTypeCorrect == Spec => []TypeOK
<1>1. IInv => TypeOK
  BY DEF IInv
<1> QED
  BY <1>1, Invariance, PTL

(* No erase - of a report, of the claim's sweep, of an administrator's
   cancellation - takes the body of a message that may still be sent.       *)
THEOREM BodiesKept == Spec => []BodyKept
<1>1. IInv => BodyKept
  BY DEF IInv
<1> QED
  BY <1>1, Invariance, PTL

-----------------------------------------------------------------------------
(* Reports.                                                                 *)

LEMMA ReportOfHolder ==
  ASSUME IInv, [Next]_vars, NEW w \in Workers, NEW m \in Messages,
         worker[w].claim = m, worker'[w] # worker[w], outbox'[m] # outbox[m]
  PROVE  outbox[m].lockedBy = w /\ outbox[m].attempts = worker[w].attempts
<1> USE DEF IInv
<1>1. PICK v \in Workers : WorkerStep(v) \/ StatementFails(v) \/ Crash(v)
  BY DEF Next, Administration, Enqueue, SpendToken, RevokeInvitation, CancelPending,
     EraseCancelled, Time, LeaseExpires, BackoffEnds, BodyExpires, Maintenance,
     EraseExpired, GiveUpSwept, RequestDies, Freeze, Unfreeze, vars
<1>2. v = w
  BY <1>1 DEF WorkerStep, ClaimSteps, Deliver, RunOnce, GiveUpExpired, EraseGivenUp,
     Claim, NothingToClaim, CheckToken, Resolve, Send, MarkSent, Fail, Discard,
     Report, Erase, StatementFails, Crash, Goto, Done, TypeOK
<1>3. worker[w].step \in Working
  BY NoneAssumption DEF ClaimsCounted
<1>4. Discard(w) \/ MarkSent(w) \/ Fail(w)
  BY <1>1, <1>2, <1>3
  DEF WorkerStep, ClaimSteps, Deliver, RunOnce, GiveUpExpired, EraseGivenUp, Claim,
      NothingToClaim, CheckToken, Resolve, Send, Erase, StatementFails, Crash, tables,
      Working
<1>5. HeldBy(m, w)
  BY <1>4 DEF Discard, MarkSent, Fail, Report
<1> QED
  BY <1>5 DEF HeldBy, HolderInAttempt

(* A process that lost its lease while the provider was slow reports on the
   row of another attempt without effect.                                   *)
THEOREM OwnAttemptReported == Spec => ReportsOwnAttempt
<1>1. IInv /\ [Next]_vars
        => [\A w \in Workers : \A m \in Messages :
              /\ worker[w].claim = m
              /\ worker'[w] # worker[w]
              /\ outbox'[m] # outbox[m]
              => outbox[m].lockedBy = w /\ outbox[m].attempts = worker[w].attempts]_vars
  BY ReportOfHolder
<1> QED
  BY <1>1, Invariance, PTL DEF Spec, ReportsOwnAttempt

-----------------------------------------------------------------------------
(* The outbox implements LeasedWork.                                        *)

(* What LeasedWork is told of a step that leaves the provider alone.        *)
Recorded(m, status, attempts) ==
  Record(outbox'[m].status) = status /\ outbox'[m].attempts = attempts

LEMMA Stutters ==
  ASSUME UNCHANGED accepted,
         \A m \in Messages : Recorded(m, Record(outbox[m].status), outbox[m].attempts)
  PROVE  UNCHANGED Work!vars
BY DEF Work!vars, Recorded

LEMMA GivesUp ==
  ASSUME TypeOK, NEW S, S \subseteq Messages, \A m \in S : Open(m),
         outbox' = DeadLettered(S), UNCHANGED accepted
  PROVE  Work!GiveUp(S)
<1>1. \A m \in S : Record(outbox[m].status) = "open"
  BY DEF Open, Record
<1>2. \A m \in Messages :
        Recorded(m, IF m \in S THEN "given_up" ELSE Record(outbox[m].status), outbox[m].attempts)
  <2>1. \A m \in Messages : /\ Released(outbox[m], "dead_letter").status = "dead_letter"
                            /\ Released(outbox[m], "dead_letter").attempts = outbox[m].attempts
    BY DEF Released, TypeOK, Row
  <2> QED
    BY <2>1 DEF DeadLettered, Recorded, Record
<1> QED
  BY <1>1, <1>2 DEF Work!GiveUp, Recorded

(* A report on one open message.                                            *)
LEMMA Settles ==
  ASSUME TypeOK, NEW m \in Messages, Open(m), NEW entry \in Row,
         outbox' = [outbox EXCEPT ![m] = entry], entry.attempts = outbox[m].attempts,
         UNCHANGED accepted
  PROVE  /\ entry.status = "dead_letter" => Work!GiveUp({m})
         /\ entry.status \in {"pending", "sending"} => UNCHANGED Work!vars
         /\ entry.status = "sent" /\ (\E n \in 1..outbox[m].attempts : accepted[m][n] = 1)
              => Work!Finish(m)
<1>1. \A k \in Messages :
        Recorded(k, IF k = m THEN Record(entry.status) ELSE Record(outbox[k].status),
                 outbox[k].attempts)
  BY DEF TypeOK, Recorded
<1>2. Record(outbox[m].status) = "open"
  BY DEF Open, Record
<1>3. ASSUME entry.status = "dead_letter"
      PROVE  Work!GiveUp({m})
  BY <1>1, <1>2, <1>3 DEF Work!GiveUp, Recorded, Record
<1>4. ASSUME entry.status \in {"pending", "sending"}
      PROVE  UNCHANGED Work!vars
  BY <1>1, <1>2, <1>4, Stutters DEF Recorded, Record
<1>5. ASSUME entry.status = "sent", \E n \in 1..outbox[m].attempts : accepted[m][n] = 1
      PROVE  Work!Finish(m)
  BY <1>1, <1>2, <1>5 DEF Work!Finish, Recorded, Record
<1> QED
  BY <1>3, <1>4, <1>5

LEMMA StutteringMoves ==
  ASSUME UNCHANGED <<outbox, accepted>>
  PROVE  UNCHANGED Work!vars
BY DEF Work!vars

LEMMA ClaimTries ==
  ASSUME TypeOK, ClaimsCounted, NEW w \in Workers, Claim(w)
  PROVE  \E m \in Messages : Work!Try(m)
<1>1. PICK m \in Messages :
        /\ Open(m) /\ outbox[m].attempts < MaxAttempts
        /\ outbox'[m].attempts = outbox[m].attempts + 1
        /\ outbox'[m].status = "sending"
        /\ \A n \in Messages : n # m => outbox'[n] = outbox[n]
  BY ClaimTakes
<1>2. Record(outbox[m].status) = "open"
  BY <1>1 DEF Open, Record
<1>3. \A k \in Messages :
        Recorded(k, Record(outbox[k].status),
                 IF k = m THEN outbox[k].attempts + 1 ELSE outbox[k].attempts)
  BY <1>1, <1>2 DEF Recorded, Record
<1>4. UNCHANGED accepted
  BY ClaimTakes
<1> QED
  BY <1>1, <1>2, <1>3, <1>4 DEF Work!Try, Recorded

LEMMA SendHasEffect ==
  ASSUME IInv, NEW w \in Workers, Send(w)
  PROVE  UNCHANGED Work!vars \/ \E m \in Messages : Work!Effect(m)
<1> DEFINE m == worker[w].claim
           n == worker[w].attempts
<1> USE DEF IInv
<1>1. UNCHANGED outbox
  BY DEF Send, tables
<1>2. m \in Messages /\ n \in 1..outbox[m].attempts /\ n \in 1..MaxAttempts
  <2>1. worker[w].step = "sending"
    BY SendSettles
  <2> QED
    BY <2>1, MaxAttemptsAssumption DEF ClaimsCounted, Working, TypeOK, Row
<1>3. CASE UNCHANGED accepted
  BY <1>1, <1>3, StutteringMoves
<1>4. CASE accepted' = [accepted EXCEPT ![m][n] = @ + 1]
  <2>1. accepted[m][n] = 0
    BY SendSettles DEF AcceptedBySend
  <2>2. accepted' = [accepted EXCEPT ![m] = [accepted[m] EXCEPT ![n] = @ + 1]]
    BY <1>2, <1>4 DEF TypeOK
  <2>3. accepted[m] \in [1..MaxAttempts -> Nat]
    BY <1>2 DEF TypeOK
  <2>4. [accepted[m] EXCEPT ![n] = @ + 1] = [accepted[m] EXCEPT ![n] = 1]
    BY <1>2, <2>1, <2>3
  <2>5. accepted' = [accepted EXCEPT ![m][n] = 1]
    BY <1>2, <2>2, <2>4 DEF TypeOK
  <2> QED
    BY <1>1, <1>2, <2>1, <2>5 DEF Work!Effect
<1> QED
  BY <1>3, <1>4, SendSettles

LEMMA ReportsSettleWork ==
  ASSUME IInv, NEW w \in Workers, Discard(w) \/ MarkSent(w) \/ Fail(w)
  PROVE  [Work!Next]_(Work!vars)
<1> DEFINE m == worker[w].claim
           entry == outbox[m]
<1> USE DEF IInv
<1>1. m \in Messages /\ worker[w].step \in Working
  BY DEF Discard, MarkSent, Fail, ClaimsCounted, Working
<1>2. entry \in Row
  BY <1>1 DEF TypeOK
<1>3. \A status \in Statuses :
        /\ Released(entry, status) \in Row
        /\ Released(entry, status).attempts = entry.attempts
        /\ Released(entry, status).status = status
  BY <1>2, ReleasedIsRow DEF Released, Row
<1>4. UNCHANGED accepted
  BY ReportsSettle
<1>5. CASE ~HeldBy(m, w)
  BY <1>4, <1>5, StutteringMoves DEF Discard, MarkSent, Fail, Report
<1>6. CASE HeldBy(m, w)
  <2>1. Open(m)
    BY <1>6 DEF HeldBy, Open
  <2>2. CASE Discard(w)
    <3>1. outbox' = [outbox EXCEPT ![m] = Released(entry, "dead_letter")]
      BY <1>6, <2>2 DEF Discard, Report
    <3>2. Work!GiveUp({m})
      BY <1>1, <1>3, <1>4, <2>1, <3>1, Settles DEF Statuses
    <3> QED
      BY <1>1, <3>2 DEF Work!Next
  <2>3. CASE MarkSent(w)
    <3>1. outbox' = [outbox EXCEPT ![m] = Released(entry, "sent")]
      BY <1>6, <2>3 DEF MarkSent, Report
    <3>2. accepted[m][worker[w].attempts] = 1
      BY <2>3 DEF MarkSent, AcceptedBySend
    <3>3. worker[w].attempts \in 1..outbox[m].attempts
      BY <1>1 DEF ClaimsCounted
    <3>4. Work!Finish(m)
      BY <1>1, <1>3, <1>4, <2>1, <3>1, <3>2, <3>3, Settles DEF Statuses
    <3> QED
      BY <1>1, <3>4 DEF Work!Next
  <2>4. CASE Fail(w)
    <3> DEFINE terminal == Terminal(worker[w].attempts, worker[w].step = "failing")
               released == Released(entry, IF terminal THEN "dead_letter" ELSE "pending")
               later == [released EXCEPT !.due = FALSE]
    <3>1. outbox' = [outbox EXCEPT ![m] = later]
      BY <1>6, <2>4 DEF Fail, Report
    <3>2. /\ released \in Row /\ released.attempts = entry.attempts
          /\ released.status \in {"dead_letter", "pending"}
      BY <1>3 DEF Statuses
    <3>3. \A r \in Row : /\ [r EXCEPT !.due = FALSE] \in Row
                         /\ [r EXCEPT !.due = FALSE].attempts = r.attempts
                         /\ [r EXCEPT !.due = FALSE].status = r.status
      BY DEF Row
    <3>4. /\ later \in Row /\ later.attempts = entry.attempts
          /\ later.status \in {"dead_letter", "pending"}
      BY <3>2, <3>3
    <3>5. Work!GiveUp({m}) \/ UNCHANGED Work!vars
      BY <1>1, <1>4, <2>1, <3>1, <3>4, Settles
    <3> QED
      BY <1>1, <3>5 DEF Work!Next
  <2> QED
    BY <2>2, <2>3, <2>4
<1> QED
  BY <1>5, <1>6

LEMMA OutsideWork ==
  ASSUME TypeOK, NEW m \in Messages, Administration(m) \/ EraseCancelled(m) \/ Time(m)
  PROVE  [Work!Next]_(Work!vars)
<1>1. CASE Enqueue(m)
  <2>1. Record(outbox[m].status) = "absent"
    BY <1>1 DEF Enqueue, Record
  <2>2. \A k \in Messages :
          Recorded(k, IF k = m THEN "open" ELSE Record(outbox[k].status), outbox[k].attempts)
    <3>1. \A k \in Messages : k # m => outbox'[k] = outbox[k]
      BY <1>1 DEF Enqueue, TypeOK
    <3>2. outbox'[m].status = "pending" /\ outbox'[m].attempts = outbox[m].attempts
      BY <1>1 DEF Enqueue, TypeOK, Row
    <3> QED
      BY <3>1, <3>2 DEF Recorded, Record
  <2>3. UNCHANGED accepted
    BY <1>1 DEF Enqueue
  <2>4. Work!Submit(m)
    BY <2>1, <2>2, <2>3 DEF Work!Submit, Recorded
  <2> QED
    BY <2>4 DEF Work!Next
<1>2. CASE RevokeInvitation(m)
  <2> DEFINE cancelled == {n \in {m} : outbox[n].status = "pending"}
  <2>1. Work!GiveUp(cancelled)
    BY <1>2, GivesUp DEF RevokeInvitation, Open
  <2> QED
    BY <2>1 DEF Work!Next
<1>3. CASE CancelPending(m)
  <2>1. Work!GiveUp({m})
    BY <1>3, GivesUp DEF CancelPending, Open
  <2> QED
    BY <2>1 DEF Work!Next
<1>4. CASE LeaseExpires(m) \/ BackoffEnds(m)
  <2>1. \A k \in Messages : Recorded(k, Record(outbox[k].status), outbox[k].attempts)
    <3>1. CASE LeaseExpires(m)
      BY <3>1 DEF LeaseExpires, Recorded, TypeOK, Row
    <3>2. CASE BackoffEnds(m)
      BY <3>2 DEF BackoffEnds, Recorded, TypeOK, Row
    <3> QED
      BY <1>4, <3>1, <3>2
  <2> QED
    BY <1>4, <2>1, Stutters DEF LeaseExpires, BackoffEnds
<1>5. CASE SpendToken(m) \/ EraseCancelled(m) \/ BodyExpires(m)
  BY <1>5, StutteringMoves DEF SpendToken, EraseCancelled, BodyExpires
<1> QED
  BY <1>1, <1>2, <1>3, <1>4, <1>5 DEF Administration, Time

(* Every step of the outbox is a step of LeasedWork or changes nothing that
   it records.                                                              *)
LEMMA StepOfWork ==
  ASSUME IInv, [Next]_vars
  PROVE  [Work!Next]_(Work!vars)
<1> USE DEF IInv
<1>1. ASSUME NEW w \in Workers, WorkerStep(w) \/ StatementFails(w) \/ Crash(w)
      PROVE  [Work!Next]_(Work!vars)
  <2>1. CASE \/ RunOnce(w) \/ NothingToClaim(w) \/ CheckToken(w) \/ Resolve(w)
             \/ StatementFails(w) \/ Crash(w) \/ Erase(w) \/ EraseGivenUp(w)
    BY <2>1, StutteringMoves
    DEF RunOnce, NothingToClaim, CheckToken, Resolve, StatementFails, Crash, Erase,
        EraseGivenUp, tables
  <2>2. CASE GiveUpExpired(w)
    <3> DEFINE final == {m \in Messages : FinalLeaseExpired(outbox[m])}
    <3>1. \A m \in final : Open(m)
      BY DEF FinalLeaseExpired, Open
    <3>2. Work!GiveUp(final)
      BY <2>2, <3>1, GivesUp DEF GiveUpExpired
    <3> QED
      BY <3>2 DEF Work!Next
  <2>3. CASE Claim(w)
    BY <2>3, ClaimTries DEF Work!Next
  <2>4. CASE Send(w)
    BY <2>4, SendHasEffect DEF Work!Next
  <2>5. CASE Discard(w) \/ MarkSent(w) \/ Fail(w)
    BY <2>5, ReportsSettleWork
  <2> QED
    BY <1>1, <2>1, <2>2, <2>3, <2>4, <2>5 DEF WorkerStep, ClaimSteps, Deliver
<1>2. ASSUME NEW m \in Messages, Administration(m) \/ EraseCancelled(m) \/ Time(m)
      PROVE  [Work!Next]_(Work!vars)
  BY <1>2, OutsideWork
<1>3. CASE GiveUpSwept
  <2> DEFINE open == {m \in swept : Open(m)}
  <2>1. Work!GiveUp(open) /\ open \subseteq Messages
    BY <1>3, GivesUp DEF GiveUpSwept, TypeOK
  <2> QED
    BY <2>1 DEF Work!Next
<1>4. CASE EraseExpired \/ RequestDies \/ Freeze \/ Unfreeze \/ UNCHANGED vars
  BY <1>4, StutteringMoves
  DEF EraseExpired, RequestDies, Freeze, Unfreeze, vars, tables
<1> QED
  BY <1>1, <1>2, <1>3, <1>4 DEF Next, Maintenance

(* Whatever happens to leases, processes and requests, a message is handed
   to the provider at most once in each of at most max_attempts attempts, is
   recorded as sent only if the provider took it, and stays settled.        *)
THEOREM ImplementsLeasedWork == Spec => AtLeastOnceInBudget
<1>1. Init => Work!Init
  BY DEF Init, Absent, Record, Work!Init
<1>2. IInv /\ [Next]_vars => [Work!Next]_(Work!vars)
  BY StepOfWork
<1> QED
  BY <1>1, <1>2, Invariance, PTL DEF Spec, AtLeastOnceInBudget, Work!Spec

-----------------------------------------------------------------------------
(* The settings the processes of a deployment run with, those of the mail
   transport among them (RuntimeConfiguration).                             *)

(* The bound on revisions is a number, and null is not a configuration.     *)
RevisionsOK == MaxRevision \in Nat /\ Unset \notin Settings!Row

ServerProcess == [mode : {"up", "booting", "down"}, state : Settings!Row, newest : 0..MaxRevision,
                  reads : SUBSET Settings!Row, notified : BOOLEAN]

Update == [at : {"idle", "judged", "saved", "refused", "read saved", "read refused"},
           on : Processes \cup {Unset}, base : Settings!Row \cup {Unset}, judged : Settings!Row \cup {Unset},
           smtp : BOOLEAN, change : Settings!Changes \cup {Unset}, read : Settings!Row \cup {Unset}]

SettingsTyped ==
  /\ row \in Settings!Row /\ process \in [Processes -> ServerProcess]
  /\ form \in [Editors -> Settings!Row \cup {Unset}] /\ saving \in [Editors -> Update]
  /\ misjudged \in BOOLEAN /\ mishap \in Nat
  /\ \A a \in Editors :
       /\ saving[a].at # "idle" => saving[a].on \in Processes
       /\ saving[a].at = "judged" =>
            saving[a].base \in Settings!Row /\ saving[a].judged \in Settings!Row /\ saving[a].change \in Settings!Changes
       /\ saving[a].at \in {"read saved", "read refused"} => saving[a].read \in Settings!Row

(* Whatever was read of the row is an older revision of it, or the row.     *)
Before(r) == r \in Settings!Row => r.revision <= row.revision /\ (r.revision = row.revision => r = row)

RevisionsPast ==
  /\ \A p \in Processes :
       /\ Before(process[p].state) /\ process[p].newest <= row.revision
       /\ \A r \in process[p].reads : Before(r)
  /\ \A a \in Editors :
       Before(form[a]) /\ Before(saving[a].base) /\ Before(saving[a].judged) /\ Before(saving[a].read)

(* An update that was accepted loads on top of the row it was judged by.    *)
JudgedLoads ==
  \A a \in Editors : saving[a].at = "judged" =>
    /\ saving[a].base.revision < MaxRevision
    /\ Settings!Complete(saving[a].smtp, Settings!HasPassword(saving[a].change, saving[a].judged.password))

(* An update has been stored of which the other processes are still to hear. *)
Announcing == \E a \in Editors : saving[a].at = "saved" \/ (saving[a].at = "read saved" /\ saving[a].read = row)

(* A process that has not taken over the row has to hear of it, or reads it. *)
WillHear ==
  mishap = 0 /\ ~misjudged => \A p \in Processes :
    /\ process[p].mode = "up"
    /\ \/ process[p].newest = row.revision \/ process[p].notified \/ row \in process[p].reads
       \/ Announcing

SettingsInv == SettingsTyped /\ RevisionsPast /\ JudgedLoads /\ Settings!StoredLoads /\ WillHear

-----------------------------------------------------------------------------
LEMMA RowFields ==
  /\ \A r \in Settings!Row : r.revision \in 0..MaxRevision /\ r.smtp \in BOOLEAN /\ r.password \in BOOLEAN
  /\ \A q \in ServerProcess :
       /\ q.mode \in {"up", "booting", "down"} /\ q.state \in Settings!Row
       /\ q.newest \in 0..MaxRevision
       /\ q.reads \subseteq Settings!Row /\ q.notified \in BOOLEAN
BY DEF Settings!Row, ServerProcess

(* A process that takes over a row that was read.                           *)
LEMMA TakingOver ==
  ASSUME RevisionsOK, SettingsTyped, RevisionsPast, NEW p \in Processes,
         NEW r \in Settings!Row, Before(r)
  PROVE  /\ Settings!Taken(p, r) \in ServerProcess
         /\ Settings!Taken(p, r).mode = process[p].mode /\ Settings!Taken(p, r).state = r
         /\ Settings!Taken(p, r).reads = process[p].reads
         /\ Settings!Taken(p, r).notified = process[p].notified
         /\ Settings!Taken(p, r).newest <= row.revision
         /\ Settings!Taken(p, r).newest >= process[p].newest
         /\ r = row => Settings!Taken(p, r).newest = row.revision
<1>1. /\ process[p] \in ServerProcess /\ process[p].newest <= row.revision
      /\ r.revision \in 0..MaxRevision /\ r.revision <= row.revision
      /\ row.revision \in 0..MaxRevision
      /\ process[p].newest \in 0..MaxRevision
  BY RowFields DEF SettingsTyped, RevisionsPast, Before
<1> DEFINE n == IF r.revision > process[p].newest THEN r.revision ELSE process[p].newest
<1>2. /\ n \in 0..MaxRevision /\ n <= row.revision /\ n >= process[p].newest
      /\ r = row => n = row.revision
  BY <1>1
<1>3. Settings!Taken(p, r) = [process[p] EXCEPT !.state = r, !.newest = n]
  BY DEF Settings!Taken
<1> HIDE DEF n
<1> QED  BY <1>1, <1>2, <1>3 DEF ServerProcess

LEMMA SettingsInitially == ASSUME RevisionsOK PROVE Settings!Init => SettingsInv
<1> SUFFICES ASSUME Settings!Init PROVE SettingsInv
    OBVIOUS
<1>1. row \in Settings!Row /\ row.revision = 0 /\ ~row.smtp
  BY DEF Settings!Init, Settings!Row, RevisionsOK
<1>2. \A p \in Processes : process[p] = [mode |-> "up", state |-> row, newest |-> 0, reads |-> {}, notified |-> FALSE]
  BY DEF Settings!Init
<1>3. \A a \in Editors : form[a] = Unset /\ saving[a] = Settings!Idle
  BY DEF Settings!Init
<1>4. /\ Settings!Idle \in Update /\ Settings!Idle.at = "idle" /\ Settings!Idle.base = Unset
      /\ Settings!Idle.judged = Unset /\ Settings!Idle.read = Unset
  BY DEF Settings!Idle, Update, Settings!Changes
<1>5. SettingsTyped
  <2>1. process \in [Processes -> ServerProcess]
    BY <1>1, SMTT(30) DEF Settings!Init, ServerProcess, RevisionsOK
  <2> QED  BY <1>1, <1>3, <1>4, <2>1 DEF SettingsTyped, Settings!Init
<1>6. Before(row) /\ Before(Unset)
  BY <1>1 DEF Before, RevisionsOK
<1>7. RevisionsPast
  BY <1>1, <1>2, <1>3, <1>4, <1>6 DEF RevisionsPast
<1>8. JudgedLoads /\ Settings!StoredLoads /\ WillHear
  BY <1>1, <1>2, <1>3, <1>4 DEF JudgedLoads, Settings!StoredLoads, WillHear, Settings!Loads,
       Settings!Complete
<1> QED  BY <1>5, <1>7, <1>8 DEF SettingsInv

(* What leaves the row, and what was accepted, alone.                       *)

LEMMA ShowKeeps ==
  ASSUME RevisionsOK, SettingsInv, NEW a \in Editors, NEW p \in Processes, Settings!Show(a, p)
  PROVE  SettingsInv'
<1>1. /\ UNCHANGED <<row, process, saving, misjudged, mishap>>
      /\ form' = [form EXCEPT ![a] = process[p].state]
  BY DEF Settings!Show
<1>2. process[p].state \in Settings!Row /\ Before(process[p].state)
  BY RowFields DEF SettingsInv, SettingsTyped, RevisionsPast
<1>3. SettingsTyped'
  BY <1>1, <1>2 DEF SettingsInv, SettingsTyped
<1>4. RevisionsPast'
  BY <1>1, <1>2 DEF SettingsInv, SettingsTyped, RevisionsPast, Before
<1>5. (JudgedLoads /\ Settings!StoredLoads /\ WillHear)'
  BY <1>1 DEF SettingsInv, JudgedLoads, Settings!StoredLoads, WillHear, Announcing
<1> QED  BY <1>3, <1>4, <1>5 DEF SettingsInv

LEMMA JudgeKeeps ==
  ASSUME RevisionsOK, SettingsInv, NEW a \in Editors, NEW p \in Processes, Settings!Judge(a, p)
  PROVE  SettingsInv'
<1>1. PICK smtp \in BOOLEAN, change \in Settings!Changes :
        /\ Settings!Complete(smtp, Settings!HasPassword(change, process[p].state.password))
        /\ saving' = [saving EXCEPT ![a] =
             [Settings!Idle EXCEPT !.at = "judged", !.on = p, !.base = form[a],
                !.judged = process[p].state, !.smtp = smtp, !.change = change]]
  BY DEF Settings!Judge
<1>2. /\ UNCHANGED <<row, process, misjudged, mishap>> /\ form' = [form EXCEPT ![a] = Unset]
      /\ form[a] # Unset /\ saving[a].at = "idle"
  BY DEF Settings!Judge
<1>3. /\ process[p].state \in Settings!Row /\ form[a] \in Settings!Row /\ Before(process[p].state)
      /\ Before(form[a])
  BY <1>2, RowFields DEF SettingsInv, SettingsTyped, RevisionsPast
<1> DEFINE t == [Settings!Idle EXCEPT !.at = "judged", !.on = p, !.base = form[a],
                   !.judged = process[p].state, !.smtp = smtp, !.change = change]
<1>4. /\ t.at = "judged" /\ t.on = p /\ t.base = form[a] /\ t.judged = process[p].state
      /\ t.smtp = smtp /\ t.change = change /\ t.read = Unset /\ t \in Update
  BY <1>3 DEF Settings!Idle, Update
<1> HIDE DEF t
<1>5. /\ saving' \in [Editors -> Update] /\ saving'[a] = t
      /\ \A b \in Editors \ {a} : saving'[b] = saving[b]
  BY <1>1, <1>4 DEF SettingsInv, SettingsTyped, t
<1>6. SettingsTyped'
  BY <1>2, <1>3, <1>4, <1>5 DEF SettingsInv, SettingsTyped
<1>7. \A b \in Editors : form'[b] = IF b = a THEN Unset ELSE form[b]
  BY <1>2 DEF SettingsInv, SettingsTyped
<1>8. RevisionsPast'
  BY <1>2, <1>3, <1>4, <1>5, <1>7 DEF RevisionsOK, SettingsInv, RevisionsPast, Before
<1>9. JudgedLoads'
  BY <1>1, <1>2, <1>4, <1>5 DEF SettingsInv, JudgedLoads, Settings!HasPassword, Settings!Judge
<1>10. (Settings!StoredLoads /\ WillHear)'
  BY <1>2, <1>4, <1>5 DEF SettingsInv, Settings!StoredLoads, WillHear, Announcing
<1> QED  BY <1>6, <1>8, <1>9, <1>10 DEF SettingsInv

LEMMA SaveKeeps ==
  ASSUME RevisionsOK, SettingsInv, NEW a \in Editors, Settings!Save(a)
  PROVE  SettingsInv'
<1> DEFINE done(at) == [Settings!Idle EXCEPT !.at = at, !.on = saving[a].on]
<1>1. saving[a].at = "judged" /\ UNCHANGED <<process, form, mishap>>
  BY DEF Settings!Save
<1>2. /\ saving[a] \in Update /\ saving[a].on \in Processes /\ saving[a].base \in Settings!Row
      /\ saving[a].judged \in Settings!Row
  BY <1>1 DEF SettingsInv, SettingsTyped
<1>3. \A at \in {"saved", "refused"} :
        /\ done(at) \in Update /\ done(at).at = at /\ done(at).on = saving[a].on
        /\ done(at).base = Unset /\ done(at).judged = Unset /\ done(at).read = Unset
  BY <1>2 DEF Settings!Idle, Update
<1> HIDE DEF done
<1>4. \A at : saving' = [saving EXCEPT ![a] = done(at)] =>
        /\ saving'[a] = done(at) /\ \A b \in Editors \ {a} : saving'[b] = saving[b]
        /\ done(at) \in Update => saving' \in [Editors -> Update]
  BY DEF SettingsInv, SettingsTyped
<1>5. CASE Settings!Expected(a) /\ row' = Settings!Stored(a) /\ saving' = [saving EXCEPT ![a] = done("saved")]
           /\ misjudged' = (misjudged \/ saving[a].judged # row)
  <2>1. row.revision \in 0..MaxRevision /\ saving[a].base.revision = row.revision
    BY <1>5, RowFields DEF Settings!Expected, SettingsInv, SettingsTyped
  <2>2. row.revision + 1 \in 0..MaxRevision
    BY <1>1, <2>1 DEF SettingsInv, JudgedLoads, RevisionsOK
  <2>3. saving[a].smtp \in BOOLEAN /\ row.password \in BOOLEAN
    BY <1>2, RowFields DEF Update, SettingsInv, SettingsTyped
  <2>4. /\ row' \in Settings!Row /\ row'.revision = row.revision + 1 /\ row'.smtp = saving[a].smtp
        /\ row'.password = Settings!HasPassword(saving[a].change, row.password)
    BY <1>5, <2>2, <2>3 DEF Settings!Stored, Settings!Row, Settings!HasPassword
  <2>5. /\ saving'[a] = done("saved") /\ \A b \in Editors \ {a} : saving'[b] = saving[b]
        /\ saving' \in [Editors -> Update]
    BY <1>3, <1>4, <1>5
  <2>6. SettingsTyped'
    BY <1>1, <1>2, <1>3, <1>5, <2>4, <2>5 DEF SettingsInv, SettingsTyped
  <2>7. \A r : Before(r) => Before(r)' /\ (r \in Settings!Row => r # row')
    BY <2>1, <2>4, RowFields DEF Before
  <2>8. \A p \in Processes : process[p].newest \in Nat /\ process[p].newest <= row.revision
    <3> SUFFICES ASSUME NEW p \in Processes
                 PROVE  process[p].newest \in Nat /\ process[p].newest <= row.revision
        OBVIOUS
    <3>1. process[p] \in ServerProcess
      BY DEF SettingsInv, SettingsTyped
    <3>2. process[p].newest \in 0..MaxRevision
      BY <3>1, RowFields
    <3> QED  BY <3>2 DEF SettingsInv, RevisionsPast
  <2>9. RevisionsPast'
    <3>1. Before(Unset)'
      BY <2>4 DEF RevisionsOK, Before
    <3>2. \A p \in Processes : process'[p].newest <= row'.revision
      BY <1>1, <2>1, <2>4, <2>8
    <3>3. \A p \in Processes : Before(process[p].state)' /\ \A r \in process'[p].reads : Before(r)'
      BY <1>1, <2>7 DEF SettingsInv, RevisionsPast
    <3>4. \A b \in Editors : Before(form[b])'
      BY <1>1, <2>7 DEF SettingsInv, RevisionsPast
    <3>5. \A b \in Editors :
            Before(saving[b].base)' /\ Before(saving[b].judged)' /\ Before(saving[b].read)'
      BY <1>3, <2>5, <2>7, <3>1 DEF SettingsInv, RevisionsPast
    <3> QED  BY <3>2, <3>3, <3>4, <3>5 DEF RevisionsPast
  <2>10. JudgedLoads'
    BY <1>3, <2>5 DEF SettingsInv, JudgedLoads
  <2>11. Settings!StoredLoads'
    BY <1>1, <1>5, <2>4 DEF SettingsInv, JudgedLoads, Settings!StoredLoads, Settings!Loads
  <2>12. WillHear'
    BY <1>1, <1>3, <1>5, <2>5 DEF SettingsInv, WillHear, Announcing
  <2> QED  BY <2>6, <2>9, <2>10, <2>11, <2>12 DEF SettingsInv
<1>6. CASE ~Settings!Expected(a) /\ saving' = [saving EXCEPT ![a] = done("refused")] /\ UNCHANGED <<row, misjudged>>
  <2>1. SettingsTyped'
    BY <1>1, <1>2, <1>3, <1>4, <1>6 DEF SettingsInv, SettingsTyped
  <2>2. RevisionsPast'
    BY <1>1, <1>3, <1>4, <1>6 DEF RevisionsOK, SettingsInv, RevisionsPast, Before
  <2>3. JudgedLoads'
    BY <1>3, <1>4, <1>6 DEF SettingsInv, JudgedLoads
  <2>4. (Settings!StoredLoads /\ WillHear)'
    BY <1>1, <1>3, <1>4, <1>6 DEF SettingsInv, Settings!StoredLoads, WillHear, Announcing
  <2> QED  BY <2>1, <2>2, <2>3, <2>4 DEF SettingsInv
<1> QED  BY <1>5, <1>6 DEF Settings!Save, done

LEMMA ReadAgainKeeps ==
  ASSUME RevisionsOK, SettingsInv, NEW a \in Editors, Settings!ReadAgain(a)
  PROVE  SettingsInv'
<1> DEFINE at == IF saving[a].at = "saved" THEN "read saved" ELSE "read refused"
<1>1. saving[a].at \in {"saved", "refused"} /\ UNCHANGED <<row, process, form, misjudged, mishap>>
  BY DEF Settings!ReadAgain
<1>2. saving' = [saving EXCEPT ![a] = [saving[a] EXCEPT !.read = row, !.at = at]]
  BY DEF Settings!ReadAgain, SettingsInv, SettingsTyped
<1> HIDE DEF at
<1> DEFINE t == [saving[a] EXCEPT !.read = row, !.at = at]
<1>3. saving[a] \in Update /\ row \in Settings!Row /\ at \in {"read saved", "read refused"}
      /\ (saving[a].at = "saved" => at = "read saved")
  BY <1>1 DEF SettingsInv, SettingsTyped, at
<1>4. /\ t \in Update /\ t.at = at /\ t.read = row /\ t.on = saving[a].on /\ t.base = saving[a].base
      /\ t.judged = saving[a].judged
  BY <1>3 DEF Update
<1> HIDE DEF t
<1>5. /\ saving'[a] = t /\ \A b \in Editors \ {a} : saving'[b] = saving[b]
      /\ saving' \in [Editors -> Update]
  BY <1>2, <1>4 DEF SettingsInv, SettingsTyped, t
<1>6. SettingsTyped'
  BY <1>1, <1>3, <1>4, <1>5 DEF SettingsInv, SettingsTyped
<1>7. Before(row)
  <2>1. row.revision \in 0..MaxRevision
    BY RowFields DEF SettingsInv, SettingsTyped
  <2> QED  BY <2>1 DEF Before
<1>8. RevisionsPast'
  BY <1>1, <1>4, <1>5, <1>7 DEF SettingsInv, RevisionsPast, Before
<1>9. JudgedLoads'
  BY <1>3, <1>4, <1>5 DEF SettingsInv, JudgedLoads
<1>10. Announcing => Announcing'
  BY <1>1, <1>3, <1>4, <1>5 DEF Announcing
<1>11. (Settings!StoredLoads /\ WillHear)'
  BY <1>1, <1>10 DEF SettingsInv, Settings!StoredLoads, WillHear
<1> QED  BY <1>6, <1>8, <1>9, <1>11 DEF SettingsInv

(* A step of one process that leaves the row and the updates alone.         *)
LEMMA ProcessMoves ==
  ASSUME RevisionsOK, SettingsInv, UNCHANGED <<row, form, saving, misjudged, mishap>>,
         NEW p \in Processes, NEW q \in ServerProcess, process' = [process EXCEPT ![p] = q],
         Before(q.state), q.newest <= row.revision, \A r \in q.reads : Before(r),
         mishap = 0 /\ ~misjudged =>
           /\ q.mode = "up"
           /\ q.newest = row.revision \/ q.notified \/ row \in q.reads \/ Announcing
  PROVE  SettingsInv'
<1>1. /\ process' \in [Processes -> ServerProcess] /\ process'[p] = q
      /\ \A o \in Processes \ {p} : process'[o] = process[o]
  BY DEF SettingsInv, SettingsTyped
<1>2. SettingsTyped'
  BY <1>1 DEF SettingsInv, SettingsTyped
<1>3. RevisionsPast'
  BY <1>1 DEF SettingsInv, RevisionsPast, Before
<1>4. (JudgedLoads /\ Settings!StoredLoads)'
  BY DEF SettingsInv, JudgedLoads, Settings!StoredLoads
<1>5. WillHear'
  BY <1>1 DEF SettingsInv, WillHear, Announcing
<1> QED  BY <1>2, <1>3, <1>4, <1>5 DEF SettingsInv

LEMMA ReloadKeeps ==
  ASSUME RevisionsOK, SettingsInv, NEW p \in Processes, Settings!Reload(p)
  PROVE  SettingsInv'
<1> DEFINE q == [process[p] EXCEPT !.notified = FALSE, !.reads = process[p].reads \cup {row}]
<1>1. process[p] \in ServerProcess /\ row \in Settings!Row
  BY DEF SettingsInv, SettingsTyped
<1>2. /\ q \in ServerProcess /\ q.state = process[p].state /\ q.newest = process[p].newest
      /\ q.mode = process[p].mode /\ q.reads = process[p].reads \cup {row}
  BY <1>1 DEF ServerProcess
<1>3. process' = [process EXCEPT ![p] = q] /\ UNCHANGED <<row, form, saving, misjudged, mishap>>
  BY DEF Settings!Reload, SettingsInv, SettingsTyped
<1> HIDE DEF q
<1>4. Before(row)
  <2>1. row.revision \in 0..MaxRevision
    BY RowFields DEF SettingsInv, SettingsTyped
  <2> QED  BY <2>1 DEF Before
<1>5. Before(q.state) /\ q.newest <= row.revision /\ \A r \in q.reads : Before(r)
  BY <1>2, <1>4 DEF SettingsInv, RevisionsPast
<1>6. mishap = 0 /\ ~misjudged => q.mode = "up" /\ row \in q.reads
  BY <1>2 DEF SettingsInv, WillHear
<1> QED  BY <1>2, <1>3, <1>5, <1>6, ProcessMoves

LEMMA LandKeeps ==
  ASSUME RevisionsOK, SettingsInv, NEW p \in Processes, Settings!Land(p)
  PROVE  SettingsInv'
<1>1. PICK r \in process[p].reads :
        process' = [process EXCEPT ![p] = [Settings!Taken(p, r) EXCEPT !.reads = @ \ {r}]]
  BY DEF Settings!Land
<1>2. process[p] \in ServerProcess /\ r \in Settings!Row /\ Before(r)
  BY RowFields DEF SettingsInv, SettingsTyped, RevisionsPast
<1> DEFINE t == Settings!Taken(p, r)
<1>3. /\ t \in ServerProcess /\ t.mode = process[p].mode /\ t.state = r
      /\ t.reads = process[p].reads /\ t.notified = process[p].notified
      /\ t.newest <= row.revision /\ t.newest >= process[p].newest
      /\ (r = row => t.newest = row.revision)
  BY <1>2, TakingOver DEF SettingsInv
<1> HIDE DEF t
<1> DEFINE q == [t EXCEPT !.reads = t.reads \ {r}]
<1>4. /\ q \in ServerProcess /\ q.state = r /\ q.newest = t.newest /\ q.notified = process[p].notified
      /\ q.mode = process[p].mode /\ q.reads = process[p].reads \ {r}
  BY <1>3 DEF ServerProcess
<1>5. process' = [process EXCEPT ![p] = q] /\ UNCHANGED <<row, form, saving, misjudged, mishap>>
  BY <1>1 DEF Settings!Land, t
<1> HIDE DEF q
<1>6. Before(q.state) /\ q.newest <= row.revision /\ \A o \in q.reads : Before(o)
  BY <1>2, <1>3, <1>4 DEF SettingsInv, RevisionsPast
<1>7. mishap = 0 /\ ~misjudged =>
        /\ q.mode = "up" /\ (q.newest = row.revision \/ q.notified \/ row \in q.reads \/ Announcing)
  <2>1. process[p].newest \in Nat /\ q.newest \in Nat /\ row.revision \in Nat
    <3>1. row \in Settings!Row
      BY DEF SettingsInv, SettingsTyped
    <3>2. /\ process[p].newest \in 0..MaxRevision /\ q.newest \in 0..MaxRevision
          /\ row.revision \in 0..MaxRevision
      BY <1>2, <1>4, <3>1, RowFields
    <3> QED  BY <3>2
  <2>2. process[p].newest = row.revision => q.newest = row.revision
    BY <1>3, <1>4, <2>1
  <2> QED  BY <1>3, <1>4, <2>2 DEF SettingsInv, WillHear
<1> QED  BY <1>4, <1>5, <1>6, <1>7, ProcessMoves

LEMMA BootKeeps ==
  ASSUME RevisionsOK, SettingsInv, NEW p \in Processes, Settings!Boot(p)
  PROVE  SettingsInv'
<1>1. /\ process[p].mode = "down" /\ UNCHANGED <<row, form, saving, misjudged, mishap>>
      /\ process' = [process EXCEPT ![p] = [Settings!Taken(p, row) EXCEPT !.mode = "booting"]]
  BY DEF Settings!Boot
<1>2. process[p] \in ServerProcess /\ row \in Settings!Row
  BY DEF SettingsInv, SettingsTyped
<1>3. Before(row)
  <2>1. row.revision \in 0..MaxRevision
    BY RowFields, <1>2
  <2> QED  BY <2>1 DEF Before
<1> DEFINE t == Settings!Taken(p, row)
<1>4. /\ t \in ServerProcess /\ t.state = row /\ t.reads = process[p].reads
      /\ t.newest <= row.revision
  BY <1>2, <1>3, TakingOver DEF SettingsInv
<1> HIDE DEF t
<1> DEFINE q == [t EXCEPT !.mode = "booting"]
<1>5. q \in ServerProcess /\ q.state = row /\ q.newest = t.newest /\ q.reads = process[p].reads
  BY <1>4 DEF ServerProcess
<1>6. process' = [process EXCEPT ![p] = q]
  BY <1>1 DEF t
<1> HIDE DEF q
<1>7. Before(q.state) /\ q.newest <= row.revision /\ \A o \in q.reads : Before(o)
  BY <1>3, <1>4, <1>5 DEF SettingsInv, RevisionsPast
<1>8. ~(mishap = 0 /\ ~misjudged)
  BY <1>1 DEF SettingsInv, WillHear
<1> QED  BY <1>1, <1>5, <1>6, <1>7, <1>8, ProcessMoves

LEMMA ListenKeeps ==
  ASSUME RevisionsOK, SettingsInv, NEW p \in Processes, Settings!Listen(p)
  PROVE  SettingsInv'
<1>1. process[p].mode = "booting" /\ UNCHANGED <<row, form, saving, misjudged, mishap>>
  BY DEF Settings!Listen
<1>2. process[p] \in ServerProcess
  BY DEF SettingsInv, SettingsTyped
<1> DEFINE q == [process[p] EXCEPT !.mode = "up"]
<1>3. /\ q \in ServerProcess /\ q.state = process[p].state /\ q.newest = process[p].newest
      /\ q.reads = process[p].reads
  BY <1>2 DEF ServerProcess
<1>4. process' = [process EXCEPT ![p] = q]
  BY DEF Settings!Listen
<1> HIDE DEF q
<1>5. Before(q.state) /\ q.newest <= row.revision /\ \A o \in q.reads : Before(o)
  BY <1>3 DEF SettingsInv, RevisionsPast
<1>6. ~(mishap = 0 /\ ~misjudged)
  BY <1>1 DEF SettingsInv, WillHear
<1> QED  BY <1>1, <1>3, <1>4, <1>5, <1>6, ProcessMoves

LEMMA CrashKeeps ==
  ASSUME RevisionsOK, SettingsInv, NEW p \in Processes, Settings!Crash(p)
  PROVE  SettingsInv'
<1>0. mishap' = mishap + 1 /\ mishap \in Nat
  BY DEF Settings!Crash, SettingsInv, SettingsTyped
<1>1. /\ UNCHANGED <<row, form, misjudged>> /\ mishap' \in Nat /\ mishap' # 0
      /\ saving' = [a \in Editors |-> IF saving[a].on = p THEN Settings!Idle ELSE saving[a]]
      /\ process' = [process EXCEPT ![p].mode = "down", ![p].reads = {}, ![p].notified = FALSE]
  BY <1>0 DEF Settings!Crash
<1>2. process[p] \in ServerProcess
  BY DEF SettingsInv, SettingsTyped
<1> DEFINE q == [process[p] EXCEPT !.mode = "down", !.reads = {}, !.notified = FALSE]
<1>3. /\ q \in ServerProcess /\ q.state = process[p].state /\ q.newest = process[p].newest
      /\ q.reads = {}
  BY <1>2 DEF ServerProcess
<1>4. process' = [process EXCEPT ![p] = q]
  BY <1>1 DEF SettingsInv, SettingsTyped
<1> HIDE DEF q
<1>5. /\ Settings!Idle \in Update /\ Settings!Idle.at = "idle" /\ Settings!Idle.base = Unset
      /\ Settings!Idle.judged = Unset /\ Settings!Idle.read = Unset
  BY DEF Settings!Idle, Update, Settings!Changes
<1>6. /\ process' \in [Processes -> ServerProcess] /\ process'[p] = q
      /\ \A o \in Processes \ {p} : process'[o] = process[o]
  BY <1>3, <1>4 DEF SettingsInv, SettingsTyped
<1>7. /\ saving' \in [Editors -> Update]
      /\ \A a \in Editors : saving'[a] = saving[a] \/ saving'[a] = Settings!Idle
  BY <1>1, <1>5 DEF SettingsInv, SettingsTyped
<1>8. SettingsTyped'
  BY <1>1, <1>5, <1>6, <1>7 DEF SettingsInv, SettingsTyped
<1>9. RevisionsPast'
  BY <1>1, <1>3, <1>5, <1>6, <1>7 DEF RevisionsOK, SettingsInv, RevisionsPast, Before
<1>10. (JudgedLoads /\ Settings!StoredLoads /\ WillHear)'
  BY <1>1, <1>5, <1>7 DEF SettingsInv, JudgedLoads, Settings!StoredLoads, WillHear
<1> QED  BY <1>8, <1>9, <1>10 DEF SettingsInv

LEMMA AnswerKeeps ==
  ASSUME RevisionsOK, SettingsInv, NEW a \in Editors, Settings!Answer(a)
  PROVE  SettingsInv'
<1> DEFINE p == saving[a].on
           r == saving[a].read
           taken == [process EXCEPT ![p] = Settings!Taken(p, r)]
<1>1. /\ saving[a].at \in {"read saved", "read refused"}
      /\ saving' = [saving EXCEPT ![a] = Settings!Idle]
      /\ UNCHANGED <<row, form, misjudged, mishap>>
      /\ process' = IF saving[a].at = "read saved" /\ Settings!Loads(r) THEN Settings!Notified(taken) ELSE taken
  BY DEF Settings!Answer, Settings!Told
<1>2. p \in Processes /\ r \in Settings!Row /\ Before(r)
  BY <1>1 DEF SettingsInv, SettingsTyped, RevisionsPast
<1>3. /\ Settings!Taken(p, r) \in ServerProcess
      /\ Settings!Taken(p, r).mode = process[p].mode /\ Settings!Taken(p, r).state = r
      /\ Settings!Taken(p, r).reads = process[p].reads
      /\ Settings!Taken(p, r).notified = process[p].notified
      /\ Settings!Taken(p, r).newest <= row.revision
      /\ Settings!Taken(p, r).newest >= process[p].newest
  BY <1>2, TakingOver DEF SettingsInv
<1>4. \A o \in Processes :
        /\ process[o] \in ServerProcess /\ Before(process[o].state)
        /\ process[o].newest <= row.revision
        /\ \A s \in process[o].reads : Before(s)
  BY DEF SettingsInv, SettingsTyped, RevisionsPast
<1>5. taken \in [Processes -> ServerProcess] /\ taken[p] = Settings!Taken(p, r)
      /\ \A o \in Processes \ {p} : taken[o] = process[o]
  BY <1>2, <1>3 DEF SettingsInv, SettingsTyped
<1> HIDE DEF taken
<1>6. \A o \in Processes :
        /\ taken[o] \in ServerProcess /\ taken[o].mode = process[o].mode
        /\ taken[o].reads = process[o].reads /\ taken[o].notified = process[o].notified
        /\ Before(taken[o].state) /\ taken[o].newest <= row.revision
        /\ taken[o].newest = process[o].newest \/ o = p
  BY <1>2, <1>3, <1>4, <1>5
<1>7. \A o \in Processes : process[o].newest = row.revision => taken[o].newest = row.revision
  <2> SUFFICES ASSUME NEW o \in Processes, process[o].newest = row.revision
               PROVE  taken[o].newest = row.revision
      OBVIOUS
  <2>1. CASE o # p
    BY <1>6, <2>1
  <2>2. CASE o = p
    <3>1. process[p] \in ServerProcess /\ Settings!Taken(p, r) \in ServerProcess
      BY <1>2, <1>3, <1>4
    <3>2. process[p].newest \in 0..MaxRevision /\ Settings!Taken(p, r).newest \in 0..MaxRevision
      BY <3>1, RowFields
    <3>3. Settings!Taken(p, r).newest = row.revision
      BY <1>3, <2>2, <3>2
    <3> QED  BY <1>5, <2>2, <3>3
  <2> QED  BY <2>1, <2>2
<1> DEFINE told(o) == [taken[o] EXCEPT !.notified = taken[o].notified \/ taken[o].mode = "up"]
<1>8. \A o \in Processes :
        /\ told(o) \in ServerProcess /\ told(o).mode = taken[o].mode /\ told(o).reads = taken[o].reads
        /\ told(o).notified = (taken[o].notified \/ taken[o].mode = "up")
        /\ told(o).state = taken[o].state /\ told(o).newest = taken[o].newest
  BY <1>6 DEF ServerProcess
<1>9. Settings!Notified(taken) = [o \in Processes |-> told(o)]
  BY DEF Settings!Notified
<1> HIDE DEF told
<1>10. /\ process' \in [Processes -> ServerProcess]
       /\ \A o \in Processes :
            /\ process'[o].mode = process[o].mode /\ process'[o].reads = process[o].reads
            /\ process'[o].state = taken[o].state /\ process'[o].newest = taken[o].newest
            /\ process[o].notified => process'[o].notified
            /\ saving[a].at = "read saved" /\ Settings!Loads(r) /\ process[o].mode = "up"
                 => process'[o].notified
  <2>1. CASE saving[a].at = "read saved" /\ Settings!Loads(r)
    BY <1>1, <1>6, <1>8, <1>9, <2>1
  <2>2. CASE ~(saving[a].at = "read saved" /\ Settings!Loads(r))
    BY <1>1, <1>5, <1>6, <2>2
  <2> QED  BY <2>1, <2>2
<1>11. /\ Settings!Idle \in Update /\ Settings!Idle.at = "idle" /\ Settings!Idle.base = Unset
       /\ Settings!Idle.judged = Unset /\ Settings!Idle.read = Unset
  BY DEF Settings!Idle, Update, Settings!Changes
<1>12. /\ saving' \in [Editors -> Update] /\ saving'[a] = Settings!Idle
       /\ \A b \in Editors \ {a} : saving'[b] = saving[b]
  BY <1>1, <1>11 DEF SettingsInv, SettingsTyped
<1>13. SettingsTyped'
  BY <1>1, <1>10, <1>11, <1>12 DEF SettingsInv, SettingsTyped
<1>14. RevisionsPast'
  <2>1. \A o \in Processes :
          /\ Before(process[o].state)' /\ process'[o].newest <= row'.revision
          /\ \A s \in process'[o].reads : Before(s)'
    BY <1>1, <1>4, <1>6, <1>10 DEF Before
  <2>2. \A b \in Editors :
          Before(form[b])' /\ Before(saving[b].base)' /\ Before(saving[b].judged)' /\ Before(saving[b].read)'
    BY <1>1, <1>11, <1>12 DEF RevisionsOK, SettingsInv, RevisionsPast, Before
  <2> QED  BY <2>1, <2>2 DEF RevisionsPast
<1>15. (JudgedLoads /\ Settings!StoredLoads)'
  BY <1>1, <1>11, <1>12 DEF SettingsInv, JudgedLoads, Settings!StoredLoads
<1>16. WillHear'
  <2> SUFFICES ASSUME mishap = 0, ~misjudged, NEW o \in Processes
               PROVE  /\ process'[o].mode = "up"
                      /\ \/ process'[o].newest = row.revision \/ process'[o].notified
                         \/ row \in process'[o].reads \/ Announcing'
    BY <1>1 DEF WillHear
  <2>1. /\ process[o].mode = "up"
        /\ \/ process[o].newest = row.revision \/ process[o].notified
           \/ row \in process[o].reads \/ Announcing
    BY DEF SettingsInv, WillHear
  <2>2. CASE Announcing
    <3>1. PICK b \in Editors : saving[b].at = "saved" \/ (saving[b].at = "read saved" /\ saving[b].read = row)
      BY <2>2 DEF Announcing
    <3>2. CASE b = a
      BY <1>1, <1>10, <2>1, <3>1, <3>2 DEF SettingsInv, Settings!StoredLoads
    <3>3. CASE b # a
      BY <1>1, <1>10, <1>12, <2>1, <3>1, <3>3 DEF Announcing
    <3> QED  BY <3>2, <3>3
  <2>3. CASE ~Announcing
    BY <1>7, <1>10, <2>1, <2>3
  <2> QED  BY <2>2, <2>3
<1> QED  BY <1>13, <1>14, <1>15, <1>16 DEF SettingsInv

LEMMA SettingsStep == ASSUME RevisionsOK
                      PROVE  SettingsInv /\ [Settings!Next]_(Settings!vars) => SettingsInv'
<1> SUFFICES ASSUME SettingsInv, [Settings!Next]_(Settings!vars) PROVE SettingsInv'
    OBVIOUS
<1>1. CASE UNCHANGED Settings!vars
  BY <1>1 DEF Settings!vars, SettingsInv, SettingsTyped, RevisionsPast, Before, JudgedLoads,
       Settings!StoredLoads,
     WillHear, Announcing
<1>2. CASE \E a \in Editors : Settings!Save(a) \/ Settings!ReadAgain(a) \/ Settings!Answer(a)
  BY <1>2, SaveKeeps, ReadAgainKeeps, AnswerKeeps
<1>3. CASE \E a \in Editors, p \in Processes : Settings!Show(a, p) \/ Settings!Judge(a, p)
  BY <1>3, ShowKeeps, JudgeKeeps
<1>4. CASE \E p \in Processes : Settings!Reload(p) \/ Settings!Land(p) \/ Settings!Crash(p) \/ Settings!Boot(p) \/ Settings!Listen(p)
  BY <1>4, ReloadKeeps, LandKeeps, CrashKeeps, BootKeeps, ListenKeeps
<1> QED  BY <1>1, <1>2, <1>3, <1>4 DEF Settings!Next

(* The runtime configuration (updateRuntimeConfiguration): what is stored
   loads, as long as each update was judged by the row it replaced, and when
   nothing is under way every process that has not crashed has taken it over. *)
THEOREM ConfigurationCorrect ==
  ASSUME RevisionsOK
  PROVE  Settings!Spec => [](Settings!TypeOK /\ Settings!StoredLoads /\ Settings!QuietMeansTaken)
<1>1. Settings!Init => SettingsInv
  BY SettingsInitially
<1>2. SettingsInv /\ [Settings!Next]_(Settings!vars) => SettingsInv'
  BY SettingsStep
<1>3. SettingsInv => Settings!TypeOK /\ Settings!StoredLoads /\ Settings!QuietMeansTaken
  <2> SUFFICES ASSUME SettingsInv
               PROVE  Settings!TypeOK /\ Settings!StoredLoads /\ Settings!QuietMeansTaken
      OBVIOUS
  <2>1. row.revision \in 0..MaxRevision
    BY RowFields DEF SettingsInv, SettingsTyped
  <2>2. \A p \in Processes :
          /\ process[p].mode \in {"up", "booting", "down"} /\ process[p].state \in Settings!Row
          /\ process[p].newest \in 0..row.revision /\ process[p].reads \in SUBSET Settings!Row
          /\ process[p].notified \in BOOLEAN
    <3> SUFFICES ASSUME NEW p \in Processes
                 PROVE  /\ process[p].mode \in {"up", "booting", "down"}
                        /\ process[p].state \in Settings!Row
                        /\ process[p].newest \in 0..row.revision
                        /\ process[p].reads \in SUBSET Settings!Row
                        /\ process[p].notified \in BOOLEAN
        OBVIOUS
    <3>1. process[p] \in ServerProcess
      BY DEF SettingsInv, SettingsTyped
    <3>2. process[p].newest \in 0..MaxRevision /\ process[p].newest <= row.revision
      BY <3>1, RowFields DEF SettingsInv, RevisionsPast
    <3>3. process[p].newest \in 0..row.revision
      BY <2>1, <3>2
    <3> QED  BY <3>1, <3>3, RowFields
  <2>3. Settings!TypeOK
    BY <2>2 DEF Settings!TypeOK, SettingsInv, SettingsTyped, Update
  <2>4. Settings!QuietMeansTaken
    BY DEF Settings!QuietMeansTaken, Settings!Quiet, SettingsInv, WillHear, Announcing
  <2> QED  BY <2>3, <2>4 DEF SettingsInv
<1> QED  BY <1>1, <1>2, <1>3, PTL DEF Settings!Spec

(* Whoever replaces the configuration has seen what they replace, although
   one process filled the page and another carries the update out.          *)
THEOREM ReplacedWasSeen ==
  ASSUME RevisionsOK
  PROVE  Settings!Spec => Settings!NothingOverwritten
<1>1. Settings!Init => SettingsInv
  BY SettingsInitially
<1>2. SettingsInv /\ [Settings!Next]_(Settings!vars) => SettingsInv'
  BY SettingsStep
<1> DEFINE Seen == \E a \in Editors : saving[a].at = "judged" /\ saving'[a].at = "saved"
                                    /\ saving[a].base = row
<1>3. SettingsInv /\ [Settings!Next]_(Settings!vars) => [row' # row => Seen]_(Settings!vars)
  <2> SUFFICES ASSUME SettingsInv, [Settings!Next]_(Settings!vars), row' # row PROVE Seen
      OBVIOUS
  <2>1. PICK a \in Editors : Settings!Save(a)
    BY DEF Settings!Next, Settings!vars, Settings!ReadAgain, Settings!Answer, Settings!Show,
         Settings!Judge, Settings!Reload, Settings!Land, Settings!Crash, Settings!Boot,
         Settings!Listen
  <2>2. /\ saving[a].at = "judged" /\ Settings!Expected(a)
        /\ saving' = [saving EXCEPT ![a] = [Settings!Idle EXCEPT !.at = "saved", !.on = saving[a].on]]
    BY <2>1 DEF Settings!Save
  <2>3. saving'[a].at = "saved"
    BY <2>2 DEF SettingsInv, SettingsTyped, Settings!Idle
  <2>4. saving[a].base = row
    BY <2>2 DEF SettingsInv, SettingsTyped, RevisionsPast, Before, Settings!Expected
  <2> QED  BY <2>2, <2>3, <2>4
<1> QED  BY <1>1, <1>2, <1>3, PTL DEF Settings!Spec, Settings!NothingOverwritten

(* So the configuration is replaced knowingly, loads, and reaches everybody. *)
THEOREM SettingsHold ==
  ASSUME RevisionsOK
  PROVE  Settings!Spec => ConfigurationSound
<1>1. Settings!Spec => [](Settings!TypeOK /\ Settings!StoredLoads /\ Settings!QuietMeansTaken)
  BY ConfigurationCorrect
<1>2. Settings!Spec => Settings!NothingOverwritten
  BY ReplacedWasSeen
<1> QED  BY <1>1, <1>2, PTL DEF ConfigurationSound
=============================================================================
