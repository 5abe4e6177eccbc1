------------------------------ MODULE JobQueue ------------------------------
(***************************************************************************)
(* Background jobs: BackgroundJobService (jobs/service.ts) and the worker  *)
(* that polls it (jobs/worker.ts).  Every statement is a step of its own,  *)
(* the leases run out, and processes die.                                  *)
(*                                                                         *)
(* A worker polls by a timer.  The guard against two polls at once is read *)
(* before the maintenance mode is awaited and set after it, so two runs of *)
(* one worker can overlap: both report under the same workerId.            *)
(***************************************************************************)
EXTENDS Integers

CONSTANTS
  Jobs,         \* a job is named by its type and idempotency key
  Callers,      \* calls of enqueue
  JobOf,        \* the job each caller asks for
  HashOf,       \* the hash of what it asks
  Processes,    \* worker processes; each has a workerId of its own
  Runs,         \* calls of runOnce
  ProcessOf,    \* the process each runs in
  Handles,      \* what each process may claim: types, version, generation
  MaxAttempts,  \* background_jobs.max_attempts
  MaxIncidents, \* bound: failing statements, dying processes, freezes
  Nobody        \* a null column

VARIABLES
  jobs,       \* background_jobs
  caller,     \* what each call of enqueue has come to
  run,        \* where each call of runOnce stands
  running,    \* the flag #running of each process
  alive,      \* the processes that have not died
  jobMode,    \* maintenance_state.mode
  done,       \* how often the handler did its work, in each attempt
  incidents

jobVars == <<jobs, caller, run, running, alive, jobMode, done, incidents>>

Row == [status : {"absent", "pending", "running", "succeeded", "dead_letter"},
        hash : {HashOf[c] : c \in Callers} \cup {Nobody}, attempt : 0..MaxAttempts,
        lockedBy : Processes \cup {Nobody}, leased : BOOLEAN, due : BOOLEAN]

RunState ==
  [step : {"idle", "asking", "sweeping", "claiming", "executing", "done",
           "failing", "refused"},
   job : Jobs \cup {Nobody}, attempt : 0..MaxAttempts]

(* Rows and memories have their types, and the effects of a job stay within
   its attempts (enqueue, claim, runOnce).                                  *)
TypeOK ==
  /\ jobs \in [Jobs -> Row]
  /\ caller \in [Callers -> {"waiting", "absent", "created", "existing",
                             "conflict", "failed"}]
  /\ run \in [Runs -> RunState]
  /\ running \in [Processes -> BOOLEAN]
  /\ alive \in SUBSET Processes
  /\ jobMode \in {"normal", "frozen"}
  /\ done \in [Jobs -> [1..MaxAttempts -> 0..1]]
  /\ incidents \in 0..MaxIncidents

Absent == [status |-> "absent", hash |-> Nobody, attempt |-> 0,
           lockedBy |-> Nobody, leased |-> FALSE, due |-> FALSE]

Idle == [step |-> "idle", job |-> Nobody, attempt |-> 0]

Init ==
  /\ jobs = [j \in Jobs |-> Absent]
  /\ caller = [c \in Callers |-> "waiting"]
  /\ run = [r \in Runs |-> Idle]
  /\ running = [p \in Processes |-> FALSE]
  /\ alive = Processes
  /\ jobMode = "normal"
  /\ done = [j \in Jobs |-> [n \in 1..MaxAttempts |-> 0]]
  /\ incidents = 0

-----------------------------------------------------------------------------
(* enqueue: a select and an insert in one transaction, at READ COMMITTED.   *)

(* The answer to a caller that finds the row.                               *)
Existing(c) == IF jobs[JobOf[c]].hash = HashOf[c] THEN "existing" ELSE "conflict"

LookUp(c) ==
  /\ caller[c] = "waiting"
  /\ caller' = [caller EXCEPT ![c] =
       IF jobs[JobOf[c]].status = "absent" THEN "absent" ELSE Existing(c)]
  /\ UNCHANGED <<jobs, run, running, alive, jobMode, done, incidents>>

(* Fault: no unique index on type and idempotency key.                      *)
InsertedAnyway(j) == TRUE

(* The unique index lets one insert of a key in.                            *)
KeyFree(j) == jobs[j].status = "absent"

Insert(c) ==
  LET j == JobOf[c]
  IN  /\ caller[c] = "absent"
      /\ IF KeyFree(j)
         THEN /\ jobs' = [jobs EXCEPT ![j] = [Absent EXCEPT
                            !.status = "pending", !.hash = HashOf[c], !.due = TRUE]]
              /\ caller' = [caller EXCEPT ![c] = "created"]
         ELSE /\ caller' = [caller EXCEPT ![c] = "failed"]
              /\ UNCHANGED jobs
      /\ UNCHANGED <<run, running, alive, jobMode, done, incidents>>

-----------------------------------------------------------------------------
(* claim.                                                                   *)

Released(row, status) ==
  [row EXCEPT !.status = status, !.lockedBy = Nobody, !.leased = FALSE]

(* Fault: a job that died in its last attempt is left as it is.             *)
OnlyPendingExhausted(row) == row.attempt >= MaxAttempts /\ row.status = "pending"

(* Whatever its type: its attempts are used up and nobody has it.           *)
Exhausted(row) ==
  /\ row.attempt >= MaxAttempts
  /\ row.status = "pending" \/ (row.status = "running" /\ ~row.leased)

(* Fault: the budget is forgotten when a lease has run out.                 *)
ClaimableUnbounded(p, j) ==
  /\ j \in Handles[p]
  /\ \/ jobs[j].status = "pending" /\ jobs[j].due
     \/ jobs[j].status = "running" /\ ~jobs[j].leased

(* Fault: any type of work is claimed and then looked for a handler.        *)
ClaimableAny(p, j) ==
  /\ \/ jobs[j].status = "pending" /\ jobs[j].due
     \/ jobs[j].status = "running" /\ ~jobs[j].leased
  /\ jobs[j].attempt < MaxAttempts

Claimable(p, j) ==
  /\ j \in Handles[p]
  /\ \/ jobs[j].status = "pending" /\ jobs[j].due
     \/ jobs[j].status = "running" /\ ~jobs[j].leased
  /\ jobs[j].attempt < MaxAttempts

Goto(r, step) == run' = [run EXCEPT ![r].step = step]

(* The finally block: the flag falls, even if another run of the process is
   still under way.                                                         *)
Leave(r) ==
  /\ run' = [run EXCEPT ![r] = Idle]
  /\ running' = [running EXCEPT ![ProcessOf[r]] = FALSE]

(* The timer: the flag is looked at, then the mode is asked for.            *)
Poll(r) ==
  /\ run[r].step = "idle"
  /\ ProcessOf[r] \in alive /\ ~running[ProcessOf[r]]
  /\ Goto(r, "asking")
  /\ UNCHANGED <<jobs, caller, running, alive, jobMode, done, incidents>>

ModeRead(r) ==
  /\ run[r].step = "asking"
  /\ IF jobMode = "normal"
     THEN /\ Goto(r, "sweeping")
          /\ running' = [running EXCEPT ![ProcessOf[r]] = TRUE]
     ELSE /\ run' = [run EXCEPT ![r] = Idle]
          /\ UNCHANGED running
  /\ UNCHANGED <<jobs, caller, alive, jobMode, done, incidents>>

GiveUpExhausted(r) ==
  /\ run[r].step = "sweeping"
  /\ jobs' = [j \in Jobs |-> IF Exhausted(jobs[j])
                             THEN Released(jobs[j], "dead_letter") ELSE jobs[j]]
  /\ Goto(r, "claiming")
  /\ UNCHANGED <<caller, running, alive, jobMode, done, incidents>>

Claim(r) ==
  LET p == ProcessOf[r]
  IN  /\ run[r].step = "claiming"
      /\ \E j \in Jobs :
           /\ Claimable(p, j)
           /\ jobs' = [jobs EXCEPT ![j].status = "running", ![j].lockedBy = p,
                                   ![j].leased = TRUE, ![j].attempt = @ + 1]
           /\ run' = [run EXCEPT ![r].step = "executing", ![r].job = j,
                                 ![r].attempt = jobs[j].attempt + 1]
      /\ UNCHANGED <<caller, running, alive, jobMode, done, incidents>>

NothingToClaim(r) ==
  /\ run[r].step = "claiming"
  /\ \A j \in Jobs : ~Claimable(ProcessOf[r], j)
  /\ Leave(r)
  /\ UNCHANGED <<jobs, caller, alive, jobMode, done, incidents>>

-----------------------------------------------------------------------------
(* The handler and the report on it.                                        *)

(* The handler (external) does its work and returns or throws, or throws a
   retryable or a terminal error without having done it.                    *)
Execute(r) ==
  /\ run[r].step = "executing"
  /\ \/ /\ done' = [done EXCEPT ![run[r].job][run[r].attempt] = 1]
        /\ Goto(r, "done") \/ Goto(r, "failing")
     \/ /\ UNCHANGED done
        /\ Goto(r, "failing") \/ Goto(r, "refused")
  /\ UNCHANGED <<jobs, caller, running, alive, jobMode, incidents>>

(* A report is taken while the row is running under the reporter's id: it is
   the attempt the run made, unless another run of its process took over.   *)
Report(r, row) ==
  LET j == run[r].job
  IN  /\ jobs' = IF jobs[j].status = "running" /\ jobs[j].lockedBy = ProcessOf[r]
                 THEN [jobs EXCEPT ![j] = row] ELSE jobs
      /\ Leave(r)
      /\ UNCHANGED <<caller, alive, jobMode, done, incidents>>

(* Fault: a run whose handler threw is reported as done.                    *)
SucceedIfAsked(r) ==
  /\ run[r].step \in {"done", "refused"}
  /\ Report(r, [jobs[run[r].job] EXCEPT !.status = "succeeded", !.leased = FALSE])

Succeed(r) ==
  /\ run[r].step = "done"
  /\ Report(r, [jobs[run[r].job] EXCEPT !.status = "succeeded", !.leased = FALSE])

(* Fault: the budget is compared with the attempt the run remembers.        *)
RememberedFinal(r) == run[r].attempt >= MaxAttempts

(* The budget is compared with the attempt of the row.                      *)
FinalAttempt(r) == jobs[run[r].job].attempt >= MaxAttempts

Fail(r) ==
  /\ run[r].step = "failing"
  /\ Report(r, [Released(jobs[run[r].job],
                         IF FinalAttempt(r) THEN "dead_letter" ELSE "pending")
                  EXCEPT !.due = FALSE])

DeadLetter(r) ==
  /\ run[r].step = "refused"
  /\ Report(r, Released(jobs[run[r].job], "dead_letter"))

-----------------------------------------------------------------------------
Incident == incidents < MaxIncidents /\ incidents' = incidents + 1

(* A statement fails.  Only the report of a success is inside the try block:
   its failure is reported as a failure of the handler.                     *)
StatementFails(r) ==
  /\ Incident
  /\ \/ run[r].step = "done" /\ Goto(r, "failing") /\ UNCHANGED running
     \/ run[r].step \in {"sweeping", "claiming", "failing", "refused"} /\ Leave(r)
     \/ /\ run[r].step = "asking"
        /\ run' = [run EXCEPT ![r] = Idle] /\ UNCHANGED running
  /\ UNCHANGED <<jobs, caller, alive, jobMode, done>>

(* A process dies with its runs; one that can do all the work is left.      *)
Crash(p) ==
  /\ p \in alive
  /\ Incident
  /\ \E q \in alive \ {p} : Handles[q] = Jobs
  /\ alive' = alive \ {p}
  /\ run' = [r \in Runs |-> IF ProcessOf[r] = p THEN Idle ELSE run[r]]
  /\ UNCHANGED <<jobs, caller, running, jobMode, done>>

LeaseExpires(j) ==
  /\ jobs[j].leased
  /\ jobs' = [jobs EXCEPT ![j].leased = FALSE]
  /\ UNCHANGED <<caller, run, running, alive, jobMode, done, incidents>>

BackoffEnds(j) ==
  /\ jobs[j].status = "pending" /\ ~jobs[j].due
  /\ jobs' = [jobs EXCEPT ![j].due = TRUE]
  /\ UNCHANGED <<caller, run, running, alive, jobMode, done, incidents>>

Freeze ==
  /\ jobMode = "normal"
  /\ Incident
  /\ jobMode' = "frozen"
  /\ UNCHANGED <<jobs, caller, run, running, alive, done>>

Unfreeze ==
  /\ jobMode = "frozen"
  /\ jobMode' = "normal"
  /\ UNCHANGED <<jobs, caller, run, running, alive, done, incidents>>

RunStep(r) ==
  Poll(r) \/ ModeRead(r) \/ GiveUpExhausted(r) \/ Claim(r) \/ NothingToClaim(r)
    \/ Execute(r) \/ Succeed(r) \/ Fail(r) \/ DeadLetter(r)

Enqueue == \E c \in Callers : LookUp(c) \/ Insert(c)

Next ==
  \/ Enqueue
  \/ \E r \in Runs : RunStep(r) \/ StatementFails(r)
  \/ \E p \in Processes : Crash(p)
  \/ \E j \in Jobs : LeaseExpires(j) \/ BackoffEnds(j)
  \/ Freeze \/ Unfreeze

Spec == Init /\ [][Next]_jobVars

-----------------------------------------------------------------------------
Record(status) ==
  CASE status = "absent" -> "absent" [] status = "succeeded" -> "done"
    [] status = "dead_letter" -> "given_up" [] OTHER -> "open"

(* jobs/service.ts, "at-least-once job coordination with expiring leases":
   whatever overlaps, a job is tried within its budget, succeeds only if its
   work was done, and is never taken up again once it is settled.           *)
Work ==
  INSTANCE LeasedWork WITH
    Items <- Jobs, Budget <- MaxAttempts,
    state <- [j \in Jobs |-> Record(jobs[j].status)],
    tries <- [j \in Jobs |-> jobs[j].attempt],
    effects <- done

AtLeastOnceInBudget == Work!Spec

(* A job that waits can still be tried: a stale report of an earlier attempt
   never puts one back that has used up its budget (fail, claim).           *)
WaitingHasBudget ==
  \A j \in Jobs : jobs[j].status = "pending" => jobs[j].attempt < MaxAttempts

(* However calls of enqueue overlap, one of them creates the job, and no
   caller is told "existing" of a job that does something else.             *)
EnqueuedOnce ==
  /\ \A c, d \in Callers :
       JobOf[c] = JobOf[d] /\ caller[c] = "created" /\ caller[d] = "created" => c = d
  /\ \A c \in Callers :
       caller[c] \in {"created", "existing"} => jobs[JobOf[c]].hash = HashOf[c]

(* A rolling deployment: an old process neither runs what it cannot handle,
   nor does it discard it before a process that can has tried.              *)
UnknownWorkStaysQueued ==
  [][\A j \in Jobs : \A r \in Runs :
       /\ j \notin Handles[ProcessOf[r]] /\ run'[r] # run[r]
       => \/ jobs'[j] = jobs[j]
          \/ jobs[j].attempt = MaxAttempts]_jobVars

Open(j) == jobs[j].status \in {"pending", "running"}

(* Every job is settled, once a process that can do it polls on.            *)
EverythingSettled == \A j \in Jobs : Open(j) ~> ~Open(j)
=============================================================================
