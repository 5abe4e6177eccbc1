----------------------------- MODULE JobQueueProofs -----------------------------
(***************************************************************************)
(* What the table of background jobs guarantees for every set of jobs,     *)
(* callers, processes and overlapping runs, checked by TLAPS.              *)
(***************************************************************************)
EXTENDS QueuePromise, Integers, TLAPS

(* What the constants stand for: a caller asks for a job, with a hash; a run
   belongs to a process; max_attempts is positive (schema.ts).              *)
JobsAssumption ==
  /\ JobOf \in [Callers -> Jobs]
  /\ ProcessOf \in [Runs -> Processes]
  /\ Attempts \in Nat \ {0} /\ MaxIncidents \in Nat

-----------------------------------------------------------------------------
(* The inductive invariant.                                                 *)

(* A row that was never inserted has had no attempt.                        *)
AbsentUntried == \A j \in Jobs : jobs[j].status = "absent" => jobs[j].attempt = 0

(* Whoever was told of a job was told of the row that is there.             *)
ToldOfRow ==
  \A c \in Callers : caller[c] \in {"created", "existing"} =>
    jobs[JobOf[c]].status # "absent" /\ jobs[JobOf[c]].hash = HashOf[c]

OneCreated ==
  \A c, d \in Callers :
    JobOf[c] = JobOf[d] /\ caller[c] = "created" /\ caller[d] = "created" => c = d

Holding == {"executing", "done", "failing", "refused"}

(* A run that has claimed a job may handle it, and is in an attempt the row
   has counted; it reports a success only if the work was done.             *)
RunsSound ==
  \A r \in Runs : run[r].step \in Holding =>
    /\ run[r].job \in Jobs /\ run[r].job \in Handles[ProcessOf[r]]
    /\ run[r].attempt \in 1..jobs[run[r].job].attempt
    /\ run[r].step = "done" => done[run[r].job][run[r].attempt] = 1

(* Work is done only in attempts that have begun.                           *)
DoneInAttempts ==
  \A j \in Jobs : \A n \in 1..Attempts : done[j][n] = 1 => n <= jobs[j].attempt

JobInv ==
  /\ Queue!TypeOK /\ AbsentUntried /\ ToldOfRow /\ OneCreated
  /\ RunsSound /\ DoneInAttempts /\ Queue!WaitingHasBudget

-----------------------------------------------------------------------------
(* What all actions but Insert do to a row: they count attempts up and leave
   the rest of its identity alone.                                          *)
RowKept(j) ==
  /\ jobs[j].attempt <= jobs'[j].attempt
  /\ jobs'[j].hash = jobs[j].hash
  /\ jobs'[j].status = "absent" <=> jobs[j].status = "absent"
  /\ jobs[j].status = "absent" => jobs'[j].attempt = jobs[j].attempt

LEMMA RowsKept ==
  ASSUME JobInv, UNCHANGED caller, jobs' \in [Jobs -> Queue!Row], \A j \in Jobs : RowKept(j),
         JobsAssumption
  PROVE  AbsentUntried' /\ ToldOfRow' /\ OneCreated'
<1>1. AbsentUntried'
  BY DEF JobInv, AbsentUntried, RowKept
<1>2. ToldOfRow' /\ OneCreated'
  BY DEF JobInv, ToldOfRow, OneCreated, RowKept, JobsAssumption
<1> QED  BY <1>1, <1>2

LEMMA DoneKept ==
  ASSUME JobInv, UNCHANGED done, jobs' \in [Jobs -> Queue!Row], \A j \in Jobs : RowKept(j),
         JobsAssumption
  PROVE  DoneInAttempts'
<1> SUFFICES ASSUME NEW j \in Jobs, NEW n \in 1..Attempts, done[j][n] = 1
             PROVE  n <= jobs'[j].attempt
  BY DEF DoneInAttempts
<1>1. n <= jobs[j].attempt
  BY DEF JobInv, DoneInAttempts
<1>2. jobs[j].attempt \in Int /\ jobs'[j].attempt \in Int
  BY DEF JobInv, Queue!TypeOK, Queue!Row, JobsAssumption
<1> QED  BY <1>1, <1>2 DEF RowKept, JobsAssumption

(* A run goes on with what it has, or ends.                                 *)
RunKept(r) ==
  \/ run'[r] = Queue!Idle
  \/ /\ run'[r].job = run[r].job /\ run'[r].attempt = run[r].attempt
     /\ run'[r].step \in Holding => run[r].step \in Holding
     /\ run'[r].step = "done" => run[r].step = "done"

LEMMA RunsKept ==
  ASSUME JobInv, UNCHANGED done, jobs' \in [Jobs -> Queue!Row], \A j \in Jobs : RowKept(j),
         \A r \in Runs : RunKept(r), JobsAssumption
  PROVE  RunsSound'
<1> SUFFICES ASSUME NEW r \in Runs, run'[r].step \in Holding
             PROVE  /\ run'[r].job \in Jobs /\ run'[r].job \in Handles[ProcessOf[r]]
                    /\ run'[r].attempt \in 1..jobs'[run'[r].job].attempt
                    /\ run'[r].step = "done" => done'[run'[r].job][run'[r].attempt] = 1
  BY DEF RunsSound
<1>1. /\ run'[r].job = run[r].job /\ run'[r].attempt = run[r].attempt
      /\ run[r].step \in Holding
      /\ run'[r].step = "done" => run[r].step = "done"
  BY DEF RunKept, Queue!Idle, Holding
<1>2. /\ run[r].job \in Jobs /\ run[r].job \in Handles[ProcessOf[r]]
      /\ run[r].attempt \in 1..jobs[run[r].job].attempt
      /\ run[r].step = "done" => done[run[r].job][run[r].attempt] = 1
  BY <1>1 DEF JobInv, RunsSound
<1>3. jobs[run[r].job].attempt \in Int /\ jobs'[run[r].job].attempt \in Int
      /\ jobs[run[r].job].attempt <= jobs'[run[r].job].attempt
  BY <1>2 DEF JobInv, Queue!TypeOK, Queue!Row, JobsAssumption, RowKept
<1> QED  BY <1>1, <1>2, <1>3

(* Most steps keep all rows and all runs in this sense.                     *)
LEMMA Kept ==
  ASSUME JobInv, JobsAssumption, Queue!TypeOK', UNCHANGED <<caller, done>>,
         \A j \in Jobs : RowKept(j), \A r \in Runs : RunKept(r), Queue!WaitingHasBudget'
  PROVE  JobInv'
<1>1. jobs' \in [Jobs -> Queue!Row]
  BY DEF Queue!TypeOK
<1> QED  BY <1>1, RowsKept, DoneKept, RunsKept DEF JobInv

-----------------------------------------------------------------------------
(* The two ways in which a run lets go of or keeps what it has.             *)
LEMMA LeaveTyped ==
  ASSUME Queue!TypeOK, JobsAssumption, NEW r \in Runs, Queue!Leave(r)
  PROVE  /\ run' \in [Runs -> Queue!RunState] /\ running' \in [Processes -> BOOLEAN]
         /\ \A s \in Runs : RunKept(s)
<1>1. Queue!Idle \in Queue!RunState
  BY DEF Queue!Idle, Queue!RunState, JobsAssumption
<1>2. run' \in [Runs -> Queue!RunState]
  BY <1>1 DEF Queue!Leave, Queue!TypeOK
<1>3. running' \in [Processes -> BOOLEAN]
  BY DEF Queue!Leave, Queue!TypeOK
<1>4. \A s \in Runs : RunKept(s)
  BY DEF Queue!Leave, Queue!TypeOK, RunKept
<1> QED  BY <1>2, <1>3, <1>4

LEMMA GotoTyped ==
  ASSUME Queue!TypeOK, NEW r \in Runs,
         NEW step \in {"asking", "sweeping", "claiming", "failing", "refused"}, Queue!Goto(r, step),
         step \in {"failing", "refused"} => run[r].step \in Holding
  PROVE  run' \in [Runs -> Queue!RunState] /\ \A s \in Runs : RunKept(s)
<1>1. run' \in [Runs -> Queue!RunState]
  BY ZenonT(60) DEF Queue!Goto, Queue!TypeOK, Queue!RunState
<1>2. \A s \in Runs : RunKept(s)
  <2> SUFFICES ASSUME NEW s \in Runs PROVE RunKept(s)
    OBVIOUS
  <2>1. CASE s = r
    <3>1. run'[s].step = step /\ run'[s].job = run[s].job /\ run'[s].attempt = run[s].attempt
      BY <2>1 DEF Queue!Goto, Queue!TypeOK, Queue!RunState
    <3> QED  BY <2>1, <3>1 DEF RunKept, Holding
  <2>2. CASE s # r
    BY <2>2 DEF Queue!Goto, Queue!TypeOK, RunKept
  <2> QED  BY <2>1, <2>2
<1> QED  BY <1>1, <1>2

LEMMA IdleTyped ==
  ASSUME Queue!TypeOK, JobsAssumption, NEW r \in Runs, run' = [run EXCEPT ![r] = Queue!Idle]
  PROVE  run' \in [Runs -> Queue!RunState] /\ \A s \in Runs : RunKept(s)
<1>1. Queue!Idle \in Queue!RunState
  BY DEF Queue!Idle, Queue!RunState, JobsAssumption
<1> QED  BY <1>1 DEF Queue!TypeOK, RunKept

LEMMA SameRows ==
  ASSUME JobInv, UNCHANGED jobs
  PROVE  (\A j \in Jobs : RowKept(j)) /\ Queue!WaitingHasBudget'
<1>1. ASSUME NEW j \in Jobs PROVE RowKept(j)
  BY DEF RowKept, JobInv, Queue!TypeOK, Queue!Row, JobsAssumption
<1> QED  BY <1>1 DEF JobInv, Queue!WaitingHasBudget

LEMMA SameRuns ==
  ASSUME UNCHANGED run
  PROVE  \A r \in Runs : RunKept(r)
BY DEF RunKept

-----------------------------------------------------------------------------
(* enqueue.                                                                 *)
LEMMA LookUpKeeps ==
  ASSUME JobInv, JobsAssumption, NEW c \in Callers, Queue!LookUp(c)
  PROVE  JobInv'
<1>1. /\ caller[c] = "waiting"
      /\ caller' = [caller EXCEPT ![c] =
           IF jobs[JobOf[c]].status = "absent" THEN "absent" ELSE Queue!Existing(c)]
      /\ UNCHANGED <<jobs, run, running, alive, jobMode, done, incidents>>
  BY DEF Queue!LookUp
<1>2. Queue!TypeOK'
  BY <1>1 DEF JobInv, Queue!TypeOK, Queue!Existing
<1>3. ToldOfRow'
  BY <1>1 DEF JobInv, ToldOfRow, Queue!TypeOK, Queue!Existing
<1>4. OneCreated'
  BY <1>1 DEF JobInv, OneCreated, Queue!TypeOK, Queue!Existing
<1> QED  BY <1>1, <1>2, <1>3, <1>4 DEF JobInv, AbsentUntried, RunsSound, DoneInAttempts, Queue!WaitingHasBudget

LEMMA InsertKeeps ==
  ASSUME JobInv, JobsAssumption, NEW c \in Callers, Queue!Insert(c)
  PROVE  JobInv'
<1> DEFINE j == JobOf[c]
           row == [status |-> "pending", hash |-> HashOf[c], attempt |-> 0,
                   lockedBy |-> Nobody, leased |-> FALSE, due |-> TRUE]
<1>1. caller[c] = "absent" /\ UNCHANGED <<run, running, alive, jobMode, done, incidents>>
  BY DEF Queue!Insert
<1>2. j \in Jobs
  BY DEF JobsAssumption
<1>3. CASE jobs[j].status # "absent"
  <2>1. UNCHANGED jobs /\ caller' = [caller EXCEPT ![c] = "failed"]
    BY <1>3 DEF Queue!Insert, Queue!KeyFree
  <2> QED  BY <1>1, <2>1 DEF JobInv, Queue!TypeOK, AbsentUntried, ToldOfRow, OneCreated, RunsSound,
                             DoneInAttempts, Queue!WaitingHasBudget
<1>4. CASE jobs[j].status = "absent"
  <2>1. jobs' = [jobs EXCEPT ![j] = row] /\ caller' = [caller EXCEPT ![c] = "created"]
    BY <1>4 DEF Queue!Insert, Queue!KeyFree, Queue!Absent
  <2>2. row \in Queue!Row
    BY DEF Queue!Row, JobsAssumption
  <2>3. /\ jobs' \in [Jobs -> Queue!Row] /\ jobs'[j] = row
        /\ \A i \in Jobs \ {j} : jobs'[i] = jobs[i]
        /\ caller'[c] = "created" /\ \A d \in Callers \ {c} : caller'[d] = caller[d]
    BY <1>2, <2>1, <2>2 DEF JobInv, Queue!TypeOK
  <2>4. Queue!TypeOK'
    BY <1>1, <2>1, <2>3 DEF JobInv, Queue!TypeOK
  <2>5. \A d \in Callers : caller[d] \in {"created", "existing"} => JobOf[d] # j
    BY <1>4 DEF JobInv, ToldOfRow
  <2>6. ToldOfRow' /\ OneCreated'
    BY <2>3, <2>5 DEF JobInv, ToldOfRow, OneCreated, JobsAssumption
  <2>7. AbsentUntried' /\ Queue!WaitingHasBudget'
    BY <2>3 DEF JobInv, AbsentUntried, Queue!WaitingHasBudget, JobsAssumption
  <2>8. jobs[j].attempt = 0
    BY <1>2, <1>4 DEF JobInv, AbsentUntried
  <2>9. \A i \in Jobs : jobs'[i].attempt = jobs[i].attempt
    BY <2>3, <2>8
  <2>10. RunsSound' /\ DoneInAttempts'
    BY <1>1, <2>9 DEF JobInv, RunsSound, DoneInAttempts
  <2> QED  BY <2>4, <2>6, <2>7, <2>10 DEF JobInv
<1> QED  BY <1>3, <1>4

-----------------------------------------------------------------------------
(* claim.                                                                   *)
LEMMA PollKeeps ==
  ASSUME JobInv, JobsAssumption, NEW r \in Runs, Queue!Poll(r) \/ Queue!ModeRead(r) \/ Queue!NothingToClaim(r)
  PROVE  JobInv'
<1>1. /\ UNCHANGED <<jobs, caller, alive, jobMode, done, incidents>>
      /\ run' \in [Runs -> Queue!RunState] /\ (\A s \in Runs : RunKept(s))
      /\ running' \in [Processes -> BOOLEAN]
  <2>1. CASE Queue!Poll(r)
    BY <2>1, GotoTyped DEF Queue!Poll, JobInv, Queue!TypeOK
  <2>2. CASE Queue!ModeRead(r) /\ jobMode = "normal"
    BY <2>2, GotoTyped DEF Queue!ModeRead, JobInv, Queue!TypeOK
  <2>3. CASE Queue!ModeRead(r) /\ jobMode # "normal"
    BY <2>3, IdleTyped DEF Queue!ModeRead, JobInv, Queue!TypeOK
  <2>4. CASE Queue!NothingToClaim(r)
    BY <2>4, LeaveTyped DEF Queue!NothingToClaim, JobInv
  <2> QED  BY <2>1, <2>2, <2>3, <2>4
<1>2. Queue!TypeOK'
  BY <1>1 DEF JobInv, Queue!TypeOK
<1> QED  BY <1>1, <1>2, SameRows, Kept

(* What becomes of a row that is given up or reported on.                   *)
LEMMA ReleasedRow ==
  ASSUME NEW row \in Queue!Row, NEW status \in {"pending", "dead_letter"}
  PROVE  /\ Queue!Released(row, status) \in Queue!Row
         /\ Queue!Released(row, status).status = status
         /\ Queue!Released(row, status).attempt = row.attempt
         /\ Queue!Released(row, status).hash = row.hash
         /\ [Queue!Released(row, status) EXCEPT !.due = FALSE] \in Queue!Row
         /\ [Queue!Released(row, status) EXCEPT !.due = FALSE].status = status
         /\ [Queue!Released(row, status) EXCEPT !.due = FALSE].attempt = row.attempt
         /\ [Queue!Released(row, status) EXCEPT !.due = FALSE].hash = row.hash
BY DEF Queue!Released, Queue!Row

LEMMA SweepKeeps ==
  ASSUME JobInv, JobsAssumption, NEW r \in Runs, Queue!GiveUpExhausted(r)
  PROVE  JobInv'
<1>1. /\ jobs' = [j \in Jobs |-> IF Queue!Exhausted(jobs[j])
                                 THEN Queue!Released(jobs[j], "dead_letter") ELSE jobs[j]]
      /\ Queue!Goto(r, "claiming")
      /\ UNCHANGED <<caller, running, alive, jobMode, done, incidents>>
  BY DEF Queue!GiveUpExhausted
<1>2. run' \in [Runs -> Queue!RunState] /\ \A s \in Runs : RunKept(s)
  BY <1>1, GotoTyped DEF JobInv
<1>3. ASSUME NEW j \in Jobs
      PROVE  /\ jobs'[j] \in Queue!Row /\ RowKept(j)
             /\ jobs'[j].status = "pending" => jobs[j] = jobs'[j]
  <2>1. jobs[j] \in Queue!Row /\ jobs[j].attempt \in Int
    BY DEF JobInv, Queue!TypeOK, Queue!Row, JobsAssumption
  <2>2. CASE Queue!Exhausted(jobs[j])
    <3>1. jobs'[j] = Queue!Released(jobs[j], "dead_letter") /\ jobs[j].status # "absent"
      BY <1>1, <2>2 DEF Queue!Exhausted
    <3> DEFINE row == Queue!Released(jobs[j], "dead_letter")
    <3>2. /\ row \in Queue!Row /\ row.status = "dead_letter"
          /\ row.attempt = jobs[j].attempt /\ row.hash = jobs[j].hash
      BY <2>1, ReleasedRow
    <3> HIDE DEF row
    <3>3. jobs'[j] = row
      BY <3>1 DEF row
    <3> QED  BY <2>1, <3>1, <3>2, <3>3 DEF RowKept
  <2>3. CASE ~Queue!Exhausted(jobs[j])
    BY <1>1, <2>1, <2>3 DEF RowKept
  <2> QED  BY <2>2, <2>3
<1>4. jobs' \in [Jobs -> Queue!Row]
  BY <1>1, <1>3
<1>5. Queue!TypeOK'
  BY <1>1, <1>2, <1>4 DEF JobInv, Queue!TypeOK
<1>6. Queue!WaitingHasBudget'
  BY <1>3 DEF JobInv, Queue!WaitingHasBudget
<1> QED  BY <1>1, <1>2, <1>3, <1>5, <1>6, Kept

LEMMA ClaimKeeps ==
  ASSUME JobInv, JobsAssumption, NEW r \in Runs, Queue!Claim(r)
  PROVE  JobInv'
<1> DEFINE p == ProcessOf[r]
<1>1. PICK j \in Jobs :
        /\ Queue!Claimable(p, j)
        /\ jobs' = [jobs EXCEPT ![j].status = "running", ![j].lockedBy = p,
                                ![j].leased = TRUE, ![j].attempt = @ + 1]
        /\ run' = [run EXCEPT ![r].step = "executing", ![r].job = j,
                              ![r].attempt = jobs[j].attempt + 1]
  BY DEF Queue!Claim
<1>2. UNCHANGED <<caller, running, alive, jobMode, done, incidents>>
  BY DEF Queue!Claim
<1>3. /\ j \in Handles[p] /\ jobs[j].status \in {"pending", "running"}
      /\ jobs[j].attempt < Attempts /\ p \in Processes
  BY <1>1 DEF Queue!Claimable, JobsAssumption
<1>4. jobs[j] \in Queue!Row /\ jobs[j].attempt \in Nat /\ jobs[j].attempt + 1 \in 1..Attempts
  BY <1>3 DEF JobInv, Queue!TypeOK, Queue!Row, JobsAssumption
<1>5. /\ jobs'[j] = [jobs[j] EXCEPT !.status = "running", !.lockedBy = p, !.leased = TRUE,
                                    !.attempt = @ + 1]
      /\ \A i \in Jobs \ {j} : jobs'[i] = jobs[i]
      /\ run'[r] = [run[r] EXCEPT !.step = "executing", !.job = j, !.attempt = jobs[j].attempt + 1]
      /\ \A s \in Runs \ {r} : run'[s] = run[s]
  BY <1>1 DEF JobInv, Queue!TypeOK
<1>6. /\ jobs'[j] \in Queue!Row /\ jobs'[j].status = "running"
      /\ jobs'[j].attempt = jobs[j].attempt + 1 /\ jobs'[j].hash = jobs[j].hash
  <2>1. jobs'[j] = [status |-> "running", hash |-> jobs[j].hash, attempt |-> jobs[j].attempt + 1,
                    lockedBy |-> p, leased |-> TRUE, due |-> jobs[j].due]
    BY <1>4, <1>5 DEF Queue!Row
  <2>2. /\ jobs[j].hash \in {HashOf[c] : c \in Callers} \cup {Nobody}
        /\ jobs[j].due \in BOOLEAN /\ jobs[j].attempt + 1 \in 0..Attempts
    BY <1>4 DEF Queue!Row, JobsAssumption
  <2> QED  BY <1>3, <2>1, <2>2 DEF Queue!Row
<1>7. /\ run'[r] \in Queue!RunState /\ run'[r].step = "executing" /\ run'[r].job = j
      /\ run'[r].attempt = jobs[j].attempt + 1
  <2>1. run[r] \in Queue!RunState
    BY DEF JobInv, Queue!TypeOK
  <2>2. run'[r] = [step |-> "executing", job |-> j, attempt |-> jobs[j].attempt + 1]
    BY <1>5, <2>1 DEF Queue!RunState
  <2>3. jobs[j].attempt + 1 \in 0..Attempts
    BY <1>4 DEF JobsAssumption
  <2> QED  BY <2>2, <2>3 DEF Queue!RunState
<1>8. jobs' \in [Jobs -> Queue!Row] /\ run' \in [Runs -> Queue!RunState]
  BY <1>1, <1>5, <1>6, <1>7 DEF JobInv, Queue!TypeOK
<1>9. Queue!TypeOK'
  BY <1>2, <1>8 DEF JobInv, Queue!TypeOK
<1>10. ASSUME NEW i \in Jobs PROVE RowKept(i)
  <2>1. CASE i = j
    BY <1>3, <1>4, <1>6, <2>1 DEF RowKept
  <2>2. CASE i # j
    BY <1>5, <2>2 DEF RowKept, JobInv, Queue!TypeOK, Queue!Row, JobsAssumption
  <2> QED  BY <2>1, <2>2
<1>11. RunsSound'
  <2> SUFFICES ASSUME NEW s \in Runs, run'[s].step \in Holding
               PROVE  /\ run'[s].job \in Jobs /\ run'[s].job \in Handles[ProcessOf[s]]
                      /\ run'[s].attempt \in 1..jobs'[run'[s].job].attempt
                      /\ run'[s].step = "done" => done'[run'[s].job][run'[s].attempt] = 1
    BY DEF RunsSound
  <2>1. CASE s = r
    BY <1>3, <1>4, <1>6, <1>7, <2>1
  <2>2. CASE s # r
    <3>1. run'[s] = run[s]
      BY <1>5, <2>2
    <3>2. /\ run[s].job \in Jobs /\ run[s].job \in Handles[ProcessOf[s]]
          /\ run[s].attempt \in 1..jobs[run[s].job].attempt
          /\ run[s].step = "done" => done[run[s].job][run[s].attempt] = 1
      BY <3>1 DEF JobInv, RunsSound
    <3>3. /\ jobs[run[s].job].attempt \in Int /\ jobs'[run[s].job].attempt \in Int
          /\ jobs[run[s].job].attempt <= jobs'[run[s].job].attempt
      BY <1>8, <1>10, <3>2 DEF JobInv, Queue!TypeOK, Queue!Row, JobsAssumption, RowKept
    <3> QED  BY <1>2, <3>1, <3>2, <3>3
  <2> QED  BY <2>1, <2>2
<1>12. Queue!WaitingHasBudget'
  BY <1>5, <1>6 DEF JobInv, Queue!WaitingHasBudget
<1> QED  BY <1>2, <1>8, <1>9, <1>10, <1>11, <1>12, RowsKept, DoneKept DEF JobInv

-----------------------------------------------------------------------------
(* The handler and the report on it.                                        *)
LEMMA ExecuteKeeps ==
  ASSUME JobInv, JobsAssumption, NEW r \in Runs, Queue!Execute(r)
  PROVE  JobInv'
<1> DEFINE j == run[r].job
           n == run[r].attempt
<1>1. run[r].step = "executing" /\ UNCHANGED <<jobs, caller, running, alive, jobMode, incidents>>
  BY DEF Queue!Execute
<1>2. j \in Jobs /\ n \in 1..jobs[j].attempt /\ jobs[j].attempt \in 0..Attempts
  BY <1>1 DEF JobInv, Queue!TypeOK, Queue!Row, RunsSound, Holding
<1>3. n \in 1..Attempts /\ n <= jobs[j].attempt
  BY <1>2 DEF JobsAssumption
<1>4. CASE UNCHANGED done /\ (Queue!Goto(r, "failing") \/ Queue!Goto(r, "refused"))
  <2>1. run' \in [Runs -> Queue!RunState] /\ \A s \in Runs : RunKept(s)
    BY <1>1, <1>4, GotoTyped DEF JobInv, Holding
  <2>2. Queue!TypeOK'
    BY <1>1, <1>4, <2>1 DEF JobInv, Queue!TypeOK
  <2> QED  BY <1>1, <1>4, <2>1, <2>2, SameRows, Kept
<1>5. CASE done' = [done EXCEPT ![j][n] = 1] /\ (Queue!Goto(r, "done") \/ Queue!Goto(r, "failing"))
  <2>1. PICK step \in {"done", "failing"} : run' = [run EXCEPT ![r].step = step]
    BY <1>5 DEF Queue!Goto
  <2>2. /\ run' \in [Runs -> Queue!RunState]
        /\ run'[r].step = step /\ run'[r].job = j /\ run'[r].attempt = n
        /\ \A s \in Runs \ {r} : run'[s] = run[s]
    BY <2>1 DEF JobInv, Queue!TypeOK, Queue!RunState
  <2>3. /\ done' \in [Jobs -> [1..Attempts -> 0..1]] /\ done'[j][n] = 1
        /\ \A i \in Jobs, m \in 1..Attempts :
             ~(i = j /\ m = n) => done'[i][m] = done[i][m]
    <3>1. done \in [Jobs -> [1..Attempts -> 0..1]]
      BY DEF JobInv, Queue!TypeOK
    <3>2. done'[j] = [done[j] EXCEPT ![n] = 1] /\ \A i \in Jobs \ {j} : done'[i] = done[i]
      BY <1>2, <1>5, <3>1
    <3>3. done'[j] \in [1..Attempts -> 0..1] /\ done'[j][n] = 1
          /\ \A m \in (1..Attempts) \ {n} : done'[j][m] = done[j][m]
      <4>1. done[j] \in [1..Attempts -> 0..1]
        BY <1>2, <3>1
      <4>2. done'[j] = [done[j] EXCEPT ![n] = 1]
        BY <3>2
      <4> HIDE DEF n, j
      <4>3. 1 \in 0..1 /\ n \in 1..Attempts
        BY <1>3
      <4>4. [done[j] EXCEPT ![n] = 1] \in [1..Attempts -> 0..1]
        BY <4>1, <4>3
      <4> QED  BY <4>1, <4>2, <4>3, <4>4
    <3> QED  BY <1>5, <3>1, <3>2, <3>3
  <2>4. Queue!TypeOK'
    BY <1>1, <2>2, <2>3 DEF JobInv, Queue!TypeOK
  <2>5. DoneInAttempts'
    BY <1>1, <1>3, <2>3 DEF JobInv, DoneInAttempts
  <2>6. RunsSound'
    <3> SUFFICES ASSUME NEW s \in Runs, run'[s].step \in Holding
                 PROVE  /\ run'[s].job \in Jobs /\ run'[s].job \in Handles[ProcessOf[s]]
                        /\ run'[s].attempt \in 1..jobs'[run'[s].job].attempt
                        /\ run'[s].step = "done" => done'[run'[s].job][run'[s].attempt] = 1
      BY DEF RunsSound
    <3>1. CASE s = r
      BY <1>1, <1>2, <2>2, <2>3, <3>1 DEF JobInv, RunsSound, Holding
    <3>2. CASE s # r
      <4>1. run'[s] = run[s]
        BY <2>2, <3>2
      <4>2. /\ run[s].job \in Jobs /\ run[s].job \in Handles[ProcessOf[s]]
            /\ run[s].attempt \in 1..jobs[run[s].job].attempt
            /\ run[s].step = "done" => done[run[s].job][run[s].attempt] = 1
        BY <4>1 DEF JobInv, RunsSound
      <4>3. run[s].attempt \in 1..Attempts
        BY <4>2 DEF JobInv, Queue!TypeOK, Queue!Row, JobsAssumption
      <4> QED  BY <1>1, <2>3, <4>1, <4>2, <4>3
    <3> QED  BY <3>1, <3>2
  <2> QED  BY <1>1, <2>4, <2>5, <2>6
           DEF JobInv, AbsentUntried, ToldOfRow, OneCreated, Queue!WaitingHasBudget
<1> QED  BY <1>4, <1>5 DEF Queue!Execute

(* A report writes a row that differs in its state only.                    *)
LEMMA ReportKeeps ==
  ASSUME JobInv, JobsAssumption, NEW r \in Runs, run[r].step \in Holding,
         NEW row \in Queue!Row, Queue!Report(r, row),
         row.status \in {"pending", "succeeded", "dead_letter"},
         row.attempt = jobs[run[r].job].attempt, row.hash = jobs[run[r].job].hash,
         row.status = "pending" => row.attempt < Attempts
  PROVE  JobInv'
<1> DEFINE j == run[r].job
<1>1. /\ jobs' = IF jobs[j].status = "running" /\ jobs[j].lockedBy = ProcessOf[r]
                 THEN [jobs EXCEPT ![j] = row] ELSE jobs
      /\ Queue!Leave(r) /\ UNCHANGED <<caller, alive, jobMode, done, incidents>>
  BY DEF Queue!Report
<1>2. /\ run' \in [Runs -> Queue!RunState] /\ running' \in [Processes -> BOOLEAN]
      /\ \A s \in Runs : RunKept(s)
  BY <1>1, LeaveTyped DEF JobInv
<1>3. j \in Jobs /\ jobs[j] \in Queue!Row /\ jobs[j].attempt \in Int
  BY DEF JobInv, Queue!TypeOK, RunsSound, Queue!Row, JobsAssumption
<1>4. CASE jobs' = jobs
  <2>1. Queue!TypeOK'
    BY <1>1, <1>2, <1>4 DEF JobInv, Queue!TypeOK
  <2> QED  BY <1>1, <1>2, <1>4, <2>1, SameRows, Kept
<1>5. CASE jobs[j].status = "running" /\ jobs' = [jobs EXCEPT ![j] = row]
  <2>1. /\ jobs' \in [Jobs -> Queue!Row] /\ jobs'[j] = row /\ \A i \in Jobs \ {j} : jobs'[i] = jobs[i]
    BY <1>3, <1>5 DEF JobInv, Queue!TypeOK
  <2>2. Queue!TypeOK'
    BY <1>1, <1>2, <2>1 DEF JobInv, Queue!TypeOK
  <2>3. \A i \in Jobs : RowKept(i)
    BY <1>3, <1>5, <2>1 DEF RowKept, JobInv, Queue!TypeOK, Queue!Row, JobsAssumption
  <2>4. Queue!WaitingHasBudget'
    BY <2>1 DEF JobInv, Queue!WaitingHasBudget
  <2> QED  BY <1>1, <1>2, <2>2, <2>3, <2>4, Kept
<1> QED  BY <1>1, <1>4, <1>5

LEMMA ReportsKeep ==
  ASSUME JobInv, JobsAssumption, NEW r \in Runs, Queue!Succeed(r) \/ Queue!Fail(r) \/ Queue!DeadLetter(r)
  PROVE  JobInv'
<1> DEFINE old == jobs[run[r].job]
<1>1. run[r].step \in Holding
  BY DEF Queue!Succeed, Queue!Fail, Queue!DeadLetter, Holding
<1>2. old \in Queue!Row /\ old.attempt \in 0..Attempts
  BY <1>1 DEF JobInv, Queue!TypeOK, RunsSound, Queue!Row
<1>3. CASE Queue!Succeed(r)
  <2> DEFINE row == [old EXCEPT !.status = "succeeded", !.leased = FALSE]
  <2>1. row \in Queue!Row /\ row.status = "succeeded" /\ row.attempt = old.attempt /\ row.hash = old.hash
    BY <1>2 DEF Queue!Row
  <2>2. Queue!Report(r, row)
    BY <1>3 DEF Queue!Succeed
  <2> QED  BY <1>1, <2>1, <2>2, ReportKeeps
<1>4. CASE Queue!Fail(r)
  <2> DEFINE status == IF Queue!FinalAttempt(r) THEN "dead_letter" ELSE "pending"
             row == [Queue!Released(old, status) EXCEPT !.due = FALSE]
  <2>1. status \in {"pending", "dead_letter"} /\ (status = "pending" => old.attempt < Attempts)
    BY <1>2 DEF Queue!FinalAttempt, JobsAssumption
  <2>2. Queue!Report(r, row)
    BY <1>4 DEF Queue!Fail
  <2> HIDE DEF status
  <2>3. row \in Queue!Row /\ row.status = status /\ row.attempt = old.attempt /\ row.hash = old.hash
    BY <1>2, <2>1, ReleasedRow
  <2> QED  BY <1>1, <2>1, <2>2, <2>3, ReportKeeps
<1>5. CASE Queue!DeadLetter(r)
  <2> DEFINE row == Queue!Released(old, "dead_letter")
  <2>1. Queue!Report(r, row)
    BY <1>5 DEF Queue!DeadLetter
  <2>2. row \in Queue!Row /\ row.status = "dead_letter" /\ row.attempt = old.attempt /\ row.hash = old.hash
    BY <1>2, ReleasedRow
  <2> QED  BY <1>1, <2>1, <2>2, ReportKeeps
<1> QED  BY <1>3, <1>4, <1>5

-----------------------------------------------------------------------------
(* What fails, dies, expires and freezes.                                   *)
LEMMA StatementFailsKeeps ==
  ASSUME JobInv, JobsAssumption, NEW r \in Runs, Queue!StatementFails(r)
  PROVE  JobInv'
<1>1. UNCHANGED <<jobs, caller, alive, jobMode, done>> /\ incidents' \in 0..MaxIncidents
  BY DEF Queue!StatementFails, Queue!Incident, JobInv, Queue!TypeOK, JobsAssumption
<1>2. /\ run' \in [Runs -> Queue!RunState] /\ (\A s \in Runs : RunKept(s))
      /\ running' \in [Processes -> BOOLEAN]
  <2>1. CASE run[r].step = "done" /\ Queue!Goto(r, "failing") /\ UNCHANGED running
    BY <2>1, GotoTyped DEF JobInv, Queue!TypeOK, Holding
  <2>2. CASE Queue!Leave(r)
    BY <2>2, LeaveTyped DEF JobInv
  <2>3. CASE run' = [run EXCEPT ![r] = Queue!Idle] /\ UNCHANGED running
    BY <2>3, IdleTyped DEF JobInv, Queue!TypeOK
  <2> QED  BY <2>1, <2>2, <2>3 DEF Queue!StatementFails
<1>3. Queue!TypeOK'
  BY <1>1, <1>2 DEF JobInv, Queue!TypeOK
<1> QED  BY <1>1, <1>2, <1>3, SameRows, Kept

LEMMA CrashKeeps ==
  ASSUME JobInv, JobsAssumption, NEW p \in Processes, Queue!Crash(p)
  PROVE  JobInv'
<1>1. /\ UNCHANGED <<jobs, caller, running, jobMode, done>> /\ incidents' \in 0..MaxIncidents
      /\ alive' = alive \ {p}
      /\ run' = [r \in Runs |-> IF ProcessOf[r] = p THEN Queue!Idle ELSE run[r]]
  BY DEF Queue!Crash, Queue!Incident, JobInv, Queue!TypeOK, JobsAssumption
<1>2. Queue!Idle \in Queue!RunState
  BY DEF Queue!Idle, Queue!RunState, JobsAssumption
<1>3. run' \in [Runs -> Queue!RunState] /\ \A r \in Runs : RunKept(r)
  BY <1>1, <1>2 DEF JobInv, Queue!TypeOK, RunKept
<1>4. Queue!TypeOK'
  BY <1>1, <1>3 DEF JobInv, Queue!TypeOK
<1> QED  BY <1>1, <1>3, <1>4, SameRows, Kept

(* A lease and a backoff are flags of the row.                              *)
LEMMA FlagKeeps ==
  ASSUME JobInv, JobsAssumption, NEW j \in Jobs, Queue!LeaseExpires(j) \/ Queue!BackoffEnds(j)
  PROVE  JobInv'
<1>1. UNCHANGED <<caller, run, running, alive, jobMode, done, incidents>>
  BY DEF Queue!LeaseExpires, Queue!BackoffEnds
<1>2. jobs \in [Jobs -> Queue!Row] /\ jobs[j] \in Queue!Row
  BY DEF JobInv, Queue!TypeOK
<1>3. /\ jobs' \in [Jobs -> Queue!Row] /\ \A i \in Jobs \ {j} : jobs'[i] = jobs[i]
      /\ jobs'[j].status = jobs[j].status /\ jobs'[j].hash = jobs[j].hash
      /\ jobs'[j].attempt = jobs[j].attempt
  <2>1. CASE Queue!LeaseExpires(j)
    <3> DEFINE row == [jobs[j] EXCEPT !.leased = FALSE]
    <3>1. jobs' = [jobs EXCEPT ![j] = row]
      BY <2>1 DEF Queue!LeaseExpires
    <3>2. /\ row \in Queue!Row /\ row.status = jobs[j].status /\ row.hash = jobs[j].hash
          /\ row.attempt = jobs[j].attempt
      BY <1>2 DEF Queue!Row
    <3> HIDE DEF row
    <3> QED  BY <1>2, <3>1, <3>2
  <2>2. CASE Queue!BackoffEnds(j)
    <3> DEFINE row == [jobs[j] EXCEPT !.due = TRUE]
    <3>1. jobs' = [jobs EXCEPT ![j] = row]
      BY <2>2 DEF Queue!BackoffEnds
    <3>2. /\ row \in Queue!Row /\ row.status = jobs[j].status /\ row.hash = jobs[j].hash
          /\ row.attempt = jobs[j].attempt
      BY <1>2 DEF Queue!Row
    <3> HIDE DEF row
    <3> QED  BY <1>2, <3>1, <3>2
  <2> QED  BY <2>1, <2>2
<1>4. Queue!TypeOK'
  BY <1>1, <1>3 DEF JobInv, Queue!TypeOK
<1>5. ASSUME NEW i \in Jobs PROVE RowKept(i)
  <2>1. /\ jobs'[i].status = jobs[i].status /\ jobs'[i].hash = jobs[i].hash
        /\ jobs'[i].attempt = jobs[i].attempt
    BY <1>3
  <2>2. jobs[i].attempt \in Int
    BY <1>2 DEF Queue!Row, JobsAssumption
  <2> QED  BY <2>1, <2>2 DEF RowKept
<1>6. Queue!WaitingHasBudget'
  BY <1>3 DEF JobInv, Queue!WaitingHasBudget
<1> QED  BY <1>1, <1>4, <1>5, <1>6, SameRuns, Kept

LEMMA FreezeKeeps ==
  ASSUME JobInv, JobsAssumption, Queue!Freeze \/ Queue!Unfreeze \/ UNCHANGED Queue!jobVars
  PROVE  JobInv'
<1>1. UNCHANGED <<jobs, caller, run, running, alive, done>>
  BY DEF Queue!Freeze, Queue!Unfreeze, Queue!jobVars
<1>2. jobMode' \in {"normal", "frozen"} /\ incidents' \in 0..MaxIncidents
  BY DEF Queue!Freeze, Queue!Unfreeze, Queue!jobVars, Queue!Incident, JobInv, Queue!TypeOK, JobsAssumption
<1>3. Queue!TypeOK'
  BY <1>1, <1>2 DEF JobInv, Queue!TypeOK
<1> QED  BY <1>1, <1>3, SameRows, SameRuns, Kept

-----------------------------------------------------------------------------
LEMMA JobInit ==
  ASSUME JobsAssumption, Queue!Init
  PROVE  JobInv
<1>1. Queue!Absent \in Queue!Row /\ Queue!Idle \in Queue!RunState
  BY DEF Queue!Absent, Queue!Row, Queue!Idle, Queue!RunState, JobsAssumption
<1>2. Queue!TypeOK
  BY <1>1 DEF Queue!Init, Queue!TypeOK, JobsAssumption
<1>3. AbsentUntried /\ Queue!WaitingHasBudget
  BY DEF Queue!Init, AbsentUntried, Queue!WaitingHasBudget, Queue!Absent
<1>4. ToldOfRow /\ OneCreated
  BY DEF Queue!Init, ToldOfRow, OneCreated
<1>5. RunsSound
  BY DEF Queue!Init, RunsSound, Queue!Idle, Holding
<1>6. DoneInAttempts
  BY DEF Queue!Init, DoneInAttempts
<1> QED  BY <1>2, <1>3, <1>4, <1>5, <1>6 DEF JobInv

LEMMA JobStep ==
  ASSUME JobInv, JobsAssumption, [Queue!Next]_(Queue!jobVars)
  PROVE  JobInv'
<1>1. CASE Queue!Enqueue
  BY <1>1, LookUpKeeps, InsertKeeps DEF Queue!Enqueue
<1>2. ASSUME NEW r \in Runs, Queue!RunStep(r) PROVE JobInv'
  BY <1>2, PollKeeps, SweepKeeps, ClaimKeeps, ExecuteKeeps, ReportsKeep DEF Queue!RunStep
<1>3. ASSUME NEW r \in Runs, Queue!StatementFails(r) PROVE JobInv'
  BY <1>3, StatementFailsKeeps
<1>4. ASSUME NEW p \in Processes, Queue!Crash(p) PROVE JobInv'
  BY <1>4, CrashKeeps
<1>5. ASSUME NEW j \in Jobs, Queue!LeaseExpires(j) \/ Queue!BackoffEnds(j) PROVE JobInv'
  BY <1>5, FlagKeeps
<1>6. CASE Queue!Freeze \/ Queue!Unfreeze \/ UNCHANGED Queue!jobVars
  BY <1>6, FreezeKeeps
<1> QED  BY <1>1, <1>2, <1>3, <1>4, <1>5, <1>6 DEF Queue!Next

LEMMA JobInvariant ==
  ASSUME JobsAssumption
  PROVE  Queue!Spec => []JobInv
<1>1. Queue!Init => JobInv
  BY JobInit
<1>2. JobInv /\ [Queue!Next]_(Queue!jobVars) => JobInv'
  BY JobStep
<1> QED  BY <1>1, <1>2, PTL DEF Queue!Spec

(* Rows and memories have their types; a job that waits can still be tried,
   so no stale report puts one back whose attempts are used up; and however
   the calls of enqueue overlap, one of them creates a job and none is told
   "existing" of a job that does something else.                            *)
THEOREM JobsCorrect ==
  ASSUME JobsAssumption
  PROVE  Queue!Spec => [](Queue!TypeOK /\ JobsSound)
<1>1. JobInv => Queue!TypeOK /\ JobsSound
  BY DEF JobInv, ToldOfRow, OneCreated, Queue!EnqueuedOnce, JobsSound
<1> QED  BY <1>1, JobInvariant, PTL

-----------------------------------------------------------------------------
(* The steps of a run, as they bear on what it cannot handle.               *)
LEMMA UnknownKeptByStep ==
  ASSUME JobInv, JobsAssumption, [Queue!Next]_(Queue!jobVars), NEW j \in Jobs, NEW r \in Runs,
         j \notin Handles[ProcessOf[r]], run'[r] # run[r]
  PROVE  jobs'[j] = jobs[j] \/ jobs[j].attempt = Attempts
<1>1. run \in [Runs -> Queue!RunState] /\ jobs \in [Jobs -> Queue!Row] /\ jobs[j].attempt \in 0..Attempts
  BY DEF JobInv, Queue!TypeOK, Queue!Row
<1>2. ASSUME NEW s \in Runs, Queue!GiveUpExhausted(s)
      PROVE  jobs'[j] = jobs[j] \/ jobs[j].attempt = Attempts
  BY <1>1, <1>2 DEF Queue!GiveUpExhausted, Queue!Exhausted, JobsAssumption
<1>3. ASSUME NEW s \in Runs, Queue!Claim(s)
      PROVE  jobs'[j] = jobs[j]
  <2>1. PICK k \in Jobs :
          /\ Queue!Claimable(ProcessOf[s], k)
          /\ \A i \in Jobs \ {k} : jobs'[i] = jobs[i]
          /\ \A i \in Runs \ {s} : run'[i] = run[i]
    BY <1>1, <1>3 DEF Queue!Claim
  <2>2. s = r
    BY <2>1
  <2> QED  BY <2>1, <2>2 DEF Queue!Claimable
<1>4. ASSUME NEW s \in Runs, NEW row, run[s].step \in Holding, Queue!Report(s, row)
      PROVE  jobs'[j] = jobs[j]
  <2>1. s = r
    BY <1>1, <1>4 DEF Queue!Report, Queue!Leave
  <2>2. run[s].job \in Jobs /\ run[s].job \in Handles[ProcessOf[s]]
    BY <1>4 DEF JobInv, RunsSound
  <2> QED  BY <1>1, <1>4, <2>1, <2>2 DEF Queue!Report
<1>5. ASSUME NEW s \in Runs, Queue!RunStep(s)
      PROVE  jobs'[j] = jobs[j] \/ jobs[j].attempt = Attempts
  <2>1. CASE Queue!Poll(s) \/ Queue!ModeRead(s) \/ Queue!NothingToClaim(s) \/ Queue!Execute(s)
    BY <2>1 DEF Queue!Poll, Queue!ModeRead, Queue!NothingToClaim, Queue!Execute
  <2>2. CASE Queue!Succeed(s) \/ Queue!Fail(s) \/ Queue!DeadLetter(s)
    <3>1. run[s].step \in Holding /\ \E row : Queue!Report(s, row)
      BY <2>2 DEF Queue!Succeed, Queue!Fail, Queue!DeadLetter, Holding
    <3> QED  BY <1>4, <3>1
  <2> QED  BY <1>2, <1>3, <1>5, <2>1, <2>2 DEF Queue!RunStep
<1>6. CASE Queue!Enqueue
  BY <1>6 DEF Queue!Enqueue, Queue!LookUp, Queue!Insert
<1>7. ASSUME NEW s \in Runs, Queue!StatementFails(s)
      PROVE  jobs'[j] = jobs[j]
  BY <1>7 DEF Queue!StatementFails
<1>8. ASSUME NEW p \in Processes, Queue!Crash(p)
      PROVE  jobs'[j] = jobs[j]
  BY <1>8 DEF Queue!Crash
<1>9. ASSUME NEW i \in Jobs, Queue!LeaseExpires(i) \/ Queue!BackoffEnds(i)
      PROVE  FALSE
  BY <1>9 DEF Queue!LeaseExpires, Queue!BackoffEnds
<1>10. CASE Queue!Freeze \/ Queue!Unfreeze \/ UNCHANGED Queue!jobVars
  BY <1>10 DEF Queue!Freeze, Queue!Unfreeze, Queue!jobVars
<1> QED  BY <1>5, <1>6, <1>7, <1>8, <1>9, <1>10 DEF Queue!Next

(* A rolling deployment: a process neither runs nor discards the work it
   cannot handle, unless all attempts at it have been made.                 *)
THEOREM UnknownWorkKept ==
  ASSUME JobsAssumption
  PROVE  Queue!Spec => Queue!UnknownWorkStaysQueued
<1>1. JobInv /\ [Queue!Next]_(Queue!jobVars) =>
        [\A j \in Jobs : \A r \in Runs :
           /\ j \notin Handles[ProcessOf[r]] /\ run'[r] # run[r]
           => \/ jobs'[j] = jobs[j]
              \/ jobs[j].attempt = Attempts]_(Queue!jobVars)
  BY UnknownKeptByStep
<1> QED  BY <1>1, JobInvariant, PTL DEF Queue!Spec, Queue!UnknownWorkStaysQueued

-----------------------------------------------------------------------------
(* The table of jobs implements LeasedWork.                                 *)

(* What LeasedWork is told of a job.                                        *)
Recorded(j, state, tries) ==
  Queue!Record(jobs'[j].status) = state /\ jobs'[j].attempt = tries

LEMMA Stutters ==
  ASSUME UNCHANGED done, \A j \in Jobs : Recorded(j, Queue!Record(jobs[j].status), jobs[j].attempt)
  PROVE  UNCHANGED Queue!Work!vars
BY DEF Queue!Work!vars, Recorded

LEMMA OpenRecord ==
  ASSUME NEW j \in Jobs, jobs[j].status \in {"pending", "running"}
  PROVE  Queue!Record(jobs[j].status) = "open"
BY DEF Queue!Record

(* enqueue submits, or tells of what is there.                              *)
LEMMA EnqueueSubmits ==
  ASSUME JobInv, JobsAssumption, NEW c \in Callers, Queue!LookUp(c) \/ Queue!Insert(c)
  PROVE  [Queue!Work!Next]_(Queue!Work!vars)
<1> DEFINE j == JobOf[c]
<1>1. CASE UNCHANGED <<jobs, done>>
  BY <1>1 DEF Queue!Work!vars
<1>2. CASE /\ jobs[j].status = "absent" /\ UNCHANGED done
           /\ jobs' = [jobs EXCEPT ![j] = [Queue!Absent EXCEPT
                        !.status = "pending", !.hash = HashOf[c], !.due = TRUE]]
  <2>1. j \in Jobs /\ jobs \in [Jobs -> Queue!Row]
    BY DEF JobInv, Queue!TypeOK, JobsAssumption
  <2>2. jobs'[j].status = "pending" /\ jobs'[j].attempt = 0
        /\ \A i \in Jobs \ {j} : jobs'[i] = jobs[i]
    BY <1>2, <2>1 DEF Queue!Absent
  <2>3. Queue!Record(jobs[j].status) = "absent" /\ Queue!Record(jobs'[j].status) = "open"
    BY <1>2, <2>2 DEF Queue!Record
  <2>4. jobs[j].attempt = 0
    BY <1>2, <2>1 DEF JobInv, AbsentUntried
  <2>5. \A i \in Jobs : Recorded(i, IF i = j THEN "open" ELSE Queue!Record(jobs[i].status), jobs[i].attempt)
    BY <2>2, <2>3, <2>4 DEF Recorded
  <2>6. Queue!Work!Submit(j)
    BY <1>2, <2>1, <2>3, <2>5 DEF Queue!Work!Submit, Recorded
  <2> QED  BY <2>1, <2>6 DEF Queue!Work!Next
<1> QED  BY <1>1, <1>2 DEF Queue!LookUp, Queue!Insert, Queue!KeyFree

LEMMA SweepGivesUp ==
  ASSUME JobInv, JobsAssumption, NEW r \in Runs, Queue!GiveUpExhausted(r)
  PROVE  [Queue!Work!Next]_(Queue!Work!vars)
<1> DEFINE S == {j \in Jobs : Queue!Exhausted(jobs[j])}
<1>1. /\ jobs' = [j \in Jobs |-> IF Queue!Exhausted(jobs[j])
                                 THEN Queue!Released(jobs[j], "dead_letter") ELSE jobs[j]]
      /\ UNCHANGED done
  BY DEF Queue!GiveUpExhausted
<1>2. \A j \in S : Queue!Record(jobs[j].status) = "open"
  BY DEF Queue!Exhausted, Queue!Record
<1>3. \A j \in Jobs :
        Recorded(j, IF j \in S THEN "given_up" ELSE Queue!Record(jobs[j].status), jobs[j].attempt)
  <2>1. \A j \in Jobs : jobs[j] \in Queue!Row
    BY DEF JobInv, Queue!TypeOK
  <2>2. \A j \in Jobs : /\ Queue!Released(jobs[j], "dead_letter").status = "dead_letter"
                        /\ Queue!Released(jobs[j], "dead_letter").attempt = jobs[j].attempt
    BY <2>1 DEF Queue!Released, Queue!Row
  <2>3. Queue!Record("dead_letter") = "given_up"
    BY DEF Queue!Record
  <2> QED  BY <1>1, <2>2, <2>3 DEF Recorded
<1>4. Queue!Work!GiveUp(S)
  BY <1>1, <1>2, <1>3 DEF Queue!Work!GiveUp, Recorded
<1> QED  BY <1>4 DEF Queue!Work!Next

LEMMA ClaimTries ==
  ASSUME JobInv, JobsAssumption, NEW r \in Runs, Queue!Claim(r)
  PROVE  [Queue!Work!Next]_(Queue!Work!vars)
<1>1. PICK j \in Jobs :
        /\ Queue!Claimable(ProcessOf[r], j)
        /\ jobs' = [jobs EXCEPT ![j].status = "running", ![j].lockedBy = ProcessOf[r],
                                ![j].leased = TRUE, ![j].attempt = @ + 1]
  BY DEF Queue!Claim
<1>2. jobs \in [Jobs -> Queue!Row] /\ jobs[j] \in Queue!Row /\ UNCHANGED done
  BY DEF JobInv, Queue!TypeOK, Queue!Claim
<1>3. jobs[j].attempt < Attempts /\ jobs[j].status \in {"pending", "running"}
  BY <1>1 DEF Queue!Claimable
<1>4. /\ jobs'[j].status = "running" /\ jobs'[j].attempt = jobs[j].attempt + 1
      /\ \A i \in Jobs \ {j} : jobs'[i] = jobs[i]
  BY <1>1, <1>2 DEF Queue!Row
<1>5. Queue!Record(jobs[j].status) = "open" /\ Queue!Record("running") = "open"
  BY <1>3 DEF Queue!Record
<1>6. \A i \in Jobs : Recorded(i, Queue!Record(jobs[i].status),
                               IF i = j THEN jobs[i].attempt + 1 ELSE jobs[i].attempt)
  BY <1>4, <1>5 DEF Recorded
<1>7. Queue!Work!Try(j)
  BY <1>2, <1>3, <1>5, <1>6 DEF Queue!Work!Try, Recorded
<1> QED  BY <1>7 DEF Queue!Work!Next

LEMMA ExecuteHasEffect ==
  ASSUME JobInv, JobsAssumption, NEW r \in Runs, Queue!Execute(r)
  PROVE  [Queue!Work!Next]_(Queue!Work!vars)
<1> DEFINE j == run[r].job
           n == run[r].attempt
<1>1. run[r].step = "executing" /\ UNCHANGED jobs
  BY DEF Queue!Execute
<1>2. j \in Jobs /\ n \in 1..jobs[j].attempt /\ jobs[j].attempt \in 0..Attempts
  BY <1>1 DEF JobInv, Queue!TypeOK, Queue!Row, RunsSound, Holding
<1>3. n \in 1..Attempts
  BY <1>2 DEF JobsAssumption
<1>4. CASE UNCHANGED done
  BY <1>1, <1>4 DEF Queue!Work!vars
<1>5. CASE done' = [done EXCEPT ![j][n] = 1] /\ done[j][n] = 1
  <2>1. done \in [Jobs -> [1..Attempts -> 0..1]] /\ done[j] \in [1..Attempts -> 0..1]
    BY <1>2 DEF JobInv, Queue!TypeOK
  <2>2. [done[j] EXCEPT ![n] = 1] = done[j]
    BY <1>5, <2>1
  <2>3. done' = [done EXCEPT ![j] = done[j]]
    BY <1>5, <2>2
  <2>4. done' = done
    BY <2>1, <2>3
  <2> QED  BY <1>1, <2>4 DEF Queue!Work!vars
<1>6. CASE done' = [done EXCEPT ![j][n] = 1] /\ done[j][n] # 1
  <2>1. done[j][n] = 0
    <3>1. done[j] \in [1..Attempts -> 0..1]
      BY <1>2 DEF JobInv, Queue!TypeOK
    <3> HIDE DEF n, j
    <3>2. done[j][n] \in 0..1
      BY <1>3, <3>1
    <3> QED  BY <1>6, <3>2
  <2>2. Queue!Work!Effect(j)
    BY <1>1, <1>2, <1>6, <2>1 DEF Queue!Work!Effect
  <2> QED  BY <1>2, <2>2 DEF Queue!Work!Next
<1> QED  BY <1>4, <1>5, <1>6 DEF Queue!Execute

(* A report that is taken settles the job or puts it back.                  *)
LEMMA ReportSettles ==
  ASSUME JobInv, JobsAssumption, NEW r \in Runs, run[r].step \in Holding,
         NEW row \in Queue!Row, Queue!Report(r, row), row.attempt = jobs[run[r].job].attempt,
         row.status \in {"pending", "dead_letter"} \/ (row.status = "succeeded" /\ run[r].step = "done")
  PROVE  [Queue!Work!Next]_(Queue!Work!vars)
<1> DEFINE j == run[r].job
<1>1. UNCHANGED done
  BY DEF Queue!Report
<1>2. /\ j \in Jobs /\ jobs \in [Jobs -> Queue!Row]
      /\ run[r].attempt \in 1..jobs[j].attempt
      /\ run[r].step = "done" => done[j][run[r].attempt] = 1
  BY DEF JobInv, Queue!TypeOK, RunsSound
<1>3. CASE jobs' = jobs
  BY <1>1, <1>3 DEF Queue!Work!vars
<1>4. CASE jobs[j].status = "running" /\ jobs' = [jobs EXCEPT ![j] = row]
  <2>1. Queue!Record(jobs[j].status) = "open"
    BY <1>4 DEF Queue!Record
  <2>2. \A i \in Jobs : Recorded(i, IF i = j THEN Queue!Record(row.status) ELSE Queue!Record(jobs[i].status),
                                 jobs[i].attempt)
    BY <1>2, <1>4 DEF Recorded
  <2>3. CASE row.status = "pending"
    <3>1. Queue!Record(row.status) = "open"
      BY <2>3 DEF Queue!Record
    <3> QED  BY <1>1, <2>1, <2>2, <3>1, Stutters
  <2>4. CASE row.status = "dead_letter"
    <3>1. Queue!Record(row.status) = "given_up"
      BY <2>4 DEF Queue!Record
    <3>2. \A i \in {j} : Queue!Record(jobs[i].status) = "open"
      BY <2>1
    <3>3. \A i \in Jobs : /\ Queue!Record(jobs'[i].status)
                               = IF i \in {j} THEN "given_up" ELSE Queue!Record(jobs[i].status)
                          /\ jobs'[i].attempt = jobs[i].attempt
      BY <2>2, <3>1 DEF Recorded
    <3>4. j \in Jobs
      BY <1>2
    <3> HIDE DEF j
    <3>5. Queue!Work!GiveUp({j})
      BY <1>1, <3>2, <3>3, <3>4 DEF Queue!Work!GiveUp
    <3> QED  BY <3>4, <3>5 DEF Queue!Work!Next
  <2>5. CASE row.status = "succeeded" /\ run[r].step = "done"
    <3>1. Queue!Record(row.status) = "done"
      BY <2>5 DEF Queue!Record
    <3>2. Queue!Work!Finish(j)
      BY <1>1, <1>2, <2>1, <2>2, <2>5, <3>1 DEF Queue!Work!Finish, Recorded
    <3> QED  BY <1>2, <3>2 DEF Queue!Work!Next
  <2> QED  BY <2>3, <2>4, <2>5
<1> QED  BY <1>3, <1>4 DEF Queue!Report

LEMMA ReportsSettle ==
  ASSUME JobInv, JobsAssumption, NEW r \in Runs, Queue!Succeed(r) \/ Queue!Fail(r) \/ Queue!DeadLetter(r)
  PROVE  [Queue!Work!Next]_(Queue!Work!vars)
<1> DEFINE old == jobs[run[r].job]
<1>1. run[r].step \in Holding
  BY DEF Queue!Succeed, Queue!Fail, Queue!DeadLetter, Holding
<1>2. old \in Queue!Row
  BY <1>1 DEF JobInv, Queue!TypeOK, RunsSound
<1>3. CASE Queue!Succeed(r)
  <2> DEFINE row == [old EXCEPT !.status = "succeeded", !.leased = FALSE]
  <2>1. row \in Queue!Row /\ row.status = "succeeded" /\ row.attempt = old.attempt
    BY <1>2 DEF Queue!Row
  <2>2. Queue!Report(r, row) /\ run[r].step = "done"
    BY <1>3 DEF Queue!Succeed
  <2> QED  BY <1>1, <2>1, <2>2, ReportSettles
<1>4. CASE Queue!Fail(r)
  <2> DEFINE status == IF Queue!FinalAttempt(r) THEN "dead_letter" ELSE "pending"
             row == [Queue!Released(old, status) EXCEPT !.due = FALSE]
  <2>1. Queue!Report(r, row) /\ status \in {"pending", "dead_letter"}
    BY <1>4 DEF Queue!Fail
  <2> HIDE DEF status
  <2>2. row \in Queue!Row /\ row.status = status /\ row.attempt = old.attempt
    BY <1>2, <2>1, ReleasedRow
  <2> QED  BY <1>1, <2>1, <2>2, ReportSettles
<1>5. CASE Queue!DeadLetter(r)
  <2> DEFINE row == Queue!Released(old, "dead_letter")
  <2>1. Queue!Report(r, row)
    BY <1>5 DEF Queue!DeadLetter
  <2>2. row \in Queue!Row /\ row.status = "dead_letter" /\ row.attempt = old.attempt
    BY <1>2, ReleasedRow
  <2> QED  BY <1>1, <2>1, <2>2, ReportSettles
<1> QED  BY <1>3, <1>4, <1>5

(* A lease or a backoff that ends is no step of the work.                   *)
LEMMA FlagsStutter ==
  ASSUME JobInv, NEW j \in Jobs, Queue!LeaseExpires(j) \/ Queue!BackoffEnds(j)
  PROVE  UNCHANGED Queue!Work!vars
<1>1. jobs \in [Jobs -> Queue!Row]
  BY DEF JobInv, Queue!TypeOK
<1>2. \A i \in Jobs : jobs'[i].status = jobs[i].status /\ jobs'[i].attempt = jobs[i].attempt
  <2>1. CASE Queue!LeaseExpires(j)
    BY <1>1, <2>1 DEF Queue!LeaseExpires, Queue!Row
  <2>2. CASE Queue!BackoffEnds(j)
    BY <1>1, <2>2 DEF Queue!BackoffEnds, Queue!Row
  <2> QED  BY <2>1, <2>2
<1> QED  BY <1>2, Stutters DEF Recorded, Queue!LeaseExpires, Queue!BackoffEnds

LEMMA StepOfWork ==
  ASSUME JobInv, JobsAssumption, [Queue!Next]_(Queue!jobVars)
  PROVE  [Queue!Work!Next]_(Queue!Work!vars)
<1>1. CASE UNCHANGED <<jobs, done>>
  BY <1>1 DEF Queue!Work!vars
<1>2. CASE Queue!Enqueue
  BY <1>2, EnqueueSubmits DEF Queue!Enqueue
<1>3. ASSUME NEW r \in Runs, Queue!RunStep(r) PROVE [Queue!Work!Next]_(Queue!Work!vars)
  <2>1. CASE Queue!Poll(r) \/ Queue!ModeRead(r) \/ Queue!NothingToClaim(r)
    BY <1>1, <2>1 DEF Queue!Poll, Queue!ModeRead, Queue!NothingToClaim
  <2> QED  BY <1>3, <2>1, SweepGivesUp, ClaimTries, ExecuteHasEffect, ReportsSettle DEF Queue!RunStep
<1>4. ASSUME NEW j \in Jobs, Queue!LeaseExpires(j) \/ Queue!BackoffEnds(j) PROVE [Queue!Work!Next]_(Queue!Work!vars)
  BY <1>4, FlagsStutter
<1>5. ASSUME NEW r \in Runs, Queue!StatementFails(r) PROVE UNCHANGED <<jobs, done>>
  BY <1>5 DEF Queue!StatementFails
<1>6. ASSUME NEW p \in Processes, Queue!Crash(p) PROVE UNCHANGED <<jobs, done>>
  BY <1>6 DEF Queue!Crash
<1>7. CASE Queue!Freeze \/ Queue!Unfreeze \/ UNCHANGED Queue!jobVars
  BY <1>1, <1>7 DEF Queue!Freeze, Queue!Unfreeze, Queue!jobVars
<1> QED  BY <1>1, <1>2, <1>3, <1>4, <1>5, <1>6, <1>7 DEF Queue!Next

(* Whatever polls overlap, leases run out and processes die, a job is tried
   within its budget, succeeds only if its work was done, and is not taken
   up again once it is settled.                                             *)
THEOREM JobsImplementLeasedWork ==
  ASSUME JobsAssumption
  PROVE  Queue!Spec => Queue!AtLeastOnceInBudget
<1>1. Queue!Init => Queue!Work!Init
  <2>1. Queue!Record("absent") = "absent"
    BY DEF Queue!Record
  <2> QED  BY <2>1 DEF Queue!Init, Queue!Absent, Queue!Work!Init
<1>2. JobInv /\ [Queue!Next]_(Queue!jobVars) => [Queue!Work!Next]_(Queue!Work!vars)
  BY StepOfWork
<1> QED  BY <1>1, <1>2, JobInvariant, PTL DEF Queue!Spec, Queue!AtLeastOnceInBudget, Queue!Work!Spec

(* So a job is leased work, which waits for a process that can do it.       *)
THEOREM JobsAreHandled ==
  ASSUME JobsAssumption
  PROVE  Queue!Spec => JobsHandled
BY JobsImplementLeasedWork, UnknownWorkKept DEF JobsHandled

================================================================================
