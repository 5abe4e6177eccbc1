--------------------------- MODULE QueuePromise ----------------------------
(***************************************************************************)
(* The table of background jobs, with what it promises: MCQueues checks it *)
(* on an instance, and JobQueueProofs proves it.                           *)
(***************************************************************************)
CONSTANTS
  Jobs, Callers, JobOf, HashOf, Processes, Runs, ProcessOf, Handles,
  Attempts,    \* background_jobs.max_attempts
  MaxIncidents, Nobody
VARIABLES jobs, caller, run, running, alive, jobMode, done, incidents

Queue == INSTANCE JobQueue WITH MaxAttempts <- Attempts

(* The table of jobs: a row counts its attempts within its budget, a waiting
   job has an attempt left, and a key stands for one job however many callers
   enqueue it at once (enqueue, claim, #fail).                              *)
JobsSound == Queue!TypeOK /\ Queue!WaitingHasBudget /\ Queue!EnqueuedOnce

(* A job is leased work (the abstract queue), and a job no running process
   has a handler for stays as it is (claim).                                *)
JobsHandled == Queue!AtLeastOnceInBudget /\ Queue!UnknownWorkStaysQueued
=============================================================================
