------------------------------ MODULE MCQueues ------------------------------
(***************************************************************************)
(* The two durable queues, each on an instance of its own: an initial      *)
(* state chooses the one that moves, so that the run is their sum and not  *)
(* their product.                                                          *)
(*   mail     an invitation whose message can be spent, revoked, cancelled *)
(*   enqueue  two calls that enqueue one job with different contents       *)
(*   jobs     one of them; an old process that does not know the job, and  *)
(*            a new one that may poll twice                                *)
(***************************************************************************)
EXTENDS MailOutbox, QueuePromise

CONSTANTS invitation, w1, w2, job, c1, c2, old, new, r1, r2, r3, Queues

VARIABLE queue

TheirJob     == [c \in {c1, c2} |-> job]
TheirHash    == [c \in {c1, c2} |-> c]
TheirProcess == [r \in {r1, r2, r3} |-> IF r = r1 THEN old ELSE new]
NewOnesJob   == [p \in {old, new} |-> IF p = new THEN {job} ELSE {}]

jobVars == <<jobs, caller, run, running, alive, jobMode, done, incidents>>

mcVars == <<vars, jobVars, queue>>

MCInit == Init /\ Queue!Init /\ queue \in Queues

MCNext ==
  \/ queue = "mail"    /\ Next          /\ UNCHANGED <<jobVars, queue>>
  \/ queue = "enqueue" /\ Queue!Enqueue /\ UNCHANGED <<vars, queue>>
  \/ queue = "jobs"    /\ Queue!Next /\ caller'[c2] = "waiting" /\ UNCHANGED <<vars, queue>>
  \/ /\ queue = "enqueue" /\ \A c \in Callers : caller[c] \notin {"waiting", "absent"}
     /\ UNCHANGED mcVars

(* Fairness of the queue that moves; a timer of each live process fires,
   handlers end, leases and back-offs run out.                              *)
JobFairness ==
  /\ \A r \in Runs : WF_jobVars(queue = "jobs" /\ Queue!RunStep(r))
  /\ WF_jobVars(queue = "jobs" /\ Queue!LeaseExpires(job))
  /\ WF_jobVars(queue = "jobs" /\ Queue!BackoffEnds(job))
  /\ WF_jobVars(queue = "jobs" /\ Queue!Unfreeze)

MailFairness ==
  /\ \A w \in Workers : WF_vars(queue = "mail" /\ WorkerStep(w))
  /\ \A m \in Messages :
       /\ WF_vars(queue = "mail" /\ LeaseExpires(m))
       /\ WF_vars(queue = "mail" /\ BackoffEnds(m))
       /\ WF_vars(queue = "mail" /\ BodyExpires(m))
  /\ WF_vars(queue = "mail" /\ Maintenance)
  /\ WF_vars(queue = "mail" /\ Unfreeze)

MCSpec == MCInit /\ [][MCNext]_mcVars /\ JobFairness /\ MailFairness

(* No mail and no job stays open, and no body of a mail outlives it, across
   crashed and frozen workers.                                              *)
QueuesDrain ==
  /\ EverythingSettled
  /\ BodiesErased
  /\ (queue = "jobs" /\ Queue!Open(job)) ~> ~Queue!Open(job)
=============================================================================
