----------------------------- MODULE LeasedWork -----------------------------
(***************************************************************************)
(* What a durable queue with leases promises about each item of work, with *)
(* no worker, lease or crash in sight: it is tried at most Budget times,   *)
(* has at most one effect in each try, is recorded as done only if it had *)
(* an effect, and once it is settled it is never taken up again.           *)
(***************************************************************************)
EXTENDS Integers

CONSTANTS Items, Budget

VARIABLES
  state,    \* what is recorded of each item
  tries,    \* attempts begun
  effects   \* how often the work was really done in each try

vars == <<state, tries, effects>>

Init ==
  /\ state = [i \in Items |-> "absent"]
  /\ tries = [i \in Items |-> 0]
  /\ effects = [i \in Items |-> [n \in 1..Budget |-> 0]]

Submit(i) ==
  /\ state[i] = "absent"
  /\ state' = [state EXCEPT ![i] = "open"]
  /\ UNCHANGED <<tries, effects>>

Try(i) ==
  /\ state[i] = "open"
  /\ tries[i] < Budget
  /\ tries' = [tries EXCEPT ![i] = @ + 1]
  /\ UNCHANGED <<state, effects>>

(* An attempt that lost its lease may still have its effect, even after the
   item is settled.                                                         *)
Effect(i) ==
  /\ \E n \in 1..tries[i] :
       /\ effects[i][n] = 0
       /\ effects' = [effects EXCEPT ![i][n] = 1]
  /\ UNCHANGED <<state, tries>>

Finish(i) ==
  /\ state[i] = "open"
  /\ \E n \in 1..tries[i] : effects[i][n] = 1
  /\ state' = [state EXCEPT ![i] = "done"]
  /\ UNCHANGED <<tries, effects>>

GiveUp(S) ==
  /\ \A i \in S : state[i] = "open"
  /\ state' = [i \in Items |-> IF i \in S THEN "given_up" ELSE state[i]]
  /\ UNCHANGED <<tries, effects>>

Next ==
  \/ \E i \in Items : Submit(i) \/ Try(i) \/ Effect(i) \/ Finish(i)
  \/ \E S \in SUBSET Items : GiveUp(S)

Spec == Init /\ [][Next]_vars
=============================================================================
