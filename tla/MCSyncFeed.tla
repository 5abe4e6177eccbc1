----------------------------- MODULE MCSyncFeed -----------------------------
(***************************************************************************)
(* The event feed on small instances, in two scenarios: an initial state   *)
(* chooses the one that runs.                                              *)
(*   catch_up  a device that is away while maintenance forgets events and  *)
(*             cursors; fair requests                                      *)
(*   restored  a backup is restored under a device with requests, pages, a *)
(*             snapshot and acknowledgements under way                     *)
(***************************************************************************)
EXTENDS SyncFeed

CONSTANTS d1, s1, t1, t2, Scenarios

VARIABLE scenario

mcVars == <<scenario, vars>>

CatchUp == INSTANCE SyncFeed WITH MaxEpoch <- 0

Restored == INSTANCE SyncFeed WITH
              MaxClock <- 1, MaxInterruptions <- 0, Retention <- 0, Patience <- 0,
              PruneLimit <- 2, MaxLag <- 2

MCInit == scenario \in Scenarios /\ Init

MCNext ==
  \/ scenario = "catch_up" /\ CatchUp!Next  /\ UNCHANGED scenario
  \/ scenario = "restored" /\ Restored!Next /\ UNCHANGED scenario

MCFairness ==
  /\ \A d \in Devices : WF_vars(scenario = "catch_up" /\ CatchUp!Request(d))
  /\ \A s \in Slots : WF_vars(scenario = "catch_up" /\ CatchUp!ExpireSnapshot(s))

MCSpec == MCInit /\ [][MCNext]_mcVars /\ MCFairness

(* A device that keeps asking ends up with the whole history (session, events,
   bootstrap).                                                              *)
MCCaughtUp == \A d \in Devices : <>[](scenario = "catch_up" => CaughtUp(d))
=============================================================================
