---------------------------- MODULE MCScheduler ----------------------------
(***************************************************************************)
(* One job of the user (1) and two of the system (2 and 3); 1 and 3 have   *)
(* the same owner; each has another misfire policy.                        *)
(***************************************************************************)
EXTENDS Scheduler, TLC

ThreeJobs  == 1..3
SystemJobs == {2, 3}
Owners     == (1 :> "a") @@ (2 :> "b") @@ (3 :> "a")
Policies   == (1 :> "catch-up-one") @@ (2 :> "latest") @@ (3 :> "skip")
=============================================================================
