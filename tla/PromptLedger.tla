---------------------------- MODULE PromptLedger ----------------------------
(***************************************************************************)
(* What the inbox and the driver together promise of every message: the    *)
(* life it may have.  A message is sent once; it waits; it enters a step,  *)
(* is discarded, or is given back to the user ("parked"), who alone can    *)
(* set it waiting again.  Entering and being discarded are final.  After a *)
(* crash each message is where the log on disk left it, and every prompt   *)
(* that waited is parked.                                                  *)
(*                                                                         *)
(* AgentLoop implements this module (AgentLoop!LedgerImplemented).         *)
(***************************************************************************)
CONSTANTS Msg, User

VARIABLES
  fate,     \* where each message is now
  written   \* where the log on disk says it is

Fates == {"new", "waiting", "parked", "entered", "discarded"}

Init == /\ fate = [m \in Msg |-> "new"]
        /\ written = fate

Arrive(m) == /\ fate[m] = "new"
             /\ fate' = [fate EXCEPT ![m] = "waiting"]
             /\ UNCHANGED written

SendAgain(m) == /\ fate[m] = "parked"
                /\ fate' = [fate EXCEPT ![m] = "waiting"]
                /\ UNCHANGED written

\* One step of the driver or one stop settles several messages at once.
\* Harness context is never parked.
Outcomes(m) == CASE fate[m] = "waiting" ->
                      {"waiting", "entered", "discarded"} \union
                        (IF m \in User THEN {"parked"} ELSE {})
                 [] fate[m] = "parked" -> {"parked", "discarded"}
                 [] OTHER -> {fate[m]}

Settle == /\ fate' \in [Msg -> Fates]
          /\ \A m \in Msg : fate'[m] \in Outcomes(m)
          /\ UNCHANGED written

\* The log does not say who waits for the user.
Save == /\ written' = [m \in Msg |-> IF fate[m] = "parked" THEN "waiting"
                                                          ELSE fate[m]]
        /\ UNCHANGED fate

Reopen == /\ fate' = [m \in Msg |-> IF written[m] = "waiting" /\ m \in User
                                    THEN "parked" ELSE written[m]]
          /\ UNCHANGED written

Next == \/ \E m \in Msg : Arrive(m) \/ SendAgain(m)
        \/ Settle \/ Save \/ Reopen

Spec == Init /\ [][Next]_<<fate, written>>
=============================================================================
