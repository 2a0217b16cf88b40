------------------------------- MODULE Inbox -------------------------------
(***************************************************************************)
(* The durable agent inbox (harness/agent/inbox.ts) as operators on a      *)
(* "box", the value of one Inbox object together with the removals its     *)
(* session log names.                                                      *)
(*                                                                         *)
(* Every insertion of the code is at the end of a list and every removal   *)
(* keeps the order of the rest, so a list is the set of messages that are  *)
(* on it and the relation "was put on this list before".  That the index   *)
(* splices of the log replay to these lists is checked in InboxSplices.    *)
(***************************************************************************)
CONSTANTS
  Msg,      \* message identities
  User      \* the ones a user typed; the others are harness context

ASSUME UserAssumption == User \subseteq Msg

Lists == {"next-turn", "next-step"}

(***************************************************************************)
(* where     the list a message is pending on, or "none"                   *)
(* ahead     <<a, b>>: a stands before b on their common list              *)
(* held      pending messages no claim takes until the user sends them     *)
(* reserved  what the open claim reserved ({} when no claim is open)       *)
(* withdrawn reserved messages whose submitter cancelled them              *)
(* discarded what the agent/inbox/discarded events name                    *)
(***************************************************************************)
Box == [where     : [Msg -> Lists \union {"none"}],
        ahead     : SUBSET (Msg \X Msg),
        held      : SUBSET Msg,
        reserved  : SUBSET Msg,
        withdrawn : SUBSET Msg,
        discarded : SUBSET Msg]

EmptyBox == [where     |-> [m \in Msg |-> "none"],
             ahead     |-> {},
             held      |-> {},
             reserved  |-> {},
             withdrawn |-> {},
             discarded |-> {}]

On(b, l) == {m \in Msg : b.where[m] = l}

Pending(b) == {m \in Msg : b.where[m] # "none"}

\* What discard, hold and promote may touch: a reserved message is refused.
Unreserved(b) == Pending(b) \ b.reserved

Claimable(b) == Pending(b) \ (b.held \union b.reserved)

HasClaimable(b) == Claimable(b) # {}

HasClaimableStep(b) == Claimable(b) \intersect On(b, "next-step") # {}

-----------------------------------------------------------------------------
(***************************************************************************)
(* Changes of the lists.                                                   *)
(***************************************************************************)

\* The order of a box without the messages of S.
AheadWithout(b, S) == {p \in b.ahead : p[1] \notin S /\ p[2] \notin S}

\* m, which is on no list or leaves the one it is on, becomes the last of l.
AppendTo(b, l, m) ==
  [b EXCEPT !.where = [@ EXCEPT ![m] = l],
            !.ahead = AheadWithout(b, {m}) \union
                        ((On(b, l) \ {m}) \X {m})]

Without(b, S) ==
  [b EXCEPT !.where = [m \in Msg |-> IF m \in S THEN "none" ELSE @[m]],
            !.ahead = AheadWithout(b, S)]

\* Mutant of Discard: the event is written, the message stays on its list.
DiscardNamesOnly(b, S) ==
  [b EXCEPT !.held = @ \ S, !.discarded = @ \union S]

\* One splice with outcome "canceled" and the discarded event that names S.
Discard(b, S) ==
  [Without(b, S) EXCEPT !.held = @ \ S, !.discarded = @ \union S]

\* discardWhere: the reserved ones stay.
DiscardWhere(b, S) == Discard(b, S \intersect Unreserved(b))

Hold(b, S) == [b EXCEPT !.held = @ \union (S \intersect Unreserved(b))]

Unhold(b, m) == [b EXCEPT !.held = @ \ {m}]

\* Every user message that waits, reserved ones excepted (agent.holdUnsent).
HoldUnsent(b) == Hold(b, User)

-----------------------------------------------------------------------------
(***************************************************************************)
(* Claims.  A claim only reserves; commit or release settles it.           *)
(***************************************************************************)

\* Mutants of FirstOfTurn: holds are not looked at; every prompt is taken.
FirstHeldOrNot(b) ==
  {m \in On(b, "next-turn") :
     ~ \E a \in On(b, "next-turn") : <<a, m>> \in b.ahead}

AllOfTurn(b) == On(b, "next-turn") \ b.held

\* The first message of next-turn that is not held: a set of at most one.
FirstOfTurn(b) ==
  {m \in On(b, "next-turn") \ b.held :
     ~ \E a \in On(b, "next-turn") \ b.held : <<a, m>> \in b.ahead}

ClaimSet(b, target) ==
  (On(b, "next-step") \ b.held) \union
    (IF target = "next-turn" THEN FirstOfTurn(b) ELSE {})

Claim(b, target) == [b EXCEPT !.reserved = ClaimSet(b, target)]

Settled(b) == [b EXCEPT !.reserved = {}, !.withdrawn = {}]

\* The claimed messages that are still pending: entered ones leave for the
\* log, the others were dropped by a pre-step middleware.
Commit(b, entered) ==
  LET pending == b.reserved \intersect Pending(b)
  IN  Discard(Without(Settled(b), pending \intersect entered),
              pending \ entered)

\* Withdrawn messages are discarded, the others stay where they are.
Release(b) ==
  Discard(Settled(b), b.withdrawn \intersect Pending(b))

Withdraw(b, m) == [b EXCEPT !.withdrawn = @ \union {m}]

\* Reopening rebuilds the lists from the log; every user message comes back
\* held, and no claim is open.
Reopen(b) == [Settled(b) EXCEPT !.held = User \intersect Pending(b)]
=============================================================================
