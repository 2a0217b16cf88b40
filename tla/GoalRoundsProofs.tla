------------------------- MODULE GoalRoundsProofs --------------------------
(***************************************************************************)
(* Proofs about GoalRounds: its type invariant, the invariant that keeps   *)
(* one goal round on its way, that the gate lets no round pass a waiting   *)
(* prompt, that an armed goal goes on, and that a stopped one stays down.  *)
(*                                                                         *)
(* A step of the agent or of a caller only takes messages off the inbox    *)
(* (Shrinks) and leaves the attempt of the driver the attempt it was, or   *)
(* drops it (Keeps); what such a step preserves is proved once (Kept).     *)
(* The three operations that put a message on the inbox are looked at on   *)
(* their own, and so are the steps in which a claimed round is still there:*)
(* it enters, or the turn ends in a way that discards it (EndTurnKeeps).   *)
(*                                                                         *)
(* That gives IInv.  The second half adds Sound, what the stopping of a    *)
(* goal rests on, and Watched, what its going on rests on.  Both meet at   *)
(* the idle edge: a rejected attempt of an older revision would leave its  *)
(* goal armed and undriven, were it not dropped by a drive there.          *)
(***************************************************************************)
EXTENDS GoalRounds, TLAPS

(***************************************************************************)
(* What the operations of Inbox do to a box: the result is a box again,    *)
(* and the sets the proofs speak of.                                       *)
(***************************************************************************)

\* A fresh inbox is empty.
LEMMA EmptyBoxFacts ==
  /\ EmptyBox \in Box
  /\ Pending(EmptyBox) = {}
BY DEF EmptyBox, Box, Pending, Lists

\* AppendTo, the splice(s) of append, prepend and promote: m is pending.
LEMMA AppendFacts ==
  ASSUME NEW b \in Box, NEW m \in Msg, NEW l \in Lists
  PROVE  /\ AppendTo(b, l, m) \in Box
         /\ Pending(AppendTo(b, l, m)) = Pending(b) \union {m}
         /\ AppendTo(b, l, m).held = b.held
         /\ AppendTo(b, l, m).reserved = b.reserved
         /\ AppendTo(b, l, m).withdrawn = b.withdrawn
         /\ AppendTo(b, l, m).discarded = b.discarded
<1> DEFINE w == [b.where EXCEPT ![m] = l]
           a == AheadWithout(b, {m}) \union ((On(b, l) \ {m}) \X {m})
           c == [b EXCEPT !.where = w, !.ahead = a]
<1>1. w \in [Msg -> Lists \union {"none"}] /\ a \in SUBSET (Msg \X Msg)
  BY DEF Box, AheadWithout, On
<1>2. AppendTo(b, l, m) = c
  BY DEF AppendTo, Box
<1>3. c \in Box
  BY <1>1 DEF Box
<1>4. Pending(c) = Pending(b) \union {m}
  BY DEF Pending, Box, Lists
<1> QED
  BY <1>2, <1>3, <1>4 DEF Box

\* Without, the removals: the messages of S are pending no more.
LEMMA WithoutFacts ==
  ASSUME NEW b \in Box, NEW S
  PROVE  /\ Without(b, S) \in Box
         /\ Pending(Without(b, S)) = Pending(b) \ S
         /\ Without(b, S).held = b.held
         /\ Without(b, S).reserved = b.reserved
         /\ Without(b, S).withdrawn = b.withdrawn
         /\ Without(b, S).discarded = b.discarded
<1> DEFINE w == [m \in Msg |-> IF m \in S THEN "none" ELSE b.where[m]]
           a == AheadWithout(b, S)
           c == [b EXCEPT !.where = w, !.ahead = a]
<1>1. w \in [Msg -> Lists \union {"none"}] /\ a \in SUBSET (Msg \X Msg)
  BY DEF Box, AheadWithout
<1>2. Without(b, S) = c
  BY DEF Without, Box
<1>3. c \in Box
  BY <1>1 DEF Box
<1>4. Pending(c) = Pending(b) \ S
  BY DEF Pending, Box
<1> QED
  BY <1>2, <1>3, <1>4 DEF Box

\* Discard: the messages of S leave the lists and are named as discarded.
LEMMA DiscardFacts ==
  ASSUME NEW b \in Box, NEW S \in SUBSET Msg
  PROVE  /\ Discard(b, S) \in Box
         /\ Pending(Discard(b, S)) = Pending(b) \ S
         /\ Discard(b, S).held = b.held \ S
         /\ Discard(b, S).reserved = b.reserved
         /\ Discard(b, S).withdrawn = b.withdrawn
         /\ Discard(b, S).discarded = b.discarded \union S
<1> DEFINE w == Without(b, S)
<1>1. w \in Box /\ Pending(w) = Pending(b) \ S /\ w.held = b.held
      /\ w.reserved = b.reserved /\ w.withdrawn = b.withdrawn
      /\ w.discarded = b.discarded
  BY WithoutFacts
<1>2. Discard(b, S) = [w EXCEPT !.held = b.held \ S,
                                !.discarded = b.discarded \union S]
  BY <1>1 DEF Discard, Box
<1> HIDE DEF w
<1> DEFINE d == [w EXCEPT !.held = b.held \ S,
                         !.discarded = b.discarded \union S]
<1>3. b.held \in SUBSET Msg /\ b.discarded \in SUBSET Msg
  BY DEF Box
<1>4. d \in Box
  BY <1>1, <1>3 DEF Box
<1>5. d.where = w.where /\ d.reserved = w.reserved
      /\ d.withdrawn = w.withdrawn /\ d.held = b.held \ S
      /\ d.discarded = b.discarded \union S
  BY <1>1 DEF Box
<1>6. Pending(d) = Pending(w)
  BY <1>5 DEF Pending
<1> QED
  BY <1>1, <1>2, <1>4, <1>5, <1>6

\* discardWhere leaves what a claim reserved.
LEMMA DiscardWhereFacts ==
  ASSUME NEW b \in Box, NEW S
  PROVE  LET D == S \intersect (Pending(b) \ b.reserved)
             d == DiscardWhere(b, S)
         IN  /\ d \in Box
             /\ Pending(d) = Pending(b) \ D
             /\ d.held = b.held \ D
             /\ d.reserved = b.reserved
             /\ d.withdrawn = b.withdrawn
             /\ d.discarded = b.discarded \union D
<1>1. S \intersect Unreserved(b) \in SUBSET Msg
  BY DEF Unreserved, Pending
<1> QED
  BY <1>1, DiscardFacts DEF DiscardWhere, Unreserved

\* Hold and holdUnsent touch nothing but who is held.
LEMMA HoldFacts ==
  ASSUME NEW b \in Box, NEW S
  PROVE  /\ Hold(b, S) \in Box
         /\ Pending(Hold(b, S)) = Pending(b)
         /\ Hold(b, S).held = b.held \union
                                (S \intersect (Pending(b) \ b.reserved))
         /\ Hold(b, S).reserved = b.reserved
         /\ Hold(b, S).withdrawn = b.withdrawn
         /\ Hold(b, S).discarded = b.discarded
BY DEF Hold, Box, Pending, Unreserved

LEMMA UnholdFacts ==
  ASSUME NEW b \in Box, NEW m
  PROVE  /\ Unhold(b, m) \in Box
         /\ Pending(Unhold(b, m)) = Pending(b)
         /\ Unhold(b, m).held = b.held \ {m}
         /\ Unhold(b, m).reserved = b.reserved
         /\ Unhold(b, m).withdrawn = b.withdrawn
         /\ Unhold(b, m).discarded = b.discarded
BY DEF Unhold, Box, Pending

\* What waits and is the user's is held, the rest is as it was.
LEMMA HoldUnsentFacts ==
  ASSUME NEW b \in Box
  PROVE  /\ HoldUnsent(b) \in Box
         /\ Pending(HoldUnsent(b)) = Pending(b)
         /\ HoldUnsent(b).held = b.held \union
                                  (User \intersect (Pending(b) \ b.reserved))
         /\ HoldUnsent(b).reserved = b.reserved
         /\ HoldUnsent(b).withdrawn = b.withdrawn
         /\ HoldUnsent(b).discarded = b.discarded
BY HoldFacts DEF HoldUnsent

-----------------------------------------------------------------------------
(***************************************************************************)
(* Claims.                                                                 *)
(***************************************************************************)

LEMMA SettledFacts ==
  ASSUME NEW b \in Box
  PROVE  /\ Settled(b) \in Box
         /\ Pending(Settled(b)) = Pending(b)
         /\ Settled(b).held = b.held
         /\ Settled(b).reserved = {}
         /\ Settled(b).withdrawn = {}
         /\ Settled(b).discarded = b.discarded
BY DEF Settled, Box, Pending

\* A claim reserves pending messages that nobody holds.
LEMMA ClaimFacts ==
  ASSUME NEW b \in Box, NEW t
  PROVE  /\ Claim(b, t) \in Box
         /\ Pending(Claim(b, t)) = Pending(b)
         /\ Claim(b, t).held = b.held
         /\ Claim(b, t).reserved \subseteq Pending(b) \ b.held
         /\ Claim(b, t).withdrawn = b.withdrawn
         /\ Claim(b, t).discarded = b.discarded
<1>1. ClaimSet(b, t) \subseteq Pending(b) \ b.held
  BY DEF ClaimSet, FirstOfTurn, On, Pending
<1>2. ClaimSet(b, t) \in SUBSET Msg
  BY <1>1 DEF Pending
<1> QED
  BY <1>1, <1>2 DEF Claim, Box, Pending

LEMMA WithdrawFacts ==
  ASSUME NEW b \in Box, NEW m \in Msg
  PROVE  /\ Withdraw(b, m) \in Box
         /\ Pending(Withdraw(b, m)) = Pending(b)
         /\ Withdraw(b, m).held = b.held
         /\ Withdraw(b, m).reserved = b.reserved
         /\ Withdraw(b, m).withdrawn = b.withdrawn \union {m}
         /\ Withdraw(b, m).discarded = b.discarded
BY DEF Withdraw, Box, Pending

\* commit: every claimed message leaves, the ones that did not enter are
\* discarded, and the claim is settled.
LEMMA CommitFacts ==
  ASSUME NEW b \in Box, NEW E
  PROVE  LET P == b.reserved \intersect Pending(b)
             c == Commit(b, E)
         IN  /\ c \in Box
             /\ Pending(c) = Pending(b) \ P
             /\ c.held = b.held \ (P \ E)
             /\ c.reserved = {} /\ c.withdrawn = {}
             /\ c.discarded = b.discarded \union (P \ E)
<1> DEFINE P == b.reserved \intersect Pending(b)
           u == Settled(b)
           v == Without(u, P \intersect E)
<1>1. P \ E \in SUBSET Msg
  BY DEF Pending
<1>2. u \in Box /\ Pending(u) = Pending(b) /\ u.held = b.held
      /\ u.reserved = {} /\ u.withdrawn = {} /\ u.discarded = b.discarded
  BY SettledFacts
<1>3. v \in Box /\ Pending(v) = Pending(u) \ (P \intersect E)
      /\ v.held = u.held /\ v.reserved = u.reserved
      /\ v.withdrawn = u.withdrawn /\ v.discarded = u.discarded
  <2> HIDE DEF u
  <2> QED BY <1>2, WithoutFacts
<1>4. Commit(b, E) = Discard(v, P \ E)
  BY DEF Commit
<1> HIDE DEF v, u
<1> QED
  BY <1>1, <1>2, <1>3, <1>4, DiscardFacts

\* release: the withdrawn messages are discarded, the others stay.
LEMMA ReleaseFacts ==
  ASSUME NEW b \in Box
  PROVE  LET W == b.withdrawn \intersect Pending(b)
             r == Release(b)
         IN  /\ r \in Box
             /\ Pending(r) = Pending(b) \ W
             /\ r.held = b.held \ W
             /\ r.reserved = {} /\ r.withdrawn = {}
             /\ r.discarded = b.discarded \union W
<1> DEFINE W == b.withdrawn \intersect Pending(b)
           u == Settled(b)
<1>1. W \in SUBSET Msg
  BY DEF Pending
<1>2. u \in Box /\ Pending(u) = Pending(b) /\ u.held = b.held
      /\ u.reserved = {} /\ u.withdrawn = {} /\ u.discarded = b.discarded
  BY SettledFacts
<1>3. Release(b) = Discard(u, W)
  BY DEF Release
<1> HIDE DEF u
<1> QED
  BY <1>1, <1>2, <1>3, DiscardFacts

\* Reopening: every pending user message is held, no claim is open.
LEMMA ReopenFacts ==
  ASSUME NEW b \in Box
  PROVE  /\ Reopen(b) \in Box
         /\ Pending(Reopen(b)) = Pending(b)
         /\ Reopen(b).held = User \intersect Pending(b)
         /\ Reopen(b).reserved = {}
         /\ Reopen(b).withdrawn = {}
         /\ Reopen(b).discarded = b.discarded
BY DEF Reopen, Settled, Box, Pending

-----------------------------------------------------------------------------

\* c is what is left of inbox b.
Shrinks(b, c) ==
  /\ c \in Box /\ Pending(c) \subseteq Pending(b)
  /\ On(c, "next-turn") \subseteq On(b, "next-turn")

\* c is attempt a, perhaps further on, or no attempt.
Keeps(a, c) ==
  \/ c = NoAttempt
  \/ /\ c.msg = a.msg /\ c.ref = a.ref /\ c.round = a.round
     /\ (c.phase = "none") <=> (a.phase = "none")
     /\ c.phase = "queued" => a.phase = "queued"
     /\ a.stale => c.stale

\* The same, and c is no further on than a.
KeepsPhase(a, c) == Keeps(a, c) /\ (c = NoAttempt \/ c.phase = a.phase)

-----------------------------------------------------------------------------
(***************************************************************************)
(* The operations of the inbox that put nothing on it.                     *)
(***************************************************************************)

LEMMA ShrinksTransitive ==
  ASSUME NEW b, NEW c, NEW d, Shrinks(b, c), Shrinks(c, d)
  PROVE  Shrinks(b, d)
BY DEF Shrinks

LEMMA SameWhere ==
  ASSUME NEW b \in Box, NEW c \in Box, c.where = b.where
  PROVE  Shrinks(b, c)
BY DEF Shrinks, Pending, On

LEMMA WithoutShrinks ==
  ASSUME NEW b \in Box, NEW S
  PROVE  Shrinks(b, Without(b, S))
<1> DEFINE w == [m \in Msg |-> IF m \in S THEN "none" ELSE b.where[m]]
<1>1. Without(b, S).where = w
  BY DEF Without, Box
<1>2. \A m \in Msg : w[m] = "next-turn" => b.where[m] = "next-turn"
  OBVIOUS
<1> HIDE DEF w
<1>3. On(Without(b, S), "next-turn") \subseteq On(b, "next-turn")
  BY <1>1, <1>2 DEF On
<1> QED
  BY <1>3, WithoutFacts DEF Shrinks

LEMMA DiscardShrinks ==
  ASSUME NEW b \in Box, NEW S \in SUBSET Msg
  PROVE  Shrinks(b, Discard(b, S))
<1>1. Without(b, S) \in Box
  BY WithoutFacts
<1>2. Discard(b, S) \in Box /\ Discard(b, S).where = Without(b, S).where
  BY <1>1, DiscardFacts DEF Discard, Box
<1> QED
  BY <1>1, <1>2, SameWhere, WithoutShrinks, ShrinksTransitive

LEMMA DiscardWhereShrinks ==
  ASSUME NEW b \in Box, NEW S
  PROVE  Shrinks(b, DiscardWhere(b, S))
<1>1. S \intersect Unreserved(b) \in SUBSET Msg
  BY DEF Unreserved, Pending
<1> QED
  BY <1>1, DiscardShrinks DEF DiscardWhere

LEMMA HoldShrinks ==
  ASSUME NEW b \in Box, NEW S
  PROVE  Shrinks(b, Hold(b, S))
<1>1. Hold(b, S) \in Box /\ Hold(b, S).where = b.where
  BY HoldFacts DEF Hold, Box
<1> QED
  BY <1>1, SameWhere

LEMMA HoldUnsentShrinks ==
  ASSUME NEW b \in Box
  PROVE  Shrinks(b, HoldUnsent(b))
BY HoldShrinks DEF HoldUnsent

LEMMA UnholdShrinks ==
  ASSUME NEW b \in Box, NEW m
  PROVE  Shrinks(b, Unhold(b, m))
<1>1. Unhold(b, m) \in Box /\ Unhold(b, m).where = b.where
  BY UnholdFacts DEF Unhold, Box
<1> QED
  BY <1>1, SameWhere

LEMMA SettledShrinks ==
  ASSUME NEW b \in Box
  PROVE  Shrinks(b, Settled(b))
<1>1. Settled(b) \in Box /\ Settled(b).where = b.where
  BY SettledFacts DEF Settled, Box
<1> QED
  BY <1>1, SameWhere

LEMMA ClaimShrinks ==
  ASSUME NEW b \in Box, NEW target
  PROVE  Shrinks(b, Claim(b, target))
<1>1. Claim(b, target) \in Box /\ Claim(b, target).where = b.where
  BY ClaimFacts DEF Claim, Box
<1> QED
  BY <1>1, SameWhere

LEMMA WithdrawShrinks ==
  ASSUME NEW b \in Box, NEW m \in Msg
  PROVE  Shrinks(b, Withdraw(b, m))
<1>1. Withdraw(b, m) \in Box /\ Withdraw(b, m).where = b.where
  BY WithdrawFacts DEF Withdraw, Box
<1> QED
  BY <1>1, SameWhere

LEMMA CommitShrinks ==
  ASSUME NEW b \in Box, NEW E
  PROVE  Shrinks(b, Commit(b, E))
<1> DEFINE P == b.reserved \intersect Pending(b)
           u == Settled(b)
           v == Without(u, P \intersect E)
<1>1. Shrinks(b, u) /\ u \in Box
  BY SettledShrinks, SettledFacts
<1>2. Shrinks(u, v) /\ v \in Box
  BY <1>1, WithoutShrinks, WithoutFacts
<1>3. P \ E \in SUBSET Msg
  BY DEF Pending
<1>4. Shrinks(v, Discard(v, P \ E))
  BY <1>2, <1>3, DiscardShrinks
<1>5. Commit(b, E) = Discard(v, P \ E)
  BY DEF Commit
<1> HIDE DEF P, u, v
<1> QED
  BY <1>1, <1>2, <1>4, <1>5, ShrinksTransitive

LEMMA ReleaseShrinks ==
  ASSUME NEW b \in Box
  PROVE  Shrinks(b, Release(b))
<1> DEFINE W == b.withdrawn \intersect Pending(b)
           u == Settled(b)
<1>1. Shrinks(b, u) /\ u \in Box
  BY SettledShrinks, SettledFacts
<1>2. W \in SUBSET Msg
  BY DEF Pending
<1>3. Shrinks(u, Discard(u, W))
  BY <1>1, <1>2, DiscardShrinks
<1>4. Release(b) = Discard(u, W)
  BY DEF Release
<1> HIDE DEF W, u
<1> QED
  BY <1>1, <1>3, <1>4, ShrinksTransitive

LEMMA ReopenShrinks ==
  ASSUME NEW b \in Box
  PROVE  Shrinks(b, Reopen(b))
<1>1. Settled(b) \in Box /\ Settled(b).where = b.where
  BY SettledFacts DEF Settled, Box
<1>2. Reopen(b) \in Box /\ Reopen(b).where = Settled(b).where
  BY <1>1, ReopenFacts DEF Reopen, Box
<1> QED
  BY <1>1, <1>2, SameWhere

\* A message that is appended to a list comes to no other list.
LEMMA AppendLists ==
  ASSUME NEW b \in Box, NEW m \in Msg, NEW l \in Lists
  PROVE  On(AppendTo(b, l, m), "next-turn") \subseteq
           On(b, "next-turn") \union (IF l = "next-turn" THEN {m} ELSE {})
<1> DEFINE w == [b.where EXCEPT ![m] = l]
<1>1. AppendTo(b, l, m).where = w
  BY DEF AppendTo, Box
<1>2. \A k \in Msg : w[k] = IF k = m THEN l ELSE b.where[k]
  BY DEF Box
<1> HIDE DEF w
<1> QED
  BY <1>1, <1>2 DEF On

\* releaseClaim, after a stop too.
LEMMA ReleasedFacts ==
  ASSUME TypeOK
  PROVE  Shrinks(box, Released) /\ Released \in Box /\ Released.reserved = {}
<1> DEFINE b == Release(box)
           r == box.reserved \ box.withdrawn
           d == DiscardWhere(b, r \ User)
           h == Hold(d, r \intersect User)
<1>1. Shrinks(box, b) /\ b \in Box /\ b.reserved = {}
  BY ReleaseShrinks, ReleaseFacts DEF TypeOK
<1>2. Shrinks(b, d) /\ d \in Box /\ d.reserved = {}
  BY <1>1, DiscardWhereShrinks, DiscardWhereFacts
<1>3. Shrinks(d, h) /\ h \in Box /\ h.reserved = {}
  BY <1>2, HoldShrinks, HoldFacts
<1>4. Released = IF stopping THEN h ELSE b
  BY DEF Released
<1> HIDE DEF b, d, h
<1> QED
  BY <1>1, <1>2, <1>3, <1>4, ShrinksTransitive

-----------------------------------------------------------------------------
(***************************************************************************)
(* The goal domain and the observers keep the attempt, or drop it.         *)
(***************************************************************************)

Goal    == [ref : Nat, phase : Phases, max : Nat, rounds : Nat]
Attempt == [msg : SUBSET Round, ref : Nat, round : Nat,
            phase : {"none", "queued", "claimed", "admitted"},
            stale : BOOLEAN, cancelled : BOOLEAN, rejected : BOOLEAN]

LEMMA GoalsType ==
  Goals = [goal : Goal, last : Nat, armed : BOOLEAN, attempt : Attempt,
           competing : BOOLEAN, requested : BOOLEAN]
BY DEF Goals, Goal, Attempt

LEMMA KeepsItself ==
  ASSUME NEW a
  PROVE  KeepsPhase(a, a)
BY DEF Keeps, KeepsPhase

LEMMA NoAttemptType == NoAttempt \in Attempt /\ NoAttempt.phase = "none"
BY DEF NoAttempt, Attempt

\* The plain updates of one value of goals.
LEMMA UpdateFacts ==
  ASSUME NEW g \in Goals, NEW x \in BOOLEAN, NEW a \in Attempt
  PROVE  /\ [g EXCEPT !.requested = x] \in Goals
         /\ [g EXCEPT !.requested = x].attempt = g.attempt
         /\ [g EXCEPT !.competing = x] \in Goals
         /\ [g EXCEPT !.competing = x].attempt = g.attempt
         /\ [g EXCEPT !.armed = x] \in Goals
         /\ [g EXCEPT !.armed = x].attempt = g.attempt
         /\ [g EXCEPT !.attempt = a] \in Goals
         /\ [g EXCEPT !.attempt = a].attempt = a
BY DEF Goals, Goal, Attempt

LEMMA DisarmedFacts ==
  ASSUME NEW g \in Goals
  PROVE  Disarmed(g) \in Goals /\ Disarmed(g).attempt = g.attempt
BY DEF Disarmed, Goals, Goal, Attempt

LEMMA RequestDriveFacts ==
  ASSUME NEW g \in Goals
  PROVE  RequestDrive(g) \in Goals /\ RequestDrive(g).attempt = g.attempt
BY DEF RequestDrive, Goals, Goal, Attempt

Changed(g, goal, n, armed) ==
  [g EXCEPT !.goal = goal, !.last = n, !.armed = armed]

LEMMA ChangedFacts ==
  ASSUME NEW g \in Goals, NEW goal \in Goal, NEW n \in Nat,
         NEW armed \in BOOLEAN
  PROVE  /\ Changed(g, goal, n, armed) \in Goals
         /\ Changed(g, goal, n, armed).attempt = g.attempt
BY DEF Changed, Goals, Goal, Attempt

\* commit and its changes: the attempt is left alone.
LEMMA CommittedFacts ==
  ASSUME NEW g \in Goals, NEW goal \in Goal, NEW armed \in BOOLEAN
  PROVE  /\ Committed(g, goal, armed) \in Goals
         /\ Committed(g, goal, armed).attempt = g.attempt
<1> DEFINE r   == RequestDrive(g)
           new == [goal EXCEPT !.ref = g.last + 1]
<1>1. g.last + 1 \in Nat
  BY DEF Goals, Goal, Attempt
<1>2. r \in Goals /\ r.attempt = g.attempt /\ r.last = g.last
  BY RequestDriveFacts DEF RequestDrive, Goals, Goal, Attempt
<1>3. new \in Goal
  BY <1>1 DEF Goal
<1>4. Committed(g, goal, armed) = Changed(r, new, g.last + 1, armed)
  BY <1>2 DEF Committed, Changed
<1> HIDE DEF r, new
<1> QED
  BY <1>1, <1>2, <1>3, <1>4, ChangedFacts

LEMMA MovedFacts ==
  ASSUME NEW g \in Goals, NEW phase \in Phases, NEW armed \in BOOLEAN
  PROVE  /\ Moved(g, phase, armed) \in Goals
         /\ Moved(g, phase, armed).attempt = g.attempt
<1>1. [g.goal EXCEPT !.phase = phase] \in Goal
  BY DEF Goals, Goal, Attempt
<1> QED
  BY <1>1, CommittedFacts DEF Moved

LEMMA InsertedFacts ==
  ASSUME NEW g \in Goals
  PROVE  /\ Inserted(g) \in Goals
         /\ KeepsPhase(g.attempt, Inserted(g).attempt)
         /\ Inserted(g).attempt.msg = g.attempt.msg
         /\ Inserted(g).attempt.phase = "queued" => Inserted(g).attempt.stale
<1> DEFINE s == g.attempt.stale \/ g.attempt.phase = "queued"
           a == [g.attempt EXCEPT !.stale = s]
<1>1. g.attempt \in Attempt
  BY DEF Goals, Goal, Attempt
<1>2. a \in Attempt /\ a.stale = s /\ a.msg = g.attempt.msg
      /\ a.ref = g.attempt.ref /\ a.round = g.attempt.round
      /\ a.phase = g.attempt.phase
  BY <1>1 DEF Attempt
<1>3. Inserted(g) = [g EXCEPT !.competing = TRUE, !.attempt = a]
  BY DEF Inserted, Goals, Goal, Attempt
<1>4. Inserted(g) \in Goals /\ Inserted(g).attempt = a
  <2> HIDE DEF a
  <2> QED BY <1>2, <1>3 DEF Goals, Goal, Attempt
<1>5. KeepsPhase(g.attempt, a)
  <2> HIDE DEF a
  <2> QED BY <1>2 DEF KeepsPhase, Keeps
<1> QED
  <2> HIDE DEF a
  <2> QED BY <1>2, <1>4, <1>5

\* turn/end changes what is known of the attempt, not where it is.
LEMMA TurnEndedFacts ==
  ASSUME NEW g \in Goals, NEW b, NEW reason
  PROVE  /\ TurnEnded(g, b, reason) \in Goals
         /\ KeepsPhase(g.attempt, TurnEnded(g, b, reason).attempt)
         /\ TurnEnded(g, b, reason).attempt.msg = g.attempt.msg
         /\ TurnEnded(g, b, reason).attempt.phase = g.attempt.phase
<1> DEFINE x == [g EXCEPT !.attempt.cancelled = TRUE]
           y == [g EXCEPT !.attempt.rejected = TRUE]
           Fine(h) == /\ h \in Goals /\ KeepsPhase(g.attempt, h.attempt)
                      /\ h.attempt.msg = g.attempt.msg
                      /\ h.attempt.phase = g.attempt.phase
<1>1. Fine(g) /\ Fine(Disarmed(g))
  BY KeepsItself, DisarmedFacts
<1>2. x \in Goals /\ y \in Goals
  BY DEF Goals, Goal, Attempt
<1>3. /\ x.attempt = [g.attempt EXCEPT !.cancelled = TRUE]
      /\ y.attempt = [g.attempt EXCEPT !.rejected = TRUE]
  BY DEF Goals, Goal, Attempt
<1>4. g.attempt \in Attempt
  BY DEF Goals, Goal, Attempt
<1>5. Fine(x)
  <2> HIDE DEF x
  <2> QED BY <1>2, <1>3, <1>4 DEF KeepsPhase, Keeps, Attempt
<1>6. Fine(y)
  <2> HIDE DEF y
  <2> QED BY <1>2, <1>3, <1>4 DEF KeepsPhase, Keeps, Attempt
<1>7. TurnEnded(g, b, reason) \in {g, Disarmed(g), x, y}
  <2> HIDE DEF x, y
  <2> QED BY DEF TurnEnded, x, y
<1> HIDE DEF x, y
<1> QED
  BY <1>1, <1>5, <1>6, <1>7

\* onIdle.
LEMMA IdleGoalsFacts ==
  ASSUME NEW g \in Goals, NEW b
  PROVE  /\ IdleGoals(g, b) \in Goals
         /\ IdleGoals(g, b).attempt \in {g.attempt, NoAttempt}
<1> DEFINE free == [g EXCEPT !.competing = FALSE]
           none == [free EXCEPT !.attempt = NoAttempt]
           phase == IF g.attempt.rejected THEN "blocked" ELSE "paused"
<1>1. free \in Goals /\ free.attempt = g.attempt
  BY UpdateFacts, NoAttemptType
<1>2. none \in Goals /\ none.attempt = NoAttempt
  <2> HIDE DEF free
  <2> QED BY <1>1, UpdateFacts, NoAttemptType
<1>3. phase \in Phases
  BY DEF Phases
<1>4. IdleGoals(g, b) \in {Moved(none, phase, FALSE), RequestDrive(free)}
  BY DEF IdleGoals
<1> HIDE DEF free, none, phase
<1>5. /\ Moved(none, phase, FALSE) \in Goals
      /\ Moved(none, phase, FALSE).attempt = NoAttempt
  <2>1. FALSE \in BOOLEAN
    OBVIOUS
  <2> QED BY <1>2, <1>3, <2>1, MovedFacts
<1>6. /\ RequestDrive(free) \in Goals
      /\ RequestDrive(free).attempt = g.attempt
  BY <1>1, RequestDriveFacts
<1> QED
  BY <1>4, <1>5, <1>6

EnteredAs(g, goal, a) == [g EXCEPT !.goal = goal, !.attempt = a]

LEMMA EnteredAsFacts ==
  ASSUME NEW g \in Goals, NEW goal \in Goal, NEW a \in Attempt
  PROVE  EnteredAs(g, goal, a) \in Goals /\ EnteredAs(g, goal, a).attempt = a
BY DEF EnteredAs, Goals, Goal, Attempt

\* A user/message event of the attempt's message admits it.
LEMMA EnteredFacts ==
  ASSUME NEW g \in Goals, NEW E,
         (g.attempt.msg = {}) <=> (g.attempt.phase = "none")
  PROVE  LET a == g.attempt
             c == Entered(g, E).attempt
         IN  /\ Entered(g, E) \in Goals /\ Keeps(a, c) /\ c.msg = a.msg
             /\ c.phase = IF a.msg # {} /\ a.msg \subseteq E
                          THEN "admitted" ELSE a.phase
<1> DEFINE in    == g.attempt.msg # {} /\ g.attempt.msg \subseteq E
           phase == IF in THEN "admitted" ELSE g.attempt.phase
           more  == {r \in E \intersect Round :
                       IsNextRound(g.goal, reservations[r])} = {}
           count == IF more THEN g.goal.rounds ELSE g.goal.rounds + 1
           goal  == [g.goal EXCEPT !.rounds = count]
           a     == [g.attempt EXCEPT !.phase = phase]
<1>1. g.attempt \in Attempt /\ g.goal \in Goal
  BY DEF Goals, Goal, Attempt
<1>2. a \in Attempt /\ a.phase = phase /\ a.msg = g.attempt.msg
      /\ a.ref = g.attempt.ref /\ a.round = g.attempt.round
      /\ a.stale = g.attempt.stale
  BY <1>1 DEF Attempt
<1>3. goal \in Goal
  BY <1>1 DEF Goal
<1>4. Entered(g, E) = EnteredAs(g, goal, a)
  BY DEF Entered, EnteredAs, Goals, Goal, Attempt
<1>5. Entered(g, E) \in Goals /\ Entered(g, E).attempt = a
  <2> HIDE DEF goal, a
  <2> QED BY <1>2, <1>3, <1>4, EnteredAsFacts
<1>6. Keeps(g.attempt, a)
  <2> HIDE DEF a
  <2> QED BY <1>2 DEF Keeps
<1> HIDE DEF a
<1> QED
  BY <1>2, <1>5, <1>6

-----------------------------------------------------------------------------
(***************************************************************************)
(* What a step preserves that only takes messages off the inbox.           *)
(***************************************************************************)

LEMMA Kept ==
  ASSUME IInv, TypeOK', Shrinks(box, box'),
         Keeps(goals.attempt, goals'.attempt),
         sent' = sent, reservations' = reservations
  PROVE  AttemptReserved' /\ OneRound' /\ NothingBehindRound'
<1>1. /\ Pending(box') \subseteq Pending(box)
      /\ On(box', "next-turn") \subseteq On(box, "next-turn")
  BY DEF Shrinks
<1>2. goals'.attempt.stale \in BOOLEAN /\ goals.attempt.stale \in BOOLEAN
  BY DEF IInv, TypeOK, Goals
<1>3. CASE goals'.attempt = NoAttempt
  <2>1. goals'.attempt.msg = {} /\ goals'.attempt.phase = "none"
    BY <1>3 DEF NoAttempt
  <2> QED BY <1>1, <2>1 DEF IInv, AttemptReserved, OneRound, NothingBehindRound
<1>4. CASE goals'.attempt # NoAttempt
  <2>1. /\ goals'.attempt.msg = goals.attempt.msg
        /\ goals'.attempt.ref = goals.attempt.ref
        /\ goals'.attempt.round = goals.attempt.round
        /\ (goals'.attempt.phase = "none") <=> (goals.attempt.phase = "none")
        /\ goals'.attempt.phase = "queued" => goals.attempt.phase = "queued"
        /\ goals.attempt.stale => goals'.attempt.stale
    BY <1>4 DEF Keeps
  <2>2. OneRound'
    BY <1>1 DEF IInv, OneRound
  <2>3. NothingBehindRound'
    BY <1>1, <1>2, <2>1 DEF IInv, NothingBehindRound
  <2>4. AttemptReserved'
    BY <1>1, <2>1 DEF IInv, AttemptReserved
  <2> QED BY <2>2, <2>3, <2>4
<1> QED
  BY <1>3, <1>4

\* A step in which the agent does not move on from the gate.
LEMMA QuietStep ==
  ASSUME IInv, TypeOK', Shrinks(box, box'),
         KeepsPhase(goals.attempt, goals'.attempt),
         sent' = sent, reservations' = reservations,
         ClaimsSound',
         pc # "gated" \/ (pc' = pc /\ passed' = passed)
  PROVE  IInv'
<1>1. Keeps(goals.attempt, goals'.attempt)
  BY DEF KeepsPhase
<1>2. AttemptReserved' /\ OneRound' /\ NothingBehindRound'
  BY <1>1, Kept
<1>3. ClaimedIsPassing'
  <2>1. Pending(box') \subseteq Pending(box)
    BY DEF Shrinks
  <2>2. \/ goals'.attempt.msg = {}
        \/ /\ goals'.attempt.msg = goals.attempt.msg
           /\ goals'.attempt.phase = goals.attempt.phase
    BY DEF KeepsPhase, Keeps, NoAttempt
  <2> QED BY <2>1, <2>2 DEF IInv, ClaimedIsPassing
<1> QED
  BY <1>2, <1>3 DEF IInv

\* The end of a turn that closes its claim: a round that was claimed and is
\* still on the inbox is discarded, because its turn did not succeed.
LEMMA EndTurnKeeps ==
  ASSUME IInv, NEW reason, NEW b, Shrinks(box, b), b.reserved = {},
         EndTurn(reason, b, goals),
         /\ goals.attempt.msg # {} /\ goals.attempt.msg \subseteq Pending(b)
         /\ goals.attempt.phase # "queued"
         => /\ goals.attempt.phase = "claimed"
            /\ reason \notin {"completed", "max-tokens"}
  PROVE  IInv'
<1> DEFINE c       == IF reason \in {"error", "blocked"} THEN HoldUnsent(b) ELSE b
           ended   == TurnEnded(goals, b, reason)
           more    == reason \in {"completed", "max-tokens"} /\ HasClaimable(c)
           restart == wake /\ HasClaimable(c)
           kept    == IF restart THEN c ELSE HoldUnsent(c)
           a       == goals.attempt
<1>1. Shrinks(box, c) /\ c \in Box /\ c.reserved = {}
  <2>1. b \in Box
    BY DEF Shrinks
  <2>2. Shrinks(b, HoldUnsent(b)) /\ HoldUnsent(b) \in Box
        /\ HoldUnsent(b).reserved = {}
    BY <2>1, HoldUnsentShrinks, HoldUnsentFacts
  <2> QED BY <2>1, <2>2, ShrinksTransitive
<1>2. Shrinks(box, kept) /\ kept \in Box /\ kept.reserved = {}
  <2> HIDE DEF c, restart
  <2>1. Shrinks(c, HoldUnsent(c)) /\ HoldUnsent(c) \in Box
        /\ HoldUnsent(c).reserved = {}
    BY <1>1, HoldUnsentShrinks, HoldUnsentFacts
  <2> QED BY <1>1, <2>1, ShrinksTransitive
<1>3. /\ ended \in Goals /\ KeepsPhase(a, ended.attempt)
      /\ ended.attempt.msg = a.msg /\ ended.attempt.phase = a.phase
  BY TurnEndedFacts DEF IInv, TypeOK
<1>4. Pending(c) \subseteq Pending(b) /\ Pending(kept) \subseteq Pending(b)
  <2>1. Pending(HoldUnsent(b)) = Pending(b)
    BY HoldUnsentFacts DEF Shrinks
  <2>2. Pending(c) = Pending(b)
    BY <2>1
  <2>3. Pending(HoldUnsent(c)) = Pending(c)
    <3> HIDE DEF c
    <3> QED BY <1>1, HoldUnsentFacts
  <2> HIDE DEF c
  <2> QED BY <2>2, <2>3
<1>5. CASE more
  <2>1. /\ box' = c /\ goals' = ended /\ pc' = "loop"
        /\ aborted' = FALSE /\ wake' = FALSE /\ stepped' = FALSE
        /\ passed' = {} /\ turn' = {} /\ stopping' = stopping
        /\ mayRun' \in BOOLEAN /\ missed' \in BOOLEAN
        /\ UNCHANGED <<sent, reservations, env>>
    BY <1>5 DEF EndTurn
  <2>2. TypeOK'
    <3> HIDE DEF c, ended
    <3> QED BY <1>1, <1>3, <2>1 DEF IInv, TypeOK, env
  <2>3. ClaimsSound'
    <3> HIDE DEF c
    <3> QED BY <1>1, <2>1 DEF ClaimsSound
  <2>4. AttemptReserved' /\ OneRound' /\ NothingBehindRound'
    <3> HIDE DEF c, ended
    <3> QED BY <1>1, <1>3, <2>1, <2>2, Kept DEF KeepsPhase
  <2>5. ClaimedIsPassing'
    <3>1. reason \in {"completed", "max-tokens"}
      BY <1>5
    <3> HIDE DEF c, ended
    <3> QED BY <1>3, <1>4, <2>1, <3>1 DEF ClaimedIsPassing
  <2> QED BY <2>2, <2>3, <2>4, <2>5 DEF IInv
<1>6. CASE ~more
  <2> DEFINE e == IdleGoals(ended, kept)
             x == IdleBox(ended, kept)
  <2>1. /\ box' = x /\ goals' = e /\ pc' \in {"loop", "idle"}
        /\ aborted' = FALSE /\ wake' = FALSE /\ stepped' = FALSE
        /\ passed' = {} /\ turn' = {} /\ stopping' = FALSE
        /\ mayRun' \in BOOLEAN /\ missed' \in BOOLEAN
        /\ UNCHANGED <<sent, reservations, env>>
    BY <1>6 DEF EndTurn, Begin, Rest
  <2>2. Shrinks(box, x) /\ x \in Box /\ x.reserved = {}
    <3> HIDE DEF kept, ended
    <3>1. Shrinks(kept, DiscardWhere(kept, ended.attempt.msg))
          /\ DiscardWhere(kept, ended.attempt.msg) \in Box
          /\ DiscardWhere(kept, ended.attempt.msg).reserved = {}
      BY <1>2, DiscardWhereShrinks, DiscardWhereFacts
    <3> QED BY <1>2, <3>1, ShrinksTransitive DEF IdleBox
  <2>3. e \in Goals /\ e.attempt \in {ended.attempt, NoAttempt}
    <3> HIDE DEF kept, ended
    <3> QED BY <1>3, IdleGoalsFacts
  <2>4. KeepsPhase(a, e.attempt)
    <3> HIDE DEF e, ended
    <3>1. KeepsPhase(a, NoAttempt)
      BY DEF KeepsPhase, Keeps
    <3> QED BY <1>3, <2>3, <3>1
  <2>5. TypeOK'
    <3> HIDE DEF x, e
    <3> QED BY <2>1, <2>2, <2>3 DEF IInv, TypeOK, env
  <2>6. ClaimsSound'
    <3> HIDE DEF x
    <3> QED BY <2>1, <2>2 DEF ClaimsSound
  <2>7. AttemptReserved' /\ OneRound' /\ NothingBehindRound'
    <3> HIDE DEF x, e
    <3> QED BY <2>1, <2>2, <2>4, <2>5, Kept DEF KeepsPhase
  <2>8. ClaimedIsPassing'
    <3> SUFFICES ASSUME e.attempt.msg # {}, e.attempt.msg \subseteq Pending(x),
                        e.attempt.phase # "queued"
                 PROVE  FALSE
      <4> HIDE DEF x, e
      <4> QED BY <2>1 DEF ClaimedIsPassing
    <3>1. e.attempt.msg = a.msg /\ e.attempt.phase = a.phase
      <4> HIDE DEF e, ended
      <4> QED BY <1>3, <2>3 DEF NoAttempt
    <3>2. Pending(x) \subseteq Pending(kept)
      <4> HIDE DEF kept, ended
      <4>1. Pending(DiscardWhere(kept, ended.attempt.msg)) \subseteq Pending(kept)
        BY <1>2, DiscardWhereShrinks DEF Shrinks
      <4> QED BY <4>1 DEF IdleBox
    <3>3. a.phase = "claimed" /\ a.msg \subseteq Pending(kept)
      <4> HIDE DEF x, e, kept
      <4> QED BY <1>4, <3>1, <3>2
    <3>4. Failed(ended, kept)
      <4> HIDE DEF kept, ended
      <4> QED BY <1>3, <3>1, <3>3 DEF Failed, StillQueued
    <3>5. Pending(x) = Pending(kept) \ (a.msg \intersect Pending(kept))
      <4> HIDE DEF kept, ended
      <4>1. Pending(DiscardWhere(kept, a.msg)) =
              Pending(kept) \ (a.msg \intersect (Pending(kept) \ kept.reserved))
        BY <1>2, DiscardWhereFacts
      <4>2. x = DiscardWhere(kept, a.msg)
        BY <1>3, <3>4 DEF IdleBox
      <4> HIDE DEF x
      <4> QED BY <1>2, <4>1, <4>2
    <3> HIDE DEF x, e, kept
    <3> QED BY <3>1, <3>5
  <2> QED BY <2>5, <2>6, <2>7, <2>8 DEF IInv
<1> QED
  BY <1>5, <1>6

-----------------------------------------------------------------------------
(***************************************************************************)
(* The steps of the agent's driver.                                        *)
(***************************************************************************)

\* Outside the gate nothing is reserved and no round is claimed.
LEMMA NoClaimFacts ==
  ASSUME IInv, pc \notin {"preparing", "gated"}
  PROVE  /\ box.reserved = {} /\ passed = {}
         /\ goals.attempt.msg # {} /\ goals.attempt.msg \subseteq Pending(box)
              => goals.attempt.phase = "queued"
BY DEF IInv, ClaimsSound, ClaimedIsPassing

LEMMA ClaimStepKeeps ==
  ASSUME IInv, ClaimStep
  PROVE  IInv'
<1> DEFINE target == IF stepped THEN "next-step" ELSE "next-turn"
           c == Claim(box, target)
<1>1. /\ box' = c /\ pc = "loop" /\ pc' = "preparing" /\ goals' = goals
      /\ UNCHANGED <<sent, aborted, stopping, wake, stepped, passed, turn,
                     reservations, env, mayRun, missed>>
  BY DEF ClaimStep
<1>2. /\ c \in Box /\ Pending(c) = Pending(box)
      /\ c.reserved \subseteq Pending(box) /\ Shrinks(box, c)
  BY ClaimFacts, ClaimShrinks DEF IInv, TypeOK
<1> HIDE DEF c
<1>3. TypeOK'
  BY <1>1, <1>2 DEF IInv, TypeOK, env
<1>4. ClaimsSound'
  BY <1>1, <1>2, NoClaimFacts DEF ClaimsSound
<1> QED
  BY <1>1, <1>2, <1>3, <1>4, KeepsItself, QuietStep

LEMMA GateKeeps ==
  ASSUME IInv, Gate
  PROVE  IInv'
<1> DEFINE round == box.reserved \intersect Round
           ours  == round # {} /\ goals.attempt.msg = round
           valid == \A r \in round : Valid(r)
           g     == goals.attempt
           claimed == [g EXCEPT !.phase = "claimed"]
           x == [goals EXCEPT !.attempt = claimed]
           none == [goals EXCEPT !.attempt = NoAttempt]
           y == RequestDrive(none)
<1>1. /\ pc = "preparing" /\ pc' = "gated"
      /\ passed' = IF valid THEN box.reserved ELSE box.reserved \ round
      /\ goals' = CASE ours /\ valid  -> [goals EXCEPT !.attempt.phase = "claimed"]
                    [] ours /\ ~valid -> y
                    [] OTHER          -> goals
      /\ missed' = (missed /\ (~ours \/ valid))
      /\ UNCHANGED <<box, sent, aborted, stopping, wake, stepped, turn,
                     reservations, env, mayRun>>
  BY DEF Gate
<1>2. goals \in Goals /\ g \in Attempt
  BY DEF IInv, TypeOK, Goals, Attempt
<1>3. /\ claimed \in Attempt /\ claimed.msg = g.msg /\ claimed.ref = g.ref
      /\ claimed.round = g.round /\ claimed.stale = g.stale
      /\ claimed.phase = "claimed"
  BY <1>2 DEF Attempt
<1>4. [goals EXCEPT !.attempt.phase = "claimed"] = x
  BY <1>2 DEF Goals
<1>5. x \in Goals /\ x.attempt = claimed
  <2> HIDE DEF claimed
  <2> QED BY <1>2, <1>3, UpdateFacts
<1>6. y \in Goals /\ y.attempt = NoAttempt
  <2>1. none \in Goals /\ none.attempt = NoAttempt
    BY <1>2, UpdateFacts, NoAttemptType
  <2> HIDE DEF none
  <2> QED BY <2>1, RequestDriveFacts
<1>7. /\ box \in Box /\ Shrinks(box, box) /\ box.reserved \subseteq Pending(box)
      /\ Round \subseteq Msg
  BY SameWhere, GoalAssumption DEF IInv, TypeOK, ClaimsSound
<1>8. \/ ours /\ valid /\ goals' = x
      \/ goals' = y
      \/ ~ours /\ goals' = goals
  <2> HIDE DEF x, y, ours, valid
  <2> QED BY <1>1, <1>4
<1>9. passed' \subseteq box.reserved /\ (valid => passed' = box.reserved)
  BY <1>1
<1>10. TypeOK'
  <2>1. goals' \in Goals /\ missed' \in BOOLEAN
    <3> HIDE DEF x, y, ours, valid
    <3> QED BY <1>1, <1>2, <1>5, <1>6, <1>8 DEF IInv, TypeOK
  <2>2. passed' \subseteq Msg
    BY <1>7, <1>9 DEF Pending
  <2> HIDE DEF x, y, ours, valid
  <2> QED BY <1>1, <2>1, <2>2 DEF IInv, TypeOK, env
<1>11. ClaimsSound'
  <2> HIDE DEF x, y, ours, valid
  <2> QED BY <1>1, <1>7, <1>9 DEF ClaimsSound
<1>12. \/ goals'.attempt = claimed /\ ours /\ valid
       \/ goals'.attempt = NoAttempt
       \/ goals'.attempt = g /\ ~ours
  <2> HIDE DEF claimed, x, y, ours, valid
  <2> QED BY <1>5, <1>6, <1>8
<1>13. AttemptReserved' /\ OneRound' /\ NothingBehindRound'
  <2>1. ours => g.phase # "none"
    BY DEF IInv, AttemptReserved
  <2>2. Keeps(g, goals'.attempt)
    <3>1. ours => Keeps(g, claimed)
      <4> HIDE DEF claimed, ours, g
      <4> QED BY <1>3, <2>1 DEF Keeps
    <3>2. Keeps(g, NoAttempt) /\ Keeps(g, g)
      BY DEF Keeps
    <3> HIDE DEF claimed, ours, valid, g
    <3> QED BY <1>12, <3>1, <3>2
  <2>3. box' = box /\ sent' = sent /\ reservations' = reservations
    BY <1>1
  <2> QED BY <1>7, <1>10, <2>2, <2>3, Kept
<1>14. ClaimedIsPassing'
  <2>1. CASE goals'.attempt = claimed /\ ours /\ valid
    <3>1. claimed.msg \subseteq passed' /\ claimed.phase = "claimed"
      <4>1. claimed.msg \subseteq box.reserved
        BY <1>3, <2>1
      <4> QED BY <1>3, <1>9, <2>1, <4>1
    <3> HIDE DEF claimed
    <3> QED BY <1>1, <2>1, <3>1 DEF ClaimedIsPassing
  <2>2. CASE goals'.attempt = NoAttempt
    BY <2>2 DEF ClaimedIsPassing, NoAttempt
  <2>3. CASE goals'.attempt = g
    <3>1. g.msg # {} /\ g.msg \subseteq Pending(box) => g.phase = "queued"
      BY <1>1 DEF IInv, ClaimedIsPassing
    <3>2. box' = box
      BY <1>1
    <3> HIDE DEF g
    <3> QED BY <2>3, <3>1, <3>2 DEF ClaimedIsPassing
  <2> HIDE DEF claimed, ours, valid, g
  <2> QED BY <1>12, <2>1, <2>2, <2>3
<1> QED
  BY <1>10, <1>11, <1>13, <1>14 DEF IInv

LEMMA EnterStepKeeps ==
  ASSUME IInv, NEW context \in BOOLEAN, EnterStep(context)
  PROVE  IInv'
<1> DEFINE b == Commit(box, passed)
           e == Entered(goals, passed)
           a == goals.attempt
<1>1. pc = "gated"
  BY DEF EnterStep
<1>2. /\ b \in Box /\ Shrinks(box, b) /\ b.reserved = {}
      /\ Pending(b) = Pending(box) \ box.reserved
      /\ passed \subseteq box.reserved
  <2>1. b \in Box /\ b.reserved = {}
        /\ Pending(b) = Pending(box) \ (box.reserved \intersect Pending(box))
    BY CommitFacts DEF IInv, TypeOK
  <2>2. Shrinks(box, b)
    BY CommitShrinks DEF IInv, TypeOK
  <2> HIDE DEF b
  <2> QED BY <2>1, <2>2 DEF IInv, ClaimsSound
<1>3. a.msg # {} /\ a.msg \subseteq Pending(box) /\ a.phase # "queued"
        => a.phase = "claimed" /\ a.msg \subseteq passed
  BY DEF IInv, ClaimedIsPassing
<1>4. ~(a.msg # {} /\ a.msg \subseteq Pending(b) /\ a.phase # "queued")
  <2> HIDE DEF b
  <2> QED BY <1>2, <1>3
<1>5. CASE passed = {} /\ ~context /\ ~stepped
  <2>1. EndTurn("completed", b, goals)
    BY <1>5 DEF EnterStep
  <2> HIDE DEF b
  <2> QED BY <1>2, <1>4, <2>1, EndTurnKeeps
<1>6. CASE ~(passed = {} /\ ~context /\ ~stepped)
  <2>1. /\ box' = b /\ goals' = e /\ turn' = turn \union passed
        /\ pc' = "stepping" /\ stepped' = TRUE /\ passed' = {}
        /\ UNCHANGED <<sent, aborted, stopping, wake, reservations, env,
                       mayRun, missed>>
    BY <1>6 DEF EnterStep
  <2>2. /\ e \in Goals /\ Keeps(a, e.attempt) /\ e.attempt.msg = a.msg
        /\ e.attempt.phase = IF a.msg # {} /\ a.msg \subseteq passed
                             THEN "admitted" ELSE a.phase
    BY EnteredFacts DEF IInv, TypeOK, AttemptReserved
  <2> HIDE DEF b, e
  <2>3. TypeOK'
    BY <1>2, <2>1, <2>2 DEF IInv, TypeOK, env
  <2>4. ClaimsSound'
    BY <1>2, <2>1 DEF ClaimsSound
  <2>5. AttemptReserved' /\ OneRound' /\ NothingBehindRound'
    BY <1>2, <2>1, <2>2, <2>3, Kept
  <2>6. ClaimedIsPassing'
    <3>1. a.msg # {} /\ a.msg \subseteq passed => ~(a.msg \subseteq Pending(b))
      BY <1>2
    <3> QED BY <1>4, <2>1, <2>2, <3>1 DEF ClaimedIsPassing
  <2> QED BY <2>3, <2>4, <2>5, <2>6 DEF IInv
<1> QED
  BY <1>5, <1>6

\* A rejected, failed or aborted preparation.
LEMMA ReleasedKeeps ==
  ASSUME IInv, NEW reason \in {"blocked", "error", "aborted"},
         EndTurn(reason, Released, goals)
  PROVE  IInv'
<1>1. Shrinks(box, Released) /\ Released.reserved = {}
  BY ReleasedFacts DEF IInv
<1>2. Pending(Released) \subseteq Pending(box)
  BY <1>1 DEF Shrinks
<1>3. goals.attempt.msg # {} /\ goals.attempt.msg \subseteq Pending(Released)
      /\ goals.attempt.phase # "queued" => goals.attempt.phase = "claimed"
  BY <1>2 DEF IInv, ClaimedIsPassing
<1>4. reason \notin {"completed", "max-tokens"}
  OBVIOUS
<1> QED
  BY <1>1, <1>3, <1>4, EndTurnKeeps

\* The end of a turn whose steps all returned.
LEMMA StepEndKeeps ==
  ASSUME IInv, NEW reason, pc \in {"loop", "stepping"},
         EndTurn(reason, box, goals)
  PROVE  IInv'
<1>1. Shrinks(box, box)
  BY SameWhere DEF IInv, TypeOK
<1>2. box.reserved = {} /\ (goals.attempt.msg # {}
        /\ goals.attempt.msg \subseteq Pending(box)
        => goals.attempt.phase = "queued")
  BY NoClaimFacts
<1> QED
  BY <1>1, <1>2, EndTurnKeeps

LEMMA DriverKeeps ==
  ASSUME IInv, Driver
  PROVE  IInv'
<1>1. CASE ClaimStep
  BY <1>1, ClaimStepKeeps
<1>2. CASE BudgetSpent
  BY <1>2, StepEndKeeps DEF BudgetSpent
<1>3. CASE Gate
  BY <1>3, GateKeeps
<1>4. CASE \E context \in BOOLEAN : EnterStep(context)
  BY <1>4, EnterStepKeeps
<1>5. CASE RejectStep
  BY <1>5, ReleasedKeeps DEF RejectStep
<1>6. CASE PrepareFails
  BY <1>6, ReleasedKeeps DEF PrepareFails
<1>7. CASE PrepareAborted
  BY <1>7, ReleasedKeeps DEF PrepareAborted
<1>8. CASE \E reason \in {"completed", "max-tokens", "aborted", "error"} :
             StepEnds(reason)
  BY <1>8, StepEndKeeps DEF StepEnds
<1>9. CASE StepContinues \/ BeginMaintenance \/ EndMaintenance
  <2>1. /\ pc \in {"idle", "maintenance", "stepping"}
        /\ UNCHANGED <<box, sent, goals, reservations, env, mayRun, missed>>
        /\ pc' \in {"loop", "idle", "maintenance"}
        /\ aborted' \in BOOLEAN /\ stopping' \in BOOLEAN /\ wake' \in BOOLEAN
        /\ stepped' \in BOOLEAN /\ turn' \subseteq Msg
        /\ passed' \in {passed, {}}
    BY <1>9 DEF StepContinues, BeginMaintenance, EndMaintenance, Begin, Rest,
                IInv, TypeOK
  <2>2. TypeOK'
    BY <2>1 DEF IInv, TypeOK, env
  <2>3. ClaimsSound'
    BY <2>1, NoClaimFacts DEF ClaimsSound
  <2>4. Shrinks(box, box')
    BY <2>1, SameWhere DEF IInv, TypeOK
  <2> QED BY <2>1, <2>2, <2>3, <2>4, KeepsItself, QuietStep
<1> QED
  BY <1>1, <1>2, <1>3, <1>4, <1>5, <1>6, <1>7, <1>8, <1>9 DEF Driver

-----------------------------------------------------------------------------
(***************************************************************************)
(* The calls of users and other components, the goal's changes and drive.  *)
(***************************************************************************)

\* wakeDriver moves an idle agent, and no other.
LEMMA WakeFacts ==
  ASSUME TypeOK, NEW afterAbort \in BOOLEAN, Wake(afterAbort)
  PROVE  /\ aborted' \in BOOLEAN /\ stopping' \in BOOLEAN /\ wake' \in BOOLEAN
         /\ stepped' \in BOOLEAN /\ turn' \subseteq Msg
         /\ \/ pc # "idle" /\ pc' = pc /\ passed' = passed
            \/ pc = "idle" /\ pc' = "loop" /\ passed' = {}
BY DEF TypeOK, Wake, Begin

\* A new message is the user's, and no attempt.
LEMMA NewPromptFacts ==
  ASSUME IInv, NEW m \in User \ sent, NEW l \in Lists
  PROVE  LET c == AppendTo(box, l, m)
         IN  /\ c \in Box /\ Pending(c) = Pending(box) \union {m}
             /\ c.reserved = box.reserved
             /\ On(c, "next-turn") \subseteq On(box, "next-turn") \union
                  (IF l = "next-turn" THEN {m} ELSE {})
             /\ m \in Msg /\ m \notin Round /\ m \notin Pending(box)
<1>1. m \in Msg /\ m \notin Round /\ m \notin Pending(box) /\ box \in Box
  BY UserAssumption, GoalAssumption DEF IInv, TypeOK, AttemptReserved
<1> QED
  BY <1>1, AppendFacts, AppendLists

LEMMA PromptKeeps ==
  ASSUME IInv, NEW m \in User, Prompt(m)
  PROVE  IInv'
<1> DEFINE c == AppendTo(box, "next-turn", m)
           i == Inserted(goals)
           a == goals.attempt
<1>1. /\ m \in User \ sent /\ box' = c /\ sent' = sent \union {m} /\ goals' = i
      /\ Wake(aborted) /\ calls' = calls + 1
      /\ UNCHANGED <<reservations, busy, mayRun, missed>>
  BY DEF Prompt, Called
<1>2. /\ c \in Box /\ Pending(c) = Pending(box) \union {m}
      /\ c.reserved = box.reserved
      /\ m \in Msg /\ m \notin Round /\ m \notin Pending(box)
  BY <1>1, NewPromptFacts DEF Lists
<1>3. /\ i \in Goals /\ KeepsPhase(a, i.attempt) /\ i.attempt.msg = a.msg
      /\ i.attempt.phase = "queued" => i.attempt.stale
  BY InsertedFacts DEF IInv, TypeOK
<1>4. /\ i.attempt.phase = a.phase /\ i.attempt.ref = a.ref
      /\ i.attempt.round = a.round /\ a.msg \subseteq Round
  <2>1. i.attempt = NoAttempt => a.msg = {} /\ i.attempt.phase = "none"
    <3> HIDE DEF i
    <3> QED BY <1>3 DEF NoAttempt
  <2>2. a.msg = {} => a.phase = "none"
    BY DEF IInv, AttemptReserved
  <2>3. a.msg \subseteq Round
    BY DEF IInv, TypeOK, Goals
  <2>4. i.attempt.ref = a.ref /\ i.attempt.round = a.round
    BY DEF Inserted, IInv, TypeOK, Goals
  <2> HIDE DEF i
  <2> QED BY <1>3, <2>1, <2>2, <2>3, <2>4 DEF KeepsPhase
<1> HIDE DEF c, i
<1>5. /\ aborted' \in BOOLEAN /\ stopping' \in BOOLEAN /\ wake' \in BOOLEAN
      /\ stepped' \in BOOLEAN /\ turn' \subseteq Msg
      /\ \/ pc # "idle" /\ pc' = pc /\ passed' = passed
         \/ pc = "idle" /\ pc' = "loop" /\ passed' = {}
  BY <1>1, WakeFacts DEF IInv, TypeOK
<1>6. TypeOK'
  BY <1>1, <1>2, <1>3, <1>5 DEF IInv, TypeOK
<1>7. ClaimsSound'
  BY <1>1, <1>2, <1>5 DEF IInv, ClaimsSound
<1>8. OneRound' /\ NothingBehindRound'
  BY <1>1, <1>2, <1>3 DEF IInv, OneRound, NothingBehindRound
<1>9. AttemptReserved'
  BY <1>1, <1>2, <1>3, <1>4 DEF IInv, AttemptReserved
<1>10. ClaimedIsPassing'
  BY <1>1, <1>2, <1>3, <1>4, <1>5 DEF IInv, ClaimedIsPassing
<1> QED
  BY <1>6, <1>7, <1>8, <1>9, <1>10 DEF IInv

LEMMA SteerKeeps ==
  ASSUME IInv, NEW m \in User, Steer(m)
  PROVE  IInv'
<1> DEFINE c == AppendTo(box, "next-step", m)
<1>1. /\ m \in User \ sent /\ box' = c /\ sent' = sent \union {m}
      /\ calls' = calls + 1
      /\ UNCHANGED <<agent, goals, reservations, busy, mayRun, missed>>
  BY DEF Steer, Called
<1>2. /\ c \in Box /\ Pending(c) = Pending(box) \union {m}
      /\ c.reserved = box.reserved
      /\ On(c, "next-turn") \subseteq On(box, "next-turn")
      /\ m \in Msg /\ m \notin Round /\ m \notin Pending(box)
  BY <1>1, NewPromptFacts DEF Lists
<1>3. goals.attempt.msg \subseteq Round
  BY DEF IInv, TypeOK, Goals
<1> HIDE DEF c
<1>4. TypeOK'
  BY <1>1, <1>2 DEF IInv, TypeOK, agent
<1>5. ClaimsSound'
  BY <1>1, <1>2 DEF IInv, ClaimsSound, agent
<1>6. OneRound' /\ NothingBehindRound'
  BY <1>1, <1>2 DEF IInv, OneRound, NothingBehindRound
<1>7. AttemptReserved'
  BY <1>1, <1>2 DEF IInv, AttemptReserved
<1>8. ClaimedIsPassing'
  BY <1>1, <1>2, <1>3 DEF IInv, ClaimedIsPassing, agent
<1> QED
  BY <1>4, <1>5, <1>6, <1>7, <1>8 DEF IInv

\* The calls that take messages off the inbox, or change who is held.
LEMMA RemovalKeeps ==
  ASSUME IInv,
         \/ \E m \in User : CancelWaiting(m) \/ CancelTaken(m) \/ SendHeld(m)
         \/ Stop
  PROVE  IInv'
<1>0. box \in Box /\ box.reserved \subseteq Pending(box) /\ goals \in Goals
      /\ User \subseteq Msg
  BY UserAssumption DEF IInv, TypeOK, ClaimsSound
<1>1. ASSUME NEW m \in User, CancelWaiting(m)
      PROVE  IInv'
  <2> DEFINE c == Discard(box, {m})
  <2>1. /\ box' = c /\ m \in Unreserved(box) /\ missed' \in BOOLEAN
        /\ UNCHANGED <<sent, agent, goals, reservations, env, mayRun>>
    BY <1>1 DEF CancelWaiting, IInv, TypeOK
  <2>2. /\ c \in Box /\ Shrinks(box, c) /\ c.reserved = box.reserved
        /\ Pending(c) = Pending(box) \ {m}
    <3>1. {m} \in SUBSET Msg
      BY <1>0
    <3> QED BY <1>0, <3>1, DiscardFacts, DiscardShrinks
  <2> HIDE DEF c
  <2>3. TypeOK'
    BY <2>1, <2>2 DEF IInv, TypeOK, agent, env
  <2>4. ClaimsSound'
    BY <2>1, <2>2 DEF IInv, ClaimsSound, agent, Unreserved
  <2> QED BY <2>1, <2>2, <2>3, <2>4, KeepsItself, QuietStep DEF agent
<1>2. ASSUME NEW m \in User, CancelTaken(m)
      PROVE  IInv'
  <2> DEFINE c == Withdraw(box, m)
  <2>1. /\ box' \in {box, c} /\ aborted' = TRUE /\ wake' = TRUE
        /\ UNCHANGED <<sent, pc, stopping, stepped, passed, turn, goals,
                       reservations, env, mayRun, missed>>
    BY <1>2 DEF CancelTaken
  <2>2. /\ c \in Box /\ Shrinks(box, c) /\ c.reserved = box.reserved
        /\ Pending(c) = Pending(box) /\ Shrinks(box, box)
    BY <1>0, WithdrawFacts, WithdrawShrinks, SameWhere
  <2> HIDE DEF c
  <2>3. TypeOK'
    BY <1>0, <2>1, <2>2 DEF IInv, TypeOK, env
  <2>4. ClaimsSound'
    BY <2>1, <2>2 DEF IInv, ClaimsSound
  <2> QED BY <2>1, <2>2, <2>3, <2>4, KeepsItself, QuietStep
<1>3. ASSUME NEW m \in User, SendHeld(m)
      PROVE  IInv'
  <2> DEFINE c == Unhold(box, m)
  <2>1. /\ box' = c /\ Wake(TRUE)
        /\ UNCHANGED <<sent, goals, reservations, env, mayRun, missed>>
    BY <1>3 DEF SendHeld
  <2>2. /\ c \in Box /\ Shrinks(box, c) /\ c.reserved = box.reserved
        /\ Pending(c) = Pending(box)
    <3>1. c.reserved = box.reserved
      BY <1>0, UnholdFacts
    <3> QED BY <1>0, <3>1, UnholdFacts, UnholdShrinks
  <2> HIDE DEF c
  <2>3. /\ aborted' \in BOOLEAN /\ stopping' \in BOOLEAN /\ wake' \in BOOLEAN
        /\ stepped' \in BOOLEAN /\ turn' \subseteq Msg
        /\ \/ pc # "idle" /\ pc' = pc /\ passed' = passed
           \/ pc = "idle" /\ pc' = "loop" /\ passed' = {}
    BY <2>1, WakeFacts DEF IInv
  <2>4. TypeOK'
    BY <2>1, <2>2, <2>3 DEF IInv, TypeOK, env
  <2>5. ClaimsSound'
    BY <2>1, <2>2, <2>3 DEF IInv, ClaimsSound
  <2> QED BY <2>1, <2>2, <2>3, <2>4, <2>5, KeepsItself, QuietStep
<1>4. ASSUME Stop
      PROVE  IInv'
  <2> DEFINE d == DiscardWhere(box, Msg \ User)
             c == HoldUnsent(d)
             x == Moved(goals, "paused", FALSE)
             y == Disarmed(goals)
  <2>1. /\ box' = c /\ goals' \in {x, y} /\ calls' = calls + 1
        /\ wake' = FALSE /\ stopping' \in BOOLEAN /\ aborted' \in BOOLEAN
        /\ mayRun' = FALSE /\ missed' \in BOOLEAN
        /\ UNCHANGED <<sent, pc, stepped, passed, turn, reservations, busy>>
    BY <1>4 DEF Stop, Called, Cancelled, Running, IInv, TypeOK
  <2>2. /\ d \in Box /\ Shrinks(box, d) /\ d.reserved = box.reserved
        /\ box.reserved \subseteq Pending(d)
    <3>1. d.reserved = box.reserved
          /\ Pending(d) = Pending(box) \
               ((Msg \ User) \intersect (Pending(box) \ box.reserved))
      BY <1>0, DiscardWhereFacts
    <3>2. d \in Box /\ Shrinks(box, d)
      BY <1>0, DiscardWhereFacts, DiscardWhereShrinks
    <3> HIDE DEF d
    <3> QED BY <1>0, <3>1, <3>2
  <2>3. /\ c \in Box /\ Shrinks(box, c) /\ c.reserved = box.reserved
        /\ Pending(c) = Pending(d)
    <3> HIDE DEF d
    <3> QED BY <2>2, HoldUnsentFacts, HoldUnsentShrinks, ShrinksTransitive
  <2>4. goals' \in Goals /\ goals'.attempt = goals.attempt
    <3>1. x \in Goals /\ x.attempt = goals.attempt
      <4>1. "paused" \in Phases /\ FALSE \in BOOLEAN
        BY DEF Phases
      <4> QED BY <1>0, <4>1, MovedFacts
    <3>2. y \in Goals /\ y.attempt = goals.attempt
      BY <1>0, DisarmedFacts
    <3> HIDE DEF x, y
    <3> QED BY <2>1, <3>1, <3>2
  <2> HIDE DEF c, d, x, y
  <2>5. TypeOK'
    <3>1. calls' \in Nat
      BY <2>1 DEF IInv, TypeOK
    <3>2. wake' \in BOOLEAN /\ mayRun' \in BOOLEAN
      BY <2>1
    <3> QED BY <2>1, <2>3, <2>4, <3>1, <3>2 DEF IInv, TypeOK
  <2>6. ClaimsSound'
    BY <2>1, <2>2, <2>3 DEF IInv, ClaimsSound
  <2> QED BY <2>1, <2>3, <2>4, <2>5, <2>6, KeepsItself, QuietStep
<1> QED
  BY <1>1, <1>2, <1>3, <1>4

LEMMA WorkKeeps ==
  ASSUME IInv, WorkStarts \/ WorkSettles
  PROVE  IInv'
<1>1. goals \in Goals /\ Shrinks(box, box)
  BY SameWhere DEF IInv, TypeOK
<1>2. /\ busy' \in BOOLEAN /\ missed' \in BOOLEAN
      /\ goals' \in {goals, RequestDrive(goals)}
      /\ calls' \in Nat /\ UNCHANGED <<box, sent, agent, reservations, mayRun>>
  <2>1. calls' \in Nat
    BY DEF WorkStarts, WorkSettles, Called, IInv, TypeOK
  <2>2. /\ busy' \in BOOLEAN /\ missed' \in BOOLEAN
        /\ goals' \in {goals, RequestDrive(goals)}
    BY DEF WorkStarts, WorkSettles, IInv, TypeOK
  <2>3. UNCHANGED <<box, sent, agent, reservations, mayRun>>
    BY DEF WorkStarts, WorkSettles
  <2> QED BY <2>1, <2>2, <2>3
<1>3. goals' \in Goals /\ goals'.attempt = goals.attempt
  BY <1>1, <1>2, RequestDriveFacts
<1>4. TypeOK'
  BY <1>2, <1>3 DEF IInv, TypeOK, agent
<1>5. ClaimsSound'
  BY <1>2 DEF IInv, ClaimsSound, agent
<1> QED
  BY <1>1, <1>2, <1>3, <1>4, <1>5, KeepsItself, QuietStep DEF agent

\* After a restart the inbox is what the log says, and no round is known.
LEMMA CrashKeeps ==
  ASSUME IInv, CrashAndReopen
  PROVE  IInv'
<1> DEFINE c == Reopen(box)
           x == [goals EXCEPT !.armed = FALSE, !.attempt = NoAttempt,
                              !.competing = FALSE, !.requested = FALSE]
<1>1. /\ box' = c /\ goals' = x /\ Rest /\ calls' = calls + 1
      /\ busy' = FALSE /\ mayRun' = FALSE /\ missed' = FALSE
      /\ UNCHANGED <<sent, reservations>>
  BY DEF CrashAndReopen, Called
<1>2. c \in Box /\ Shrinks(box, c) /\ c.reserved = {}
  BY ReopenFacts, ReopenShrinks DEF IInv, TypeOK
<1>3. x \in Goals /\ x.attempt = NoAttempt
  BY DEF IInv, TypeOK, Goals, NoAttempt
<1> HIDE DEF c, x
<1>4. /\ pc' = "idle" /\ passed' = {} /\ turn' = {} /\ calls' \in Nat
      /\ aborted' \in BOOLEAN /\ stopping' \in BOOLEAN /\ wake' \in BOOLEAN
      /\ stepped' \in BOOLEAN /\ busy' \in BOOLEAN /\ mayRun' \in BOOLEAN
      /\ missed' \in BOOLEAN
  <2>1. calls' \in Nat
    BY <1>1 DEF IInv, TypeOK
  <2> QED BY <1>1, <2>1 DEF Rest
<1>5. TypeOK'
  BY <1>1, <1>2, <1>3, <1>4 DEF IInv, TypeOK
<1>6. ClaimsSound'
  BY <1>1, <1>2, <1>4 DEF ClaimsSound
<1>7. Keeps(goals.attempt, goals'.attempt)
  BY <1>1, <1>3 DEF Keeps
<1>8. AttemptReserved' /\ OneRound' /\ NothingBehindRound'
  BY <1>1, <1>2, <1>5, <1>7, Kept
<1>9. ClaimedIsPassing'
  BY <1>1, <1>3 DEF ClaimedIsPassing, NoAttempt
<1> QED
  BY <1>5, <1>6, <1>8, <1>9 DEF IInv

LEMMA CallsKeep ==
  ASSUME IInv, Calls
  PROVE  IInv'
<1>1. CASE \E m \in User : Prompt(m)
  BY <1>1, PromptKeeps
<1>2. CASE \E m \in User : Steer(m)
  BY <1>2, SteerKeeps
<1>3. CASE \/ \E m \in User : CancelWaiting(m) \/ CancelTaken(m) \/ SendHeld(m)
           \/ Stop
  BY <1>3, RemovalKeeps
<1>4. CASE WorkStarts \/ WorkSettles
  BY <1>4, WorkKeeps
<1> QED
  BY <1>1, <1>2, <1>3, <1>4 DEF Calls

\* A step that changes only what is known of the goal.
LEMMA GoalStep ==
  ASSUME IInv, goals' \in Goals, KeepsPhase(goals.attempt, goals'.attempt),
         UNCHANGED <<box, sent, agent, reservations, busy>>,
         calls' \in Nat, mayRun' \in BOOLEAN, missed' \in BOOLEAN
  PROVE  IInv'
<1>1. Shrinks(box, box)
  BY SameWhere DEF IInv, TypeOK
<1>2. TypeOK'
  BY DEF IInv, TypeOK, agent
<1>3. ClaimsSound'
  BY DEF IInv, ClaimsSound, agent
<1> QED
  BY <1>1, <1>2, <1>3, QuietStep DEF agent

LEMMA ChangeKeeps ==
  ASSUME IInv, NEW g \in Goals, g.attempt = goals.attempt, NEW arms \in BOOLEAN,
         Change(g, arms)
  PROVE  IInv'
<1>1. /\ goals' = g /\ calls' \in Nat /\ mayRun' \in BOOLEAN
      /\ missed' \in BOOLEAN
      /\ UNCHANGED <<box, sent, agent, reservations, busy>>
  <2>1. calls' \in Nat
    BY DEF Change, Called, IInv, TypeOK
  <2>2. mayRun' \in BOOLEAN /\ missed' \in BOOLEAN
    BY DEF Change, IInv, TypeOK
  <2> QED BY <2>1, <2>2 DEF Change
<1> QED
  BY <1>1, KeepsItself, GoalStep

LEMMA GoalChangesKeep ==
  ASSUME IInv, GoalChanges
  PROVE  IInv'
<1>1. /\ goals \in Goals /\ goals.goal \in Goal /\ goals.armed \in BOOLEAN
      /\ TRUE \in BOOLEAN /\ FALSE \in BOOLEAN /\ Caps \subseteq Nat
      /\ "active" \in Phases /\ "paused" \in Phases /\ "blocked" \in Phases
      /\ "complete" \in Phases
  BY GoalAssumption DEF IInv, TypeOK, Goals, Goal, Phases
<1>2. ASSUME NEW max \in Caps, Create(max)
      PROVE  IInv'
  <2> DEFINE new == [ref |-> 0, phase |-> "active", max |-> max, rounds |-> 0]
             g   == Committed(goals, new, TRUE)
  <2>1. new \in Goal
    BY <1>1 DEF Goal, Phases
  <2>2. g \in Goals /\ g.attempt = goals.attempt
    <3> HIDE DEF new
    <3> QED BY <1>1, <2>1, CommittedFacts
  <2>3. Change(g, TRUE)
    BY <1>2 DEF Create
  <2> HIDE DEF g
  <2> QED BY <1>1, <2>2, <2>3, ChangeKeeps
<1>3. ASSUME NEW max \in Caps, Edit(max)
      PROVE  IInv'
  <2> DEFINE new == [goals.goal EXCEPT !.max = max]
             g   == Committed(goals, new, goals.armed)
  <2>1. new \in Goal
    BY <1>1 DEF Goal
  <2>2. g \in Goals /\ g.attempt = goals.attempt
    <3> HIDE DEF new
    <3> QED BY <1>1, <2>1, CommittedFacts
  <2>3. Change(g, FALSE)
    BY <1>3 DEF Edit
  <2> HIDE DEF g
  <2> QED BY <1>1, <2>2, <2>3, ChangeKeeps
<1>4. ASSUME Clear
      PROVE  IInv'
  <2> DEFINE g == Committed(goals, NoGoal, FALSE)
  <2>1. NoGoal \in Goal
    BY DEF NoGoal, Goal, Phases
  <2>2. g \in Goals /\ g.attempt = goals.attempt
    BY <1>1, <2>1, CommittedFacts
  <2>3. Change(g, FALSE)
    BY <1>4 DEF Clear
  <2> HIDE DEF g
  <2> QED BY <1>1, <2>2, <2>3, ChangeKeeps
<1>5. ASSUME Pause \/ Resume \/ ModelCompletes \/ ModelBlocks
      PROVE  IInv'
  <2>1. PICK phase \in Phases, armed \in BOOLEAN, arms \in BOOLEAN :
          Change(Moved(goals, phase, armed), arms)
    BY <1>1, <1>5 DEF Pause, Resume, ModelCompletes, ModelBlocks
  <2> DEFINE g == Moved(goals, phase, armed)
  <2>2. g \in Goals /\ g.attempt = goals.attempt
    BY <1>1, MovedFacts
  <2> HIDE DEF g
  <2> QED BY <2>1, <2>2, ChangeKeeps DEF g
<1>6. ASSUME HostDisarms
      PROVE  IInv'
  <2>1. Disarmed(goals) \in Goals /\ Disarmed(goals).attempt = goals.attempt
    BY <1>1, DisarmedFacts
  <2>2. /\ goals' = Disarmed(goals) /\ calls' \in Nat /\ mayRun' \in BOOLEAN
        /\ missed' \in BOOLEAN
        /\ UNCHANGED <<box, sent, agent, reservations, busy>>
    BY <1>6 DEF HostDisarms, env, IInv, TypeOK
  <2> QED BY <2>1, <2>2, KeepsItself, GoalStep
<1> QED
  BY <1>2, <1>3, <1>4, <1>5, <1>6 DEF GoalChanges

\* drive, when it queues nothing.
LEMMA DriveKeeps ==
  ASSUME IInv, DriveWaits \/ DriveSettles \/ DriveBlocks
  PROVE  IInv'
<1> DEFINE d == Driven
           n == [goals EXCEPT !.attempt = NoAttempt]
           m == Moved(d, "blocked", FALSE)
<1>1. goals \in Goals
  BY DEF IInv, TypeOK
<1>2. d \in Goals /\ d.attempt = goals.attempt
  BY <1>1 DEF Driven, Goals
<1>3. n \in Goals /\ n.attempt = NoAttempt
  BY <1>1, UpdateFacts, NoAttemptType
<1>4. m \in Goals /\ m.attempt = goals.attempt
  <2>1. "blocked" \in Phases /\ FALSE \in BOOLEAN
    BY DEF Phases
  <2> HIDE DEF d
  <2> QED BY <1>2, <2>1, MovedFacts
<1>5. /\ goals' \in {d, n, m} /\ calls' \in Nat /\ mayRun' \in BOOLEAN
      /\ missed' \in BOOLEAN
      /\ UNCHANGED <<box, sent, agent, reservations, busy>>
  <2> HIDE DEF d, n, m
  <2> QED BY DEF DriveWaits, DriveSettles, DriveBlocks, env, IInv, TypeOK, d, n, m
<1> HIDE DEF d, n, m
<1>6. KeepsPhase(goals.attempt, goals'.attempt)
  <2>1. KeepsPhase(goals.attempt, NoAttempt)
    BY DEF KeepsPhase, Keeps
  <2> QED BY <1>2, <1>3, <1>4, <1>5, <2>1, KeepsItself
<1> QED
  BY <1>2, <1>3, <1>4, <1>5, <1>6, GoalStep

\* drive, when it reserves round r: the inbox was empty.
LEMMA DriveReservesKeeps ==
  ASSUME IInv, NEW r \in Round, DriveReserves(r)
  PROVE  IInv'
<1> DEFINE c   == AppendTo(box, "next-turn", r)
           ref == goals.goal.ref
           rnd == goals.goal.rounds + 1
           a   == [NoAttempt EXCEPT !.msg = {r}, !.ref = ref, !.round = rnd,
                                    !.phase = "queued"]
           d   == Driven
           g   == [d EXCEPT !.attempt = a]
           res == [ref |-> ref, round |-> rnd]
<1>1. /\ box' = c /\ sent' = sent \union {r} /\ Pending(box) = {}
      /\ r \notin sent /\ Wake(aborted) /\ pc \in {"idle", "maintenance"}
      /\ reservations' = [reservations EXCEPT ![r] = res]
      /\ UNCHANGED <<env, mayRun, missed>>
  BY DEF DriveReserves, Ready
<1>2. goals' = g
  BY DEF DriveReserves
<1>3. /\ box \in Box /\ goals \in Goals /\ r \in Msg /\ ref \in Nat /\ rnd \in Nat
  BY GoalAssumption DEF IInv, TypeOK, Goals
<1>4. /\ c \in Box /\ Pending(c) = {r} /\ c.reserved = {}
      /\ On(c, "next-turn") \subseteq {r}
  <2>1. "next-turn" \in Lists /\ box.reserved = {}
    BY <1>1, NoClaimFacts DEF Lists
  <2>2. On(box, "next-turn") = {}
    BY <1>1 DEF On, Pending
  <2>3. /\ c \in Box /\ Pending(c) = Pending(box) \union {r}
        /\ c.reserved = box.reserved
        /\ On(c, "next-turn") \subseteq On(box, "next-turn") \union {r}
    BY <1>3, <2>1, AppendFacts, AppendLists
  <2> HIDE DEF c
  <2> QED BY <1>1, <2>1, <2>2, <2>3
<1>5. /\ a \in Attempt /\ a.msg = {r} /\ a.ref = ref /\ a.round = rnd
      /\ a.phase = "queued"
  <2> HIDE DEF ref, rnd
  <2> QED BY <1>3 DEF Attempt, NoAttempt
<1>6. goals'.attempt = a /\ goals' \in Goals
  <2>1. d \in Goals
    BY <1>3 DEF Driven, Goals
  <2> HIDE DEF a, d
  <2> QED BY <1>2, <1>5, <2>1, UpdateFacts
<1>7. /\ aborted' \in BOOLEAN /\ stopping' \in BOOLEAN /\ wake' \in BOOLEAN
      /\ stepped' \in BOOLEAN /\ turn' \subseteq Msg
      /\ pc' \in {"loop", "maintenance"} /\ passed' = {}
  BY <1>1, WakeFacts, NoClaimFacts DEF IInv, TypeOK
<1>8. /\ reservations' \in [Round -> [ref : Nat, round : Nat]]
      /\ reservations'[r] = res
  <2>1. res \in [ref : Nat, round : Nat]
    BY <1>3
  <2> HIDE DEF res
  <2> QED BY <1>1, <2>1 DEF IInv, TypeOK
<1> HIDE DEF c, a, g, d
<1>9. TypeOK'
  BY <1>1, <1>3, <1>4, <1>6, <1>7, <1>8 DEF IInv, TypeOK, env
<1>10. ClaimsSound'
  BY <1>1, <1>4, <1>7 DEF ClaimsSound
<1>11. OneRound' /\ NothingBehindRound'
  BY <1>1, <1>4, <1>5, <1>6 DEF OneRound, NothingBehindRound
<1>12. AttemptReserved'
  BY <1>1, <1>4, <1>5, <1>6, <1>8 DEF AttemptReserved
<1>13. ClaimedIsPassing'
  BY <1>5, <1>6 DEF ClaimedIsPassing
<1> QED
  BY <1>9, <1>10, <1>11, <1>12, <1>13 DEF IInv

-----------------------------------------------------------------------------
(***************************************************************************)
(* The theorems.                                                           *)
(***************************************************************************)

LEMMA InitEstablishes == Init => IInv
<1> SUFFICES ASSUME Init PROVE IInv
  OBVIOUS
<1>1. box \in Box /\ Pending(box) = {} /\ box.reserved = {}
  BY EmptyBoxFacts DEF Init, EmptyBox
<1>2. goals \in Goals /\ goals.attempt = NoAttempt
  BY DEF Init, Goals, NoGoal, NoAttempt, Phases
<1>3. reservations \in [Round -> [ref : Nat, round : Nat]]
  BY DEF Init, NoReservation
<1>4. TypeOK
  BY <1>1, <1>2, <1>3 DEF Init, TypeOK
<1> QED
  BY <1>1, <1>2, <1>4 DEF Init, IInv, AttemptReserved, OneRound,
       NothingBehindRound, ClaimedIsPassing, ClaimsSound, NoAttempt

LEMMA NextPreserves == IInv /\ [Next]_vars => IInv'
<1> SUFFICES ASSUME IInv, [Next]_vars PROVE IInv'
  OBVIOUS
<1>1. CASE Driver
  BY <1>1, DriverKeeps
<1>2. CASE Calls
  BY <1>2, CallsKeep
<1>3. CASE GoalChanges
  BY <1>3, GoalChangesKeep
<1>4. CASE Drive
  BY <1>4, DriveKeeps, DriveReservesKeeps DEF Drive
<1>5. CASE CrashAndReopen
  BY <1>5, CrashKeeps
<1>6. CASE UNCHANGED vars
  <2>1. UNCHANGED <<box, sent, agent, goals, reservations, env, mayRun, missed>>
    BY <1>6 DEF vars
  <2> QED BY <2>1, KeepsItself, GoalStep DEF env, IInv, TypeOK
<1> QED
  BY <1>1, <1>2, <1>3, <1>4, <1>5, <1>6 DEF Next

\* The type invariant and the facts that keep at most one goal round on its
\* way, with nothing waiting behind a reservation that is still good and no
\* claimed round left on the inbox (round-driver.ts:292-420).
THEOREM InvariantHolds == Spec => []IInv
BY InitEstablishes, NextPreserves, PTL DEF Spec

\* Goals, attempts and reservations keep their types, for all caps, prompts
\* and rounds.
THEOREM TypeCorrect == Spec => []TypeOK
<1>1. IInv => TypeOK
  BY DEF IInv
<1> QED
  BY <1>1, InvariantHolds, PTL

\* In every reachable step the gate lets a round through only when nothing
\* but that round waits for a turn of its own (round-driver.ts:343-379).
LEMMA GateLetsPromptsFirst ==
  IInv /\ [Next]_vars =>
    [pc = "preparing" /\ passed' \intersect Round # {} =>
       On(box, "next-turn") \subseteq Round]_vars
<1> SUFFICES ASSUME IInv, Next, pc = "preparing",
                    passed' \intersect Round # {}
             PROVE  On(box, "next-turn") \subseteq Round
  OBVIOUS
<1>1. passed = {} /\ box.reserved \subseteq Pending(box)
  BY DEF IInv, ClaimsSound
<1>2. Gate
  <2>1. ~\E reason, b : EndTurn(reason, b, goals)
    BY DEF EndTurn, Begin, Rest
  <2>2. Driver => Gate
    BY <2>1 DEF Driver, ClaimStep, BudgetSpent, EnterStep, RejectStep,
         PrepareFails, PrepareAborted, StepContinues, StepEnds,
         BeginMaintenance, EndMaintenance
  <2>3. ~Calls
    BY <1>1 DEF Calls, Prompt, Steer, CancelWaiting, CancelTaken, SendHeld,
         Stop, WorkStarts, WorkSettles, Wake, Begin, Cancelled, agent
  <2>4. ~GoalChanges
    BY <1>1 DEF GoalChanges, Create, Edit, Pause, Resume, Clear,
         ModelCompletes, ModelBlocks, HostDisarms, Change, agent
  <2>5. ~Drive
    BY <1>1 DEF Drive, DriveWaits, DriveSettles, DriveBlocks, DriveReserves,
         Ready, agent
  <2>6. ~CrashAndReopen
    BY DEF CrashAndReopen, Rest
  <2> QED BY <2>2, <2>3, <2>4, <2>5, <2>6 DEF Next
<1>3. PICK r \in box.reserved \intersect Round : Valid(r)
  BY <1>2 DEF Gate
<1>4. goals.attempt.msg = {r} /\ ~goals.attempt.stale
  BY <1>3 DEF Valid
<1>5. goals.attempt.phase = "queued"
  BY <1>1, <1>3, <1>4 DEF IInv, ClaimedIsPassing
<1> QED
  BY <1>3, <1>4, <1>5 DEF IInv, NothingBehindRound

THEOREM PromptsGoFirst == Spec => PromptsFirst
BY InvariantHolds, GateLetsPromptsFirst, PTL DEF Spec, PromptsFirst

-----------------------------------------------------------------------------
(***************************************************************************)
(* What the operations on goals do to each part.                           *)
(***************************************************************************)

\* The goal, its arming and the latest revision stay.
SameGoal(g, h) == h.goal = g.goal /\ h.armed = g.armed /\ h.last = g.last

LEMMA CommittedIs ==
  ASSUME NEW g \in Goals, NEW goal \in Goal, NEW armed \in BOOLEAN
  PROVE  LET h == Committed(g, goal, armed)
         IN  /\ h.goal.ref = g.last + 1 /\ h.goal.phase = goal.phase
             /\ h.last = g.last + 1 /\ h.armed = armed /\ h.requested
             /\ h.attempt = g.attempt /\ h.competing = g.competing
<1> DEFINE r   == RequestDrive(g)
           new == [goal EXCEPT !.ref = g.last + 1]
<1>1. r \in Goals /\ r.attempt = g.attempt /\ r.last = g.last
      /\ r.competing = g.competing /\ r.requested
  BY RequestDriveFacts DEF RequestDrive, Goals, Goal, Attempt
<1>2. new.ref = g.last + 1 /\ new.phase = goal.phase
  BY DEF Goal
<1>3. Committed(g, goal, armed) =
        [r EXCEPT !.goal = new, !.last = r.last + 1, !.armed = armed]
  BY DEF Committed
<1> HIDE DEF r, new
<1> QED
  BY <1>1, <1>2, <1>3 DEF Goals, Goal, Attempt

LEMMA MovedIs ==
  ASSUME NEW g \in Goals, NEW phase \in Phases, NEW armed \in BOOLEAN
  PROVE  LET h == Moved(g, phase, armed)
         IN  /\ h.goal.ref = g.last + 1 /\ h.goal.phase = phase
             /\ h.last = g.last + 1 /\ h.armed = armed /\ h.requested
             /\ h.attempt = g.attempt /\ h.competing = g.competing
<1> DEFINE goal == [g.goal EXCEPT !.phase = phase]
<1>1. goal \in Goal /\ goal.phase = phase
  BY DEF Goals, Goal, Attempt
<1> HIDE DEF goal
<1> QED
  BY <1>1, CommittedIs DEF Moved, goal

LEMMA DisarmedIs ==
  ASSUME NEW g \in Goals
  PROVE  LET h == Disarmed(g)
         IN  /\ h.goal = g.goal /\ h.last = g.last /\ ~h.armed
             /\ h.attempt = g.attempt /\ h.competing = g.competing
             /\ h.requested = g.requested
BY DEF Disarmed, Goals, Goal, Attempt

LEMMA RequestIs ==
  ASSUME NEW g \in Goals, NEW x \in BOOLEAN
  PROVE  LET h == [g EXCEPT !.requested = x]
         IN  /\ SameGoal(g, h) /\ h.attempt = g.attempt
             /\ h.competing = g.competing /\ h.requested = x
BY DEF SameGoal, Goals, Goal, Attempt

LEMMA AttemptIs ==
  ASSUME NEW g \in Goals, NEW a \in Attempt
  PROVE  LET h == [g EXCEPT !.attempt = a]
         IN  /\ SameGoal(g, h) /\ h.attempt = a
             /\ h.competing = g.competing /\ h.requested = g.requested
BY DEF SameGoal, Goals, Goal, Attempt

\* b is attempt a, at the same place and as good, or staler.
SameAttempt(a, b) ==
  /\ b.msg = a.msg /\ b.ref = a.ref /\ b.phase = a.phase
  /\ a.stale => b.stale

LEMMA InsertedIs ==
  ASSUME NEW g \in Goals
  PROVE  LET h == Inserted(g)
         IN  /\ SameGoal(g, h) /\ h.requested = g.requested /\ h.competing
             /\ SameAttempt(g.attempt, h.attempt)
             /\ h.attempt.rejected = g.attempt.rejected
             /\ h.attempt.phase = "queued" => h.attempt.stale
<1> DEFINE s == g.attempt.stale \/ g.attempt.phase = "queued"
           a == [g.attempt EXCEPT !.stale = s]
<1>1. g.attempt \in Attempt /\ g.attempt.stale \in BOOLEAN
  BY DEF Goals, Goal, Attempt
<1>2. a \in Attempt /\ a.stale = s /\ a.msg = g.attempt.msg
      /\ a.ref = g.attempt.ref /\ a.phase = g.attempt.phase
      /\ a.rejected = g.attempt.rejected
  BY <1>1 DEF Attempt
<1>3. Inserted(g) = [g EXCEPT !.competing = TRUE, !.attempt = a]
  BY DEF Inserted, Goals, Goal, Attempt
<1> HIDE DEF a
<1>4. /\ SameGoal(g, Inserted(g)) /\ Inserted(g).attempt = a
      /\ Inserted(g).requested = g.requested /\ Inserted(g).competing
  BY <1>2, <1>3 DEF SameGoal, Goals, Goal, Attempt
<1> QED
  BY <1>1, <1>2, <1>4 DEF SameAttempt

\* A turn that was stopped or failed disarms its goal, or marks the attempt
\* that the idle edge will pause it for; only a turn that is blocked rejects.
LEMMA TurnEndedIs ==
  ASSUME NEW g \in Goals, NEW b, NEW reason
  PROVE  LET h == TurnEnded(g, b, reason)
             a == g.attempt
             queued == a.msg = {} \/ StillQueued(b, a)
         IN  /\ h.goal = g.goal /\ h.last = g.last
             /\ h.requested = g.requested /\ h.competing = g.competing
             /\ SameAttempt(a, h.attempt)
             /\ h.armed => g.armed
             /\ reason \in {"max-tokens", "budget", "error"} => ~h.armed
             /\ reason = "aborted" =>
                  ~h.armed \/ (h.attempt.cancelled /\ ~queued)
             /\ h.attempt.rejected =>
                  a.rejected \/ (reason = "blocked" /\ ~queued
                                 /\ a.phase # "admitted")
<1> DEFINE x == [g EXCEPT !.attempt.cancelled = TRUE]
           y == [g EXCEPT !.attempt.rejected = TRUE]
           h == TurnEnded(g, b, reason)
           a == g.attempt
           queued == a.msg = {} \/ StillQueued(b, a)
<1>1. a \in Attempt
  BY DEF Goals, Goal, Attempt
<1>2. /\ SameGoal(g, x) /\ x.requested = g.requested
      /\ x.competing = g.competing /\ x.attempt.cancelled
      /\ x.attempt.rejected = a.rejected /\ SameAttempt(a, x.attempt)
  BY <1>1 DEF Goals, Goal, Attempt, SameGoal, SameAttempt
<1>3. /\ SameGoal(g, y) /\ y.requested = g.requested
      /\ y.competing = g.competing /\ SameAttempt(a, y.attempt)
  BY <1>1 DEF Goals, Goal, Attempt, SameGoal, SameAttempt
<1>4. SameAttempt(a, a)
  BY DEF SameAttempt
<1>5. CASE reason \in {"max-tokens", "budget", "error"}
  <2>1. h = Disarmed(g) /\ reason # "aborted"
    BY <1>5 DEF TurnEnded
  <2> HIDE DEF h
  <2> QED
    BY <1>4, <2>1, DisarmedIs DEF h
<1>6. CASE reason = "aborted" /\ queued
  <2>1. h = Disarmed(g)
    BY <1>6 DEF TurnEnded
  <2> HIDE DEF h
  <2> QED
    BY <1>4, <1>6, <2>1, DisarmedIs DEF h
<1>7. CASE reason = "aborted" /\ ~queued
  <2>1. h = x
    BY <1>7 DEF TurnEnded
  <2> HIDE DEF h, x
  <2> QED
    BY <1>2, <1>7, <2>1 DEF h, SameGoal
<1>8. CASE reason = "blocked" /\ ~queued /\ a.phase # "admitted"
  <2>1. h = y
    BY <1>8 DEF TurnEnded
  <2> HIDE DEF h, y
  <2> QED
    BY <1>3, <1>8, <2>1 DEF h, SameGoal
<1>9. CASE ~(\/ reason \in {"max-tokens", "budget", "error", "aborted"}
             \/ reason = "blocked" /\ ~queued /\ a.phase # "admitted")
  <2>1. h = g
    BY <1>9 DEF TurnEnded
  <2> HIDE DEF h
  <2> QED
    BY <1>4, <1>9, <2>1 DEF h
<1> QED
  BY <1>5, <1>6, <1>7, <1>8, <1>9

\* The idle edge asks for a drive, and stops the goal of a failed attempt.
LEMMA IdleGoalsIs ==
  ASSUME NEW g \in Goals, NEW b
  PROVE  LET h == IdleGoals(g, b)
         IN  /\ h.requested /\ ~h.competing
             /\ h.attempt = NoAttempt \/ h.attempt = g.attempt
             /\ h.last >= g.last /\ h.goal.ref \in {g.goal.ref, h.last}
             /\ h.armed => h.goal = g.goal /\ h.armed = g.armed
             /\ Failed(g, b) /\ ArmedActive(g) /\ ~g.attempt.rejected =>
                  ~h.armed
<1> DEFINE free == [g EXCEPT !.competing = FALSE]
           none == [free EXCEPT !.attempt = NoAttempt]
           phase == IF g.attempt.rejected THEN "blocked" ELSE "paused"
           stops == /\ Failed(g, b) /\ ArmedActive(g)
                    /\ g.attempt.rejected => g.goal.ref = g.attempt.ref
           h == IdleGoals(g, b)
<1>0. g.last \in Nat
  BY DEF Goals
<1>1. free \in Goals /\ SameGoal(g, free) /\ free.attempt = g.attempt
      /\ ~free.competing
  BY DEF Goals, Goal, Attempt, SameGoal
<1>2. none \in Goals /\ SameGoal(g, none) /\ none.attempt = NoAttempt
      /\ ~none.competing
  <2> HIDE DEF free
  <2> QED BY <1>1, UpdateFacts, AttemptIs, NoAttemptType DEF SameGoal
<1>3. phase \in Phases
  BY DEF Phases
<1>4. h = IF stops THEN Moved(none, phase, FALSE) ELSE RequestDrive(free)
  BY DEF IdleGoals
<1> HIDE DEF free, none, phase
<1>5. CASE stops
  <2>1. h = Moved(none, phase, FALSE)
    BY <1>4, <1>5
  <2>2. /\ h.goal.ref = none.last + 1 /\ h.last = none.last + 1
        /\ ~h.armed /\ h.requested /\ h.attempt = none.attempt
        /\ h.competing = none.competing
    <3>1. FALSE \in BOOLEAN
      OBVIOUS
    <3> HIDE DEF h
    <3> QED BY <1>2, <1>3, <2>1, <3>1, MovedIs
  <2> HIDE DEF h
  <2> QED
    BY <1>0, <1>2, <2>2 DEF SameGoal, h
<1>6. CASE ~stops
  <2>1. h = [free EXCEPT !.requested = TRUE]
    BY <1>4, <1>6 DEF RequestDrive
  <2>2. /\ SameGoal(free, h) /\ h.attempt = free.attempt
        /\ h.competing = free.competing /\ h.requested
    BY <1>1, <2>1, RequestIs
  <2>3. ~(Failed(g, b) /\ ArmedActive(g) /\ ~g.attempt.rejected)
    BY <1>6
  <2> HIDE DEF h
  <2> QED
    BY <1>0, <1>1, <2>2, <2>3 DEF SameGoal, h
<1> QED
  BY <1>5, <1>6

LEMMA EnteredIs ==
  ASSUME NEW g \in Goals, NEW E
  PROVE  LET h == Entered(g, E)
         IN  /\ h.armed = g.armed /\ h.last = g.last
             /\ h.goal.ref = g.goal.ref /\ h.goal.phase = g.goal.phase
             /\ h.requested = g.requested /\ h.competing = g.competing
             /\ h.attempt.msg = g.attempt.msg /\ h.attempt.ref = g.attempt.ref
             /\ h.attempt.stale = g.attempt.stale
             /\ h.attempt.rejected = g.attempt.rejected
             /\ h.attempt.phase \in {g.attempt.phase, "admitted"}
<1> DEFINE in    == g.attempt.msg # {} /\ g.attempt.msg \subseteq E
           phase == IF in THEN "admitted" ELSE g.attempt.phase
           more  == {r \in E \intersect Round :
                       IsNextRound(g.goal, reservations[r])} = {}
           count == IF more THEN g.goal.rounds ELSE g.goal.rounds + 1
           goal  == [g.goal EXCEPT !.rounds = count]
           a     == [g.attempt EXCEPT !.phase = phase]
<1>1. g.attempt \in Attempt /\ g.goal \in Goal
  BY DEF Goals, Goal, Attempt
<1>2. a.msg = g.attempt.msg /\ a.ref = g.attempt.ref
      /\ a.stale = g.attempt.stale /\ a.rejected = g.attempt.rejected
      /\ a.phase \in {g.attempt.phase, "admitted"}
  BY <1>1 DEF Attempt
<1>3. goal.ref = g.goal.ref /\ goal.phase = g.goal.phase
  BY <1>1 DEF Goal
<1>4. Entered(g, E) = [g EXCEPT !.goal = goal, !.attempt = a]
  BY DEF Entered, Goals, Goal, Attempt
<1> HIDE DEF goal, a
<1> QED
  BY <1>2, <1>3, <1>4 DEF Goals

-----------------------------------------------------------------------------
(***************************************************************************)
(* Who is held waits unreserved, and no message stands before itself.      *)
(***************************************************************************)

Tidy(b) == /\ b.held \subseteq Pending(b) \ b.reserved
           /\ \A m \in Msg : <<m, m>> \notin b.ahead

LEMMA AppendTidies ==
  ASSUME NEW b \in Box, Tidy(b), NEW m \in Msg, NEW l \in Lists
  PROVE  Tidy(AppendTo(b, l, m))
<1>1. AppendTo(b, l, m).ahead =
        AheadWithout(b, {m}) \union ((On(b, l) \ {m}) \X {m})
  BY DEF AppendTo, Box
<1>2. \A k \in Msg : <<k, k>> \notin (On(b, l) \ {m}) \X {m}
  OBVIOUS
<1>3. AheadWithout(b, {m}) \subseteq b.ahead
  BY DEF AheadWithout
<1>4. \A k \in Msg : <<k, k>> \notin AppendTo(b, l, m).ahead
  BY <1>1, <1>2, <1>3 DEF Tidy
<1> QED
  BY <1>4, AppendFacts DEF Tidy

LEMMA WithoutAhead ==
  ASSUME NEW b \in Box, NEW S
  PROVE  Without(b, S).ahead \subseteq b.ahead
BY DEF Without, AheadWithout, Box

LEMMA DiscardTidies ==
  ASSUME NEW b \in Box, Tidy(b), NEW S \in SUBSET Msg
  PROVE  Tidy(Discard(b, S))
<1>1. Discard(b, S).ahead = Without(b, S).ahead
  BY WithoutFacts DEF Discard, Box
<1> QED
  BY <1>1, WithoutAhead, DiscardFacts DEF Tidy

LEMMA DiscardWhereTidies ==
  ASSUME NEW b \in Box, Tidy(b), NEW S
  PROVE  Tidy(DiscardWhere(b, S))
<1>1. S \intersect Unreserved(b) \in SUBSET Msg
  BY DEF Unreserved, Pending
<1> QED
  BY <1>1, DiscardTidies DEF DiscardWhere

LEMMA HoldTidies ==
  ASSUME NEW b \in Box, Tidy(b), NEW S
  PROVE  Tidy(Hold(b, S)) /\ Tidy(HoldUnsent(b))
<1>1. ASSUME NEW T
      PROVE  Tidy(Hold(b, T))
  <2>1. Hold(b, T).ahead = b.ahead
    BY DEF Hold, Box
  <2> QED
    BY <2>1, HoldFacts DEF Tidy
<1> QED
  BY <1>1 DEF HoldUnsent

LEMMA UnholdTidies ==
  ASSUME NEW b \in Box, Tidy(b), NEW m
  PROVE  Tidy(Unhold(b, m))
<1>1. Unhold(b, m).ahead = b.ahead
  BY DEF Unhold, Box
<1> QED
  BY <1>1, UnholdFacts DEF Tidy

LEMMA ClaimTidies ==
  ASSUME NEW b \in Box, Tidy(b), NEW target
  PROVE  Tidy(Claim(b, target))
<1>1. Claim(b, target).ahead = b.ahead
  BY DEF Claim, Box
<1> QED
  BY <1>1, ClaimFacts DEF Tidy

LEMMA WithdrawTidies ==
  ASSUME NEW b \in Box, Tidy(b), NEW m \in Msg
  PROVE  Tidy(Withdraw(b, m))
<1>1. Withdraw(b, m).ahead = b.ahead
  BY DEF Withdraw, Box
<1> QED
  BY <1>1, WithdrawFacts DEF Tidy

LEMMA SettledTidies ==
  ASSUME NEW b \in Box, Tidy(b)
  PROVE  Tidy(Settled(b))
<1>1. Settled(b).ahead = b.ahead
  BY DEF Settled, Box
<1> QED
  BY <1>1, SettledFacts DEF Tidy

LEMMA CommitTidies ==
  ASSUME NEW b \in Box, Tidy(b), NEW E
  PROVE  Tidy(Commit(b, E))
<1> DEFINE P == b.reserved \intersect Pending(b)
           u == Settled(b)
           v == Without(u, P \intersect E)
           c == Commit(b, E)
<1>1. u \in Box /\ u.ahead = b.ahead
  BY SettledFacts DEF Settled, Box
<1>2. v \in Box /\ v.ahead \subseteq u.ahead
  BY <1>1, WithoutFacts, WithoutAhead
<1>3. c = Discard(v, P \ E) /\ P \ E \in SUBSET Msg
  BY DEF Commit, Pending
<1>4. Discard(v, P \ E).ahead \subseteq v.ahead
  <2> HIDE DEF v, P
  <2>1. Discard(v, P \ E).ahead = Without(v, P \ E).ahead
    BY <1>2, WithoutFacts DEF Discard, Box
  <2> QED BY <1>2, <2>1, WithoutAhead
<1>5. /\ Pending(c) = Pending(b) \ P /\ c.held = b.held \ (P \ E)
      /\ c.reserved = {}
  BY CommitFacts
<1> HIDE DEF u, v, c
<1>6. c.ahead \subseteq b.ahead
  <2> HIDE DEF P
  <2> QED BY <1>1, <1>2, <1>3, <1>4
<1>7. c.held \subseteq Pending(c) \ c.reserved
  BY <1>5 DEF Tidy
<1>8. Tidy(c)
  BY <1>6, <1>7 DEF Tidy
<1> QED
  BY <1>8 DEF c

LEMMA ReleaseTidies ==
  ASSUME NEW b \in Box, Tidy(b)
  PROVE  Tidy(Release(b))
<1>1. Settled(b) \in Box /\ Tidy(Settled(b))
  BY SettledFacts, SettledTidies
<1>2. b.withdrawn \intersect Pending(b) \in SUBSET Msg
  BY DEF Pending
<1> QED
  BY <1>1, <1>2, DiscardTidies DEF Release

LEMMA ReopenTidies ==
  ASSUME NEW b \in Box, Tidy(b)
  PROVE  Tidy(Reopen(b))
<1>1. Settled(b) \in Box /\ Settled(b).ahead = b.ahead
  BY SettledFacts DEF Settled, Box
<1>2. Reopen(b).ahead = b.ahead
  BY <1>1 DEF Reopen, Box
<1> QED
  BY <1>2, ReopenFacts DEF Tidy

LEMMA ReleasedTidies ==
  ASSUME TypeOK, Tidy(box)
  PROVE  Tidy(Released)
<1> DEFINE b == Release(box)
           r == box.reserved \ box.withdrawn
           d == DiscardWhere(b, r \ User)
<1>1. b \in Box /\ Tidy(b)
  BY ReleaseFacts, ReleaseTidies DEF TypeOK
<1>2. d \in Box /\ Tidy(d)
  <2> HIDE DEF b
  <2> QED BY <1>1, DiscardWhereFacts, DiscardWhereTidies
<1>3. Tidy(Hold(d, r \intersect User))
  <2> HIDE DEF d
  <2> QED BY <1>2, HoldTidies
<1> QED
  BY <1>1, <1>3 DEF Released

-----------------------------------------------------------------------------
(***************************************************************************)
(* What keeps a goal going, and what stops it.                             *)
(***************************************************************************)

\* The end of a turn, from inbox b: the next one, or the idle edge, which
\* asks for a drive.  Only a turn that completes, or that is blocked, leaves
\* a goal running.
LEMMA EndTurnIs ==
  ASSUME TypeOK, NEW reason, NEW b \in Box, Tidy(b),
         EndTurn(reason, b, goals)
  PROVE  LET a == goals.attempt
             queued == a.msg = {} \/ StillQueued(b, a)
         IN  /\ \/ /\ pc' = "loop"
                   /\ \/ reason \in {"completed", "max-tokens"}
                      \/ wake
                   /\ HasClaimable(IF reason \in {"error", "blocked"}
                                   THEN HoldUnsent(b) ELSE b)
                \/ pc' = "idle" /\ goals'.requested /\ ~goals'.competing
             /\ passed' = {} /\ ~aborted' /\ ~wake' /\ ~stepped'
             /\ mayRun' = (mayRun /\ reason \in {"completed", "blocked"})
             /\ UNCHANGED <<sent, reservations, busy, calls>>
             /\ Pending(box') \subseteq Pending(b) /\ Tidy(box')
             /\ goals'.attempt = NoAttempt \/ SameAttempt(a, goals'.attempt)
             /\ goals'.last >= goals.last
             /\ goals'.goal.ref \in {goals.goal.ref, goals'.last}
             /\ ArmedActive(goals') =>
                  /\ ArmedActive(goals) /\ goals'.goal = goals.goal
                  /\ a.rejected \/ reason \notin {"max-tokens", "budget",
                                                "error", "aborted"}
             /\ goals'.attempt.rejected =>
                  a.rejected \/ (reason = "blocked" /\ ~queued
                                 /\ a.phase # "admitted")
<1> DEFINE c       == IF reason \in {"error", "blocked"} THEN HoldUnsent(b) ELSE b
           ended   == TurnEnded(goals, b, reason)
           more    == reason \in {"completed", "max-tokens"} /\ HasClaimable(c)
           restart == wake /\ HasClaimable(c)
           kept    == IF restart THEN c ELSE HoldUnsent(c)
           a       == goals.attempt
           queued  == a.msg = {} \/ StillQueued(b, a)
<1>0. goals \in Goals /\ goals.last \in Nat
  BY DEF TypeOK, Goals
<1>1. c \in Box /\ Tidy(c) /\ Pending(c) = Pending(b)
  <2>1. HoldUnsent(b) \in Box /\ Tidy(HoldUnsent(b))
        /\ Pending(HoldUnsent(b)) = Pending(b)
    BY HoldUnsentFacts, HoldTidies
  <2> QED BY <2>1
<1>2. kept \in Box /\ Tidy(kept) /\ Pending(kept) = Pending(b)
  <2> HIDE DEF c, restart
  <2>1. HoldUnsent(c) \in Box /\ Tidy(HoldUnsent(c))
        /\ Pending(HoldUnsent(c)) = Pending(c)
    BY <1>1, HoldUnsentFacts, HoldTidies
  <2> QED BY <1>1, <2>1
<1>3. /\ ended \in Goals
      /\ ended.goal = goals.goal /\ ended.last = goals.last
      /\ SameAttempt(a, ended.attempt)
      /\ ended.armed => goals.armed
      /\ reason \in {"max-tokens", "budget", "error"} => ~ended.armed
      /\ reason = "aborted" =>
           ~ended.armed \/ (ended.attempt.cancelled /\ ~queued)
      /\ ended.attempt.rejected =>
           a.rejected \/ (reason = "blocked" /\ ~queued
                          /\ a.phase # "admitted")
  BY <1>0, TurnEndedFacts, TurnEndedIs
<1>4. reason = "aborted" /\ ended.armed => Failed(ended, kept)
  <2> HIDE DEF ended, kept
  <2> QED BY <1>2, <1>3 DEF Failed, StillQueued, SameAttempt
<1>5. CASE more
  <2>1. /\ box' = c /\ goals' = ended /\ pc' = "loop"
        /\ aborted' = FALSE /\ wake' = FALSE /\ stepped' = FALSE
        /\ passed' = {}
        /\ mayRun' = (mayRun /\ reason \in {"completed", "blocked"})
        /\ UNCHANGED <<sent, reservations, busy, calls>>
    BY <1>5 DEF EndTurn, env
  <2>2. reason \in {"completed", "max-tokens"} /\ HasClaimable(c)
    BY <1>5
  <2>3. ArmedActive(goals') => ArmedActive(goals)
    <3> HIDE DEF ended
    <3> QED BY <1>3, <2>1 DEF ArmedActive
  <2> HIDE DEF ended
  <2> QED
    BY <1>0, <1>1, <1>3, <2>1, <2>2, <2>3 DEF ArmedActive
<1>6. CASE ~more
  <2> DEFINE e == IdleGoals(ended, kept)
             x == IdleBox(ended, kept)
  <2>1. /\ box' = x /\ goals' = e
        /\ pc' = IF restart THEN "loop" ELSE "idle"
        /\ aborted' = FALSE /\ wake' = FALSE /\ stepped' = FALSE
        /\ passed' = {}
        /\ mayRun' = (mayRun /\ reason \in {"completed", "blocked"})
        /\ UNCHANGED <<sent, reservations, busy, calls>>
    BY <1>6 DEF EndTurn, Begin, Rest, env
  <2>2. x \in Box /\ Tidy(x) /\ Pending(x) \subseteq Pending(b)
    <3> HIDE DEF kept, ended
    <3>1. DiscardWhere(kept, ended.attempt.msg) \in Box
          /\ Tidy(DiscardWhere(kept, ended.attempt.msg))
          /\ Pending(DiscardWhere(kept, ended.attempt.msg))
               \subseteq Pending(kept)
      BY <1>2, DiscardWhereFacts, DiscardWhereTidies
    <3> QED BY <1>2, <3>1 DEF IdleBox
  <2>3. /\ e.requested /\ ~e.competing
        /\ e.attempt = NoAttempt \/ e.attempt = ended.attempt
        /\ e.last >= ended.last /\ e.goal.ref \in {ended.goal.ref, e.last}
        /\ e.armed => e.goal = ended.goal /\ e.armed = ended.armed
        /\ Failed(ended, kept) /\ ArmedActive(ended)
           /\ ~ended.attempt.rejected => ~e.armed
    <3> HIDE DEF kept, ended
    <3> QED BY <1>3, IdleGoalsIs
  <2> HIDE DEF e, x
  <2>4. ArmedActive(goals') =>
          /\ ArmedActive(goals) /\ goals'.goal = goals.goal
          /\ a.rejected \/ reason \notin {"max-tokens", "budget", "error",
                                          "aborted"}
    <3> HIDE DEF ended, kept, a
    <3> QED BY <1>3, <1>4, <2>1, <2>3 DEF ArmedActive
  <2>5. pc' = "loop" => wake /\ HasClaimable(c)
    BY <2>1
  <2>6. goals'.attempt.rejected =>
          a.rejected \/ (reason = "blocked" /\ ~queued
                         /\ a.phase # "admitted")
    <3>1. ~NoAttempt.rejected
      BY DEF NoAttempt
    <3> HIDE DEF ended, kept
    <3> QED BY <1>3, <2>1, <2>3, <3>1
  <2> HIDE DEF ended, kept, restart
  <2> QED
    BY <1>3, <2>1, <2>2, <2>3, <2>4, <2>5, <2>6
<1> QED
  BY <1>5, <1>6

\* GoalKeepsGoing, in maintenance too: its end is not heard of.
Watched ==
  /\ pc \in {"idle", "maintenance"} /\ ArmedActive(goals)
  /\ Pending(box) = {} /\ ~busy /\ ~goals.competing
  => goals.requested \/ missed

\* A round that waits is the attempt's, if there is an attempt.
OnlyTheAttempt ==
  /\ sent \subseteq User \union Round
  /\ goals.attempt.msg # {} =>
       Pending(box) \intersect Round \subseteq goals.attempt.msg

RefsPast == /\ goals.goal.ref <= goals.last
            /\ goals.attempt.ref <= goals.last

\* A rejected attempt is dropped before the agent runs again.
RejectedIsDriven ==
  LET a == goals.attempt
  IN  a.rejected => /\ pc = "idle" /\ goals.requested /\ ~goals.competing
                    /\ a.msg # {} /\ ~StillQueued(box, a)

\* The attempt has its reservation: a drive queued it for the goal as it is.
Live(g) == /\ g.attempt.phase = "queued" /\ ~g.attempt.stale
           /\ ArmedActive(g) /\ g.attempt.ref = g.goal.ref

\* From its reservation to the gate nobody can hold or overtake a round: the
\* run it is queued for is the one that claims it.
LiveWaits ==
  Live(goals) =>
    /\ goals.attempt.msg \subseteq Pending(box) /\ box.held = {}
    /\ \/ pc = "maintenance" /\ wake
       \/ pc = "loop" /\ ~stepped /\ ~wake
       \/ /\ pc = "preparing"
          /\ ~wake \/ aborted
          /\ goals.attempt.msg \subseteq box.reserved

\* What the gate let through runs alone: if it is rejected nothing restarts.
ClaimedAlone ==
  /\ pc = "gated" /\ ~aborted /\ goals.attempt.phase = "claimed"
  /\ goals.attempt.msg \subseteq Pending(box)
  => ~wake /\ box.held = {}

ArmedByUser == ArmedActive(goals) => mayRun

PassedByUser == passed \intersect Round # {} => mayRun \/ aborted

Sound == /\ Tidy(box) /\ OnlyTheAttempt /\ RefsPast /\ RejectedIsDriven
         /\ LiveWaits /\ ClaimedAlone /\ ArmedByUser /\ PassedByUser

GInv == IInv /\ Sound /\ Watched

LEMMA NoAttemptIs ==
  /\ NoAttempt.msg = {} /\ NoAttempt.ref = 0 /\ NoAttempt.phase = "none"
  /\ ~NoAttempt.rejected /\ ~NoAttempt.stale
BY DEF NoAttempt

\* A step of the goal alone.  A revision that is new is one no attempt has.
LEMMA GoalMoves ==
  ASSUME IInv, Sound, goals' \in Goals, UNCHANGED <<box, sent, agent>>,
         mayRun => mayRun',
         goals'.attempt = goals.attempt \/ goals'.attempt = NoAttempt,
         goals'.last >= goals.last, goals'.goal.ref <= goals'.last,
         ArmedActive(goals') =>
           \/ ArmedActive(goals) /\ goals'.goal.ref = goals.goal.ref
           \/ mayRun' /\ goals'.goal.ref > goals.last,
         goals.attempt.rejected =>
           goals'.attempt = NoAttempt \/ (goals'.requested
                                          /\ ~goals'.competing)
  PROVE  Sound'
<1>1. /\ goals.last \in Nat /\ goals'.last \in Nat /\ goals.goal.ref \in Nat
      /\ goals'.goal.ref \in Nat /\ goals.attempt.ref \in Nat
      /\ goals'.attempt.ref \in Nat
  BY DEF IInv, TypeOK, Goals
<1>2. Tidy(box)' /\ OnlyTheAttempt' /\ RejectedIsDriven' /\ ClaimedAlone'
      /\ ArmedByUser' /\ PassedByUser'
  BY NoAttemptIs DEF Sound, Tidy, OnlyTheAttempt, RejectedIsDriven,
     ClaimedAlone, ArmedByUser, PassedByUser, agent, StillQueued
<1>3. RefsPast'
  BY <1>1, NoAttemptIs DEF Sound, RefsPast
<1>4. LiveWaits'
  <2>1. Live(goals') => Live(goals) /\ goals'.attempt = goals.attempt
    BY <1>1, NoAttemptIs DEF Live, Sound, RefsPast
  <2> QED
    BY <2>1 DEF Sound, LiveWaits, agent
<1> QED
  BY <1>2, <1>3, <1>4 DEF Sound

\* A turn that ends, from inbox b.  Turns complete or are blocked only behind
\* the gate.
LEMMA EndTurnSound ==
  ASSUME IInv, IInv', Sound,
         NEW reason \in {"completed", "max-tokens", "budget", "error",
                         "aborted", "blocked"},
         NEW b \in Box, Tidy(b), Pending(b) \subseteq Pending(box),
         b.reserved = {}, EndTurn(reason, b, goals), pc # "idle",
         reason \in {"completed", "blocked"} => pc \in {"gated", "stepping"},
         reason = "blocked" => pc = "gated" /\ ~aborted
  PROVE  Sound'
<1> DEFINE a == goals.attempt
           queued == a.msg = {} \/ StillQueued(b, a)
           c == IF reason \in {"error", "blocked"} THEN HoldUnsent(b) ELSE b
<1>0. /\ goals.last \in Nat /\ goals'.last \in Nat /\ goals.goal.ref \in Nat
      /\ a.ref \in Nat /\ a.stale \in BOOLEAN
      /\ goals'.attempt.stale \in BOOLEAN
      /\ goals'.attempt.rejected \in BOOLEAN
      /\ a.phase \in {"none", "queued", "claimed", "admitted"}
      /\ mayRun \in BOOLEAN /\ goals'.goal.ref \in Nat
  BY DEF IInv, TypeOK, Goals
<1>1. ~a.rejected
  BY DEF Sound, RejectedIsDriven
<1>2. /\ \/ /\ pc' = "loop"
            /\ reason \in {"completed", "max-tokens"} \/ wake
            /\ HasClaimable(c)
         \/ pc' = "idle" /\ goals'.requested /\ ~goals'.competing
      /\ passed' = {} /\ mayRun' = (mayRun /\ reason \in {"completed", "blocked"})
      /\ sent' = sent
      /\ Pending(box') \subseteq Pending(b) /\ Tidy(box')
      /\ goals'.attempt = NoAttempt \/ SameAttempt(a, goals'.attempt)
      /\ goals'.last >= goals.last
      /\ goals'.goal.ref \in {goals.goal.ref, goals'.last}
      /\ ArmedActive(goals') =>
           /\ ArmedActive(goals) /\ goals'.goal = goals.goal
           /\ reason \in {"completed", "blocked"}
      /\ goals'.attempt.rejected =>
           reason = "blocked" /\ ~queued /\ a.phase # "admitted"
  <2>1. TypeOK
    BY DEF IInv
  <2> HIDE DEF a, queued, c
  <2> QED BY <1>1, <2>1, EndTurnIs DEF a, queued, c
<1>3. Tidy(box)' /\ PassedByUser' /\ ArmedByUser' /\ ClaimedAlone'
  <2>1. pc' # "gated"
    BY <1>2
  <2>2. ArmedActive(goals') => mayRun'
    BY <1>0, <1>2 DEF Sound, ArmedByUser
  <2> HIDE DEF a, queued, c
  <2> QED
    BY <1>2, <2>1, <2>2 DEF Tidy, PassedByUser, ArmedByUser, ClaimedAlone
<1>4. OnlyTheAttempt' /\ RefsPast'
  <2>1. goals'.attempt.msg \in {a.msg, {}} /\ goals'.attempt.ref \in {a.ref, 0}
    BY <1>2, NoAttemptIs DEF SameAttempt
  <2> QED
    BY <1>0, <1>2, <2>1 DEF Sound, OnlyTheAttempt, RefsPast
<1>5. LiveWaits'
  <2>1. Live(goals') => Live(goals) /\ reason \in {"completed", "blocked"}
    BY <1>0, <1>2, NoAttemptIs DEF Live, SameAttempt
  <2> QED
    BY <2>1 DEF Sound, LiveWaits
<1>6. RejectedIsDriven'
  <2> SUFFICES ASSUME goals'.attempt.rejected
               PROVE  /\ pc' = "idle" /\ goals'.requested
                      /\ ~goals'.competing /\ goals'.attempt.msg # {}
                      /\ ~StillQueued(box', goals'.attempt)
    BY DEF RejectedIsDriven
  <2>1. reason = "blocked" /\ ~queued /\ a.phase # "admitted"
    BY <1>2
  <2>2. SameAttempt(a, goals'.attempt)
    BY <1>2, NoAttemptIs
  <2>3. goals'.attempt.msg # {} /\ ~StillQueued(box', goals'.attempt)
    BY <1>2, <2>1, <2>2 DEF SameAttempt, StillQueued
  <2>4. ASSUME wake, HasClaimable(c)
        PROVE  FALSE
    <3>1. /\ Pending(c) = Pending(b) /\ c.reserved = {}
          /\ c.held = b.held \union (User \intersect Pending(b))
      BY <2>1, HoldUnsentFacts
    <3>2. PICK m \in Pending(b) : m \notin User
      BY <2>4, <3>1 DEF HasClaimable, Claimable
    <3>3. m \in Round /\ m \in Pending(box)
      BY <3>2 DEF IInv, AttemptReserved, Sound, OnlyTheAttempt
    <3>4. a.msg = {m}
      BY <2>1, <3>3 DEF IInv, AttemptReserved, Sound, OnlyTheAttempt
    <3>5. a.phase = "claimed"
      BY <1>0, <2>1, <3>2, <3>4 DEF IInv, AttemptReserved, StillQueued
    <3> QED
      BY <2>1, <2>4, <3>3, <3>4, <3>5 DEF Sound, ClaimedAlone
  <2> QED
    BY <1>2, <2>1, <2>3, <2>4
<1> QED
  BY <1>3, <1>4, <1>5, <1>6 DEF Sound

-----------------------------------------------------------------------------
(***************************************************************************)
(* Each step keeps a goal sound: the steps of the goal alone.              *)
(***************************************************************************)

\* A change is a new revision; only the user's arms a goal that was not.
LEMMA ChangeSound ==
  ASSUME IInv, Sound, NEW goal \in Goal, NEW armed \in BOOLEAN,
         NEW arms \in BOOLEAN, Change(Committed(goals, goal, armed), arms),
         armed /\ goal.phase = "active" => arms \/ mayRun
  PROVE  Sound'
<1> DEFINE h == Committed(goals, goal, armed)
<1>1. goals \in Goals /\ goals.last \in Nat /\ mayRun \in BOOLEAN
  BY DEF IInv, TypeOK, Goals
<1>2. goals' = h /\ mayRun' = (mayRun \/ arms) /\ UNCHANGED <<box, sent, agent>>
  BY DEF Change
<1>3. h \in Goals
  BY <1>1, CommittedFacts
<1>4. /\ h.goal.ref = goals.last + 1 /\ h.goal.phase = goal.phase
      /\ h.last = goals.last + 1 /\ h.armed = armed /\ h.requested
      /\ h.attempt = goals.attempt /\ h.competing = goals.competing
  BY <1>1, CommittedIs
<1> HIDE DEF h
<1>5. ArmedActive(goals') => mayRun' /\ goals'.goal.ref > goals.last
  BY <1>1, <1>2, <1>4 DEF ArmedActive
<1>6. goals'.last >= goals.last /\ goals'.goal.ref <= goals'.last
  BY <1>1, <1>2, <1>4
<1>7. goals.attempt.rejected => goals'.requested /\ ~goals'.competing
  BY <1>2, <1>4 DEF Sound, RejectedIsDriven
<1> QED
  BY <1>2, <1>3, <1>4, <1>5, <1>6, <1>7, GoalMoves

LEMMA MoveSound ==
  ASSUME IInv, Sound, NEW phase \in Phases, NEW armed \in BOOLEAN,
         NEW arms \in BOOLEAN, Change(Moved(goals, phase, armed), arms),
         armed => arms
  PROVE  Sound'
<1> DEFINE goal == [goals.goal EXCEPT !.phase = phase]
<1>1. goal \in Goal
  BY DEF IInv, TypeOK, Goals, Goal
<1>2. Change(Committed(goals, goal, armed), arms)
  BY DEF Moved
<1> HIDE DEF goal
<1> QED
  BY <1>1, <1>2, ChangeSound

LEMMA GoalChangesSound ==
  ASSUME IInv, Sound, GoalChanges
  PROVE  Sound'
<1>1. /\ goals \in Goals /\ goals.goal \in Goal /\ goals.armed \in BOOLEAN
      /\ TRUE \in BOOLEAN /\ FALSE \in BOOLEAN /\ Caps \subseteq Nat
      /\ "active" \in Phases /\ "paused" \in Phases /\ "blocked" \in Phases
      /\ "complete" \in Phases
  BY GoalAssumption DEF IInv, TypeOK, Goals, Goal, Phases
<1>2. ASSUME NEW max \in Caps, Create(max)
      PROVE  Sound'
  <2> DEFINE new == [ref |-> 0, phase |-> "active", max |-> max, rounds |-> 0]
  <2>1. new \in Goal
    BY <1>1 DEF Goal
  <2>2. Change(Committed(goals, new, TRUE), TRUE)
    BY <1>2 DEF Create
  <2> HIDE DEF new
  <2> QED BY <1>1, <2>1, <2>2, ChangeSound
<1>3. ASSUME NEW max \in Caps, Edit(max)
      PROVE  Sound'
  <2> DEFINE new == [goals.goal EXCEPT !.max = max]
  <2>1. new \in Goal /\ new.phase = goals.goal.phase
    BY <1>1 DEF Goal
  <2>2. Change(Committed(goals, new, goals.armed), FALSE)
    BY <1>3 DEF Edit
  <2>3. goals.armed /\ new.phase = "active" => mayRun
    BY <2>1 DEF Sound, ArmedByUser, ArmedActive
  <2> HIDE DEF new
  <2> QED BY <1>1, <2>1, <2>2, <2>3, ChangeSound
<1>4. CASE Pause
  BY <1>1, <1>4, MoveSound DEF Pause
<1>5. CASE Resume
  BY <1>1, <1>5, MoveSound DEF Resume
<1>6. CASE Clear
  <2>1. NoGoal \in Goal
    BY DEF NoGoal, Goal, Phases
  <2>2. Change(Committed(goals, NoGoal, FALSE), FALSE)
    BY <1>6 DEF Clear
  <2> QED BY <1>1, <2>1, <2>2, ChangeSound
<1>7. CASE ModelCompletes
  BY <1>1, <1>7, MoveSound DEF ModelCompletes
<1>8. CASE ModelBlocks
  BY <1>1, <1>8, MoveSound DEF ModelBlocks
<1>9. CASE HostDisarms
  <2> DEFINE h == Disarmed(goals)
  <2>1. /\ h \in Goals /\ h.goal = goals.goal /\ h.last = goals.last
        /\ ~h.armed /\ h.attempt = goals.attempt
        /\ h.competing = goals.competing /\ h.requested = goals.requested
    BY <1>1, DisarmedFacts, DisarmedIs
  <2>2. goals' = h /\ mayRun' = mayRun /\ UNCHANGED <<box, sent, agent>>
    BY <1>9 DEF HostDisarms
  <2> HIDE DEF h
  <2>3. ~ArmedActive(goals')
    BY <2>1, <2>2 DEF ArmedActive
  <2>4. goals.attempt.rejected => goals'.requested /\ ~goals'.competing
    BY <2>1, <2>2 DEF Sound, RejectedIsDriven
  <2>5. goals'.last >= goals.last /\ goals'.goal.ref <= goals'.last
    BY <1>1, <2>1, <2>2 DEF Sound, RefsPast, Goals, Goal
  <2> QED
    BY <2>1, <2>2, <2>3, <2>4, <2>5, GoalMoves
<1> QED
  BY <1>2, <1>3, <1>4, <1>5, <1>6, <1>7, <1>8, <1>9 DEF GoalChanges

LEMMA WorkSound ==
  ASSUME IInv, Sound, WorkStarts \/ WorkSettles
  PROVE  Sound'
<1>1. goals \in Goals /\ TRUE \in BOOLEAN
  BY DEF IInv, TypeOK
<1> DEFINE h == [goals EXCEPT !.requested = TRUE]
<1>2. /\ h \in Goals /\ SameGoal(goals, h) /\ h.attempt = goals.attempt
      /\ h.competing = goals.competing /\ h.requested
  BY <1>1, RequestIs, UpdateFacts, NoAttemptType
<1>3. goals' \in {goals, h} /\ mayRun' = mayRun /\ UNCHANGED <<box, sent, agent>>
  BY DEF WorkStarts, WorkSettles, RequestDrive
<1> HIDE DEF h
<1>4. /\ SameGoal(goals, goals') /\ goals' \in Goals
      /\ goals'.attempt = goals.attempt /\ goals'.competing = goals.competing
      /\ goals.requested => goals'.requested
  BY <1>1, <1>2, <1>3 DEF SameGoal
<1>5. /\ goals'.last >= goals.last /\ goals'.goal.ref <= goals'.last
      /\ ArmedActive(goals') => ArmedActive(goals)
                                /\ goals'.goal.ref = goals.goal.ref
  BY <1>1, <1>4 DEF SameGoal, ArmedActive, Sound, RefsPast, Goals, Goal
<1>6. goals.attempt.rejected => goals'.requested /\ ~goals'.competing
  BY <1>4 DEF Sound, RejectedIsDriven
<1> QED
  BY <1>3, <1>4, <1>5, <1>6, GoalMoves

\* A drive that reserves nothing drops the attempt if it was rejected.
LEMMA DriveSound ==
  ASSUME IInv, Sound, DriveWaits \/ DriveSettles \/ DriveBlocks
  PROVE  Sound'
<1> DEFINE d == [goals EXCEPT !.requested = FALSE]
           n == [goals EXCEPT !.attempt = NoAttempt]
           m == Moved(d, "blocked", FALSE)
<1>0. /\ goals \in Goals /\ FALSE \in BOOLEAN /\ "blocked" \in Phases
      /\ goals.last \in Nat /\ goals.goal.ref \in Nat
  BY DEF IInv, TypeOK, Goals, Goal, Phases
<1>1. /\ d \in Goals /\ SameGoal(goals, d) /\ d.attempt = goals.attempt
      /\ d.competing = goals.competing
  BY <1>0, RequestIs, UpdateFacts, NoAttemptType
<1>2. n \in Goals /\ SameGoal(goals, n) /\ n.attempt = NoAttempt
  BY <1>0, AttemptIs, UpdateFacts, NoAttemptType
<1>3. /\ m \in Goals /\ m.goal.ref = d.last + 1 /\ m.last = d.last + 1
      /\ ~m.armed /\ m.attempt = d.attempt
  <2> HIDE DEF d
  <2> QED BY <1>0, <1>1, MovedFacts, MovedIs
<1>4. UNCHANGED <<box, sent, agent, mayRun>>
  BY DEF DriveWaits, DriveSettles, DriveBlocks
<1>5. CASE DriveWaits
  <2>1. goals' = d
    BY <1>5 DEF DriveWaits, Driven
  <2>2. ~goals.attempt.rejected
    BY <1>5 DEF DriveWaits, Ready, Sound, RejectedIsDriven
  <2> HIDE DEF d
  <2>3. /\ goals'.last >= goals.last /\ goals'.goal.ref <= goals'.last
        /\ ArmedActive(goals') => ArmedActive(goals)
                                  /\ goals'.goal.ref = goals.goal.ref
    BY <1>0, <1>1, <2>1 DEF SameGoal, ArmedActive, Sound, RefsPast
  <2> QED
    BY <1>1, <1>4, <2>1, <2>2, <2>3, GoalMoves
<1>6. CASE DriveSettles
  <2>1. goals' = n
    BY <1>6 DEF DriveSettles
  <2> HIDE DEF n
  <2>2. /\ goals'.last >= goals.last /\ goals'.goal.ref <= goals'.last
        /\ ArmedActive(goals') => ArmedActive(goals)
                                  /\ goals'.goal.ref = goals.goal.ref
    BY <1>0, <1>2, <2>1 DEF SameGoal, ArmedActive, Sound, RefsPast
  <2> QED
    BY <1>2, <1>4, <2>1, <2>2, GoalMoves
<1>7. CASE DriveBlocks
  <2>1. goals' = m
    BY <1>7 DEF DriveBlocks, Driven
  <2>2. ~goals.attempt.rejected
    BY <1>7 DEF DriveBlocks, Sound, RejectedIsDriven
  <2> HIDE DEF d, m
  <2>3. /\ goals'.last >= goals.last /\ goals'.goal.ref <= goals'.last
        /\ ~ArmedActive(goals')
    BY <1>0, <1>1, <1>3, <2>1 DEF SameGoal, ArmedActive
  <2> QED
    BY <1>1, <1>3, <1>4, <2>1, <2>2, <2>3, GoalMoves
<1> QED
  BY <1>5, <1>6, <1>7

-----------------------------------------------------------------------------
(***************************************************************************)
(* The steps of the agent's driver.                                        *)
(***************************************************************************)

\* Away from its idle edge the agent carries no rejected attempt.
LEMMA RunningNotRejected ==
  ASSUME Sound, pc # "idle" \/ ~goals.requested
  PROVE  ~goals.attempt.rejected
BY DEF Sound, RejectedIsDriven

LEMMA ReleasedSound ==
  ASSUME IInv, IInv', Sound, pc \in {"preparing", "gated"},
         NEW reason \in {"blocked", "error", "aborted"},
         EndTurn(reason, Released, goals),
         reason = "blocked" => pc = "gated" /\ ~aborted
  PROVE  Sound'
<1> DEFINE b == Released
<1>1. /\ b \in Box /\ b.reserved = {} /\ Pending(b) \subseteq Pending(box)
      /\ Tidy(b)
  <2>1. TypeOK /\ Tidy(box)
    BY DEF IInv, Sound
  <2> QED
    BY <2>1, ReleasedFacts, ReleasedTidies DEF Shrinks
<1>2. EndTurn(reason, b, goals)
  OBVIOUS
<1> HIDE DEF b
<1> QED
  BY <1>1, <1>2, EndTurnSound

LEMMA OpenTurnEnds ==
  ASSUME IInv, IInv', Sound, pc \in {"loop", "stepping"},
         NEW reason \in {"completed", "max-tokens", "budget", "error",
                         "aborted"},
         EndTurn(reason, box, goals), reason = "completed" => pc = "stepping"
  PROVE  Sound'
<1>1. box \in Box /\ Tidy(box) /\ box.reserved = {}
  BY NoClaimFacts DEF IInv, TypeOK, Sound
<1> QED
  BY <1>1, EndTurnSound

LEMMA EnterStepSound ==
  ASSUME IInv, IInv', Sound, NEW context \in BOOLEAN, EnterStep(context)
  PROVE  Sound'
<1> DEFINE b == Commit(box, passed)
           e == Entered(goals, passed)
<1>0. goals \in Goals /\ box \in Box /\ Tidy(box)
  BY DEF IInv, TypeOK, Sound
<1>1. /\ b \in Box /\ Tidy(b) /\ b.reserved = {}
      /\ Pending(b) \subseteq Pending(box)
  BY <1>0, CommitFacts, CommitTidies
<1>2. pc = "gated" /\ ~aborted
  BY DEF EnterStep
<1>3. CASE passed = {} /\ ~context /\ ~stepped
  <2>1. EndTurn("completed", b, goals)
    BY <1>3 DEF EnterStep
  <2> HIDE DEF b
  <2> QED
    BY <1>1, <1>2, <2>1, EndTurnSound
<1>4. CASE ~(passed = {} /\ ~context /\ ~stepped)
  <2>1. /\ box' = b /\ goals' = e /\ pc' = "stepping" /\ passed' = {}
        /\ UNCHANGED <<sent, aborted, wake, mayRun>>
    BY <1>4 DEF EnterStep
  <2>2. /\ e.armed = goals.armed /\ e.last = goals.last
        /\ e.goal.ref = goals.goal.ref /\ e.goal.phase = goals.goal.phase
        /\ e.attempt.msg = goals.attempt.msg
        /\ e.attempt.ref = goals.attempt.ref
        /\ e.attempt.stale = goals.attempt.stale
        /\ e.attempt.rejected = goals.attempt.rejected
        /\ e.attempt.phase \in {goals.attempt.phase, "admitted"}
    BY <1>0, EnteredIs
  <2>3. ~goals.attempt.rejected
    BY <1>2, RunningNotRejected
  <2> HIDE DEF b, e
  <2>4. ~Live(goals')
    <3>1. ~Live(goals)
      BY <1>2 DEF Sound, LiveWaits
    <3> QED
      BY <2>1, <2>2, <3>1 DEF Live, ArmedActive
  <2>5. ArmedActive(goals') => ArmedActive(goals)
    BY <2>1, <2>2 DEF ArmedActive
  <2> QED
    BY <1>1, <2>1, <2>2, <2>3, <2>4, <2>5 DEF Sound, Tidy, OnlyTheAttempt,
       RefsPast, RejectedIsDriven, LiveWaits, ClaimedAlone, ArmedByUser,
       PassedByUser
<1> QED
  BY <1>3, <1>4

\* What waits alone, and is not held, is what the claim takes.
LEMMA AloneIsClaimed ==
  ASSUME NEW b \in Box, Tidy(b), b.held = {},
         NEW r \in Pending(b), On(b, "next-turn") \subseteq {r}
  PROVE  r \in Claim(b, "next-turn").reserved
<1>1. Claim(b, "next-turn").reserved = ClaimSet(b, "next-turn")
  BY DEF Claim, Box
<1>2. r \in Msg /\ r \in On(b, "next-turn") \union On(b, "next-step")
  BY DEF Pending, On, Box, Lists
<1>3. <<r, r>> \notin b.ahead
  BY <1>2 DEF Tidy
<1>4. r \in On(b, "next-turn") => r \in FirstOfTurn(b)
  BY <1>3 DEF FirstOfTurn
<1> QED
  BY <1>1, <1>2, <1>4 DEF ClaimSet

LEMMA ClaimStepSound ==
  ASSUME IInv, Sound, ClaimStep
  PROVE  Sound'
<1> DEFINE c == Claim(box, IF stepped THEN "next-step" ELSE "next-turn")
           a == goals.attempt
<1>1. /\ pc = "loop" /\ pc' = "preparing" /\ box' = c
      /\ UNCHANGED <<sent, aborted, wake, stepped, passed, goals, mayRun>>
  BY DEF ClaimStep
<1>2. /\ c \in Box /\ Pending(c) = Pending(box) /\ c.held = box.held
      /\ Tidy(c)
  BY ClaimFacts, ClaimTidies DEF IInv, TypeOK, Sound
<1>3. ~a.rejected
  BY <1>1, RunningNotRejected
<1>4. ASSUME Live(goals)
      PROVE  /\ a.msg \subseteq Pending(c) /\ c.held = {} /\ ~wake
             /\ a.msg \subseteq c.reserved
  <2>1. /\ a.msg \subseteq Pending(box) /\ box.held = {} /\ ~stepped
        /\ ~wake
    BY <1>1, <1>4 DEF Sound, LiveWaits
  <2>2. PICK r : a.msg = {r}
    BY <1>4 DEF IInv, AttemptReserved, Live
  <2>3. On(box, "next-turn") \subseteq {r}
    BY <1>4, <2>2 DEF IInv, NothingBehindRound, Live
  <2>4. r \in Claim(box, "next-turn").reserved
    BY <2>1, <2>2, <2>3, AloneIsClaimed DEF IInv, TypeOK, Sound
  <2>5. c = Claim(box, "next-turn")
    BY <2>1
  <2> HIDE DEF c
  <2> QED
    BY <1>2, <2>1, <2>2, <2>4, <2>5
<1> HIDE DEF c
<1>5. LiveWaits'
  BY <1>1, <1>4 DEF LiveWaits
<1> QED
  BY <1>1, <1>2, <1>3, <1>5 DEF Sound, Tidy, OnlyTheAttempt, RefsPast,
     RejectedIsDriven, ClaimedAlone, ArmedByUser, PassedByUser

\* The gate lets a round of the live revision through, or drops its attempt.
LEMMA GateSound ==
  ASSUME IInv, Sound, Gate
  PROVE  Sound'
<1> DEFINE round == box.reserved \intersect Round
           a     == goals.attempt
           ours  == round # {} /\ a.msg = round
           valid == \A r \in round : Valid(r)
           claimed == [a EXCEPT !.phase = "claimed"]
           x == [goals EXCEPT !.attempt = claimed]
           none == [goals EXCEPT !.attempt = NoAttempt]
           y == RequestDrive(none)
<1>0. /\ goals \in Goals /\ a \in Attempt /\ a.phase \in
           {"none", "queued", "claimed", "admitted"}
      /\ a.stale \in BOOLEAN /\ goals.last \in Nat
  BY DEF IInv, TypeOK, Goals, Attempt
<1>1. /\ pc = "preparing" /\ ~aborted /\ pc' = "gated"
      /\ passed' = IF valid THEN box.reserved ELSE box.reserved \ round
      /\ goals' = CASE ours /\ valid  -> [goals EXCEPT !.attempt.phase = "claimed"]
                    [] ours /\ ~valid -> y
                    [] OTHER          -> goals
      /\ UNCHANGED <<box, sent, aborted, wake, mayRun>>
  BY DEF Gate
<1>2. ~a.rejected
  BY <1>1, RunningNotRejected
<1>3. /\ claimed \in Attempt /\ claimed.phase = "claimed"
      /\ claimed.msg = a.msg /\ claimed.ref = a.ref
      /\ claimed.rejected = a.rejected
  BY <1>0 DEF Attempt
<1>4. [goals EXCEPT !.attempt.phase = "claimed"] = x
  OBVIOUS
<1>5. SameGoal(goals, x) /\ x.attempt = claimed
  <2> HIDE DEF claimed
  <2> QED BY <1>0, <1>3, AttemptIs
<1>6. SameGoal(goals, y) /\ y.attempt = NoAttempt
  <2>1. none \in Goals /\ SameGoal(goals, none) /\ none.attempt = NoAttempt
    BY <1>0, AttemptIs, UpdateFacts, NoAttemptType
  <2>2. TRUE \in BOOLEAN
    OBVIOUS
  <2> HIDE DEF none
  <2> QED BY <2>1, <2>2, RequestIs DEF RequestDrive, SameGoal
<1> HIDE DEF claimed, x, y, none
<1>7. /\ SameGoal(goals, goals')
      /\ \/ ours /\ valid /\ goals'.attempt = claimed
         \/ ours /\ ~valid /\ goals'.attempt = NoAttempt
         \/ ~ours /\ goals' = goals
  <2> HIDE DEF ours, valid
  <2> QED BY <1>1, <1>4, <1>5, <1>6 DEF SameGoal
<1>8. /\ goals'.attempt.msg \in {a.msg, {}} /\ goals'.attempt.ref \in {a.ref, 0}
      /\ ~goals'.attempt.rejected
  BY <1>2, <1>3, <1>7, NoAttemptIs
<1>9. ArmedActive(goals') <=> ArmedActive(goals)
  BY <1>7 DEF SameGoal, ArmedActive
<1>10. a.msg # {} /\ a.msg \subseteq Pending(box) => a.phase = "queued"
  BY <1>1 DEF IInv, ClaimedIsPassing
<1>11. ASSUME Live(goals')
       PROVE  FALSE
  <2>1. goals' = goals /\ ~ours
    BY <1>3, <1>7, <1>11, NoAttemptIs DEF Live
  <2>2. a.msg \subseteq box.reserved /\ box.reserved \subseteq Pending(box)
    BY <1>1, <1>11, <2>1 DEF Sound, LiveWaits, IInv, ClaimsSound
  <2>3. PICK r \in Round : a.msg = {r}
    BY <1>0, <1>11, <2>1 DEF IInv, AttemptReserved, Live, Attempt
  <2>4. round = {r}
    BY <2>2, <2>3 DEF IInv, OneRound
  <2> QED
    BY <2>1, <2>3, <2>4
<1>12. ASSUME goals'.attempt.phase = "claimed",
              goals'.attempt.msg \subseteq Pending(box)
       PROVE  ~wake /\ box.held = {}
  <2>1. CASE ours /\ valid
    <3>1. PICK r \in round : a.msg = {r}
      BY <2>1 DEF IInv, AttemptReserved
    <3>2. ~a.stale /\ ArmedActive(goals) /\ a.ref = goals.goal.ref
      BY <2>1, <3>1 DEF Valid, IsNextRound
    <3>3. a.phase = "queued"
      BY <1>10, <2>1 DEF IInv, ClaimsSound
    <3>4. Live(goals)
      BY <3>2, <3>3 DEF Live
    <3> QED
      BY <1>1, <3>4 DEF Sound, LiveWaits
  <2>2. CASE ~(ours /\ valid)
    <3>1. goals' = goals
      BY <1>7, <1>12, <2>2, NoAttemptIs
    <3> QED
      BY <1>10, <1>12, <3>1 DEF IInv, AttemptReserved
  <2> QED
    BY <2>1, <2>2
<1>13. ASSUME passed' \intersect Round # {}
       PROVE  mayRun
  <2>1. valid /\ round # {}
    BY <1>1, <1>13
  <2>2. ArmedActive(goals)
    BY <2>1 DEF Valid
  <2> QED
    BY <2>2 DEF Sound, ArmedByUser
<1>14. OnlyTheAttempt' /\ RefsPast'
  BY <1>0, <1>1, <1>7, <1>8 DEF Sound, OnlyTheAttempt, RefsPast, SameGoal
<1> QED
  BY <1>1, <1>8, <1>9, <1>11, <1>12, <1>13, <1>14 DEF Sound, Tidy,
     RejectedIsDriven, LiveWaits, ClaimedAlone, ArmedByUser, PassedByUser

LEMMA QuietAgentSound ==
  ASSUME IInv, Sound, StepContinues \/ BeginMaintenance
  PROVE  Sound'
<1>1. /\ pc \in {"stepping", "idle"} /\ pc' \in {"loop", "maintenance"}
      /\ UNCHANGED <<box, sent, aborted, wake, stepped, passed, goals, mayRun>>
      /\ pc # "idle" \/ ~goals.requested
  BY DEF StepContinues, BeginMaintenance, Quiet
<1>2. ~goals.attempt.rejected
  BY <1>1, RunningNotRejected
<1> QED
  BY <1>1, <1>2 DEF Sound, Tidy, OnlyTheAttempt, RefsPast, RejectedIsDriven,
     LiveWaits, ClaimedAlone, ArmedByUser, PassedByUser

\* A round queued in maintenance asked for a run, and can be claimed.
LEMMA EndMaintenanceSound ==
  ASSUME IInv, Sound, EndMaintenance
  PROVE  Sound'
<1>1. /\ pc = "maintenance" /\ UNCHANGED <<box, sent, goals, mayRun>>
      /\ pc' = IF wake /\ HasClaimable(box) THEN "loop" ELSE "idle"
      /\ ~wake' /\ ~stepped' /\ passed' = {}
  BY DEF EndMaintenance, Begin, Rest
<1>2. ~goals.attempt.rejected
  BY <1>1, RunningNotRejected
<1>3. Live(goals) => HasClaimable(box) /\ wake
  <2> SUFFICES ASSUME Live(goals) PROVE HasClaimable(box) /\ wake
    OBVIOUS
  <2>1. /\ goals.attempt.msg \subseteq Pending(box) /\ box.held = {} /\ wake
    BY <1>1 DEF Sound, LiveWaits
  <2>2. box.reserved = {} /\ goals.attempt.msg # {}
    BY <1>1, NoClaimFacts DEF Live, IInv, AttemptReserved
  <2> QED
    BY <2>1, <2>2 DEF HasClaimable, Claimable
<1>4. LiveWaits'
  BY <1>1, <1>3 DEF Sound, LiveWaits
<1> QED
  BY <1>1, <1>2, <1>4 DEF Sound, Tidy, OnlyTheAttempt, RefsPast,
     RejectedIsDriven, ClaimedAlone, ArmedByUser, PassedByUser

LEMMA DriverSound ==
  ASSUME IInv, IInv', Sound, Driver
  PROVE  Sound'
<1>1. CASE ClaimStep
  BY <1>1, ClaimStepSound
<1>2. CASE BudgetSpent
  BY <1>2, OpenTurnEnds DEF BudgetSpent
<1>3. CASE Gate
  BY <1>3, GateSound
<1>4. CASE \E context \in BOOLEAN : EnterStep(context)
  BY <1>4, EnterStepSound
<1>5. CASE RejectStep \/ PrepareFails \/ PrepareAborted
  BY <1>5, ReleasedSound DEF RejectStep, PrepareFails, PrepareAborted
<1>6. CASE StepContinues \/ BeginMaintenance
  BY <1>6, QuietAgentSound
<1>7. CASE \E reason \in {"completed", "max-tokens", "aborted", "error"} :
             StepEnds(reason)
  BY <1>7, OpenTurnEnds DEF StepEnds
<1>8. CASE EndMaintenance
  BY <1>8, EndMaintenanceSound
<1> QED
  BY <1>1, <1>2, <1>3, <1>4, <1>5, <1>6, <1>7, <1>8 DEF Driver

-----------------------------------------------------------------------------
(***************************************************************************)
(* What users and other components do to the agent.                        *)
(***************************************************************************)

\* A wake of an agent that runs only notes what an abort or maintenance
\* delays.
LEMMA WakeIs ==
  ASSUME NEW afterAbort \in BOOLEAN, Wake(afterAbort)
  PROVE  \/ /\ pc = "idle" /\ pc' = "loop" /\ ~wake' /\ ~stepped'
            /\ passed' = {}
         \/ /\ pc # "idle" /\ pc' = pc /\ aborted' = aborted
            /\ passed' = passed /\ stepped' = stepped
            /\ wake' = (wake \/ pc = "maintenance" \/ afterAbort)
BY DEF Wake, Begin

\* A prompt makes the reservation that waits stale.
LEMMA PromptSound ==
  ASSUME IInv, Sound, NEW m \in User, Prompt(m)
  PROVE  Sound'
<1> DEFINE c == AppendTo(box, "next-turn", m)
           i == Inserted(goals)
           a == goals.attempt
<1>0. /\ goals \in Goals /\ box \in Box /\ m \in Msg /\ m \notin Round
      /\ aborted \in BOOLEAN /\ "next-turn" \in Lists
  BY UserAssumption, GoalAssumption DEF IInv, TypeOK, Lists
<1>1. /\ box' = c /\ goals' = i /\ sent' = sent \union {m} /\ Wake(aborted)
      /\ UNCHANGED <<reservations, busy, mayRun>> /\ ~goals.requested
  BY DEF Prompt, Quiet
<1>2. /\ Pending(c) = Pending(box) \union {m} /\ c.held = box.held
      /\ Tidy(c)
  BY <1>0, AppendFacts, AppendTidies DEF Sound
<1>3. /\ SameGoal(goals, i) /\ SameAttempt(a, i.attempt)
      /\ i.attempt.rejected = a.rejected
      /\ i.attempt.phase = "queued" => i.attempt.stale
  BY <1>0, InsertedIs
<1>4. ~a.rejected
  BY <1>1, RunningNotRejected
<1> HIDE DEF c, i
<1>5. ~Live(goals') /\ (ArmedActive(goals') <=> ArmedActive(goals))
  BY <1>1, <1>3 DEF Live, SameGoal, ArmedActive
<1>6. OnlyTheAttempt' /\ RefsPast'
  BY <1>0, <1>1, <1>2, <1>3 DEF Sound, OnlyTheAttempt, RefsPast, SameGoal,
     SameAttempt
<1>7. ClaimedAlone'
  <2> SUFFICES ASSUME pc' = "gated", ~aborted', goals'.attempt.phase = "claimed",
                      goals'.attempt.msg \subseteq Pending(box')
               PROVE  ~wake' /\ box'.held = {}
    BY DEF ClaimedAlone
  <2>1. /\ pc = "gated" /\ ~aborted /\ wake' = wake
    BY <1>0, <1>1, WakeIs DEF IInv, TypeOK
  <2>2. a.phase = "claimed" /\ a.msg \subseteq Pending(box)
    <3>1. a.msg \subseteq Round /\ goals'.attempt.msg = a.msg
      BY <1>1, <1>3 DEF IInv, TypeOK, Goals, SameAttempt
    <3> QED
      BY <1>0, <1>1, <1>2, <1>3, <3>1 DEF SameAttempt
  <2> QED
    BY <1>1, <1>2, <2>1, <2>2 DEF Sound, ClaimedAlone
<1>8. PassedByUser'
  BY <1>0, <1>1, WakeIs DEF Sound, PassedByUser
<1> QED
  BY <1>1, <1>2, <1>3, <1>4, <1>5, <1>6, <1>7, <1>8 DEF Sound, Tidy,
     RejectedIsDriven, LiveWaits, ArmedByUser

\* Prompts for the next step, and the ones that are withdrawn, are no rounds:
\* they hold nothing and start nothing.
LEMMA SteerSound ==
  ASSUME IInv, Sound, NEW m \in User, Steer(m)
  PROVE  Sound'
<1> DEFINE c == AppendTo(box, "next-step", m)
<1>0. /\ box \in Box /\ m \in Msg /\ m \notin Round /\ "next-step" \in Lists
      /\ goals.attempt.msg \subseteq Round
  BY UserAssumption, GoalAssumption DEF IInv, TypeOK, Lists, Goals
<1>1. /\ box' = c /\ sent' = sent \union {m} /\ ~goals.requested
      /\ UNCHANGED <<agent, goals, mayRun>>
  BY DEF Steer, Quiet
<1>2. /\ Pending(c) = Pending(box) \union {m} /\ c.held = box.held
      /\ c.reserved = box.reserved /\ Tidy(c)
  BY <1>0, AppendFacts, AppendTidies DEF Sound
<1>3. ~goals.attempt.rejected
  BY <1>1, RunningNotRejected
<1> HIDE DEF c
<1> QED
  BY <1>0, <1>1, <1>2, <1>3 DEF Sound, Tidy, OnlyTheAttempt, RefsPast,
     RejectedIsDriven, LiveWaits, ClaimedAlone, ArmedByUser, PassedByUser,
     agent

LEMMA CancelSound ==
  ASSUME IInv, Sound, NEW m \in User, CancelWaiting(m) \/ CancelTaken(m)
  PROVE  Sound'
<1>0. /\ box \in Box /\ m \in Msg /\ m \notin Round
      /\ goals.attempt.msg \subseteq Round
  BY UserAssumption, GoalAssumption DEF IInv, TypeOK, Goals
<1>1. ~goals.attempt.rejected
  <2>1. ~goals.requested
    BY DEF CancelWaiting, CancelTaken, Quiet
  <2> QED BY <2>1, RunningNotRejected
<1>2. CASE CancelWaiting(m)
  <2> DEFINE c == Discard(box, {m})
  <2>1. /\ Pending(c) = Pending(box) \ {m} /\ c.held = box.held \ {m}
        /\ c.reserved = box.reserved /\ Tidy(c)
    BY <1>0, DiscardFacts, DiscardTidies DEF Sound
  <2>2. box' = c /\ UNCHANGED <<sent, agent, goals, mayRun>>
    BY <1>2 DEF CancelWaiting
  <2> HIDE DEF c
  <2> QED
    BY <1>0, <1>1, <2>1, <2>2 DEF Sound, Tidy, OnlyTheAttempt, RefsPast,
       RejectedIsDriven, LiveWaits, ClaimedAlone, ArmedByUser, PassedByUser,
       agent
<1>3. CASE CancelTaken(m)
  <2> DEFINE c == Withdraw(box, m)
  <2>1. /\ Pending(c) = Pending(box) /\ c.held = box.held
        /\ c.reserved = box.reserved /\ Tidy(c)
    BY <1>0, WithdrawFacts, WithdrawTidies DEF Sound
  <2>2. /\ box' \in {c, box} /\ wake' /\ aborted'
        /\ pc \in {"preparing", "gated", "stepping"}
        /\ UNCHANGED <<sent, pc, stepped, passed, goals, mayRun>>
    BY <1>3 DEF CancelTaken, Quiet, AtAwait, Running
  <2> HIDE DEF c
  <2>3. /\ Pending(box') = Pending(box) /\ box'.held = box.held
        /\ box'.reserved = box.reserved /\ Tidy(box')
    BY <2>1, <2>2 DEF Sound
  <2> QED
    BY <1>1, <2>2, <2>3 DEF Sound, Tidy, OnlyTheAttempt, RefsPast,
       RejectedIsDriven, LiveWaits, ClaimedAlone, ArmedByUser, PassedByUser
<1> QED
  BY <1>2, <1>3

\* While a round waits for its run, or runs alone, nothing is held.
LEMMA SendHeldSound ==
  ASSUME IInv, Sound, NEW m \in User, SendHeld(m)
  PROVE  Sound'
<1> DEFINE c == Unhold(box, m)
<1>1. /\ box' = c /\ m \in box.held /\ Wake(TRUE) /\ ~goals.requested
      /\ UNCHANGED <<sent, goals, mayRun>>
  BY DEF SendHeld, Quiet
<1>2. Pending(c) = Pending(box) /\ Tidy(c)
  BY UnholdFacts, UnholdTidies DEF IInv, TypeOK, Sound
<1>3. ~goals.attempt.rejected
  BY <1>1, RunningNotRejected
<1>4. ~Live(goals)
  BY <1>1 DEF Sound, LiveWaits
<1> HIDE DEF c
<1>5. ClaimedAlone' /\ PassedByUser'
  BY <1>1, <1>2, WakeIs DEF Sound, ClaimedAlone, PassedByUser
<1> QED
  BY <1>1, <1>2, <1>3, <1>4, <1>5 DEF Sound, Tidy, OnlyTheAttempt, RefsPast,
     RejectedIsDriven, LiveWaits, ArmedByUser

\* A stop disarms the goal before it aborts the run.
LEMMA StopSound ==
  ASSUME IInv, Sound, Stop
  PROVE  Sound'
<1> DEFINE d == DiscardWhere(box, Msg \ User)
           c == HoldUnsent(d)
           x == Moved(goals, "paused", FALSE)
           y == Disarmed(goals)
<1>0. /\ box \in Box /\ Tidy(box) /\ goals \in Goals /\ goals.last \in Nat
      /\ goals.goal.ref \in Nat /\ goals.attempt.ref \in Nat
      /\ "paused" \in Phases /\ FALSE \in BOOLEAN
  BY DEF IInv, TypeOK, Sound, Goals, Phases
<1>1. /\ box' = c /\ goals' \in {x, y} /\ ~goals.requested /\ ~mayRun'
      /\ aborted' = (pc # "idle") /\ UNCHANGED <<sent, pc, passed>>
  BY DEF Stop, Cancelled, Quiet
<1>2. Tidy(c) /\ Pending(c) \subseteq Pending(box)
  <2>1. d \in Box /\ Tidy(d) /\ Pending(d) \subseteq Pending(box)
    BY <1>0, DiscardWhereFacts, DiscardWhereTidies
  <2> HIDE DEF d
  <2> QED BY <2>1, HoldUnsentFacts, HoldTidies
<1>3. ~goals.attempt.rejected
  BY <1>1, RunningNotRejected
<1>4. /\ x.goal.ref = goals.last + 1 /\ x.last = goals.last + 1 /\ ~x.armed
      /\ x.attempt = goals.attempt
  BY <1>0, MovedIs
<1>5. /\ y.goal = goals.goal /\ y.last = goals.last /\ ~y.armed
      /\ y.attempt = goals.attempt
  BY <1>0, DisarmedIs
<1> HIDE DEF c, x, y
<1>6. ~ArmedActive(goals') /\ goals'.attempt = goals.attempt /\ RefsPast'
  <2>1. ~goals'.armed /\ goals'.attempt = goals.attempt
    BY <1>1, <1>4, <1>5
  <2>2. RefsPast'
    BY <1>0, <1>1, <1>4, <1>5 DEF Sound, RefsPast
  <2> QED
    BY <2>1, <2>2 DEF ArmedActive
<1>7. ~Live(goals')
  BY <1>6 DEF Live
<1>8. ClaimedAlone' /\ PassedByUser'
  BY <1>1 DEF ClaimedAlone, PassedByUser, IInv, ClaimsSound
<1> QED
  BY <1>1, <1>2, <1>3, <1>6, <1>7, <1>8 DEF Sound, Tidy, OnlyTheAttempt,
     RejectedIsDriven, LiveWaits, ArmedByUser

LEMMA CrashSound ==
  ASSUME IInv, Sound, CrashAndReopen
  PROVE  Sound'
<1> DEFINE c == Reopen(box)
           x == [goals EXCEPT !.armed = FALSE, !.attempt = NoAttempt,
                              !.competing = FALSE, !.requested = FALSE]
<1>1. /\ box' = c /\ goals' = x /\ sent' = sent /\ pc' = "idle" /\ passed' = {}
  BY DEF CrashAndReopen, Rest
<1>2. Pending(c) = Pending(box) /\ Tidy(c)
  BY ReopenFacts, ReopenTidies DEF IInv, TypeOK, Sound
<1>3. /\ x.goal = goals.goal /\ x.last = goals.last /\ ~x.armed
      /\ x.attempt = NoAttempt
  BY DEF IInv, TypeOK, Goals
<1>4. goals.last \in Nat
  BY DEF IInv, TypeOK, Goals
<1> HIDE DEF c, x
<1> QED
  BY <1>1, <1>2, <1>3, <1>4, NoAttemptIs DEF Sound, Tidy, OnlyTheAttempt,
     RefsPast, RejectedIsDriven, LiveWaits, Live, ClaimedAlone, ArmedByUser,
     PassedByUser, ArmedActive

\* The inbox is empty when a round is queued: the run that is woken for it
\* finds nothing else.
LEMMA DriveReservesSound ==
  ASSUME IInv, IInv', Sound, NEW r \in Round, DriveReserves(r)
  PROVE  Sound'
<1> DEFINE c   == AppendTo(box, "next-turn", r)
           ref == goals.goal.ref
           rnd == goals.goal.rounds + 1
           a   == [NoAttempt EXCEPT !.msg = {r}, !.ref = ref, !.round = rnd,
                                    !.phase = "queued"]
           d   == [goals EXCEPT !.requested = FALSE]
           g   == [d EXCEPT !.attempt = a]
<1>0. /\ goals \in Goals /\ box \in Box /\ r \in Msg /\ ref \in Nat
      /\ rnd \in Nat /\ FALSE \in BOOLEAN /\ "next-turn" \in Lists
      /\ aborted \in BOOLEAN
  BY GoalAssumption DEF IInv, TypeOK, Goals, Lists
<1>1. /\ box' = c /\ sent' = sent \union {r} /\ Pending(box) = {}
      /\ pc \in {"idle", "maintenance"} /\ Wake(aborted) /\ mayRun' = mayRun
  BY DEF DriveReserves, Ready
<1>2. goals' = g
  BY DEF DriveReserves, Driven
<1>3. /\ a \in Attempt /\ a.msg = {r} /\ a.ref = ref /\ ~a.rejected
  BY <1>0 DEF NoAttempt, Attempt
<1>4. SameGoal(goals, g) /\ g.attempt = a
  <2>1. d \in Goals /\ SameGoal(goals, d)
    BY <1>0, <1>3, RequestIs, UpdateFacts
  <2> HIDE DEF a, d
  <2> QED BY <1>3, <2>1, AttemptIs DEF SameGoal
<1>5. Pending(c) = {r} /\ c.held = {} /\ Tidy(c)
  BY <1>0, <1>1, AppendFacts, AppendTidies DEF Sound, Tidy
<1> HIDE DEF a, c, g
<1>6. RefsPast' /\ OnlyTheAttempt'
  BY <1>1, <1>2, <1>3, <1>4, <1>5 DEF Sound, RefsPast, OnlyTheAttempt, SameGoal
<1>7. pc' # "gated" /\ PassedByUser'
  BY <1>0, <1>1, NoClaimFacts, WakeIs DEF PassedByUser
<1>8. LiveWaits'
  BY <1>0, <1>1, <1>2, <1>3, <1>4, <1>5, WakeIs DEF LiveWaits
<1>9. ArmedActive(goals') <=> ArmedActive(goals)
  BY <1>2, <1>4 DEF ArmedActive, SameGoal
<1> QED
  BY <1>1, <1>2, <1>3, <1>4, <1>5, <1>6, <1>7, <1>8, <1>9 DEF Sound, Tidy,
     RejectedIsDriven, ClaimedAlone, ArmedByUser

LEMMA NextSound ==
  ASSUME IInv, IInv', Sound, [Next]_vars
  PROVE  Sound'
<1>1. CASE Driver
  BY <1>1, DriverSound
<1>2. CASE Calls
  BY <1>2, PromptSound, SteerSound, CancelSound, SendHeldSound, StopSound,
     WorkSound DEF Calls
<1>3. CASE GoalChanges
  BY <1>3, GoalChangesSound
<1>4. CASE Drive
  BY <1>4, DriveSound, DriveReservesSound DEF Drive
<1>5. CASE CrashAndReopen
  BY <1>5, CrashSound
<1>6. CASE UNCHANGED vars
  <2>1. UNCHANGED <<box, sent, agent, goals, mayRun>>
    BY <1>6 DEF vars
  <2> QED
    BY <2>1 DEF Sound, Tidy, OnlyTheAttempt, RefsPast, RejectedIsDriven,
       LiveWaits, ClaimedAlone, ArmedByUser, PassedByUser, agent
<1> QED
  BY <1>1, <1>2, <1>3, <1>4, <1>5, <1>6 DEF Next

-----------------------------------------------------------------------------
(***************************************************************************)
(* An idle agent is about to be driven.                                    *)
(***************************************************************************)

LEMMA TurnEndWatched ==
  ASSUME TypeOK, NEW reason, NEW b \in Box, Tidy(b), EndTurn(reason, b, goals)
  PROVE  Watched'
<1>1. pc' = "loop" \/ goals'.requested
  BY EndTurnIs
<1> QED
  BY <1>1 DEF Watched

LEMMA DriverWatched ==
  ASSUME IInv, Sound, Watched, Driver
  PROVE  Watched'
<1>0. TypeOK /\ Tidy(box) /\ box \in Box
  BY DEF IInv, TypeOK, Sound
<1>1. CASE ClaimStep \/ Gate \/ StepContinues
  <2>1. pc' \notin {"idle", "maintenance"}
    BY <1>1 DEF ClaimStep, Gate, StepContinues
  <2> QED
    BY <2>1 DEF Watched
<1>2. CASE \/ BudgetSpent
           \/ \E reason \in {"completed", "max-tokens", "aborted", "error"} :
                StepEnds(reason)
  BY <1>0, <1>2, TurnEndWatched DEF BudgetSpent, StepEnds
<1>3. ASSUME NEW context \in BOOLEAN, EnterStep(context)
      PROVE  Watched'
  <2> DEFINE b == Commit(box, passed)
  <2>1. b \in Box /\ Tidy(b)
    BY <1>0, CommitFacts, CommitTidies
  <2>2. EndTurn("completed", b, goals) \/ pc' = "stepping"
    BY <1>3 DEF EnterStep
  <2> HIDE DEF b
  <2>3. CASE EndTurn("completed", b, goals)
    BY <1>0, <2>1, <2>3, TurnEndWatched
  <2>4. CASE pc' = "stepping"
    BY <2>4 DEF Watched
  <2> QED
    BY <2>2, <2>3, <2>4
<1>4. CASE RejectStep \/ PrepareFails \/ PrepareAborted
  <2>1. Released \in Box /\ Tidy(Released)
    BY <1>0, ReleasedFacts, ReleasedTidies
  <2> QED
    BY <1>0, <1>4, <2>1, TurnEndWatched
       DEF RejectStep, PrepareFails, PrepareAborted
<1>5. CASE BeginMaintenance \/ EndMaintenance
  <2>1. pc \in {"idle", "maintenance"} /\ UNCHANGED <<box, goals, busy, missed>>
    BY <1>5 DEF BeginMaintenance, EndMaintenance, env
  <2> QED
    BY <2>1 DEF Watched
<1> QED
  BY <1>1, <1>2, <1>3, <1>4, <1>5 DEF Driver

LEMMA CallsWatched ==
  ASSUME IInv, Sound, Watched, Calls
  PROVE  Watched'
<1>0. TypeOK /\ Tidy(box) /\ box \in Box /\ goals \in Goals /\ User \subseteq Msg
      /\ missed \in BOOLEAN
  BY UserAssumption DEF IInv, TypeOK, Sound
<1>1. ASSUME NEW m \in User, Prompt(m)
      PROVE  Watched'
  <2>1. m \in Pending(box')
    BY <1>0, <1>1, AppendFacts DEF Prompt, Lists
  <2> QED
    BY <2>1 DEF Watched
<1>2. ASSUME NEW m \in User, Steer(m) \/ CancelTaken(m)
      PROVE  Watched'
  <2>1. pc' = pc /\ Running
    BY <1>2 DEF Steer, CancelTaken, agent
  <2> QED
    BY <2>1 DEF Watched, Running
<1>3. ASSUME NEW m \in User, CancelWaiting(m)
      PROVE  Watched'
  <2>1. pc' = pc /\ missed' = (missed \/ ~Running)
    BY <1>3 DEF CancelWaiting, agent
  <2> QED
    BY <2>1 DEF Watched, Running
<1>4. ASSUME NEW m \in User, SendHeld(m)
      PROVE  Watched'
  <2>1. Pending(box') = Pending(box) /\ m \in Pending(box)
    BY <1>0, <1>4, UnholdFacts DEF SendHeld, Tidy
  <2> QED
    BY <2>1 DEF Watched
<1>5. CASE Stop
  <2>1. goals' \in {Moved(goals, "paused", FALSE), Disarmed(goals)}
    BY <1>5 DEF Stop
  <2>2. "paused" \in Phases /\ FALSE \in BOOLEAN
    BY DEF Phases
  <2>3. ~goals'.armed
    BY <1>0, <2>1, <2>2, MovedIs, DisarmedIs
  <2> QED
    BY <2>3 DEF Watched, ArmedActive
<1>6. CASE WorkStarts
  BY <1>6 DEF WorkStarts, Watched, agent
<1>7. CASE WorkSettles
  <2>1. goals' = RequestDrive(goals) /\ TRUE \in BOOLEAN
    BY <1>7 DEF WorkSettles
  <2>2. goals'.requested
    BY <1>0, <2>1, RequestIs DEF RequestDrive
  <2> QED
    BY <2>2 DEF Watched
<1> QED
  BY <1>1, <1>2, <1>3, <1>4, <1>5, <1>6, <1>7 DEF Calls

\* A change of the goal asks for a drive, which waits for something else.
LEMMA GoalsWatched ==
  ASSUME IInv, Sound, Watched, GoalChanges \/ Drive \/ CrashAndReopen
  PROVE  Watched'
<1>0. /\ goals \in Goals /\ goals.goal \in Goal /\ goals.armed \in BOOLEAN
      /\ TRUE \in BOOLEAN /\ FALSE \in BOOLEAN /\ Caps \subseteq Nat
      /\ "active" \in Phases /\ "paused" \in Phases /\ "blocked" \in Phases
      /\ "complete" \in Phases /\ NoGoal \in Goal
  BY GoalAssumption DEF IInv, TypeOK, Goals, Goal, Phases, NoGoal
<1>1. ASSUME NEW goal \in Goal, NEW armed \in BOOLEAN, NEW arms \in BOOLEAN,
             Change(Committed(goals, goal, armed), arms)
      PROVE  Watched'
  <2>1. goals' = Committed(goals, goal, armed)
    BY <1>1 DEF Change
  <2>2. goals'.requested
    BY <1>0, <2>1, CommittedIs
  <2> QED
    BY <2>2 DEF Watched
<1>2. ASSUME NEW phase \in Phases, NEW armed \in BOOLEAN, NEW arms \in BOOLEAN,
             Change(Moved(goals, phase, armed), arms)
      PROVE  Watched'
  <2>1. [goals.goal EXCEPT !.phase = phase] \in Goal
    BY <1>0 DEF Goal
  <2> QED
    BY <1>1, <1>2, <2>1 DEF Moved
<1>3. CASE \E max \in Caps : Create(max)
  <2>1. \A max \in Caps : [ref |-> 0, phase |-> "active", max |-> max,
                           rounds |-> 0] \in Goal
    BY <1>0 DEF Goal
  <2> QED
    BY <1>0, <1>1, <1>3, <2>1 DEF Create
<1>4. CASE \E max \in Caps : Edit(max)
  <2>1. \A max \in Caps : [goals.goal EXCEPT !.max = max] \in Goal
    BY <1>0 DEF Goal
  <2> QED
    BY <1>0, <1>1, <1>4, <2>1 DEF Edit
<1>5. CASE Pause \/ Resume \/ ModelCompletes \/ ModelBlocks
  BY <1>0, <1>2, <1>5 DEF Pause, Resume, ModelCompletes, ModelBlocks
<1>6. CASE Clear
  BY <1>0, <1>1, <1>6 DEF Clear
<1>7. CASE HostDisarms
  <2>1. ~goals'.armed
    BY <1>0, <1>7, DisarmedIs DEF HostDisarms
  <2> QED
    BY <2>1 DEF Watched, ArmedActive
<1>8. CASE DriveWaits
  <2>1. UNCHANGED <<box, agent, busy>> /\ goals' = [goals EXCEPT !.requested = FALSE]
    BY <1>8 DEF DriveWaits, Driven, env
  <2>2. SameGoal(goals, goals') /\ goals'.competing = goals.competing
    BY <1>0, <2>1, RequestIs
  <2>3. Ready /\ Pending(box) = {} /\ ~busy => ~ArmedActive(goals)
    BY <1>8 DEF DriveWaits, StillQueued
  <2> QED
    BY <2>1, <2>2, <2>3 DEF Watched, Ready, SameGoal, ArmedActive, agent
<1>9. CASE DriveSettles
  <2>1. goals' = [goals EXCEPT !.attempt = NoAttempt] /\ goals.requested
    BY <1>9 DEF DriveSettles
  <2>2. goals'.requested
    BY <1>0, <2>1, AttemptIs, NoAttemptType
  <2> QED
    BY <2>2 DEF Watched
<1>10. CASE DriveBlocks
  <2>1. Driven \in Goals
    BY <1>0, UpdateFacts, NoAttemptType DEF Driven
  <2>2. ~goals'.armed
    BY <1>0, <1>10, <2>1, MovedIs DEF DriveBlocks
  <2> QED
    BY <2>2 DEF Watched, ArmedActive
<1>11. CASE \E r \in Round : DriveReserves(r)
  <2>1. PICK r \in Round : box' = AppendTo(box, "next-turn", r)
    BY <1>11 DEF DriveReserves
  <2>2. r \in Pending(box')
    BY <2>1, AppendFacts, GoalAssumption DEF Lists, IInv, TypeOK
  <2> QED
    BY <2>2 DEF Watched
<1>12. CASE CrashAndReopen
  <2>1. ~goals'.armed
    BY <1>0, <1>12 DEF CrashAndReopen, Goals
  <2> QED
    BY <2>1 DEF Watched, ArmedActive
<1> QED
  BY <1>3, <1>4, <1>5, <1>6, <1>7, <1>8, <1>9, <1>10, <1>11, <1>12
     DEF GoalChanges, Drive

LEMMA GoalInit == Init => GInv
<1> SUFFICES ASSUME Init PROVE GInv
  OBVIOUS
<1>1. IInv
  BY InitEstablishes
<1>2. /\ Pending(box) = {} /\ box.held = {} /\ box.ahead = {}
  BY EmptyBoxFacts DEF Init, EmptyBox
<1>3. Sound
  BY <1>2 DEF Init, Sound, Tidy, OnlyTheAttempt, RefsPast, RejectedIsDriven,
     LiveWaits, Live, ClaimedAlone, ArmedByUser, PassedByUser, ArmedActive,
     NoGoal, NoAttempt
<1>4. Watched
  BY DEF Init, Watched, ArmedActive
<1> QED
  BY <1>1, <1>3, <1>4 DEF GInv

LEMMA GoalNext == GInv /\ [Next]_vars => GInv'
<1> SUFFICES ASSUME GInv, [Next]_vars PROVE GInv'
  OBVIOUS
<1>1. IInv /\ Sound /\ Watched
  BY DEF GInv
<1>2. IInv'
  BY <1>1, NextPreserves
<1>3. Sound'
  BY <1>1, <1>2, NextSound
<1>4. Watched'
  <2>1. CASE UNCHANGED vars
    BY <1>1, <2>1 DEF vars, agent, env, Watched
  <2> QED
    BY <1>1, <2>1, DriverWatched, CallsWatched, GoalsWatched DEF Next
<1> QED
  BY <1>2, <1>3, <1>4 DEF GInv

\* What keeps a goal going, and what stops it, holds in every reachable state
\* (round-driver.ts observe, drive and gate; agent.ts kick and turn).
THEOREM SoundHolds == Spec => []GInv
BY GoalInit, GoalNext, PTL DEF Spec

\* A goal that is active and armed goes on: an idle agent with an empty inbox
\* and no work to wait for is about to be driven (round-driver.ts onIdle and
\* requestDrive), the two cases apart that GoalContinues is about.
THEOREM GoalGoesOn == Spec => []GoalKeepsGoing
<1>1. GInv => GoalKeepsGoing
  BY DEF GInv, Watched, GoalKeepsGoing
<1> QED
  BY <1>1, SoundHolds, PTL

-----------------------------------------------------------------------------
(***************************************************************************)
(* Only a goal a user armed, and nothing stopped since, enters a step.     *)
(***************************************************************************)

\* The open turn grows where a step is entered, with what the gate passed.
LEMMA TurnGrows ==
  ASSUME Next
  PROVE  turn' \subseteq turn \/ (~aborted /\ turn' = turn \union passed)
<1>1. ASSUME NEW reason, NEW b, EndTurn(reason, b, goals)
      PROVE  turn' = {}
  BY <1>1 DEF EndTurn, Begin, Rest
<1>2. CASE Driver
  BY <1>1, <1>2 DEF Driver, ClaimStep, BudgetSpent, Gate, EnterStep,
     RejectStep, PrepareFails, PrepareAborted, StepContinues, StepEnds,
     BeginMaintenance, EndMaintenance, Begin, Rest
<1>3. CASE Calls
  BY <1>3 DEF Calls, Prompt, Steer, CancelWaiting, CancelTaken, SendHeld, Stop,
     Cancelled, WorkStarts, WorkSettles, Wake, Begin, agent
<1>4. CASE GoalChanges
  BY <1>4 DEF GoalChanges, Change, Create, Edit, Pause, Resume, Clear,
     ModelCompletes, ModelBlocks, HostDisarms, agent
<1>5. CASE Drive
  BY <1>5 DEF Drive, DriveWaits, DriveSettles, DriveBlocks, DriveReserves,
     Wake, Begin, agent
<1>6. CASE CrashAndReopen
  BY <1>6 DEF CrashAndReopen, Rest
<1> QED
  BY <1>2, <1>3, <1>4, <1>5, <1>6 DEF Next

LEMMA EntersOnlyArmed ==
  GInv /\ [Next]_vars => [Entering # {} => mayRun]_vars
<1> SUFFICES ASSUME GInv, Next, Entering # {}
             PROVE  mayRun
  OBVIOUS
<1>1. ~aborted /\ passed \intersect Round # {}
  BY TurnGrows DEF Entering
<1> QED
  BY <1>1 DEF GInv, Sound, PassedByUser

\* After a stop, a cancelled or failed turn, a spent budget or a restart no
\* goal round enters a step until a user arms the goal (round-driver.ts:12).
THEOREM StoppedStaysDown == Spec => StoppedGoalStaysDown
BY SoundHolds, EntersOnlyArmed, PTL DEF Spec, StoppedGoalStaysDown
=============================================================================
