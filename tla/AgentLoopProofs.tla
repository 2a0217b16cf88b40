-------------------------- MODULE AgentLoopProofs --------------------------
(***************************************************************************)
(* Proofs about AgentLoop, for every set of messages and every number of   *)
(* crashes: IInv is an inductive invariant, and from it the accounting of  *)
(* messages, the soundness of claims, that neither parked nor cancelled    *)
(* messages run, and that the driver implements PromptLedger.  The second  *)
(* part, TurnInv, is about turns: one takes one prompt, nobody is left     *)
(* waiting, outcomes are true, and a cancelled message holds no other.     *)
(***************************************************************************)
EXTENDS AgentLoop, TLAPS

(***************************************************************************)
(* What the operations of Inbox do to a box: the result is a box again,    *)
(* and the sets the proofs speak of.                                       *)
(***************************************************************************)

\* A fresh inbox is empty.
LEMMA EmptyBoxFacts ==
  /\ EmptyBox \in Box
  /\ Pending(EmptyBox) = {}
BY DEF EmptyBox, Box, Pending, Lists

\* AppendTo, the splice(s) of append, prepend and promote: m is pending.
LEMMA AppendFacts ==
  ASSUME NEW b \in Box, NEW m \in Msg, NEW l \in Lists
  PROVE  /\ AppendTo(b, l, m) \in Box
         /\ Pending(AppendTo(b, l, m)) = Pending(b) \union {m}
         /\ AppendTo(b, l, m).held = b.held
         /\ AppendTo(b, l, m).reserved = b.reserved
         /\ AppendTo(b, l, m).withdrawn = b.withdrawn
         /\ AppendTo(b, l, m).discarded = b.discarded
<1> DEFINE w == [b.where EXCEPT ![m] = l]
           a == AheadWithout(b, {m}) \union ((On(b, l) \ {m}) \X {m})
           c == [b EXCEPT !.where = w, !.ahead = a]
<1>1. w \in [Msg -> Lists \union {"none"}] /\ a \in SUBSET (Msg \X Msg)
  BY DEF Box, AheadWithout, On
<1>2. AppendTo(b, l, m) = c
  BY DEF AppendTo, Box
<1>3. c \in Box
  BY <1>1 DEF Box
<1>4. Pending(c) = Pending(b) \union {m}
  BY DEF Pending, Box, Lists
<1> QED
  BY <1>2, <1>3, <1>4 DEF Box

\* Without, the removals: the messages of S are pending no more.
LEMMA WithoutFacts ==
  ASSUME NEW b \in Box, NEW S
  PROVE  /\ Without(b, S) \in Box
         /\ Pending(Without(b, S)) = Pending(b) \ S
         /\ Without(b, S).held = b.held
         /\ Without(b, S).reserved = b.reserved
         /\ Without(b, S).withdrawn = b.withdrawn
         /\ Without(b, S).discarded = b.discarded
<1> DEFINE w == [m \in Msg |-> IF m \in S THEN "none" ELSE b.where[m]]
           a == AheadWithout(b, S)
           c == [b EXCEPT !.where = w, !.ahead = a]
<1>1. w \in [Msg -> Lists \union {"none"}] /\ a \in SUBSET (Msg \X Msg)
  BY DEF Box, AheadWithout
<1>2. Without(b, S) = c
  BY DEF Without, Box
<1>3. c \in Box
  BY <1>1 DEF Box
<1>4. Pending(c) = Pending(b) \ S
  BY DEF Pending, Box
<1> QED
  BY <1>2, <1>3, <1>4 DEF Box

\* Discard: the messages of S leave the lists and are named as discarded.
LEMMA DiscardFacts ==
  ASSUME NEW b \in Box, NEW S \in SUBSET Msg
  PROVE  /\ Discard(b, S) \in Box
         /\ Pending(Discard(b, S)) = Pending(b) \ S
         /\ Discard(b, S).held = b.held \ S
         /\ Discard(b, S).reserved = b.reserved
         /\ Discard(b, S).withdrawn = b.withdrawn
         /\ Discard(b, S).discarded = b.discarded \union S
<1> DEFINE w == Without(b, S)
<1>1. w \in Box /\ Pending(w) = Pending(b) \ S /\ w.held = b.held
      /\ w.reserved = b.reserved /\ w.withdrawn = b.withdrawn
      /\ w.discarded = b.discarded
  BY WithoutFacts
<1>2. Discard(b, S) = [w EXCEPT !.held = b.held \ S,
                                !.discarded = b.discarded \union S]
  BY <1>1 DEF Discard, Box
<1> HIDE DEF w
<1> DEFINE d == [w EXCEPT !.held = b.held \ S,
                         !.discarded = b.discarded \union S]
<1>3. b.held \in SUBSET Msg /\ b.discarded \in SUBSET Msg
  BY DEF Box
<1>4. d \in Box
  BY <1>1, <1>3 DEF Box
<1>5. d.where = w.where /\ d.reserved = w.reserved
      /\ d.withdrawn = w.withdrawn /\ d.held = b.held \ S
      /\ d.discarded = b.discarded \union S
  BY <1>1 DEF Box
<1>6. Pending(d) = Pending(w)
  BY <1>5 DEF Pending
<1> QED
  BY <1>1, <1>2, <1>4, <1>5, <1>6

\* discardWhere leaves what a claim reserved.
LEMMA DiscardWhereFacts ==
  ASSUME NEW b \in Box, NEW S
  PROVE  LET D == S \intersect (Pending(b) \ b.reserved)
             d == DiscardWhere(b, S)
         IN  /\ d \in Box
             /\ Pending(d) = Pending(b) \ D
             /\ d.held = b.held \ D
             /\ d.reserved = b.reserved
             /\ d.withdrawn = b.withdrawn
             /\ d.discarded = b.discarded \union D
<1>1. S \intersect Unreserved(b) \in SUBSET Msg
  BY DEF Unreserved, Pending
<1> QED
  BY <1>1, DiscardFacts DEF DiscardWhere, Unreserved

\* Hold and holdUnsent touch nothing but who is held.
LEMMA HoldFacts ==
  ASSUME NEW b \in Box, NEW S
  PROVE  /\ Hold(b, S) \in Box
         /\ Pending(Hold(b, S)) = Pending(b)
         /\ Hold(b, S).held = b.held \union
                                (S \intersect (Pending(b) \ b.reserved))
         /\ Hold(b, S).reserved = b.reserved
         /\ Hold(b, S).withdrawn = b.withdrawn
         /\ Hold(b, S).discarded = b.discarded
BY DEF Hold, Box, Pending, Unreserved

LEMMA UnholdFacts ==
  ASSUME NEW b \in Box, NEW m
  PROVE  /\ Unhold(b, m) \in Box
         /\ Pending(Unhold(b, m)) = Pending(b)
         /\ Unhold(b, m).held = b.held \ {m}
         /\ Unhold(b, m).reserved = b.reserved
         /\ Unhold(b, m).withdrawn = b.withdrawn
         /\ Unhold(b, m).discarded = b.discarded
BY DEF Unhold, Box, Pending

\* What waits and is the user's is held, the rest is as it was.
LEMMA HoldUnsentFacts ==
  ASSUME NEW b \in Box
  PROVE  /\ HoldUnsent(b) \in Box
         /\ Pending(HoldUnsent(b)) = Pending(b)
         /\ HoldUnsent(b).held = b.held \union
                                  (User \intersect (Pending(b) \ b.reserved))
         /\ HoldUnsent(b).reserved = b.reserved
         /\ HoldUnsent(b).withdrawn = b.withdrawn
         /\ HoldUnsent(b).discarded = b.discarded
BY HoldFacts DEF HoldUnsent

-----------------------------------------------------------------------------
(***************************************************************************)
(* Claims.                                                                 *)
(***************************************************************************)

LEMMA SettledFacts ==
  ASSUME NEW b \in Box
  PROVE  /\ Settled(b) \in Box
         /\ Pending(Settled(b)) = Pending(b)
         /\ Settled(b).held = b.held
         /\ Settled(b).reserved = {}
         /\ Settled(b).withdrawn = {}
         /\ Settled(b).discarded = b.discarded
BY DEF Settled, Box, Pending

\* A claim reserves pending messages that nobody holds.
LEMMA ClaimFacts ==
  ASSUME NEW b \in Box, NEW t
  PROVE  /\ Claim(b, t) \in Box
         /\ Pending(Claim(b, t)) = Pending(b)
         /\ Claim(b, t).held = b.held
         /\ Claim(b, t).reserved \subseteq Pending(b) \ b.held
         /\ Claim(b, t).withdrawn = b.withdrawn
         /\ Claim(b, t).discarded = b.discarded
<1>1. ClaimSet(b, t) \subseteq Pending(b) \ b.held
  BY DEF ClaimSet, FirstOfTurn, On, Pending
<1>2. ClaimSet(b, t) \in SUBSET Msg
  BY <1>1 DEF Pending
<1> QED
  BY <1>1, <1>2 DEF Claim, Box, Pending

LEMMA WithdrawFacts ==
  ASSUME NEW b \in Box, NEW m \in Msg
  PROVE  /\ Withdraw(b, m) \in Box
         /\ Pending(Withdraw(b, m)) = Pending(b)
         /\ Withdraw(b, m).held = b.held
         /\ Withdraw(b, m).reserved = b.reserved
         /\ Withdraw(b, m).withdrawn = b.withdrawn \union {m}
         /\ Withdraw(b, m).discarded = b.discarded
BY DEF Withdraw, Box, Pending

\* commit: every claimed message leaves, the ones that did not enter are
\* discarded, and the claim is settled.
LEMMA CommitFacts ==
  ASSUME NEW b \in Box, NEW E
  PROVE  LET P == b.reserved \intersect Pending(b)
             c == Commit(b, E)
         IN  /\ c \in Box
             /\ Pending(c) = Pending(b) \ P
             /\ c.held = b.held \ (P \ E)
             /\ c.reserved = {} /\ c.withdrawn = {}
             /\ c.discarded = b.discarded \union (P \ E)
<1> DEFINE P == b.reserved \intersect Pending(b)
           u == Settled(b)
           v == Without(u, P \intersect E)
<1>1. P \ E \in SUBSET Msg
  BY DEF Pending
<1>2. u \in Box /\ Pending(u) = Pending(b) /\ u.held = b.held
      /\ u.reserved = {} /\ u.withdrawn = {} /\ u.discarded = b.discarded
  BY SettledFacts
<1>3. v \in Box /\ Pending(v) = Pending(u) \ (P \intersect E)
      /\ v.held = u.held /\ v.reserved = u.reserved
      /\ v.withdrawn = u.withdrawn /\ v.discarded = u.discarded
  <2> HIDE DEF u
  <2> QED BY <1>2, WithoutFacts
<1>4. Commit(b, E) = Discard(v, P \ E)
  BY DEF Commit
<1> HIDE DEF v, u
<1> QED
  BY <1>1, <1>2, <1>3, <1>4, DiscardFacts

\* release: the withdrawn messages are discarded, the others stay.
LEMMA ReleaseFacts ==
  ASSUME NEW b \in Box
  PROVE  LET W == b.withdrawn \intersect Pending(b)
             r == Release(b)
         IN  /\ r \in Box
             /\ Pending(r) = Pending(b) \ W
             /\ r.held = b.held \ W
             /\ r.reserved = {} /\ r.withdrawn = {}
             /\ r.discarded = b.discarded \union W
<1> DEFINE W == b.withdrawn \intersect Pending(b)
           u == Settled(b)
<1>1. W \in SUBSET Msg
  BY DEF Pending
<1>2. u \in Box /\ Pending(u) = Pending(b) /\ u.held = b.held
      /\ u.reserved = {} /\ u.withdrawn = {} /\ u.discarded = b.discarded
  BY SettledFacts
<1>3. Release(b) = Discard(u, W)
  BY DEF Release
<1> HIDE DEF u
<1> QED
  BY <1>1, <1>2, <1>3, DiscardFacts

\* Reopening: every pending user message is held, no claim is open.
LEMMA ReopenFacts ==
  ASSUME NEW b \in Box
  PROVE  /\ Reopen(b) \in Box
         /\ Pending(Reopen(b)) = Pending(b)
         /\ Reopen(b).held = User \intersect Pending(b)
         /\ Reopen(b).reserved = {}
         /\ Reopen(b).withdrawn = {}
         /\ Reopen(b).discarded = b.discarded
BY DEF Reopen, Settled, Box, Pending

-----------------------------------------------------------------------------

\* What a flush writes accounts for messages as the running agent does.
LEMMA LogNowFacts ==
  ASSUME box \in Box, sent \in SUBSET Msg, entered \in SUBSET Msg
  PROVE  /\ LogNow \in Logged
         /\ Pending(LogNow.box) = Pending(box)
         /\ LogNow.box.discarded = box.discarded
         /\ LogNow.sent = sent /\ LogNow.entered = entered
<1> DEFINE s == Settled(box)
           d == [s EXCEPT !.held = {}]
<1>1. s \in Box /\ Pending(s) = Pending(box) /\ s.discarded = box.discarded
  BY SettledFacts
<1> HIDE DEF s
<1>2. d \in Box /\ d.where = s.where /\ d.discarded = s.discarded
  BY <1>1 DEF Box
<1>3. Pending(d) = Pending(s)
  BY <1>2 DEF Pending
<1>4. LogNow = [box |-> d, sent |-> sent, entered |-> entered]
  BY DEF LogNow, s
<1> HIDE DEF d
<1> QED
  BY <1>1, <1>2, <1>3, <1>4 DEF Logged

-----------------------------------------------------------------------------
(***************************************************************************)
(* The initial states.                                                     *)
(***************************************************************************)

LEMMA InitIInv == Init => IInv
<1> SUFFICES ASSUME Init PROVE IInv
  OBVIOUS
<1>1. /\ box \in Box /\ Pending(box) = {}
      /\ box.held = {} /\ box.reserved = {} /\ box.withdrawn = {}
      /\ box.discarded = {}
      /\ sent = {} /\ entered = {} /\ disk = LogNow
  BY EmptyBoxFacts DEF Init, EmptyBox
<1>2. /\ disk \in Logged /\ Pending(disk.box) = {}
      /\ disk.box.discarded = {} /\ disk.sent = {} /\ disk.entered = {}
  BY <1>1, LogNowFacts
<1>3. TypeOK
  <2>1. /\ pc \in Awaits \union {"turn", "loop", "exit"}
        /\ cause \in Causes /\ turnEnds \in Endings /\ target \in Lists
        /\ lastEnd \in Reasons /\ gate \in {"open", "full", "queued"}
    BY DEF Init, Awaits, Causes, Endings, Reasons, Lists
  <2>2. /\ stopping \in BOOLEAN /\ wakeRequested \in BOOLEAN
        /\ stepped \in BOOLEAN /\ disposed \in BOOLEAN
    BY DEF Init
  <2>3. /\ consumed \subseteq Msg /\ waiting \subseteq Msg
        /\ parked \subseteq Msg /\ barred \subseteq Msg
        /\ sent \subseteq Msg /\ entered \subseteq Msg
    BY DEF Init
  <2>4. crashes \in 0..MaxCrashes
    BY MaxCrashesAssumption DEF Init
  <2> QED
    BY <1>1, <1>2, <2>1, <2>2, <2>3, <2>4 DEF TypeOK, LogTypeOK, DriverTypeOK, OtherTypeOK
<1>4. EveryMessageAccounted
  BY <1>1, <1>2 DEF EveryMessageAccounted, Accounted
<1>5. ClaimsSound
  BY <1>1 DEF ClaimsSound
<1>6. ParkedWaits /\ BarredWaits /\ TakenBackAborts /\ HistoryIsSent
  BY <1>1 DEF Init, ParkedWaits, BarredWaits, TakenBackAborts, HistoryIsSent
<1> QED
  BY <1>3, <1>4, <1>5, <1>6 DEF IInv

-----------------------------------------------------------------------------
(***************************************************************************)
(* Type correctness.                                                       *)
(***************************************************************************)

\* The shared pieces of the handlers keep the driver's variables typed.
LEMMA DriverPiecesTyped ==
  ASSUME TypeOK
  PROVE  /\ StartRun => DriverTypeOK' /\ gate' \in {"open", "full", "queued"}
         /\ GoIdle => DriverTypeOK' /\ gate' \in {"open", "full", "queued"}
         /\ \A afterAbort \in BOOLEAN : WakeDriver(afterAbort) =>
              DriverTypeOK' /\ gate' \in {"open", "full", "queued"}
         /\ \A reason \in Causes : Abort(reason) => cause' \in Causes
<1>1. StartRun => DriverTypeOK' /\ gate' \in {"open", "full", "queued"}
  BY DEF StartRun, TypeOK, DriverTypeOK, OtherTypeOK, Awaits, Causes, Endings,
         Reasons, Lists
<1>2. GoIdle => DriverTypeOK' /\ gate' \in {"open", "full", "queued"}
  BY DEF GoIdle, TypeOK, DriverTypeOK, OtherTypeOK, Awaits, Causes, Endings,
         Reasons, Lists
<1>3. ASSUME NEW afterAbort \in BOOLEAN, WakeDriver(afterAbort)
      PROVE  DriverTypeOK' /\ gate' \in {"open", "full", "queued"}
  BY <1>1, <1>3 DEF WakeDriver, TypeOK, DriverTypeOK, OtherTypeOK
<1>4. ASSUME NEW reason \in Causes, Abort(reason) PROVE cause' \in Causes
  BY <1>4 DEF Abort, TypeOK, DriverTypeOK
<1> QED
  BY <1>1, <1>2, <1>3, <1>4

\* A step that leaves box, log and disk alone is type correct when its
\* driver variables are.
LEMMA EndTurnTyped ==
  ASSUME TypeOK, NEW reason \in Reasons, NEW b \in Box, EndTurn(reason, b),
         sent' \in SUBSET Msg, entered' \in SUBSET Msg
  PROVE  TypeOK'
<1>1. HoldUnsent(b) \in Box
  BY HoldUnsentFacts
<1>2. LogTypeOK'
  BY <1>1 DEF EndTurn, TypeOK, LogTypeOK, durable
<1>3. DriverTypeOK'
  BY DEF EndTurn, TypeOK, DriverTypeOK, Awaits, Causes, Endings, Lists
<1>4. OtherTypeOK'
  BY UserAssumption DEF EndTurn, TypeOK, OtherTypeOK
<1> QED
  BY <1>2, <1>3, <1>4 DEF TypeOK

\* While a turn is prepared its claim is given back one way or another.
LEMMA ReleaseClaimIsBox ==
  ASSUME box \in Box PROVE ReleaseClaim \in Box
BY ReleaseFacts, DiscardWhereFacts, HoldFacts DEF ReleaseClaim

LEMMA CallsTyped ==
  ASSUME TypeOK, Calls PROVE TypeOK'
<1> USE DEF TypeOK, LogTypeOK, DriverTypeOK, OtherTypeOK, log, driver, durable
<1>1. ASSUME NEW m \in Msg, NEW l \in Lists, NEW wakeup \in BOOLEAN,
             Send(m, l, wakeup)
      PROVE  TypeOK'
  <2> DEFINE afterAbort == wakeup /\ pc # "idle" /\ cause # "none"
  <2>1. AppendTo(box, IF afterAbort THEN "next-turn" ELSE l, m) \in Box
    BY AppendFacts DEF Lists
  <2>2. LogTypeOK'
    BY <1>1, <2>1 DEF Send
  <2>3. DriverTypeOK' /\ gate' \in {"open", "full", "queued"}
    BY <1>1, DriverPiecesTyped DEF Send
  <2>4. OtherTypeOK'
    BY <1>1, <2>3 DEF Send
  <2> QED
    BY <2>2, <2>3, <2>4
<1>2. CASE Stop
  <2> DEFINE d == DiscardWhere(box, Msg \ User)
  <2>1. d \in Box
    BY DiscardWhereFacts
  <2>2. HoldUnsent(d) \in Box
    BY <2>1, HoldUnsentFacts
  <2>3. LogTypeOK'
    BY <1>2, <2>2 DEF Stop, SetBox
  <2>4. DriverTypeOK'
    BY <1>2, DriverPiecesTyped DEF Stop, Causes, Running
  <2>5. OtherTypeOK'
    BY <1>2, UserAssumption DEF Stop, SetBox, Pending
  <2> QED
    BY <2>3, <2>4, <2>5
<1>3. ASSUME NEW m \in Msg, CancelWaiting(m) PROVE TypeOK'
  BY <1>3, DiscardFacts DEF CancelWaiting, SetBox
<1>4. ASSUME NEW m \in Msg, CancelTaken(m) PROVE TypeOK'
  <2>1. box' \in Box
    BY <1>4, WithdrawFacts DEF CancelTaken
  <2>2. DriverTypeOK'
    BY <1>4, DriverPiecesTyped DEF CancelTaken, Causes
  <2> QED
    BY <1>4, <2>1, <2>2 DEF CancelTaken
<1>5. ASSUME NEW m \in Msg, SendQueued(m) PROVE TypeOK'
  <2>1. box' \in Box
    BY <1>5, UnholdFacts DEF SendQueued
  <2>2. DriverTypeOK' /\ gate' \in {"open", "full", "queued"}
    BY <1>5, DriverPiecesTyped DEF SendQueued
  <2> QED
    BY <1>5, <2>1, <2>2 DEF SendQueued
<1>6. ASSUME NEW m \in Msg, InterjectQueued(m) PROVE TypeOK'
  <2>1. AppendTo(box, "next-step", m) \in Box
    BY AppendFacts DEF Lists
  <2>2. box' \in Box
    BY <1>6, <2>1, UnholdFacts DEF InterjectQueued
  <2>3. DriverTypeOK' /\ gate' \in {"open", "full", "queued"}
    BY <1>6, DriverPiecesTyped DEF InterjectQueued
  <2> QED
    BY <1>6, <2>2, <2>3 DEF InterjectQueued
<1>7. CASE BeginMaintenance
  BY <1>7 DEF BeginMaintenance, Awaits
<1>8. CASE Dispose
  BY <1>8, DriverPiecesTyped DEF Dispose, Causes
<1>9. CASE GateFills
  BY <1>9 DEF GateFills
<1>10. CASE GateOpens
  BY <1>10 DEF GateOpens, AtAwait, Awaits
<1> QED
  BY <1>1, <1>2, <1>3, <1>4, <1>5, <1>6, <1>7, <1>8, <1>9, <1>10
     DEF Calls, Followup, Steer, Inject, Lists

LEMMA DriverTyped ==
  ASSUME TypeOK, PreStep \/ Step \/ Hooks \/ Continue \/ EndMaintenance
  PROVE  TypeOK'
<1> USE DEF LogTypeOK, DriverTypeOK, OtherTypeOK, log, durable
<1>1. ReleaseClaim \in Box /\ "budget" \in Reasons /\ "blocked" \in Reasons
      /\ "error" \in Reasons /\ "aborted" \in Reasons
      /\ "completed" \in Reasons /\ (turnEnds # "none" => turnEnds \in Reasons)
  BY ReleaseClaimIsBox DEF TypeOK, Reasons, Endings
<1>2. box \in Box /\ sent \in SUBSET Msg /\ entered \in SUBSET Msg
  BY DEF TypeOK
<1>3. ASSUME NEW E \in SUBSET Msg, NEW context \in BOOLEAN,
             PreStepEnter(E, context)
      PROVE  TypeOK'
  <2> DEFINE b == Commit(box, E)
  <2>1. b \in Box
    BY <1>2, CommitFacts
  <2>2. CASE E = {} /\ ~context /\ (turnEnds # "none" \/ ~stepped)
    <3>1. EndTurn(IF turnEnds = "none" THEN "completed" ELSE turnEnds, b)
          /\ sent' = sent /\ entered' = entered
      BY <1>3, <2>2 DEF PreStepEnter
    <3> QED
      BY <1>1, <1>2, <2>1, <3>1, EndTurnTyped
  <2>3. CASE ~(E = {} /\ ~context /\ (turnEnds # "none" \/ ~stepped))
    <3>1. box' = b /\ entered' = entered \union E /\ sent' = sent
          /\ disk' = disk /\ crashes' = crashes
      BY <1>3, <2>3 DEF PreStepEnter, SetBox
    <3>2. LogTypeOK'
      BY <1>2, <2>1, <3>1 DEF TypeOK
    <3>3. DriverTypeOK'
      BY <1>3, <2>3 DEF PreStepEnter, TypeOK, Awaits
    <3>4. OtherTypeOK'
      BY <1>3, <2>3 DEF PreStepEnter, SetBox, TypeOK
    <3> QED
      BY <3>2, <3>3, <3>4 DEF TypeOK
  <2> QED
    BY <2>2, <2>3
<1>4. CASE PreStepReject
  BY <1>1, <1>2, <1>4, EndTurnTyped DEF PreStepReject
<1>5. CASE PreStepFails
  BY <1>1, <1>2, <1>5, EndTurnTyped DEF PreStepFails
<1>6. CASE PreStepAborted
  BY <1>1, <1>2, <1>6, EndTurnTyped DEF PreStepAborted
<1>7. ASSUME NEW ending \in Endings, StepReturns(ending) PROVE TypeOK'
  BY <1>7 DEF StepReturns, TypeOK, Awaits, Lists
<1>8. CASE TurnFails
  BY <1>1, <1>2, <1>8, EndTurnTyped DEF TurnFails
<1>9. CASE HooksReturn
  <2>1. CASE HasClaimableStep(box)
    BY <1>9, <2>1 DEF HooksReturn, TypeOK, Lists
  <2>2. CASE ~HasClaimableStep(box)
    <3>1. EndTurn(turnEnds, box) /\ sent' = sent /\ entered' = entered
      BY <1>9, <2>2 DEF HooksReturn
    <3>2. turnEnds \in Reasons
      BY DEF TypeOK, Reasons, Endings
    <3> QED
      BY <1>2, <3>1, <3>2, EndTurnTyped
  <2> QED
    BY <2>1, <2>2
<1>10. CASE BeginTurn
  BY <1>10 DEF BeginTurn, TypeOK, Endings, Lists
<1>11. CASE ClaimStep
  BY <1>11, ClaimFacts DEF ClaimStep, TypeOK, Awaits
<1>12. CASE BudgetSpent
  BY <1>1, <1>2, <1>12, EndTurnTyped DEF BudgetSpent
<1>13. CASE TurnAborted
  BY <1>1, <1>2, <1>13, EndTurnTyped DEF TurnAborted
<1>14. CASE KickFinally
  <2>1. DriverTypeOK' /\ gate' \in {"open", "full", "queued"}
    BY <1>14, DriverPiecesTyped DEF KickFinally
  <2>2. box' \in Box
    BY <1>2, <1>14, HoldUnsentFacts DEF KickFinally, SetBox
  <2>3. parked' \subseteq Msg
    BY <1>14, UserAssumption DEF KickFinally, TypeOK
  <2> QED
    BY <1>14, <2>1, <2>2, <2>3 DEF KickFinally, SetBox, TypeOK
<1>15. CASE EndMaintenance
  BY <1>15, DriverPiecesTyped DEF EndMaintenance, TypeOK
<1> QED
  BY <1>3, <1>4, <1>5, <1>6, <1>7, <1>8, <1>9, <1>10, <1>11, <1>12, <1>13,
     <1>14, <1>15 DEF PreStep, Step, Hooks, Continue

LEMMA DiskTyped ==
  ASSUME TypeOK, Disk PROVE TypeOK'
<1> USE DEF TypeOK, LogTypeOK, OtherTypeOK, log, driver, durable
<1>1. CASE Flush
  BY <1>1, LogNowFacts DEF Flush, DriverTypeOK
<1>2. CASE CrashAndReopen
  <2>1. disk.box \in Box /\ disk.sent \subseteq Msg /\ disk.entered \subseteq Msg
    BY DEF Logged
  <2>2. LogTypeOK'
    BY <1>2, <2>1, ReopenFacts, MaxCrashesAssumption DEF CrashAndReopen
  <2>3. DriverTypeOK' /\ gate' \in {"open", "full", "queued"}
    BY <1>2, DriverPiecesTyped DEF CrashAndReopen
  <2>4. OtherTypeOK'
    BY <1>2, <2>3, UserAssumption DEF CrashAndReopen
  <2> QED
    BY <2>2, <2>3, <2>4
<1> QED
  BY <1>1, <1>2 DEF Disk

LEMMA StutterTyped == ASSUME TypeOK, UNCHANGED vars PROVE TypeOK'
BY DEF TypeOK, LogTypeOK, DriverTypeOK, OtherTypeOK, vars, log, driver, durable

LEMMA StepTyped == ASSUME TypeOK, [Next]_vars PROVE TypeOK'
BY CallsTyped, DriverTyped, DiskTyped, StutterTyped DEF Next

\* The type invariant, for every set of messages (all of agent.ts).
THEOREM TypeCorrect == Spec => []TypeOK
<1>1. Init => TypeOK
  BY InitIInv DEF IInv
<1>2. TypeOK /\ [Next]_vars => TypeOK'
  BY StepTyped
<1> QED
  BY <1>1, <1>2, PTL DEF Spec

-----------------------------------------------------------------------------
(***************************************************************************)
(* The inductive invariant.                                                *)
(***************************************************************************)

\* Outside the preparation of a step no claim is open, nothing that a stop
\* or a cancel took back is pending, and every parked message is held.
LEMMA NoClaimFacts ==
  ASSUME IInv, pc # "preparing"
  PROVE  /\ box.reserved = {} /\ box.withdrawn = {}
         /\ parked \intersect Pending(box) \subseteq box.held
         /\ barred \intersect Pending(box) = {}
BY DEF IInv, ClaimsSound, ParkedWaits, BarredWaits

\* The driver's variables after a step that leaves the claim alone.
DriverStays ==
  \/ pc' = pc /\ stopping' = stopping /\ (cause # "none" => cause' # "none")
  \/ pc # "preparing" /\ stopping' = FALSE

LEMMA DriverPiecesStay ==
  ASSUME IInv
  PROVE  /\ \A afterAbort \in BOOLEAN : WakeDriver(afterAbort) => DriverStays
         /\ pc # "preparing" => (StartRun => DriverStays)
         /\ pc # "preparing" => (GoIdle => DriverStays)
BY DEF WakeDriver, StartRun, GoIdle, DriverStays

\* A step that changes neither the log nor the histories.
LEMMA QuietKeeps ==
  ASSUME IInv, TypeOK', DriverStays,
         UNCHANGED <<box, sent, entered, disk, parked, barred>>
  PROVE  IInv'
<1>1. EveryMessageAccounted'
  BY DEF IInv, EveryMessageAccounted, Accounted
<1>2. CASE pc' = pc /\ stopping' = stopping /\ (cause # "none" => cause' # "none")
  BY <1>1, <1>2 DEF IInv, ClaimsSound, ParkedWaits, BarredWaits,
                    TakenBackAborts, HistoryIsSent
<1>3. CASE pc # "preparing" /\ stopping' = FALSE
  BY <1>1, <1>3, NoClaimFacts
     DEF IInv, ClaimsSound, ParkedWaits, BarredWaits, TakenBackAborts,
         HistoryIsSent
<1> QED
  BY <1>2, <1>3 DEF DriverStays

\* What ReleaseClaim makes of the box of an aborted or rejected turn.
LEMMA ReleaseClaimFacts ==
  ASSUME IInv
  PROVE  LET r == ReleaseClaim
         IN  /\ r \in Box /\ Accounted(r, sent, entered)
             /\ r.reserved = {} /\ r.withdrawn = {}
             /\ r.held \subseteq User \intersect Pending(r)
             /\ parked \intersect Pending(r) \subseteq r.held
             /\ barred \intersect Pending(r) = {}
<1> DEFINE b == Release(box)
           R == box.reserved \ box.withdrawn
           d == DiscardWhere(b, R \ User)
           D == (R \ User) \intersect (Pending(b) \ b.reserved)
           h == Hold(d, R \intersect User)
           W == box.withdrawn
<1>1. /\ box \in Box /\ Accounted(box, sent, entered)
      /\ box.reserved \subseteq Pending(box) \ box.held
      /\ W \subseteq box.reserved
      /\ box.held \subseteq User \intersect Pending(box)
  BY DEF IInv, TypeOK, LogTypeOK, EveryMessageAccounted, ClaimsSound
<1>2. /\ b \in Box /\ Pending(b) = Pending(box) \ W
      /\ b.held = box.held /\ b.reserved = {} /\ b.withdrawn = {}
      /\ b.discarded = box.discarded \union W
  <2>1. W \intersect Pending(box) = W /\ box.held \ W = box.held
    BY <1>1
  <2> QED
    BY <1>1, <2>1, ReleaseFacts
<1>3. Accounted(b, sent, entered)
  BY <1>1, <1>2 DEF Accounted
<1> HIDE DEF b
<1>4. CASE ~stopping
  <2>1. ReleaseClaim = b
    BY <1>4 DEF ReleaseClaim, b
  <2>2. parked \intersect Pending(b) \subseteq b.held
    BY <1>2, <1>4 DEF IInv, ParkedWaits
  <2>3. barred \intersect Pending(b) = {}
    BY <1>2, <1>4 DEF IInv, BarredWaits
  <2> QED
    BY <1>1, <1>2, <1>3, <2>1, <2>2, <2>3
<1>5. CASE stopping
  <2>1. ReleaseClaim = h
    BY <1>5 DEF ReleaseClaim, b
  <2>2. /\ d \in Box /\ Pending(d) = Pending(b) \ D /\ d.held = b.held \ D
        /\ d.reserved = {} /\ d.withdrawn = {}
        /\ d.discarded = b.discarded \union D
    BY <1>2, DiscardWhereFacts
  <2> HIDE DEF d
  <2>3. /\ h \in Box /\ Pending(h) = Pending(d)
        /\ h.held = d.held \union (R \intersect User \intersect Pending(d))
        /\ h.reserved = {} /\ h.withdrawn = {} /\ h.discarded = d.discarded
    BY <2>2, HoldFacts
  <2> HIDE DEF h
  <2>4. Accounted(h, sent, entered)
    BY <1>2, <1>3, <2>2, <2>3 DEF Accounted
  <2>5. h.held \subseteq User \intersect Pending(h)
    BY <1>1, <1>2, <2>2, <2>3
  <2>6. parked \intersect Pending(h) \subseteq h.held
    <3>1. \A m \in parked \intersect Pending(box) :
            m \in box.held \/ m \in box.reserved
      BY DEF IInv, ParkedWaits
    <3> QED
      BY <1>1, <1>2, <2>2, <2>3, <3>1
  <2>7. barred \intersect Pending(h) = {}
    <3>1. \A m \in barred \intersect Pending(box) :
            m \in W \/ m \in box.reserved \ User
      BY DEF IInv, BarredWaits
    <3> QED
      BY <1>1, <1>2, <2>2, <2>3, <3>1
  <2> QED
    BY <2>1, <2>3, <2>4, <2>5, <2>6, <2>7
<1> QED
  BY <1>4, <1>5

\* The end of a turn, from a box whose claim is settled.
LEMMA EndTurnKeeps ==
  ASSUME IInv, TypeOK', NEW reason \in Reasons, NEW b \in Box,
         EndTurn(reason, b), sent' = sent, entered' = entered,
         Accounted(b, sent, entered),
         b.reserved = {}, b.withdrawn = {},
         b.held \subseteq User \intersect Pending(b),
         parked \intersect Pending(b) \subseteq b.held,
         barred \intersect Pending(b) = {},
         reason \in {"completed", "max-tokens"} => cause = "none"
  PROVE  IInv'
<1> DEFINE c == IF reason \in {"error", "blocked"} THEN HoldUnsent(b) ELSE b
<1>1. /\ c \in Box /\ Pending(c) = Pending(b) /\ c.discarded = b.discarded
      /\ c.reserved = {} /\ c.withdrawn = {}
      /\ b.held \subseteq c.held /\ c.held \subseteq User \intersect Pending(c)
      /\ reason \in {"error", "blocked"} =>
           User \intersect Pending(c) \subseteq c.held
  BY HoldUnsentFacts
<1>2. box' = c /\ disk' = disk /\ barred' = barred /\ stopping' = stopping
      /\ parked' = (IF reason \in {"error", "blocked"}
                   THEN parked \union (User \intersect Pending(c)) ELSE parked)
  BY DEF EndTurn, durable
<1>3. cause' = cause \/ cause = "none"
  BY DEF EndTurn
<1> HIDE DEF c
<1>4. EveryMessageAccounted'
  BY <1>1, <1>2 DEF IInv, EveryMessageAccounted, Accounted
<1>5. ClaimsSound'
  BY <1>1, <1>2 DEF ClaimsSound
<1>6. ParkedWaits'
  BY <1>1, <1>2 DEF ParkedWaits
<1>7. BarredWaits'
  BY <1>1, <1>2 DEF BarredWaits
<1>8. TakenBackAborts'
  BY <1>1, <1>2, <1>3 DEF IInv, TakenBackAborts
<1>9. HistoryIsSent'
  BY <1>1, <1>2 DEF IInv, HistoryIsSent, Accounted
<1> QED
  BY <1>4, <1>5, <1>6, <1>7, <1>8, <1>9 DEF IInv

\* A message of the histories was sent, so a new message is in neither.
LEMMA SendKeeps ==
  ASSUME IInv, TypeOK', NEW m \in Msg, NEW l \in Lists,
         NEW wakeup \in BOOLEAN, Send(m, l, wakeup)
  PROVE  IInv'
<1> DEFINE afterAbort == wakeup /\ pc # "idle" /\ cause # "none"
           to == IF afterAbort THEN "next-turn" ELSE l
           b == AppendTo(box, to, m)
<1>1. box \in Box /\ Accounted(box, sent, entered) /\ m \notin sent
      /\ parked \union barred \subseteq sent
  BY DEF IInv, TypeOK, LogTypeOK, EveryMessageAccounted, HistoryIsSent, Send
<1>2. b \in Box /\ Pending(b) = Pending(box) \union {m} /\ b.held = box.held
      /\ b.reserved = box.reserved /\ b.withdrawn = box.withdrawn
      /\ b.discarded = box.discarded
  BY <1>1, AppendFacts DEF Lists
<1>3. box' = b /\ sent' = sent \union {m}
      /\ UNCHANGED <<entered, disk, parked, barred>>
  BY DEF Send, durable
<1> HIDE DEF b, to
<1>4. DriverStays
  BY DriverPiecesStay DEF Send, DriverStays, driver
<1>5. EveryMessageAccounted'
  BY <1>1, <1>2, <1>3 DEF IInv, EveryMessageAccounted, Accounted
<1>6. ClaimsSound'
  BY <1>2, <1>3, <1>4, NoClaimFacts DEF IInv, ClaimsSound, DriverStays
<1>7. ParkedWaits' /\ BarredWaits'
  BY <1>1, <1>2, <1>3, <1>4, NoClaimFacts
     DEF IInv, ParkedWaits, BarredWaits, DriverStays
<1>8. TakenBackAborts' /\ HistoryIsSent'
  BY <1>1, <1>2, <1>3, <1>4, NoClaimFacts
     DEF IInv, TakenBackAborts, HistoryIsSent, DriverStays
<1> QED
  BY <1>5, <1>6, <1>7, <1>8 DEF IInv

\* A stop holds the user messages that wait and discards the context; what
\* the open claim reserved is left to its release (stopping).
LEMMA StopKeeps ==
  ASSUME IInv, TypeOK', Stop PROVE IInv'
<1> DEFINE d == DiscardWhere(box, Msg \ User)
           b == HoldUnsent(d)
           D == (Msg \ User) \intersect (Pending(box) \ box.reserved)
<1>1. box \in Box /\ Accounted(box, sent, entered) /\ Pending(box) \subseteq Msg
  BY DEF IInv, TypeOK, LogTypeOK, EveryMessageAccounted, Pending
<1>2. d \in Box /\ Pending(d) = Pending(box) \ D /\ d.held = box.held \ D
      /\ d.reserved = box.reserved /\ d.withdrawn = box.withdrawn
      /\ d.discarded = box.discarded \union D
  BY <1>1, DiscardWhereFacts
<1> HIDE DEF d
<1>3. b \in Box /\ Pending(b) = Pending(d)
      /\ b.held = d.held \union (User \intersect (Pending(d) \ d.reserved))
      /\ b.reserved = d.reserved /\ b.withdrawn = d.withdrawn
      /\ b.discarded = d.discarded
  BY <1>2, HoldUnsentFacts
<1> HIDE DEF b
<1>4. /\ box' = b /\ UNCHANGED <<sent, entered, disk, pc>>
      /\ stopping' = Running
      /\ cause' = (IF pc # "idle" /\ cause = "none" THEN "user" ELSE cause)
      /\ parked' = parked \union (User \intersect Pending(box))
      /\ barred' = barred \union (Pending(box) \ User)
  BY DEF Stop, SetBox, Abort, durable, d, b
<1>5. ClaimsSound
  BY DEF IInv
<1>6. EveryMessageAccounted'
  BY <1>1, <1>2, <1>3, <1>4, <1>5
     DEF IInv, EveryMessageAccounted, Accounted, ClaimsSound
<1>7. ClaimsSound'
  BY <1>1, <1>2, <1>3, <1>4, <1>5 DEF ClaimsSound
<1>8. ParkedWaits'
  <2>1. box.reserved # {} => stopping'
    BY <1>4, <1>5 DEF ClaimsSound, Running
  <2>2. \A m \in parked \intersect Pending(box) :
          m \in box.held \/ m \in box.reserved
    BY DEF IInv, ParkedWaits
  <2> QED
    BY <1>2, <1>3, <1>4, <1>5, <2>1, <2>2 DEF ParkedWaits, ClaimsSound
<1>9. BarredWaits'
  <2>1. box.reserved # {} => stopping'
    BY <1>4, <1>5 DEF ClaimsSound, Running
  <2>2. \A m \in barred \intersect Pending(box) :
          m \in box.withdrawn \/ m \in box.reserved \ User
    BY DEF IInv, BarredWaits
  <2> QED
    BY <1>1, <1>2, <1>3, <1>4, <2>1, <2>2 DEF BarredWaits
<1>10. TakenBackAborts'
  <2>1. pc = "idle" => box.withdrawn = {}
    BY <1>5 DEF ClaimsSound
  <2> QED
    BY <1>2, <1>3, <1>4, <2>1 DEF IInv, TakenBackAborts, Running
<1>11. HistoryIsSent'
  BY <1>1, <1>4 DEF IInv, HistoryIsSent, Accounted
<1> QED
  BY <1>6, <1>7, <1>8, <1>9, <1>10, <1>11 DEF IInv

\* cancelMessage: a waiting message is discarded now, a reserved one when
\* its turn, aborted by the same call, releases the claim.
LEMMA CancelKeeps ==
  ASSUME IInv, TypeOK', NEW m \in Msg, CancelWaiting(m) \/ CancelTaken(m)
  PROVE  IInv'
<1>1. box \in Box /\ Accounted(box, sent, entered) /\ Pending(box) \subseteq Msg
  BY DEF IInv, TypeOK, LogTypeOK, EveryMessageAccounted, Pending
<1>2. CASE CancelWaiting(m)
  <2> DEFINE b == Discard(box, {m})
  <2>1. b \in Box /\ Pending(b) = Pending(box) \ {m} /\ b.held = box.held \ {m}
        /\ b.reserved = box.reserved /\ b.withdrawn = box.withdrawn
        /\ b.discarded = box.discarded \union {m}
    BY <1>1, DiscardFacts
  <2>2. box' = b /\ barred' = barred \union {m}
        /\ m \in Pending(box) \ box.reserved
        /\ UNCHANGED <<sent, entered, disk, parked, pc, cause, stopping>>
    BY <1>2 DEF CancelWaiting, SetBox, Unreserved, driver, durable
  <2> HIDE DEF b
  <2>3. EveryMessageAccounted'
    BY <1>1, <2>1, <2>2 DEF IInv, EveryMessageAccounted, Accounted
  <2>4. ClaimsSound' /\ ParkedWaits' /\ BarredWaits' /\ TakenBackAborts'
    BY <2>1, <2>2
       DEF IInv, ClaimsSound, ParkedWaits, BarredWaits, TakenBackAborts
  <2>5. HistoryIsSent'
    BY <1>1, <2>2 DEF IInv, HistoryIsSent, Accounted
  <2> QED
    BY <2>3, <2>4, <2>5 DEF IInv
<1>3. CASE CancelTaken(m)
  <2>1. /\ UNCHANGED <<sent, entered, disk, parked, pc, stopping>>
        /\ cause' # "none"
        /\ pc # "idle"
    BY <1>3 DEF CancelTaken, Abort, Running, durable
  <2>2. CASE UNCHANGED <<box, barred>>
    BY <2>1, <2>2 DEF IInv, EveryMessageAccounted, Accounted, ClaimsSound,
         ParkedWaits, BarredWaits, TakenBackAborts, HistoryIsSent
  <2>3. CASE /\ m \in box.reserved /\ box' = Withdraw(box, m)
             /\ barred' = barred \union {m}
    <3> DEFINE b == Withdraw(box, m)
    <3>1. b \in Box /\ Pending(b) = Pending(box) /\ b.held = box.held
          /\ b.reserved = box.reserved
          /\ b.withdrawn = box.withdrawn \union {m}
          /\ b.discarded = box.discarded
      BY <1>1, WithdrawFacts
    <3> HIDE DEF b
    <3>2. box' = b
      BY <2>3 DEF b
    <3>3. EveryMessageAccounted'
      BY <2>1, <3>1, <3>2 DEF IInv, EveryMessageAccounted, Accounted
    <3>4. ClaimsSound' /\ ParkedWaits' /\ BarredWaits' /\ TakenBackAborts'
      BY <2>1, <2>3, <3>1, <3>2
         DEF IInv, ClaimsSound, ParkedWaits, BarredWaits, TakenBackAborts
    <3>5. HistoryIsSent'
      BY <1>1, <2>1, <2>3 DEF IInv, ClaimsSound, HistoryIsSent, Accounted
    <3> QED
      BY <3>3, <3>4, <3>5 DEF IInv
  <2> QED
    BY <1>3, <2>2, <2>3 DEF CancelTaken
<1> QED
  BY <1>2, <1>3

\* The queue's buttons free a held message from the hold and from parked.
LEMMA QueueKeeps ==
  ASSUME IInv, TypeOK', NEW m \in Msg, SendQueued(m) \/ InterjectQueued(m)
  PROVE  IInv'
<1> DEFINE a == AppendTo(box, "next-step", m)
<1>1. box \in Box /\ Accounted(box, sent, entered)
  BY DEF IInv, TypeOK, LogTypeOK, EveryMessageAccounted
<1>2. a \in Box /\ Pending(a) = Pending(box) \union {m} /\ a.held = box.held
      /\ a.reserved = box.reserved /\ a.withdrawn = box.withdrawn
      /\ a.discarded = box.discarded
  BY <1>1, AppendFacts DEF Lists
<1> HIDE DEF a
<1>3. m \in Pending(box) \ box.reserved
  BY DEF IInv, ClaimsSound, SendQueued, InterjectQueued, On, Pending, Lists
<1>4. /\ box' \in Box /\ Pending(box') = Pending(box)
      /\ box'.held = box.held \ {m}
      /\ box'.reserved = box.reserved /\ box'.withdrawn = box.withdrawn
      /\ box'.discarded = box.discarded
  <2>1. CASE SendQueued(m)
    BY <1>1, <2>1, UnholdFacts DEF SendQueued
  <2>2. CASE InterjectQueued(m)
    <3>1. box' = Unhold(a, m)
      BY <2>2 DEF InterjectQueued, a
    <3>2. Pending(a) = Pending(box)
      BY <1>2, <1>3
    <3>3. /\ Unhold(a, m) \in Box /\ Pending(Unhold(a, m)) = Pending(a)
          /\ Unhold(a, m).held = a.held \ {m}
          /\ Unhold(a, m).reserved = a.reserved
          /\ Unhold(a, m).withdrawn = a.withdrawn
          /\ Unhold(a, m).discarded = a.discarded
      BY <1>2, UnholdFacts
    <3> QED
      BY <1>2, <3>1, <3>2, <3>3
  <2> QED
    BY <2>1, <2>2
<1>5. parked' = parked \ {m} /\ UNCHANGED <<sent, entered, disk, barred>>
  BY DEF SendQueued, InterjectQueued, durable
<1>6. DriverStays
  BY DriverPiecesStay DEF SendQueued, InterjectQueued, DriverStays, driver
<1>7. EveryMessageAccounted'
  BY <1>4, <1>5 DEF IInv, EveryMessageAccounted, Accounted
<1>8. ClaimsSound'
  BY <1>4, <1>6, NoClaimFacts DEF IInv, ClaimsSound, DriverStays
<1>9. ParkedWaits' /\ BarredWaits'
  BY <1>4, <1>5, <1>6, NoClaimFacts
     DEF IInv, ParkedWaits, BarredWaits, DriverStays
<1>10. TakenBackAborts' /\ HistoryIsSent'
  BY <1>4, <1>5, <1>6, NoClaimFacts
     DEF IInv, TakenBackAborts, HistoryIsSent, DriverStays
<1> QED
  BY <1>7, <1>8, <1>9, <1>10 DEF IInv

LEMMA CallsKeep ==
  ASSUME IInv, TypeOK', Calls PROVE IInv'
<1>1. CASE BeginMaintenance \/ Dispose \/ GateFills \/ GateOpens
  <2>1. UNCHANGED <<box, sent, entered, disk, parked, barred>>
    BY <1>1 DEF BeginMaintenance, Dispose, GateFills, GateOpens, log, durable
  <2>2. CASE BeginMaintenance \/ GateOpens
    <3>1. stopping' = stopping /\ cause' = cause
          /\ (pc' = pc \/ pc = "idle")
      BY <2>2 DEF BeginMaintenance, GateOpens
    <3>2. pc = "idle" => box.reserved = {} /\ box.withdrawn = {}
      BY DEF IInv, ClaimsSound
    <3> QED
      BY <2>1, <3>1, <3>2
         DEF IInv, EveryMessageAccounted, Accounted, ClaimsSound, ParkedWaits,
             BarredWaits, TakenBackAborts, HistoryIsSent
  <2>3. CASE Dispose \/ GateFills
    <3>1. DriverStays
      BY <2>3 DEF Dispose, GateFills, Abort, DriverStays, driver
    <3> QED
      BY <2>1, <3>1, QuietKeeps
  <2> QED
    BY <1>1, <2>2, <2>3
<1> QED
  BY <1>1, SendKeeps, StopKeeps, CancelKeeps, QueueKeeps
     DEF Calls, Followup, Steer, Inject, Lists

\* A pre-step that was not aborted: no submitter took back what its claim
\* reserved, so whether or not it is entered nobody misses it.
LEMMA CommitKeeps ==
  ASSUME IInv, cause = "none", NEW E \in SUBSET box.reserved
  PROVE  LET c == Commit(box, E)
         IN  /\ c \in Box
             /\ Accounted(c, sent, entered \union E)
             /\ c.reserved = {} /\ c.withdrawn = {}
             /\ c.held \subseteq User \intersect Pending(c)
             /\ parked \intersect Pending(c) \subseteq c.held
             /\ barred \intersect Pending(c) = {}
<1> DEFINE c == Commit(box, E)
<1>1. /\ box \in Box /\ Accounted(box, sent, entered)
      /\ box.reserved \subseteq Pending(box) \ box.held
      /\ box.held \subseteq User \intersect Pending(box)
  BY DEF IInv, TypeOK, LogTypeOK, EveryMessageAccounted, ClaimsSound
<1>2. box.reserved \intersect Pending(box) = box.reserved
      /\ box.held \ (box.reserved \ E) = box.held
  BY <1>1
<1> DEFINE P == box.reserved \intersect Pending(box)
<1>3. /\ c \in Box /\ Pending(c) = Pending(box) \ box.reserved
      /\ c.held = box.held /\ c.reserved = {} /\ c.withdrawn = {}
      /\ c.discarded = box.discarded \union (box.reserved \ E)
  <2>1. /\ c \in Box /\ Pending(c) = Pending(box) \ P
        /\ c.held = box.held \ (P \ E) /\ c.reserved = {}
        /\ c.withdrawn = {} /\ c.discarded = box.discarded \union (P \ E)
    BY <1>1, CommitFacts
  <2> QED
    BY <1>2, <2>1
<1> HIDE DEF c
<1>4. Accounted(c, sent, entered \union E)
  BY <1>1, <1>3 DEF Accounted
<1>5. ~stopping /\ box.withdrawn = {}
  BY DEF IInv, TypeOK, DriverTypeOK, TakenBackAborts
<1>6. parked \intersect Pending(c) \subseteq c.held
      /\ barred \intersect Pending(c) = {}
  BY <1>3, <1>5 DEF IInv, ParkedWaits, BarredWaits
<1> QED
  BY <1>1, <1>3, <1>4, <1>6 DEF c

LEMMA PreStepKeeps ==
  ASSUME IInv, TypeOK', PreStep PROVE IInv'
<1>1. {"completed", "max-tokens", "blocked", "error", "aborted"} \subseteq Reasons
      /\ turnEnds \in Endings
  BY DEF Reasons, IInv, TypeOK, DriverTypeOK
<1>2. ASSUME NEW E \in SUBSET Msg, NEW context \in BOOLEAN,
             PreStepEnter(E, context)
      PROVE  IInv'
  <2> DEFINE c == Commit(box, E)
  <2>1. E \in SUBSET box.reserved /\ cause = "none"
    BY <1>2 DEF PreStepEnter
  <2>2. /\ c \in Box
        /\ Accounted(c, sent, entered \union E)
        /\ c.reserved = {} /\ c.withdrawn = {}
        /\ c.held \subseteq User \intersect Pending(c)
        /\ parked \intersect Pending(c) \subseteq c.held
        /\ barred \intersect Pending(c) = {}
    BY <2>1, CommitKeeps
  <2>3. CASE E = {} /\ ~context /\ (turnEnds # "none" \/ ~stepped)
    <3> DEFINE reason == IF turnEnds = "none" THEN "completed" ELSE turnEnds
    <3>1. EndTurn(reason, c) /\ sent' = sent /\ entered' = entered
      BY <1>2, <2>3 DEF PreStepEnter
    <3>2. reason \in Reasons
      BY <1>1 DEF Endings
    <3>3. Accounted(c, sent, entered)
      BY <2>2, <2>3
    <3> HIDE DEF c, reason
    <3> QED
      BY <2>1, <2>2, <3>1, <3>2, <3>3, EndTurnKeeps
  <2>4. CASE ~(E = {} /\ ~context /\ (turnEnds # "none" \/ ~stepped))
    <3>1. /\ box' = c /\ entered' = entered \union E
          /\ UNCHANGED <<sent, disk, parked, barred, stopping, cause>>
      BY <1>2, <2>4 DEF PreStepEnter, SetBox, durable
    <3> HIDE DEF c
    <3>2. EveryMessageAccounted'
      BY <2>2, <3>1 DEF IInv, EveryMessageAccounted, Accounted
    <3>3. ClaimsSound' /\ ParkedWaits' /\ BarredWaits'
      BY <2>2, <3>1 DEF ClaimsSound, ParkedWaits, BarredWaits
    <3>4. TakenBackAborts' /\ HistoryIsSent'
      BY <2>2, <3>1 DEF IInv, TakenBackAborts, HistoryIsSent
    <3> QED
      BY <3>2, <3>3, <3>4 DEF IInv
  <2> QED
    BY <2>3, <2>4
<1>3. CASE PreStepReject \/ PreStepFails \/ PreStepAborted
  <2>1. PICK reason \in {"blocked", "error", "aborted"} :
          EndTurn(reason, ReleaseClaim) /\ sent' = sent /\ entered' = entered
    BY <1>3 DEF PreStepReject, PreStepFails, PreStepAborted
  <2> QED
    BY <1>1, <2>1, ReleaseClaimFacts, EndTurnKeeps
<1> QED
  BY <1>2, <1>3 DEF PreStep

\* The driver outside a pre-step: no claim is open.
LEMMA DriverKeeps ==
  ASSUME IInv, TypeOK', Step \/ Hooks \/ Continue \/ EndMaintenance
  PROVE  IInv'
<1>1. {"completed", "max-tokens", "budget", "error", "aborted"} \subseteq Reasons
      /\ turnEnds \in Reasons
  BY DEF Reasons, Endings, IInv, TypeOK, DriverTypeOK
<1>2. pc # "preparing"
  BY DEF Step, StepReturns, TurnFails, Hooks, HooksReturn, Continue, BeginTurn,
         ClaimStep, BudgetSpent, TurnAborted, KickFinally, EndMaintenance
<1>3. /\ box \in Box /\ Accounted(box, sent, entered)
      /\ box.reserved = {} /\ box.withdrawn = {}
      /\ box.held \subseteq User \intersect Pending(box)
      /\ parked \intersect Pending(box) \subseteq box.held
      /\ barred \intersect Pending(box) = {}
  BY <1>2, NoClaimFacts
     DEF IInv, TypeOK, LogTypeOK, EveryMessageAccounted, ClaimsSound
<1>4. ASSUME NEW reason \in Reasons, EndTurn(reason, box),
             sent' = sent, entered' = entered,
             reason \in {"completed", "max-tokens"} => cause = "none"
      PROVE  IInv'
  BY <1>3, <1>4, EndTurnKeeps
<1>5. ASSUME UNCHANGED <<box, sent, entered, disk, parked, barred>>,
             stopping' => cause' # "none"
      PROVE  IInv'
  <2>1. EveryMessageAccounted'
    BY <1>5 DEF IInv, EveryMessageAccounted, Accounted
  <2>2. ClaimsSound' /\ ParkedWaits' /\ BarredWaits'
    BY <1>3, <1>5 DEF ClaimsSound, ParkedWaits, BarredWaits
  <2>3. TakenBackAborts' /\ HistoryIsSent'
    BY <1>3, <1>5 DEF IInv, TakenBackAborts, HistoryIsSent
  <2> QED
    BY <2>1, <2>2, <2>3 DEF IInv
<1>6. stopping => cause # "none"
  BY DEF IInv, TypeOK, DriverTypeOK, TakenBackAborts
<1>7. ASSUME NEW ending \in Endings, StepReturns(ending) PROVE IInv'
  BY <1>5, <1>6, <1>7 DEF StepReturns, log, durable
<1>8. CASE TurnFails
  BY <1>1, <1>4, <1>8 DEF TurnFails
<1>9. CASE HooksReturn
  <2>1. CASE HasClaimableStep(box)
    BY <1>5, <1>6, <1>9, <2>1 DEF HooksReturn, log, durable
  <2>2. CASE ~HasClaimableStep(box)
    BY <1>1, <1>4, <1>9, <2>2 DEF HooksReturn
  <2> QED
    BY <2>1, <2>2
<1>10. CASE BeginTurn
  BY <1>5, <1>6, <1>10 DEF BeginTurn, log, durable
<1>11. CASE ClaimStep
  <2> DEFINE c == Claim(box, target)
  <2>1. /\ c \in Box /\ Pending(c) = Pending(box) /\ c.held = box.held
        /\ c.reserved \subseteq Pending(box) \ box.held
        /\ c.withdrawn = {} /\ c.discarded = box.discarded
    BY <1>3, ClaimFacts
  <2>2. /\ box' = c /\ pc' = "preparing"
        /\ UNCHANGED <<sent, entered, disk, parked, barred, stopping, cause>>
    BY <1>11 DEF ClaimStep, durable
  <2> HIDE DEF c
  <2>3. EveryMessageAccounted'
    BY <2>1, <2>2 DEF IInv, EveryMessageAccounted, Accounted
  <2>4. ClaimsSound' /\ ParkedWaits' /\ BarredWaits'
    BY <1>3, <2>1, <2>2 DEF ClaimsSound, ParkedWaits, BarredWaits
  <2>5. TakenBackAborts' /\ HistoryIsSent'
    BY <2>1, <2>2 DEF IInv, TakenBackAborts, HistoryIsSent
  <2> QED
    BY <2>3, <2>4, <2>5 DEF IInv
<1>12. CASE BudgetSpent
  BY <1>1, <1>4, <1>12 DEF BudgetSpent
<1>13. CASE TurnAborted
  BY <1>1, <1>4, <1>13 DEF TurnAborted
<1>14. CASE KickFinally
  <2> DEFINE b == HoldUnsent(box)
  <2>1. /\ b \in Box /\ Pending(b) = Pending(box)
        /\ b.held = box.held \union (User \intersect Pending(box))
        /\ b.reserved = {} /\ b.withdrawn = {}
        /\ b.discarded = box.discarded
    BY <1>3, HoldUnsentFacts
  <2> HIDE DEF b
  <2>2. /\ \/ box' = box /\ parked' = parked
           \/ box' = b /\ parked' = parked \union (User \intersect Pending(box))
        /\ ~stopping'
        /\ UNCHANGED <<sent, entered, disk, barred>>
    BY <1>14 DEF KickFinally, SetBox, StartRun, GoIdle, durable, b
  <2>3. EveryMessageAccounted'
    BY <2>1, <2>2 DEF IInv, EveryMessageAccounted, Accounted
  <2>4. ClaimsSound' /\ ParkedWaits' /\ BarredWaits'
    BY <1>3, <2>1, <2>2 DEF ClaimsSound, ParkedWaits, BarredWaits
  <2>5. TakenBackAborts' /\ HistoryIsSent'
    BY <1>3, <2>1, <2>2 DEF IInv, TakenBackAborts, HistoryIsSent, Accounted
  <2> QED
    BY <2>3, <2>4, <2>5 DEF IInv
<1>15. CASE EndMaintenance
  BY <1>5, <1>15 DEF EndMaintenance, StartRun, GoIdle, log, durable
<1> QED
  BY <1>7, <1>8, <1>9, <1>10, <1>11, <1>12, <1>13, <1>14, <1>15
     DEF Step, Hooks, Continue

\* A flush writes what is accounted for; a crash restores what was.
LEMMA DiskKeeps ==
  ASSUME IInv, TypeOK', Disk PROVE IInv'
<1>1. box \in Box /\ sent \in SUBSET Msg /\ entered \in SUBSET Msg
      /\ disk.box \in Box
  BY DEF IInv, TypeOK, LogTypeOK, Logged
<1>2. CASE Flush
  <2>1. UNCHANGED <<box, sent, entered, pc, cause, stopping, parked, barred>>
        /\ disk' = LogNow
    BY <1>2 DEF Flush, log, driver
  <2>2. EveryMessageAccounted'
    BY <1>1, <2>1, LogNowFacts DEF IInv, EveryMessageAccounted, Accounted
  <2> QED
    BY <2>1, <2>2 DEF IInv, ClaimsSound, ParkedWaits, BarredWaits,
                      TakenBackAborts, HistoryIsSent
<1>3. CASE CrashAndReopen
  <2> DEFINE b == Reopen(disk.box)
  <2>1. /\ b \in Box /\ Pending(b) = Pending(disk.box)
        /\ b.held = User \intersect Pending(disk.box)
        /\ b.reserved = {} /\ b.withdrawn = {}
        /\ b.discarded = disk.box.discarded
    BY <1>1, ReopenFacts
  <2> HIDE DEF b
  <2>2. /\ box' = b /\ sent' = disk.sent /\ entered' = disk.entered
        /\ disk' = disk /\ ~stopping'
        /\ parked' = User \intersect Pending(disk.box) /\ barred' = {}
    BY <1>3 DEF CrashAndReopen, GoIdle, b
  <2>3. EveryMessageAccounted'
    BY <2>1, <2>2 DEF IInv, EveryMessageAccounted, Accounted
  <2>4. ClaimsSound' /\ ParkedWaits' /\ BarredWaits'
    BY <2>1, <2>2 DEF ClaimsSound, ParkedWaits, BarredWaits
  <2>5. TakenBackAborts' /\ HistoryIsSent'
    BY <2>1, <2>2
       DEF IInv, EveryMessageAccounted, Accounted, TakenBackAborts, HistoryIsSent
  <2> QED
    BY <2>3, <2>4, <2>5 DEF IInv
<1> QED
  BY <1>2, <1>3 DEF Disk

LEMMA StutterKeeps ==
  ASSUME IInv, TypeOK', UNCHANGED vars PROVE IInv'
BY DEF IInv, EveryMessageAccounted, Accounted, ClaimsSound, ParkedWaits,
       BarredWaits, TakenBackAborts, HistoryIsSent, vars, log, driver, durable

LEMMA StepKeeps == ASSUME IInv, [Next]_vars PROVE IInv'
<1>1. TypeOK'
  BY StepTyped DEF IInv
<1> QED
  BY <1>1, CallsKeep, PreStepKeeps, DriverKeeps, DiskKeeps, StutterKeeps DEF Next

\* IInv holds of every reachable state.
THEOREM Invariance == Spec => []IInv
<1>1. IInv /\ [Next]_vars => IInv'
  BY StepKeeps
<1> QED
  BY InitIInv, <1>1, PTL DEF Spec

\* The promise of inbox.ts:25, of the running agent and of what a crash
\* finds: every message sent is in exactly one place.
THEOREM MessagesAccounted == Spec => []EveryMessageAccounted
<1>1. IInv => EveryMessageAccounted
  BY DEF IInv
<1> QED
  BY Invariance, <1>1, PTL

\* The claims of inbox.ts are sound.
THEOREM ClaimsAreSound == Spec => []ClaimsSound
<1>1. IInv => ClaimsSound
  BY DEF IInv
<1> QED
  BY Invariance, <1>1, PTL

-----------------------------------------------------------------------------
(***************************************************************************)
(* Action properties.                                                      *)
(***************************************************************************)

\* What a step does to the log: nothing enters it, or a pre-step that was
\* not aborted enters messages of its claim, or a crash cuts it.
LEMMA LogSteps ==
  ASSUME [Next]_vars
  PROVE  \/ entered' = entered /\ disk' \in {disk, LogNow}
         \/ /\ cause = "none" /\ disk' = disk
            /\ \E E \in SUBSET box.reserved : entered' = entered \union E
         \/ disk' = disk /\ entered' = disk.entered
<1>1. CASE Calls
  BY <1>1 DEF Calls, Followup, Steer, Inject, Send, Stop, CancelWaiting,
     CancelTaken, SendQueued, InterjectQueued, BeginMaintenance, Dispose,
     GateFills, GateOpens, log, durable
<1>2. CASE PreStep
  BY <1>2 DEF PreStep, PreStepEnter, PreStepReject, PreStepFails,
     PreStepAborted, EndTurn, durable
<1>3. CASE Step \/ Hooks \/ Continue \/ EndMaintenance
  BY <1>3 DEF Step, StepReturns, TurnFails, Hooks, HooksReturn, Continue,
     BeginTurn, ClaimStep, BudgetSpent, TurnAborted, KickFinally,
     EndMaintenance, EndTurn, log, durable
<1>4. CASE Disk
  BY <1>4 DEF Disk, Flush, CrashAndReopen, log
<1>5. CASE UNCHANGED vars
  BY <1>5 DEF vars, log, durable
<1> QED
  BY <1>1, <1>2, <1>3, <1>4, <1>5 DEF Next

\* What is written was appended, so reopening after a crash enters nothing.
DiskIsPast == disk.entered \subseteq entered

LEMMA DiskStaysPast ==
  ASSUME IInv, DiskIsPast, [Next]_vars PROVE DiskIsPast'
<1>1. LogNow.entered = entered
  BY DEF LogNow
<1> QED
  BY <1>1, LogSteps DEF DiskIsPast

\* Messages that enter a step are neither parked nor taken back.
LEMMA EnteringIsFree ==
  ASSUME IInv, DiskIsPast, [Next]_vars
  PROVE  Entering \intersect (parked \union barred) = {}
<1>1. CASE entered' = entered \/ entered' = disk.entered
  BY <1>1 DEF Entering, DiskIsPast
<1>2. ASSUME cause = "none", NEW E \in SUBSET box.reserved,
             entered' = entered \union E
      PROVE  Entering \intersect (parked \union barred) = {}
  <2>1. ~stopping /\ box.withdrawn = {}
    BY <1>2 DEF IInv, TypeOK, DriverTypeOK, TakenBackAborts
  <2>2. box.reserved \subseteq Pending(box) \ box.held
    BY DEF IInv, ClaimsSound
  <2>3. /\ parked \intersect Pending(box) \subseteq box.held
        /\ barred \intersect Pending(box) = {}
    BY <2>1 DEF IInv, ParkedWaits, BarredWaits
  <2> QED
    BY <1>2, <2>2, <2>3 DEF Entering
<1> QED
  BY <1>1, <1>2, LogSteps

LEMMA InitDiskIsPast == Init => DiskIsPast
BY DEF Init, DiskIsPast, LogNow

\* inbox.ts:17: what a failed turn, a stop or a restart left waiting never
\* runs on its own.
THEOREM ParkedPromptsWait == Spec => ParkedNeverRuns
<1>1. IInv /\ DiskIsPast /\ [Next]_vars => DiskIsPast'
  BY DiskStaysPast
<1>2. IInv /\ DiskIsPast /\ [Next]_vars
        => [Entering \intersect parked = {}]_vars
  BY EnteringIsFree
<1> QED
  BY Invariance, InitDiskIsPast, <1>1, <1>2, PTL DEF Spec, ParkedNeverRuns

\* agent.ts:346, 400: what a submitter cancelled, and the context a stop
\* found, never enters a step, whichever call came first.
THEOREM CancelledPromptsStayOut == Spec => CancelledNeverRuns
<1>1. IInv /\ DiskIsPast /\ [Next]_vars => DiskIsPast'
  BY DiskStaysPast
<1>2. IInv /\ DiskIsPast /\ [Next]_vars
        => [Entering \intersect barred = {}]_vars
  BY EnteringIsFree
<1> QED
  BY Invariance, InitDiskIsPast, <1>1, <1>2, PTL DEF Spec, CancelledNeverRuns

-----------------------------------------------------------------------------
(***************************************************************************)
(* Refinement: every message goes through the steps of PromptLedger.       *)
(***************************************************************************)
Fate    == FateIn(box, entered, parked)
Written == FateIn(disk.box, disk.entered, {})

\* Only prompts are parked, never harness context.
OnlyPromptsPark == parked \subseteq User

LEMMA OnlyPromptsStayParked ==
  ASSUME OnlyPromptsPark, [Next]_vars PROVE OnlyPromptsPark'
<1>1. ASSUME NEW reason, NEW b, EndTurn(reason, b)
      PROVE  OnlyPromptsPark'
  BY <1>1 DEF EndTurn, OnlyPromptsPark
<1>2. \/ parked' \subseteq parked \union User
      \/ \E reason, b : EndTurn(reason, b)
  BY DEF Next, Calls, Followup, Steer, Inject, Send, Stop, CancelWaiting,
     CancelTaken, SendQueued, InterjectQueued, BeginMaintenance, Dispose,
     GateFills, GateOpens, PreStep, PreStepEnter, PreStepReject,
     PreStepFails, PreStepAborted, Step, StepReturns, TurnFails, Hooks,
     HooksReturn, Continue, BeginTurn, ClaimStep, BudgetSpent, TurnAborted,
     KickFinally, EndMaintenance, Disk, Flush, CrashAndReopen, vars
<1> QED
  BY <1>1, <1>2 DEF OnlyPromptsPark

LEMMA FateValue ==
  ASSUME NEW b, NEW e, NEW p, NEW m \in Msg
  PROVE  FateIn(b, e, p)[m] =
           IF m \in e THEN "entered"
           ELSE IF m \in b.discarded THEN "discarded"
           ELSE IF m \notin Pending(b) THEN "new"
           ELSE IF m \in p THEN "parked" ELSE "waiting"
BY DEF FateIn

\* A message that was not sent is new, one that was has one other fate.
LEMMA FateFacts ==
  ASSUME NEW b \in Box, NEW s, NEW e, Accounted(b, s, e), NEW p, NEW m \in Msg
  PROVE  LET f == FateIn(b, e, p)[m]
         IN  /\ f \in {"new", "waiting", "parked", "entered", "discarded"}
             /\ f = "new"       <=> m \notin s
             /\ f = "entered"   <=> m \in e
             /\ f = "discarded" <=> m \in b.discarded
             /\ f = "parked"    <=> m \in Pending(b) /\ m \in p
             /\ f = "waiting"   <=> m \in Pending(b) /\ m \notin p
<1> DEFINE f == FateIn(b, e, p)[m]
<1>1. /\ m \in s <=> m \in Pending(b) \/ m \in e \/ m \in b.discarded
      /\ ~(m \in Pending(b) /\ m \in e)
      /\ ~(m \in Pending(b) /\ m \in b.discarded)
      /\ ~(m \in e /\ m \in b.discarded)
  BY DEF Accounted
<1>2. /\ m \in e => f = "entered"
      /\ m \notin e /\ m \in b.discarded => f = "discarded"
      /\ m \notin e /\ m \notin b.discarded /\ m \notin Pending(b)
           => f = "new"
      /\ m \notin e /\ m \notin b.discarded /\ m \in Pending(b) /\ m \in p
           => f = "parked"
      /\ m \notin e /\ m \notin b.discarded /\ m \in Pending(b) /\ m \notin p
           => f = "waiting"
  BY FateValue
<1> HIDE DEF f
<1>3. /\ f \in {"new", "waiting", "parked", "entered", "discarded"}
      /\ f = "new"       <=> m \notin s
      /\ f = "entered"   <=> m \in e
      /\ f = "discarded" <=> m \in b.discarded
      /\ f = "parked"    <=> m \in Pending(b) /\ m \in p
      /\ f = "waiting"   <=> m \in Pending(b) /\ m \notin p
  BY <1>1, <1>2
<1> QED
  BY <1>3 DEF f

LEMMA FatesNow ==
  ASSUME IInv, NEW m \in Msg
  PROVE  /\ Fate[m] \in {"new", "waiting", "parked", "entered", "discarded"}
         /\ Fate[m] = "new"       <=> m \notin sent
         /\ Fate[m] = "entered"   <=> m \in entered
         /\ Fate[m] = "discarded" <=> m \in box.discarded
         /\ Fate[m] = "parked"    <=> m \in Pending(box) /\ m \in parked
         /\ Fate[m] = "waiting"   <=> m \in Pending(box) /\ m \notin parked
<1>1. box \in Box /\ Accounted(box, sent, entered)
  BY DEF IInv, TypeOK, LogTypeOK, EveryMessageAccounted
<1> QED
  BY <1>1, FateFacts DEF Fate

\* The operations that add nothing to the inbox, and take back no discard.
Shrinks(b, c) ==
  c \in Box /\ Pending(c) \subseteq Pending(b) /\ b.discarded \subseteq c.discarded

LEMMA OperationsShrink ==
  ASSUME NEW b \in Box
  PROVE  /\ Shrinks(b, HoldUnsent(b)) /\ Shrinks(b, b)
         /\ \A t : Shrinks(b, Claim(b, t))
         /\ \A S \in SUBSET Msg : Shrinks(b, Discard(b, S))
         /\ \A S : Shrinks(b, DiscardWhere(b, S)) /\ Shrinks(b, Hold(b, S))
         /\ \A m \in Msg : Shrinks(b, Withdraw(b, m)) /\ Shrinks(b, Unhold(b, m))
         /\ \A E : Shrinks(b, Commit(b, E))
         /\ Shrinks(b, Release(b))
BY HoldUnsentFacts, ClaimFacts, DiscardFacts, DiscardWhereFacts, HoldFacts,
   WithdrawFacts, UnholdFacts, CommitFacts, ReleaseFacts DEF Shrinks

LEMMA ShrinksTwice ==
  ASSUME NEW b, NEW c, NEW d, Shrinks(b, c), Shrinks(c, d)
  PROVE  Shrinks(b, d)
BY DEF Shrinks

LEMMA ReleaseClaimShrinks ==
  ASSUME box \in Box
  PROVE  Shrinks(box, ReleaseClaim)
<1> DEFINE b == Release(box)
           r == box.reserved \ box.withdrawn
           d == DiscardWhere(b, r \ User)
<1>1. b \in Box /\ Shrinks(box, b)
  BY OperationsShrink, ReleaseFacts
<1>2. d \in Box /\ Shrinks(box, d)
  <2> HIDE DEF b
  <2>1. d \in Box /\ Shrinks(b, d)
    BY <1>1, OperationsShrink, DiscardWhereFacts
  <2> QED
    BY <1>1, <2>1, ShrinksTwice
<1>3. ReleaseClaim = IF stopping THEN Hold(d, r \intersect User) ELSE b
  BY DEF ReleaseClaim
<1> HIDE DEF b, d
<1>4. Shrinks(d, Hold(d, r \intersect User))
  BY <1>2, OperationsShrink
<1> QED
  BY <1>1, <1>2, <1>3, <1>4, ShrinksTwice

\* The steps of a message's life.
Arrives(m) ==
  /\ Fate[m] = "new" /\ Fate' = [Fate EXCEPT ![m] = "waiting"]
  /\ Written' = Written

SentAgain(m) ==
  /\ Fate[m] = "parked" /\ Fate' = [Fate EXCEPT ![m] = "waiting"]
  /\ Written' = Written

Outcome(m) ==
  CASE Fate[m] = "waiting" ->
         {"waiting", "entered", "discarded"} \union
           (IF m \in User THEN {"parked"} ELSE {})
    [] Fate[m] = "parked" -> {"parked", "discarded"}
    [] OTHER -> {Fate[m]}

Settles == /\ \A m \in Msg : Fate'[m] \in Outcome(m)
           /\ Written' = Written

\* What neither adds a message nor takes one from the user's pile settles.
LEMMA ShrinkingSettles ==
  ASSUME IInv, IInv', OnlyPromptsPark', Entering \intersect parked = {},
         Shrinks(box, box'), UNCHANGED <<sent, disk>>,
         entered \subseteq entered', parked \subseteq parked'
  PROVE  Settles
<1>1. ASSUME NEW m \in Msg
      PROVE  Fate'[m] \in Outcome(m)
  <2>1. /\ Fate[m] \in {"new", "waiting", "parked", "entered", "discarded"}
        /\ Fate[m] = "new"       <=> m \notin sent
        /\ Fate[m] = "entered"   <=> m \in entered
        /\ Fate[m] = "discarded" <=> m \in box.discarded
        /\ Fate[m] = "parked"    <=> m \in Pending(box) /\ m \in parked
        /\ Fate[m] = "waiting"   <=> m \in Pending(box) /\ m \notin parked
    BY FatesNow
  <2>2. /\ Fate'[m] \in {"new", "waiting", "parked", "entered", "discarded"}
        /\ Fate'[m] = "new"       <=> m \notin sent
        /\ Fate'[m] = "entered"   <=> m \in entered'
        /\ Fate'[m] = "discarded" <=> m \in box'.discarded
        /\ Fate'[m] = "parked"    <=> m \in Pending(box') /\ m \in parked'
        /\ Fate'[m] = "waiting"   <=> m \in Pending(box') /\ m \notin parked'
    <3>1. /\ box' \in Box /\ Accounted(box', sent, entered')
      BY DEF IInv, TypeOK, LogTypeOK, EveryMessageAccounted
    <3>2. Fate' = FateIn(box', entered', parked')
      BY DEF Fate, FateIn
    <3> QED
      BY <3>1, <3>2, FateFacts
  <2>3. /\ box.discarded \subseteq box'.discarded
        /\ m \in parked' => m \in User
        /\ m \in entered' => m \in entered \/ m \notin parked
    BY DEF Shrinks, OnlyPromptsPark, Entering
  <2>4. Fate[m] = "waiting" =>
          Fate'[m] \in {"waiting", "entered", "discarded"} \union
                         (IF m \in User THEN {"parked"} ELSE {})
    BY <2>1, <2>2, <2>3
  <2>5. Fate[m] = "parked" => Fate'[m] \in {"parked", "discarded"}
    BY <2>1, <2>2, <2>3
  <2>6. Fate[m] \in {"new", "entered", "discarded"} => Fate'[m] = Fate[m]
    BY <2>1, <2>2, <2>3
  <2> HIDE DEF Fate
  <2> QED
    BY <2>1, <2>4, <2>5, <2>6 DEF Outcome
<1>2. Written' = Written
  BY DEF Written, FateIn
<1> QED
  BY <1>1, <1>2 DEF Settles

\* The end of a turn shrinks what the step made of the inbox.
LEMMA EndTurnSettles ==
  ASSUME IInv, IInv', OnlyPromptsPark', NEW b \in Box, Shrinks(box, b),
         NEW reason, EndTurn(reason, b), UNCHANGED <<sent, entered>>
  PROVE  Settles
<1>1. /\ box' = (IF reason \in {"error", "blocked"} THEN HoldUnsent(b) ELSE b)
      /\ parked \subseteq parked' /\ disk' = disk
  BY DEF EndTurn, durable
<1>2. Shrinks(box, box')
  BY <1>1, OperationsShrink, ShrinksTwice
<1>3. Entering = {}
  BY DEF Entering
<1> QED
  BY <1>1, <1>2, <1>3, ShrinkingSettles

\* A message of which only the fate changed, and it waits now.
LEMMA OneWaits ==
  ASSUME IInv, IInv', NEW m \in Msg, UNCHANGED <<disk, entered>>,
         m \in Pending(box') /\ m \notin parked',
         Pending(box') = Pending(box) \union {m},
         box'.discarded = box.discarded, parked' = parked \ {m}
  PROVE  Fate' = [Fate EXCEPT ![m] = "waiting"] /\ Written' = Written
<1>1. ASSUME NEW n \in Msg
      PROVE  Fate'[n] = IF n = m THEN "waiting" ELSE Fate[n]
  <2>1. m \notin entered /\ m \notin box.discarded
    BY DEF IInv, EveryMessageAccounted, Accounted
  <2> QED
    BY <2>1 DEF Fate, FateIn
<1>2. /\ Fate = [n \in Msg |-> Fate[n]] /\ Fate' = [n \in Msg |-> Fate'[n]]
  BY DEF Fate, FateIn
<1>3. Fate' = [Fate EXCEPT ![m] = "waiting"]
  <2> DEFINE f == Fate
             g == Fate'
  <2>1. /\ f = [n \in Msg |-> f[n]] /\ g = [n \in Msg |-> g[n]]
        /\ \A n \in Msg : g[n] = IF n = m THEN "waiting" ELSE f[n]
    BY <1>1, <1>2
  <2> HIDE DEF f, g
  <2>2. g = [f EXCEPT ![m] = "waiting"]
    BY <2>1
  <2> QED
    BY <2>2 DEF f, g
<1>4. Written' = Written
  BY DEF Written
<1> QED
  BY <1>3, <1>4

LEMMA CallsRefine ==
  ASSUME IInv, IInv', OnlyPromptsPark', Calls
  PROVE  Settles \/ \E m \in Msg : Arrives(m) \/ SentAgain(m)
<1>1. /\ box \in Box /\ parked \subseteq sent /\ Pending(box) \subseteq sent
      /\ Pending(box) \subseteq Msg /\ Shrinks(box, box)
      /\ \A m \in parked \intersect Pending(box) :
           m \in box.held \/ m \in box.reserved
  BY OperationsShrink DEF IInv, TypeOK, LogTypeOK, HistoryIsSent, ParkedWaits,
     EveryMessageAccounted, Accounted, Pending
<1>2. ASSUME Shrinks(box, box'), parked \subseteq parked',
             UNCHANGED <<sent, entered, disk>>
      PROVE  Settles
  <2>1. Entering = {}
    BY <1>2 DEF Entering
  <2> QED
    BY <1>2, <2>1, ShrinkingSettles
<1>3. ASSUME NEW m \in Msg, NEW l \in Lists, NEW wakeup \in BOOLEAN,
             Send(m, l, wakeup)
      PROVE  Arrives(m)
  <2>1. PICK k \in Lists : box' = AppendTo(box, k, m)
    BY <1>3 DEF Send, Lists
  <2>2. /\ m \notin sent /\ UNCHANGED <<entered, disk, parked>>
    BY <1>3 DEF Send, durable
  <2>3. /\ Pending(box') = Pending(box) \union {m}
        /\ box'.discarded = box.discarded
    BY <1>1, <2>1, AppendFacts
  <2>4. m \notin parked /\ parked' = parked \ {m} /\ m \in Pending(box')
    BY <1>1, <2>2, <2>3
  <2>5. Fate' = [Fate EXCEPT ![m] = "waiting"] /\ Written' = Written
    BY <2>2, <2>3, <2>4, OneWaits
  <2>6. Fate[m] = "new"
    BY <2>2, FatesNow
  <2> QED
    BY <2>5, <2>6 DEF Arrives
<1>4. CASE Stop
  <2> DEFINE d == DiscardWhere(box, Msg \ User)
  <2>1. d \in Box /\ Shrinks(box, d)
    BY <1>1, DiscardWhereFacts, OperationsShrink
  <2>2. /\ box' = HoldUnsent(d) /\ parked \subseteq parked'
        /\ UNCHANGED <<sent, entered, disk>>
    BY <1>4 DEF Stop, SetBox, durable
  <2> HIDE DEF d
  <2>3. Shrinks(box, box')
    BY <2>1, <2>2, OperationsShrink, ShrinksTwice
  <2> QED
    BY <1>2, <2>2, <2>3
<1>5. ASSUME NEW m \in Msg, CancelWaiting(m) \/ CancelTaken(m)
      PROVE  Settles
  <2>1. /\ box' \in {box, Discard(box, {m}), Withdraw(box, m)}
        /\ UNCHANGED <<sent, entered, disk, parked>>
    BY <1>5 DEF CancelWaiting, CancelTaken, SetBox, durable
  <2>2. Shrinks(box, box')
    BY <1>1, <2>1, OperationsShrink
  <2> QED
    BY <1>2, <2>1, <2>2
\* The two calls that give a message back to the run.
<1>6. ASSUME NEW m \in Msg, SendQueued(m) \/ InterjectQueued(m)
      PROVE  Settles \/ SentAgain(m)
  <2>1. /\ m \in Pending(box) /\ (m \in box.held \/ m \notin box.reserved)
        /\ UNCHANGED <<sent, entered, disk>> /\ parked' = parked \ {m}
    BY <1>6 DEF SendQueued, InterjectQueued, On, Pending, Lists, durable,
       IInv, ClaimsSound
  <2>2. /\ Shrinks(box, box') /\ Pending(box') = Pending(box)
        /\ box'.discarded = box.discarded
    <3>1. CASE SendQueued(m)
      BY <1>1, <3>1, UnholdFacts, OperationsShrink DEF SendQueued
    <3>2. CASE InterjectQueued(m)
      <4> DEFINE a == AppendTo(box, "next-step", m)
      <4>1. /\ a \in Box /\ Pending(a) = Pending(box)
            /\ a.discarded = box.discarded
        <5>1. "next-step" \in Lists /\ box \in Box /\ m \in Msg
          BY <1>1 DEF Lists
        <5>2. /\ a \in Box /\ Pending(a) = Pending(box) \union {m}
              /\ a.discarded = box.discarded
          BY <5>1, AppendFacts
        <5> HIDE DEF a
        <5> QED
          BY <5>2, <2>1
      <4>2. box' = Unhold(a, m)
        BY <3>2 DEF InterjectQueued
      <4> HIDE DEF a
      <4> QED
        BY <4>1, <4>2, UnholdFacts DEF Shrinks
    <3> QED
      BY <1>6, <3>1, <3>2
  <2>3. CASE m \in parked
    <3>1. Fate' = [Fate EXCEPT ![m] = "waiting"] /\ Written' = Written
      <4>1. /\ Pending(box') = Pending(box) \union {m}
            /\ m \in Pending(box') /\ m \notin parked'
        BY <2>1, <2>2
      <4> QED
        BY <2>1, <2>2, <4>1, OneWaits
    <3>2. Fate[m] = "parked"
      BY <2>1, <2>3, FatesNow
    <3> QED
      BY <3>1, <3>2 DEF SentAgain
  <2>4. CASE m \notin parked
    <3>1. parked \subseteq parked'
      BY <2>1, <2>4
    <3> QED
      BY <1>2, <2>1, <2>2, <3>1
  <2> QED
    BY <2>3, <2>4
<1>7. CASE BeginMaintenance \/ Dispose \/ GateFills \/ GateOpens
  <2>1. UNCHANGED <<box, sent, entered, disk, parked>>
    BY <1>7 DEF BeginMaintenance, Dispose, GateFills, GateOpens, log, durable
  <2>2. Shrinks(box, box') /\ parked \subseteq parked'
    BY <1>1, <2>1
  <2> QED
    BY <1>2, <2>1, <2>2
<1> QED
  BY <1>3, <1>4, <1>5, <1>6, <1>7
  DEF Calls, Followup, Steer, Inject, Lists

LEMMA DriverRefines ==
  ASSUME IInv, IInv', OnlyPromptsPark', DiskIsPast, [Next]_vars,
         PreStep \/ Step \/ Hooks \/ Continue \/ EndMaintenance
  PROVE  Settles
<1>1. box \in Box /\ Shrinks(box, box) /\ Shrinks(box, ReleaseClaim)
      /\ ReleaseClaim \in Box /\ HoldUnsent(box) \in Box
      /\ Shrinks(box, HoldUnsent(box))
  BY OperationsShrink, ReleaseClaimShrinks, HoldUnsentFacts
  DEF IInv, TypeOK, LogTypeOK, Shrinks
<1>2. Entering \intersect parked = {}
  BY EnteringIsFree
<1>3. ASSUME NEW E \in SUBSET Msg, NEW context \in BOOLEAN,
             PreStepEnter(E, context)
      PROVE  Settles
  <2> DEFINE c == Commit(box, E)
  <2>1. c \in Box /\ Shrinks(box, c)
    BY <1>1, OperationsShrink, CommitFacts
  <2>2. \/ /\ \E reason : EndTurn(reason, c)
           /\ UNCHANGED <<sent, entered>>
        \/ /\ box' = c /\ entered' = entered \union E
           /\ UNCHANGED <<sent, disk, parked>>
    BY <1>3 DEF PreStepEnter, SetBox, durable
  <2> HIDE DEF c
  <2> QED
    BY <1>2, <2>1, <2>2, EndTurnSettles, ShrinkingSettles
<1>4. CASE PreStepReject \/ PreStepFails \/ PreStepAborted
  BY <1>1, <1>4, EndTurnSettles
  DEF PreStepReject, PreStepFails, PreStepAborted
<1>5. CASE Step \/ Hooks \/ Continue \/ EndMaintenance
  <2>1. \/ /\ \E reason : EndTurn(reason, box)
           /\ UNCHANGED <<sent, entered>>
        \/ /\ \/ box' \in {box, HoldUnsent(box)}
              \/ box' = Claim(box, target)
           /\ UNCHANGED <<sent, entered, disk>> /\ parked \subseteq parked'
    BY <1>5 DEF Step, StepReturns, TurnFails, Hooks, HooksReturn, Continue,
       BeginTurn, ClaimStep, BudgetSpent, TurnAborted, KickFinally, SetBox,
       EndMaintenance, log, durable
  <2>2. Shrinks(box, Claim(box, target))
    BY <1>1, OperationsShrink
  <2> QED
    BY <1>1, <1>2, <2>1, <2>2, EndTurnSettles, ShrinkingSettles
<1> QED
  BY <1>3, <1>4, <1>5 DEF PreStep

\* What is written, and what is found again after a crash.
Saves ==
  /\ Written' = [m \in Msg |-> IF Fate[m] = "parked" THEN "waiting"
                                                     ELSE Fate[m]]
  /\ Fate' = Fate

Reopens ==
  /\ Fate' = [m \in Msg |-> IF Written[m] = "waiting" /\ m \in User
                            THEN "parked" ELSE Written[m]]
  /\ Written' = Written

LEMMA DiskRefines ==
  ASSUME IInv, Disk
  PROVE  Saves \/ Reopens
<1>1. box \in Box /\ sent \in SUBSET Msg /\ entered \in SUBSET Msg
      /\ disk.box \in Box
  BY DEF IInv, TypeOK, LogTypeOK, Logged
<1>2. CASE Flush
  <2>1. /\ disk' = LogNow /\ UNCHANGED <<box, entered, parked>>
    BY <1>2 DEF Flush, log
  <2>2. /\ Pending(LogNow.box) = Pending(box)
        /\ LogNow.box.discarded = box.discarded
        /\ LogNow.entered = entered
    BY <1>1, LogNowFacts
  <2>3. Written' = [m \in Msg |-> IF Fate[m] = "parked" THEN "waiting"
                                                        ELSE Fate[m]]
    <3>1. ASSUME NEW m \in Msg
          PROVE  Written'[m] = IF Fate[m] = "parked" THEN "waiting"
                                                     ELSE Fate[m]
      <4>1. /\ Written' = FateIn(LogNow.box, entered, {})
            /\ Fate = FateIn(box, entered, parked)
        BY <2>1, <2>2 DEF Written, Fate, FateIn
      <4> QED
        BY <2>2, <4>1, FateValue
    <3>2. Written' = [m \in Msg |-> Written'[m]]
      BY DEF Written, FateIn
    <3> QED
      BY <3>1, <3>2
  <2>4. Fate' = Fate
    BY <2>1 DEF Fate, FateIn
  <2> QED
    BY <2>3, <2>4 DEF Saves
<1>3. CASE CrashAndReopen
  <2>1. /\ box' = Reopen(disk.box) /\ entered' = disk.entered
        /\ disk' = disk /\ parked' = User \intersect Pending(disk.box)
    BY <1>3 DEF CrashAndReopen
  <2>2. /\ Pending(box') = Pending(disk.box)
        /\ box'.discarded = disk.box.discarded
    BY <1>1, <2>1, ReopenFacts
  <2>3. Fate' = [m \in Msg |-> IF Written[m] = "waiting" /\ m \in User
                               THEN "parked" ELSE Written[m]]
    <3>1. ASSUME NEW m \in Msg
          PROVE  Fate'[m] = IF Written[m] = "waiting" /\ m \in User
                            THEN "parked" ELSE Written[m]
      <4>1. /\ Fate' = FateIn(box', entered', parked')
            /\ Written = FateIn(disk.box, disk.entered, {})
        BY DEF Written, Fate, FateIn
      <4> QED
        BY <2>1, <2>2, <4>1, FateValue
    <3>2. Fate' = [m \in Msg |-> Fate'[m]]
      BY DEF Fate, FateIn
    <3> QED
      BY <3>1, <3>2
  <2>4. Written' = Written
    BY <2>1 DEF Written, FateIn
  <2> QED
    BY <2>3, <2>4 DEF Reopens
<1> QED
  BY <1>2, <1>3 DEF Disk

LEMMA StepsRefine ==
  ASSUME IInv, OnlyPromptsPark, DiskIsPast, [Next]_vars
  PROVE  \/ Settles \/ Saves \/ Reopens
         \/ \E m \in Msg : Arrives(m) \/ SentAgain(m)
         \/ Fate' = Fate /\ Written' = Written
<1>1. IInv' /\ OnlyPromptsPark'
  BY StepKeeps, OnlyPromptsStayParked
<1>2. CASE UNCHANGED vars
  BY <1>2 DEF vars, log, durable, Fate, Written, FateIn
<1> QED
  BY <1>1, <1>2, CallsRefine, DriverRefines, DiskRefines DEF Next

LEMMA FatesTyped ==
  ASSUME NEW b, NEW e, NEW p
  PROVE  FateIn(b, e, p) \in [Msg -> Ledger!Fates]
BY DEF FateIn, Ledger!Fates

\* Every message lives the life that PromptLedger promises, whatever the
\* users and the driver do to it and wherever the process dies: it waits,
\* enters a step once, is discarded, or is the user's to send again.
THEOREM LedgerIsImplemented == Spec => LedgerImplemented
<1>1. Init => Ledger!Init /\ OnlyPromptsPark
  <2> SUFFICES ASSUME Init PROVE Ledger!Init /\ OnlyPromptsPark
    OBVIOUS
  <2>1. /\ box \in Box /\ Pending(box) = {} /\ box.discarded = {}
        /\ entered = {} /\ sent = {} /\ parked = {} /\ disk = LogNow
    BY EmptyBoxFacts DEF Init, EmptyBox
  <2>2. /\ Pending(disk.box) = {} /\ disk.box.discarded = {}
        /\ disk.entered = {}
    BY <2>1, LogNowFacts
  <2> QED
    BY <2>1, <2>2 DEF Ledger!Init, FateIn, OnlyPromptsPark
<1>2. IInv /\ DiskIsPast /\ [Next]_vars => DiskIsPast'
  BY DiskStaysPast
<1>3. OnlyPromptsPark /\ [Next]_vars => OnlyPromptsPark'
  BY OnlyPromptsStayParked
<1>4. IInv /\ OnlyPromptsPark /\ DiskIsPast /\ [Next]_vars =>
        [Ledger!Next]_<<FateIn(box, entered, parked),
                        FateIn(disk.box, disk.entered, {})>>
  <2> SUFFICES ASSUME IInv, OnlyPromptsPark, DiskIsPast, [Next]_vars
               PROVE  [Ledger!Next]_<<Fate, Written>>
    BY DEF Fate, Written
  <2>1. Fate' \in [Msg -> Ledger!Fates]
    BY FatesTyped DEF Fate
  <2>2. \/ Settles \/ Saves \/ Reopens
        \/ \E m \in Msg : Arrives(m) \/ SentAgain(m)
        \/ Fate' = Fate /\ Written' = Written
    BY StepsRefine
  <2>3. CASE Settles
    <3>1. Ledger!Settle
      BY <2>1, <2>3 DEF Settles, Outcome, Fate, Written, Ledger!Settle,
         Ledger!Outcomes
    <3> QED
      BY <3>1 DEF Ledger!Next
  <2>4. CASE Saves \/ Reopens
    <3>1. Ledger!Save \/ Ledger!Reopen
      BY <2>4 DEF Saves, Reopens, Fate, Written, Ledger!Save, Ledger!Reopen
    <3> QED
      BY <3>1 DEF Ledger!Next
  <2>5. ASSUME NEW m \in Msg, Arrives(m) \/ SentAgain(m)
        PROVE  Ledger!Next
    <3>1. Ledger!Arrive(m) \/ Ledger!SendAgain(m)
      BY <2>5 DEF Arrives, SentAgain, Fate, Written, Ledger!Arrive,
         Ledger!SendAgain
    <3> QED
      BY <3>1 DEF Ledger!Next
  <2> QED
    BY <2>2, <2>3, <2>4, <2>5
<1> QED
  BY <1>1, <1>2, <1>3, <1>4, Invariance, InitDiskIsPast, PTL
  DEF Spec, LedgerImplemented, Ledger!Spec

-----------------------------------------------------------------------------
(***************************************************************************)
(* The turn: it takes one prompt, whoever waits for an outcome will hear   *)
(* and hears the truth, an idle agent has nothing it should run, and only  *)
(* a stop holds what waits behind an aborted turn.                         *)
(***************************************************************************)

\* Of two messages on one list, one was put there before the other.
Ordered(b) ==
  \A l \in Lists : \A m, n \in On(b, l) :
    m # n => <<m, n>> \in b.ahead \/ <<n, m>> \in b.ahead

ListsOrdered == Ordered(box) /\ Ordered(disk.box)

\* A prompt is only reserved for the first step of a turn, and only one is.
OnePrompt ==
  /\ pc \in {"idle", "maintenance", "turn"} => ~stepped
  /\ pc = "loop" /\ target = "next-turn" => ~stepped
  /\ pc = "preparing" =>
       \A m, n \in box.reserved \intersect On(box, "next-turn") :
         ~stepped /\ m = n

\* The flags of the driver, with which a run that ends decides what becomes
\* of the messages that wait.
FlagsSound ==
  /\ pc = "idle" => cause = "none" /\ ~stopping /\ ~wakeRequested
  /\ cause = "disposed" => disposed
  /\ Running /\ cause # "none" /\ ~stopping /\ ~disposed => wakeRequested
  /\ pc = "exit" /\ lastEnd = "aborted" => cause # "none"

\* Who waits for an outcome, and for what.
WaitersSound ==
  /\ consumed \subseteq entered
  /\ waiting \subseteq (Pending(box) \ box.held) \union
                        (IF InTurn THEN consumed ELSE {})

\* Between two runs no prompt is left that should run: the gate remembers
\* that it refused one, or the maintenance job that it was asked for one.
NothingLeftBehind ==
  pc \in {"idle", "maintenance"} =>
    \/ gate = "queued"
    \/ disposed
    \/ pc = "maintenance" /\ wakeRequested
    \/ Claimable(box) \intersect User = {}

TurnInv == /\ ListsOrdered /\ OnePrompt /\ FlagsSound
           /\ WaitersSound /\ NothingLeftBehind

-----------------------------------------------------------------------------
(***************************************************************************)
(* The order of the lists.                                                 *)
(***************************************************************************)

\* What changes neither a list nor the order keeps the order.
LEMMA SameOrder ==
  ASSUME NEW b, NEW c, Ordered(b), c.where = b.where, c.ahead = b.ahead
  PROVE  Ordered(c)
BY DEF Ordered, On

LEMMA AppendOrdered ==
  ASSUME NEW b \in Box, Ordered(b), NEW l \in Lists, NEW m \in Msg
  PROVE  /\ Ordered(AppendTo(b, l, m))
         /\ \A n \in Msg \ {m} : AppendTo(b, l, m).where[n] = b.where[n]
<1> DEFINE c == AppendTo(b, l, m)
<1>1. /\ c.ahead = AheadWithout(b, {m}) \union ((On(b, l) \ {m}) \X {m})
      /\ c.where = [b.where EXCEPT ![m] = l]
  BY DEF AppendTo, Box
<1>2. \A n \in Msg \ {m} : c.where[n] = b.where[n]
  BY <1>1 DEF Box
<1>3. c.where[m] = l
  BY <1>1 DEF Box
<1> HIDE DEF c
<1>4. ASSUME NEW k \in Lists, NEW a \in On(c, k), NEW n \in On(c, k), a # n
      PROVE  <<a, n>> \in c.ahead \/ <<n, a>> \in c.ahead
  <2>1. CASE a = m \/ n = m
    <3>1. ASSUME NEW x \in Msg \ {m}, x \in On(c, k), m \in On(c, k)
          PROVE  <<x, m>> \in c.ahead
      <4>1. k = l /\ x \in On(b, l)
        BY <1>2, <1>3, <3>1 DEF On
      <4> QED
        BY <1>1, <4>1
    <3> QED
      BY <1>4, <2>1, <3>1 DEF On
  <2>2. CASE a # m /\ n # m
    <3>1. a \in On(b, k) /\ n \in On(b, k)
      BY <1>2, <2>2 DEF On
    <3>2. <<a, n>> \in b.ahead \/ <<n, a>> \in b.ahead
      BY <1>4, <3>1 DEF Ordered
    <3> QED
      BY <1>1, <2>2, <3>2 DEF AheadWithout
  <2> QED
    BY <2>1, <2>2
<1>5. Ordered(c)
  BY <1>4 DEF Ordered
<1> QED
  BY <1>2, <1>5 DEF c

LEMMA WithoutOrdered ==
  ASSUME NEW b \in Box, Ordered(b), NEW S
  PROVE  /\ Ordered(Without(b, S))
         /\ \A n \in Msg \ S : Without(b, S).where[n] = b.where[n]
<1> DEFINE c == Without(b, S)
<1>1. /\ c.ahead = AheadWithout(b, S)
      /\ c.where = [m \in Msg |-> IF m \in S THEN "none" ELSE b.where[m]]
  BY DEF Without, Box
<1> HIDE DEF c
<1>2. ASSUME NEW k \in Lists, NEW a \in On(c, k), NEW n \in On(c, k), a # n
      PROVE  <<a, n>> \in c.ahead \/ <<n, a>> \in c.ahead
  <2>1. a \in On(b, k) \ S /\ n \in On(b, k) \ S
    BY <1>1 DEF On, Lists
  <2>2. <<a, n>> \in b.ahead \/ <<n, a>> \in b.ahead
    BY <1>2, <2>1 DEF Ordered
  <2> QED
    BY <1>1, <2>1, <2>2 DEF AheadWithout
<1>3. Ordered(c)
  BY <1>2 DEF Ordered
<1> QED
  BY <1>1, <1>3 DEF c

LEMMA DiscardOrdered ==
  ASSUME NEW b \in Box, Ordered(b), NEW S
  PROVE  /\ Ordered(Discard(b, S))
         /\ \A n \in Msg \ S : Discard(b, S).where[n] = b.where[n]
<1> DEFINE w == Without(b, S)
<1>1. w \in Box /\ Ordered(w) /\ \A n \in Msg \ S : w.where[n] = b.where[n]
  BY WithoutFacts, WithoutOrdered
<1>2. Discard(b, S) = [w EXCEPT !.held = w.held \ S,
                                !.discarded = w.discarded \union S]
  BY DEF Discard
<1> HIDE DEF w
<1>3. Discard(b, S).where = w.where /\ Discard(b, S).ahead = w.ahead
  BY <1>1, <1>2 DEF Box
<1> QED
  BY <1>1, <1>3, SameOrder

\* The other operations change no list at all.
LEMMA OthersOrdered ==
  ASSUME NEW b \in Box, Ordered(b), NEW S, NEW m
  PROVE  \A c \in {Hold(b, S), HoldUnsent(b), Unhold(b, m), Settled(b),
                   Claim(b, S), Withdraw(b, m), Reopen(b)} :
           Ordered(c) /\ c.where = b.where
<1>1. \A c \in {Hold(b, S), HoldUnsent(b), Unhold(b, m), Settled(b),
                Claim(b, S), Withdraw(b, m), Reopen(b)} :
        c.where = b.where /\ c.ahead = b.ahead
  BY DEF Hold, HoldUnsent, Unhold, Settled, Claim, Withdraw, Reopen, Box
<1> QED
  BY <1>1, SameOrder

LEMMA CommitOrdered ==
  ASSUME NEW b \in Box, Ordered(b), NEW E
  PROVE  Ordered(Commit(b, E))
<1> DEFINE P == b.reserved \intersect Pending(b)
           u == Settled(b)
           v == Without(u, P \intersect E)
<1>1. u \in Box /\ Ordered(u)
  BY SettledFacts, OthersOrdered
<1> HIDE DEF u
<1>2. v \in Box /\ Ordered(v)
  BY <1>1, WithoutFacts, WithoutOrdered
<1>3. Commit(b, E) = Discard(v, P \ E)
  BY DEF Commit, u
<1> HIDE DEF v
<1> QED
  BY <1>2, <1>3, DiscardOrdered

LEMMA ReleaseClaimOrdered ==
  ASSUME box \in Box, Ordered(box)
  PROVE  Ordered(ReleaseClaim)
<1> DEFINE u == Settled(box)
           r == box.reserved \ box.withdrawn
           S == (r \ User) \intersect Unreserved(Release(box))
           d == Discard(Release(box), S)
<1>1. u \in Box /\ Ordered(u)
  BY SettledFacts, OthersOrdered
<1>2. Release(box) \in Box /\ Ordered(Release(box))
  <2> HIDE DEF u
  <2>1. Release(box) = Discard(u, box.withdrawn \intersect Pending(box))
    BY DEF Release, u
  <2> QED
    BY <1>1, <2>1, DiscardOrdered, ReleaseFacts
<1>3. d \in Box /\ Ordered(d)
  <2>1. S \in SUBSET Msg
    BY DEF Unreserved, Pending
  <2> QED
    BY <1>2, <2>1, DiscardFacts, DiscardOrdered
<1>4. ReleaseClaim = IF stopping THEN Hold(d, r \intersect User)
                                 ELSE Release(box)
  BY DEF ReleaseClaim, DiscardWhere
<1> HIDE DEF d
<1> QED
  BY <1>2, <1>3, <1>4, OthersOrdered

\* A call leaves what is reserved where it is.
LEMMA CallsOrdered ==
  ASSUME IInv, Ordered(box), Calls
  PROVE  /\ Ordered(box') /\ box'.reserved = box.reserved
         /\ \A n \in box.reserved : box'.where[n] = box.where[n]
<1>1. /\ box \in Box /\ box.reserved \subseteq Pending(box)
      /\ Pending(box) \subseteq sent /\ Pending(box) \subseteq Msg
  BY DEF IInv, TypeOK, LogTypeOK, ClaimsSound, EveryMessageAccounted,
         Accounted, Pending
<1>2. ASSUME NEW m \in Msg, NEW l \in Lists, NEW wakeup \in BOOLEAN,
             Send(m, l, wakeup)
      PROVE  /\ Ordered(box') /\ box'.reserved = box.reserved
             /\ \A n \in box.reserved : box'.where[n] = box.where[n]
  <2>1. PICK k \in Lists : box' = AppendTo(box, k, m)
    BY <1>2 DEF Send, Lists
  <2>2. m \notin box.reserved
    BY <1>1, <1>2 DEF Send
  <2> QED
    BY <1>1, <2>1, <2>2, AppendOrdered, AppendFacts
<1>3. CASE Stop
  <2> DEFINE S == (Msg \ User) \intersect Unreserved(box)
             d == Discard(box, S)
  <2>1. S \in SUBSET Msg /\ S \intersect box.reserved = {}
    BY DEF Unreserved
  <2>2. /\ d \in Box /\ Ordered(d) /\ d.reserved = box.reserved
        /\ \A n \in box.reserved : d.where[n] = box.where[n]
    BY <1>1, <2>1, DiscardOrdered, DiscardFacts
  <2>3. box' = HoldUnsent(d)
    BY <1>3 DEF Stop, SetBox, DiscardWhere
  <2> HIDE DEF d
  <2> QED
    BY <2>2, <2>3, OthersOrdered, HoldUnsentFacts
<1>4. ASSUME NEW m \in Msg, CancelWaiting(m)
      PROVE  /\ Ordered(box') /\ box'.reserved = box.reserved
             /\ \A n \in box.reserved : box'.where[n] = box.where[n]
  <2>1. box' = Discard(box, {m}) /\ m \notin box.reserved
    BY <1>4 DEF CancelWaiting, SetBox, Unreserved
  <2> QED
    BY <1>1, <2>1, DiscardOrdered, DiscardFacts
<1>5. ASSUME NEW m \in Msg, CancelTaken(m)
      PROVE  /\ Ordered(box') /\ box'.reserved = box.reserved
             /\ \A n \in box.reserved : box'.where[n] = box.where[n]
  <2>1. box' \in {box, Withdraw(box, m)}
    BY <1>5 DEF CancelTaken
  <2>2. CASE box' = box
    BY <1>1, <2>2
  <2>3. CASE box' = Withdraw(box, m)
    BY <1>1, <2>3, OthersOrdered, WithdrawFacts
  <2> QED
    BY <2>1, <2>2, <2>3
<1>6. ASSUME NEW m \in Msg, SendQueued(m)
      PROVE  /\ Ordered(box') /\ box'.reserved = box.reserved
             /\ \A n \in box.reserved : box'.where[n] = box.where[n]
  BY <1>1, <1>6, OthersOrdered, UnholdFacts DEF SendQueued
<1>7. ASSUME NEW m \in Msg, InterjectQueued(m)
      PROVE  /\ Ordered(box') /\ box'.reserved = box.reserved
             /\ \A n \in box.reserved : box'.where[n] = box.where[n]
  <2> DEFINE a == AppendTo(box, "next-step", m)
  <2>1. box' = Unhold(a, m) /\ m \notin box.reserved
    BY <1>7 DEF InterjectQueued
  <2>2. /\ a \in Box /\ Ordered(a) /\ a.reserved = box.reserved
        /\ \A n \in Msg \ {m} : a.where[n] = box.where[n]
    BY <1>1, AppendOrdered, AppendFacts DEF Lists
  <2> HIDE DEF a
  <2> QED
    BY <1>1, <2>1, <2>2, OthersOrdered, UnholdFacts
<1>8. CASE BeginMaintenance \/ Dispose \/ GateFills \/ GateOpens
  BY <1>1, <1>8 DEF BeginMaintenance, Dispose, GateFills, GateOpens, log
<1> QED
  BY <1>2, <1>3, <1>4, <1>5, <1>6, <1>7, <1>8
     DEF Calls, Followup, Steer, Inject, Lists

\* A turn that ends only holds messages.
LEMMA EndTurnOrdered ==
  ASSUME NEW b \in Box, Ordered(b), NEW reason, EndTurn(reason, b)
  PROVE  Ordered(box')
BY OthersOrdered DEF EndTurn

LEMMA OrderKept ==
  ASSUME IInv, ListsOrdered, [Next]_vars
  PROVE  ListsOrdered'
<1>1. /\ box \in Box /\ Ordered(box) /\ disk.box \in Box /\ Ordered(disk.box)
  BY DEF IInv, TypeOK, LogTypeOK, Logged, ListsOrdered
<1>2. Ordered(box')
  <2>1. CASE Calls
    BY <1>1, <2>1, CallsOrdered
  <2>2. CASE PreStep
    <3>1. ReleaseClaim \in Box /\ Ordered(ReleaseClaim)
      BY <1>1, ReleaseClaimIsBox, ReleaseClaimOrdered
    <3>2. ASSUME NEW E \in SUBSET Msg, NEW context \in BOOLEAN,
                 PreStepEnter(E, context)
          PROVE  Ordered(box')
      <4>1. Commit(box, E) \in Box /\ Ordered(Commit(box, E))
        BY <1>1, CommitFacts, CommitOrdered
      <4>2. \/ box' = Commit(box, E)
            \/ \E reason : EndTurn(reason, Commit(box, E))
        BY <3>2 DEF PreStepEnter, SetBox
      <4> QED
        BY <4>1, <4>2, EndTurnOrdered
    <3>3. ASSUME PreStepReject \/ PreStepFails \/ PreStepAborted
          PROVE  Ordered(box')
      BY <3>1, <3>3, EndTurnOrdered
         DEF PreStepReject, PreStepFails, PreStepAborted
    <3> QED
      BY <2>2, <3>2, <3>3 DEF PreStep
  <2>3. CASE Step \/ Hooks \/ Continue \/ EndMaintenance
    <3>1. \/ box' = box \/ box' = Claim(box, target)
          \/ box' = HoldUnsent(box) \/ \E reason : EndTurn(reason, box)
      BY <2>3 DEF Step, StepReturns, TurnFails, Hooks, HooksReturn, Continue,
         BeginTurn, ClaimStep, BudgetSpent, TurnAborted, KickFinally, SetBox,
         EndMaintenance, log
    <3> QED
      BY <1>1, <3>1, OthersOrdered, EndTurnOrdered
  <2>4. CASE Disk \/ UNCHANGED vars
    <3>1. box' \in {box, Reopen(disk.box)}
      BY <2>4 DEF Disk, Flush, CrashAndReopen, vars, log
    <3> QED
      BY <1>1, <3>1, OthersOrdered
  <2> QED
    BY <2>1, <2>2, <2>3, <2>4 DEF Next
<1>3. Ordered(disk.box')
  <2>1. Ordered(LogNow.box)
    <3>1. Settled(box) \in Box /\ Ordered(Settled(box))
      BY <1>1, SettledFacts, OthersOrdered
    <3>2. /\ LogNow.box.where = Settled(box).where
          /\ LogNow.box.ahead = Settled(box).ahead
      BY <3>1 DEF LogNow, Box
    <3> QED
      BY <3>1, <3>2, SameOrder
  <2> QED
    BY <1>1, <2>1, LogSteps
<1> QED
  BY <1>2, <1>3 DEF ListsOrdered

-----------------------------------------------------------------------------
(***************************************************************************)
(* The driver.                                                             *)
(***************************************************************************)

\* What the end of a turn does to the driver.
LEMMA EndTurnDrives ==
  ASSUME TypeOK, NEW b, NEW reason, EndTurn(reason, b)
  PROVE  /\ pc' \in {"turn", "exit"} /\ lastEnd' = reason
         /\ pc' = "turn" => /\ cause' = "none" /\ ~stepped'
                            /\ reason \in {"completed", "max-tokens"}
         /\ pc' = "exit" => cause' = cause /\ wakeRequested' = wakeRequested
         /\ UNCHANGED <<stopping, consumed, disposed, gate>>
<1> DEFINE c == IF reason \in {"error", "blocked"} THEN HoldUnsent(b) ELSE b
           more == /\ reason \in {"completed", "max-tokens"}
                   /\ HasClaimable(c) /\ ~disposed
<1>1. /\ lastEnd' = reason /\ pc' = (IF more THEN "turn" ELSE "exit")
      /\ cause' = (IF more THEN "none" ELSE cause)
      /\ wakeRequested' = (wakeRequested /\ ~more)
      /\ stepped' = (stepped /\ ~more)
      /\ UNCHANGED <<stopping, consumed, disposed, gate>>
  BY DEF EndTurn
<1>2. more => reason \in {"completed", "max-tokens"}
  OBVIOUS
<1> HIDE DEF more
<1>3. wakeRequested \in BOOLEAN
  BY DEF TypeOK, DriverTypeOK
<1> QED
  BY <1>1, <1>2, <1>3

\* When a run ends and when it starts nothing of the last run is left.
Fresh == /\ cause' = "none" /\ ~stopping' /\ ~wakeRequested' /\ ~stepped'
         /\ pc' \in {"idle", "turn"} /\ consumed' = {}

LEMMA FreshFlags ==
  ASSUME Fresh
  PROVE  /\ FlagsSound'
         /\ pc' \in {"idle", "maintenance", "turn"} => ~stepped'
         /\ pc' # "loop" /\ pc' # "preparing"
BY DEF Fresh, FlagsSound, Running

LEMMA FreshStarts ==
  /\ StartRun => Fresh
  /\ GoIdle => Fresh
BY DEF StartRun, GoIdle, Fresh

\* A call wakes an idle driver or raises a flag of one that is not idle.
LEMMA WakeDrives ==
  ASSUME TypeOK, NEW wakeAfterAbort \in BOOLEAN, WakeDriver(wakeAfterAbort)
  PROVE  \/ pc = "idle" /\ Fresh
         \/ /\ pc # "idle" /\ (wakeRequested => wakeRequested')
            /\ wakeRequested' \in BOOLEAN
            /\ UNCHANGED <<pc, cause, stopping, consumed, stepped, turnEnds,
                           target, lastEnd, gate>>
<1>1. CASE pc = "idle"
  BY <1>1, FreshStarts DEF WakeDriver
<1>2. CASE pc # "idle"
  BY <1>2 DEF WakeDriver, TypeOK, DriverTypeOK
<1> QED
  BY <1>1, <1>2

\* What a call may do to the driver.
LEMMA CallsDrive ==
  ASSUME TypeOK, FlagsSound, Calls
  PROVE  /\ FlagsSound'
         /\ \/ pc = "idle" /\ Fresh
            \/ pc = "idle" /\ pc' \in {"maintenance", "turn"}
               /\ UNCHANGED <<stepped, consumed>>
            \/ UNCHANGED <<pc, stepped, target, consumed, lastEnd>>
<1> USE DEF FlagsSound, Running, driver
<1>1. ASSUME NEW m \in Msg, NEW l \in Lists, NEW wakeup \in BOOLEAN,
             Send(m, l, wakeup) \/ SendQueued(m) \/ InterjectQueued(m)
      PROVE  /\ FlagsSound'
             /\ \/ pc = "idle" /\ Fresh
                \/ UNCHANGED <<pc, stepped, target, consumed, lastEnd>>
  <2>1. /\ \/ UNCHANGED <<driver, gate>>
           \/ \E wakeAfterAbort \in BOOLEAN : WakeDriver(wakeAfterAbort)
        /\ disposed' = disposed
    BY <1>1 DEF Send, SendQueued, InterjectQueued
  <2>2. CASE UNCHANGED <<driver, gate>>
    BY <2>1, <2>2
  <2>3. ASSUME NEW wakeAfterAbort \in BOOLEAN, WakeDriver(wakeAfterAbort)
        PROVE  /\ FlagsSound'
               /\ \/ pc = "idle" /\ Fresh
                  \/ UNCHANGED <<pc, stepped, target, consumed, lastEnd>>
    BY <2>1, <2>3, WakeDrives, FreshFlags
  <2> QED
    BY <2>1, <2>2, <2>3
<1>2. CASE Stop
  BY <1>2 DEF Stop, Abort
<1>3. ASSUME NEW m \in Msg, CancelWaiting(m)
      PROVE  /\ FlagsSound'
             /\ UNCHANGED <<pc, stepped, target, consumed, lastEnd>>
  BY <1>3 DEF CancelWaiting
<1>4. ASSUME NEW m \in Msg, CancelTaken(m)
      PROVE  /\ FlagsSound'
             /\ UNCHANGED <<pc, stepped, target, consumed, lastEnd>>
  BY <1>4 DEF CancelTaken, Abort
<1>5. CASE BeginMaintenance
  BY <1>5 DEF BeginMaintenance
<1>6. CASE Dispose
  BY <1>6 DEF Dispose, Abort
<1>7. CASE GateFills
  BY <1>7 DEF GateFills
<1>8. CASE GateOpens
  BY <1>8 DEF GateOpens, TypeOK, DriverTypeOK
<1> QED
  BY <1>1, <1>2, <1>3, <1>4, <1>5, <1>6, <1>7, <1>8
     DEF Calls, Followup, Steer, Inject, Lists

LEMMA FlagsKept ==
  ASSUME TypeOK, FlagsSound, [Next]_vars
  PROVE  FlagsSound'
<1>1. CASE Calls
  BY <1>1, CallsDrive
<1>2. ASSUME NEW b, NEW reason, EndTurn(reason, b), Running,
             reason = "aborted" => cause # "none"
      PROVE  FlagsSound'
  BY <1>2, EndTurnDrives DEF FlagsSound, Running
<1>3. CASE PreStep
  <2>1. ASSUME NEW E \in SUBSET Msg, NEW context \in BOOLEAN,
               PreStepEnter(E, context)
        PROVE  FlagsSound'
    <3>1. CASE E = {} /\ ~context /\ (turnEnds # "none" \/ ~stepped)
      <4>1. PICK reason \in Endings \ {"none"} :
              EndTurn(reason, Commit(box, E)) /\ pc = "preparing"
        BY <2>1, <3>1 DEF PreStepEnter, Endings, TypeOK, DriverTypeOK
      <4> QED
        BY <4>1, <1>2 DEF Endings, Running
    <3>2. CASE ~(E = {} /\ ~context /\ (turnEnds # "none" \/ ~stepped))
      BY <2>1, <3>2 DEF PreStepEnter, FlagsSound, Running
    <3> QED
      BY <3>1, <3>2
  <2>2. CASE PreStepReject \/ PreStepFails \/ PreStepAborted
    BY <2>2, <1>2 DEF PreStepReject, PreStepFails, PreStepAborted, Running
  <2> QED
    BY <1>3, <2>1, <2>2 DEF PreStep
<1>4. CASE Step \/ Hooks
  <2>1. ASSUME NEW ending \in Endings, StepReturns(ending)
        PROVE  FlagsSound'
    BY <2>1 DEF StepReturns, FlagsSound, Running
  <2>2. CASE TurnFails
    BY <2>2, <1>2 DEF TurnFails, Running
  <2>3. CASE HooksReturn
    <3>1. CASE HasClaimableStep(box)
      BY <2>3, <3>1 DEF HooksReturn, FlagsSound, Running
    <3>2. CASE ~HasClaimableStep(box)
      BY <2>3, <3>2, <1>2
         DEF HooksReturn, Running, TypeOK, DriverTypeOK, Endings
    <3> QED
      BY <3>1, <3>2
  <2> QED
    BY <1>4, <2>1, <2>2, <2>3 DEF Step, Hooks
<1>5. CASE Continue
  <2>1. CASE BeginTurn \/ ClaimStep
    BY <2>1 DEF BeginTurn, ClaimStep, FlagsSound, Running
  <2>2. CASE BudgetSpent \/ TurnAborted
    BY <2>2, <1>2 DEF BudgetSpent, TurnAborted, Running
  <2>3. CASE KickFinally
    BY <2>3, FreshStarts, FreshFlags DEF KickFinally
  <2> QED
    BY <1>5, <2>1, <2>2, <2>3 DEF Continue
<1>6. CASE EndMaintenance
  BY <1>6, FreshStarts, FreshFlags DEF EndMaintenance
<1>7. CASE Disk
  BY <1>7, FreshStarts, FreshFlags
     DEF Disk, Flush, CrashAndReopen, FlagsSound, Running, driver
<1>8. CASE UNCHANGED vars
  BY <1>8 DEF vars, driver, FlagsSound, Running
<1> QED
  BY <1>1, <1>3, <1>4, <1>5, <1>6, <1>7, <1>8 DEF Next

\* The first message of an ordered list is one message.
LEMMA ClaimTakesOne ==
  ASSUME NEW b \in Box, Ordered(b),
         NEW m \in On(b, "next-turn"), m \in Claim(b, "next-turn").reserved,
         NEW n \in On(b, "next-turn"), n \in Claim(b, "next-turn").reserved
  PROVE  m = n
<1>1. Claim(b, "next-turn").reserved = ClaimSet(b, "next-turn")
  BY DEF Claim, Box
<1>2. m \in FirstOfTurn(b) /\ n \in FirstOfTurn(b)
  BY <1>1 DEF ClaimSet, On
<1> QED
  BY <1>2 DEF FirstOfTurn, Ordered, Lists

LEMMA OnePromptKept ==
  ASSUME IInv, FlagsSound, ListsOrdered, OnePrompt, [Next]_vars
  PROVE  OnePrompt'
<1>1. /\ TypeOK /\ box \in Box /\ Ordered(box) /\ target \in Lists
  BY DEF IInv, TypeOK, LogTypeOK, DriverTypeOK, ListsOrdered
<1>2. CASE Calls
  <2>1. CASE pc' = pc /\ stepped' = stepped /\ target' = target
    <3>1. pc = "preparing" => box'.reserved \intersect On(box', "next-turn") =
                                box.reserved \intersect On(box, "next-turn")
      BY <1>1, <1>2, CallsOrdered DEF On
    <3> QED
      BY <2>1, <3>1 DEF OnePrompt
  <2>2. CASE pc = "idle" /\ Fresh
    BY <2>2, FreshFlags DEF OnePrompt
  <2>3. CASE /\ pc = "idle" /\ pc' \in {"maintenance", "turn"}
             /\ stepped' = stepped
    BY <2>3 DEF OnePrompt
  <2>4. \/ pc' = pc /\ stepped' = stepped /\ target' = target
        \/ pc = "idle" /\ Fresh
        \/ /\ pc = "idle" /\ pc' \in {"maintenance", "turn"}
           /\ stepped' = stepped
    BY <1>1, <1>2, CallsDrive
  <2> QED
    BY <2>1, <2>2, <2>3, <2>4
<1>3. ASSUME NEW b, NEW reason, EndTurn(reason, b)
      PROVE  OnePrompt'
  BY <1>1, <1>3, EndTurnDrives DEF OnePrompt
<1>4. CASE PreStep
  <2>1. ASSUME NEW E \in SUBSET Msg, NEW context \in BOOLEAN,
               PreStepEnter(E, context)
        PROVE  pc' = "stepping" \/ \E b, reason : EndTurn(reason, b)
    BY <2>1 DEF PreStepEnter
  <2> QED
    BY <1>3, <1>4, <2>1
       DEF PreStep, PreStepReject, PreStepFails, PreStepAborted, OnePrompt
<1>5. CASE Step \/ Hooks
  <2>1. \/ pc' = "stopping"
        \/ pc' = "loop" /\ target' = "next-step"
        \/ \E b, reason : EndTurn(reason, b)
    BY <1>5 DEF Step, Hooks, StepReturns, HooksReturn, TurnFails
  <2> QED
    BY <1>3, <2>1 DEF OnePrompt
<1>6. CASE ClaimStep
  <2>1. /\ pc = "loop" /\ pc' = "preparing" /\ stepped' = stepped
        /\ box' = Claim(box, target)
    BY <1>6 DEF ClaimStep
  <2>2. On(box', "next-turn") = On(box, "next-turn")
    BY <1>1, <2>1, OthersOrdered DEF On
  <2>3. CASE target = "next-turn"
    <3>1. \A m, n \in box'.reserved \intersect On(box', "next-turn") : m = n
      BY <1>1, <2>1, <2>2, <2>3, ClaimTakesOne
    <3> QED
      BY <2>1, <2>3, <3>1 DEF OnePrompt
  <2>4. CASE target # "next-turn"
    <3>1. box'.reserved = On(box, "next-step") \ box.held
      BY <1>1, <2>1, <2>4 DEF Claim, ClaimSet, Box
    <3>2. box'.reserved \intersect On(box', "next-turn") = {}
      BY <2>2, <3>1 DEF On
    <3> QED
      BY <2>1, <3>2 DEF OnePrompt
  <2> QED
    BY <2>3, <2>4
<1>7. CASE BeginTurn
  BY <1>7 DEF BeginTurn, OnePrompt
<1>8. CASE BudgetSpent \/ TurnAborted
  BY <1>3, <1>8 DEF BudgetSpent, TurnAborted
<1>9. CASE KickFinally \/ EndMaintenance \/ CrashAndReopen
  BY <1>9, FreshStarts, FreshFlags
     DEF KickFinally, EndMaintenance, CrashAndReopen, OnePrompt
<1>10. CASE Flush \/ UNCHANGED vars
  BY <1>10 DEF Flush, vars, log, driver, OnePrompt
<1> QED
  BY <1>2, <1>4, <1>5, <1>6, <1>7, <1>8, <1>9, <1>10
     DEF Next, Continue, Disk

-----------------------------------------------------------------------------
(***************************************************************************)
(* Who waits.                                                              *)
(***************************************************************************)

\* Whatever leaves the box by Commit or ReleaseClaim without entering the
\* log is named as discarded.
Leaves(b) == Pending(box) \subseteq Pending(b) \union b.discarded

LEMMA NothingVanishes ==
  ASSUME box \in Box
  PROVE  /\ Leaves(ReleaseClaim) /\ Leaves(Commit(box, {}))
         /\ \A S : Leaves(HoldUnsent(DiscardWhere(box, S)))
         /\ \A E : Pending(box) \subseteq
                     Pending(Commit(box, E)) \union Commit(box, E).discarded
                       \union (box.reserved \intersect E)
         /\ \A b \in Box : /\ Pending(HoldUnsent(b)) = Pending(b)
                           /\ HoldUnsent(b).discarded = b.discarded
<1>1. \A E : Pending(box) \subseteq
               Pending(Commit(box, E)) \union Commit(box, E).discarded
                 \union (box.reserved \intersect E)
  BY CommitFacts
<1>2. Leaves(Commit(box, {}))
  BY <1>1 DEF Leaves
<1>3. ASSUME NEW S PROVE Leaves(HoldUnsent(DiscardWhere(box, S)))
  <2> DEFINE d == DiscardWhere(box, S)
  <2>1. d \in Box /\ Leaves(d)
    BY DiscardWhereFacts DEF Leaves
  <2> HIDE DEF d
  <2>2. Leaves(HoldUnsent(d))
    BY <2>1, HoldUnsentFacts DEF Leaves
  <2> QED
    BY <2>2 DEF d
<1>4. Leaves(ReleaseClaim)
  <2> DEFINE b == Release(box)
             r == box.reserved \ box.withdrawn
             d == DiscardWhere(b, r \ User)
  <2>1. b \in Box /\ Leaves(b)
    BY ReleaseFacts DEF Leaves
  <2>2. ReleaseClaim = IF stopping THEN Hold(d, r \intersect User) ELSE b
    BY DEF ReleaseClaim
  <2> HIDE DEF b
  <2>3. d \in Box /\ Leaves(d)
    BY <2>1, DiscardWhereFacts DEF Leaves
  <2> HIDE DEF d
  <2> QED
    BY <2>1, <2>2, <2>3, HoldFacts DEF Leaves
<1> QED
  BY <1>1, <1>2, <1>3, <1>4, HoldUnsentFacts

\* What happened to a message whose outcome this step settles.
Told(m) ==
  \/ m \in (box'.held \ box.held) \union (box'.discarded \ box.discarded)
  \/ m \in consumed /\ InTurn /\ ~InTurn'

\* A message that is named as held or discarded, and waited, waited for that.
LEMMA NewlyTold ==
  ASSUME IInv, TypeOK', IInv', WaitersSound, entered \subseteq entered',
         NEW m \in waiting, m \in box'.held \union box'.discarded
  PROVE  m \in (box'.held \ box.held) \union (box'.discarded \ box.discarded)
<1>1. /\ box'.held \subseteq Pending(box')
      /\ (Pending(box') \union box'.discarded) \intersect entered' = {}
      /\ Pending(box) \intersect box.discarded = {}
  BY DEF IInv, ClaimsSound, EveryMessageAccounted, Accounted
<1>2. m \notin entered
  BY <1>1
<1>3. m \in Pending(box) \ box.held
  BY <1>2 DEF WaitersSound
<1> QED
  BY <1>1, <1>3

\* A step that sets the box outside a turn's end.
LEMMA SetBoxTells ==
  ASSUME IInv, IInv', WaitersSound, NEW b, SetBox(b), Leaves(b),
         consumed' = consumed, entered' = entered, InTurn => InTurn'
  PROVE  WaitersSound' /\ \A m \in waiting \ waiting' : Told(m)
<1>1. box' = b /\ waiting' = waiting \ (b.held \union b.discarded)
  BY DEF SetBox
<1>2. ASSUME NEW m \in waiting'
      PROVE  m \in (Pending(box') \ box'.held) \union
                     (IF InTurn' THEN consumed' ELSE {})
  <2>1. CASE m \in Pending(box) \ box.held
    BY <1>1, <1>2, <2>1 DEF Leaves
  <2>2. CASE InTurn /\ m \in consumed
    BY <2>2
  <2> QED
    BY <1>1, <2>1, <2>2 DEF WaitersSound
<1>3. ASSUME NEW m \in waiting \ waiting'
      PROVE  Told(m)
  BY <1>1, <1>3, NewlyTold DEF Told, IInv
<1> QED
  BY <1>2, <1>3 DEF WaitersSound

\* A turn that ends settles what it consumed, held and discarded.
LEMMA EndTurnTells ==
  ASSUME IInv, IInv', WaitersSound, NEW b \in Box, NEW reason,
         EndTurn(reason, b), Leaves(b), entered' = entered, InTurn
  PROVE  WaitersSound' /\ \A m \in waiting \ waiting' : Told(m)
<1> DEFINE c == box'
<1>1. /\ waiting' = (waiting \ consumed) \ (box'.held \union box'.discarded)
      /\ box' \in {b, HoldUnsent(b)} /\ consumed' = consumed
      /\ pc' \in {"turn", "exit"}
  BY DEF EndTurn
<1>2. Leaves(box')
  <2>1. box \in Box
    BY DEF IInv, TypeOK, LogTypeOK
  <2> QED
    BY <1>1, <2>1, NothingVanishes DEF Leaves
<1>3. ~InTurn'
  BY <1>1 DEF InTurn
<1>4. ASSUME NEW m \in waiting'
      PROVE  m \in Pending(box') \ box'.held
  BY <1>1, <1>2, <1>4 DEF WaitersSound, Leaves
<1>5. ASSUME NEW m \in waiting \ waiting'
      PROVE  Told(m)
  <2>1. CASE m \in consumed
    BY <1>3, <2>1 DEF Told
  <2>2. CASE m \notin consumed
    BY <1>1, <1>5, <2>2, NewlyTold DEF Told, IInv
  <2> QED
    BY <2>1, <2>2
<1> QED
  BY <1>1, <1>3, <1>4, <1>5 DEF WaitersSound

\* A step that tells nobody.
LEMMA NobodyTold ==
  ASSUME WaitersSound, waiting' = waiting, consumed' = consumed,
         entered' = entered, InTurn => InTurn',
         Pending(box) \subseteq Pending(box'), box'.held \subseteq box.held
  PROVE  WaitersSound' /\ \A m \in waiting \ waiting' : Told(m)
BY DEF WaitersSound

\* A run that starts or ends tells nobody either: no turn is under way.
LEMMA FreshTells ==
  ASSUME WaitersSound, Fresh, ~InTurn, waiting' = waiting,
         Pending(box) \subseteq Pending(box'), box'.held \subseteq box.held
  PROVE  WaitersSound' /\ \A m \in waiting \ waiting' : Told(m)
BY DEF WaitersSound, Fresh, InTurn

LEMMA CallsTell ==
  ASSUME IInv, IInv', FlagsSound, WaitersSound, Calls
  PROVE  WaitersSound' /\ \A m \in waiting \ waiting' : Told(m)
<1>1. /\ TypeOK /\ box \in Box /\ box.held \subseteq Pending(box)
      /\ Pending(box) \subseteq sent
  BY DEF IInv, TypeOK, LogTypeOK, ClaimsSound, EveryMessageAccounted, Accounted
<1>2. \/ pc = "idle" /\ Fresh
      \/ pc = "idle" /\ pc' \in {"maintenance", "turn"} /\ consumed' = consumed
      \/ pc' = pc /\ consumed' = consumed
  BY <1>1, CallsDrive
<1>3. \/ Fresh /\ ~InTurn
      \/ consumed' = consumed /\ (InTurn => InTurn')
  BY <1>2 DEF InTurn
<1>4. ASSUME NEW m \in Msg, NEW l \in Lists, NEW wakeup \in BOOLEAN,
             Send(m, l, wakeup)
      PROVE  WaitersSound' /\ \A n \in waiting \ waiting' : Told(n)
  <2>1. PICK k \in Lists : box' = AppendTo(box, k, m)
    BY <1>4 DEF Send, Lists
  <2>2. /\ Pending(box') = Pending(box) \union {m} /\ box'.held = box.held
        /\ m \notin box.held
    BY <1>1, <1>4, <2>1, AppendFacts DEF Send
  <2>3. waiting' \in {waiting, waiting \union {m}} /\ entered' = entered
    BY <1>4 DEF Send
  <2>4. ASSUME NEW n \in waiting'
        PROVE  n \in (Pending(box') \ box'.held) \union
                       (IF InTurn' THEN consumed' ELSE {})
    BY <1>3, <2>2, <2>3, <2>4 DEF WaitersSound
  <2>5. consumed' \subseteq entered'
    BY <1>3, <2>3 DEF WaitersSound, Fresh
  <2> QED
    BY <2>3, <2>4, <2>5 DEF WaitersSound
<1>5. CASE Stop
  <2>1. /\ SetBox(HoldUnsent(DiscardWhere(box, Msg \ User)))
        /\ entered' = entered /\ consumed' = consumed /\ pc' = pc
    BY <1>5 DEF Stop
  <2>2. InTurn => InTurn'
    BY <2>1 DEF InTurn
  <2> QED
    BY <1>1, <2>1, <2>2, NothingVanishes, SetBoxTells
<1>6. ASSUME NEW m \in Msg, CancelWaiting(m)
      PROVE  WaitersSound' /\ \A n \in waiting \ waiting' : Told(n)
  <2>1. /\ SetBox(Discard(box, {m})) /\ entered' = entered
        /\ consumed' = consumed /\ pc' = pc
    BY <1>6 DEF CancelWaiting, driver
  <2>2. Leaves(Discard(box, {m}))
    BY <1>1, DiscardFacts DEF Leaves
  <2>3. InTurn => InTurn'
    BY <2>1 DEF InTurn
  <2> QED
    BY <2>1, <2>2, <2>3, SetBoxTells
<1>7. ASSUME NEW m \in Msg, CancelTaken(m)
      PROVE  WaitersSound' /\ \A n \in waiting \ waiting' : Told(n)
  <2>1. /\ entered' = entered /\ consumed' = consumed /\ pc' = pc
        /\ waiting' = waiting /\ (box' = box \/ box' = Withdraw(box, m))
    BY <1>7 DEF CancelTaken
  <2>2. Pending(box') = Pending(box) /\ box'.held = box.held
    BY <1>1, <2>1, WithdrawFacts
  <2>3. InTurn => InTurn'
    BY <2>1 DEF InTurn
  <2> QED
    BY <2>1, <2>2, <2>3, NobodyTold
<1>8. ASSUME NEW m \in Msg, SendQueued(m) \/ InterjectQueued(m)
      PROVE  WaitersSound' /\ \A n \in waiting \ waiting' : Told(n)
  <2> DEFINE a == AppendTo(box, "next-step", m)
  <2>1. /\ entered' = entered /\ waiting' = waiting /\ m \in Pending(box)
        /\ box' = Unhold(box, m) \/ box' = Unhold(a, m)
    BY <1>1, <1>8 DEF SendQueued, InterjectQueued, On, Pending, Lists
  <2>2. a \in Box /\ Pending(a) = Pending(box) /\ a.held = box.held
    <3>1. /\ a \in Box /\ Pending(a) = Pending(box) \union {m}
          /\ a.held = box.held
      BY <1>1, AppendFacts DEF Lists
    <3> HIDE DEF a
    <3> QED
      BY <2>1, <3>1
  <2> HIDE DEF a
  <2>3. Pending(box') = Pending(box) /\ box'.held \subseteq box.held
    BY <1>1, <2>1, <2>2, UnholdFacts
  <2> QED
    BY <1>3, <2>1, <2>3, NobodyTold, FreshTells
<1>9. CASE BeginMaintenance \/ Dispose \/ GateFills \/ GateOpens
  <2>1. box' = box /\ entered' = entered /\ waiting' = waiting
    BY <1>9 DEF BeginMaintenance, Dispose, GateFills, GateOpens, log
  <2>2. consumed' = consumed
    BY <1>9 DEF BeginMaintenance, Dispose, GateFills, GateOpens, driver
  <2>3. InTurn => InTurn'
    BY <1>2 DEF InTurn
  <2> QED
    BY <2>1, <2>2, <2>3, NobodyTold
<1> QED
  BY <1>4, <1>5, <1>6, <1>7, <1>8, <1>9
     DEF Calls, Followup, Steer, Inject, Lists

\* Every step leaves each waiter something to wait for, and tells the truth
\* to those it settles.
LEMMA WaitersKept ==
  ASSUME IInv, IInv', FlagsSound, WaitersSound, [Next]_vars
  PROVE  /\ WaitersSound'
         /\ crashes' # crashes \/ \A m \in waiting \ waiting' : Told(m)
<1>1. TypeOK /\ box \in Box
  BY DEF IInv, TypeOK, LogTypeOK
<1>2. CASE Calls
  BY <1>2, CallsTell
<1>3. CASE PreStep
  <2>1. ReleaseClaim \in Box /\ Leaves(ReleaseClaim)
    BY <1>1, ReleaseClaimIsBox, NothingVanishes
  <2>2. pc = "preparing" => InTurn
    BY DEF InTurn
  <2>3. CASE PreStepReject \/ PreStepFails \/ PreStepAborted
    BY <2>1, <2>2, <2>3, EndTurnTells
       DEF PreStepReject, PreStepFails, PreStepAborted
  <2>4. ASSUME NEW E \in SUBSET Msg, NEW context \in BOOLEAN,
               PreStepEnter(E, context)
        PROVE  WaitersSound' /\ \A m \in waiting \ waiting' : Told(m)
    <3> DEFINE b == Commit(box, E)
    <3>1. CASE E = {} /\ ~context /\ (turnEnds # "none" \/ ~stepped)
      <4>1. /\ \E reason : EndTurn(reason, b)
            /\ entered' = entered /\ pc = "preparing"
        BY <2>4, <3>1 DEF PreStepEnter
      <4>2. b \in Box /\ Leaves(b)
        BY <1>1, <3>1, CommitFacts, NothingVanishes
      <4> QED
        BY <2>2, <4>1, <4>2, EndTurnTells
    <3>2. CASE ~(E = {} /\ ~context /\ (turnEnds # "none" \/ ~stepped))
      <4>1. /\ box' = b /\ waiting' = waiting \ (b.held \union b.discarded)
            /\ entered' = entered \union E /\ consumed' = consumed \union E
            /\ pc' = "stepping" /\ pc = "preparing"
        BY <2>4, <3>2 DEF PreStepEnter, SetBox
      <4>2. Pending(box) \subseteq Pending(b) \union b.discarded
                                     \union (box.reserved \intersect E)
        BY <1>1, NothingVanishes
      <4> HIDE DEF b
      <4>3. ASSUME NEW m \in waiting'
            PROVE  m \in (Pending(box') \ box'.held) \union consumed'
        BY <4>1, <4>2, <4>3 DEF WaitersSound
      <4>4. \A m \in waiting \ waiting' : Told(m)
        BY <4>1, NewlyTold DEF Told, IInv
      <4>5. InTurn'
        BY <4>1 DEF InTurn
      <4> QED
        BY <4>1, <4>3, <4>4, <4>5 DEF WaitersSound
    <3> QED
      BY <3>1, <3>2
  <2> QED
    BY <1>3, <2>3, <2>4 DEF PreStep
<1>4. CASE Step \/ Hooks \/ ClaimStep \/ BudgetSpent \/ TurnAborted
  <2>1. Leaves(box)
    BY DEF Leaves
  <2>2. \/ /\ \E reason : EndTurn(reason, box)
           /\ entered' = entered /\ InTurn
        \/ /\ (box' = box \/ box' = Claim(box, target)) /\ waiting' = waiting
           /\ consumed' = consumed /\ entered' = entered /\ InTurn'
    BY <1>4 DEF Step, Hooks, StepReturns, TurnFails, HooksReturn, ClaimStep,
       BudgetSpent, TurnAborted, InTurn, log
  <2>3. CASE /\ \E reason : EndTurn(reason, box)
             /\ entered' = entered /\ InTurn
    BY <1>1, <2>1, <2>3, EndTurnTells
  <2>4. CASE /\ (box' = box \/ box' = Claim(box, target)) /\ waiting' = waiting
             /\ consumed' = consumed /\ entered' = entered /\ InTurn'
    <3>1. Pending(box') = Pending(box) /\ box'.held = box.held
      BY <1>1, <2>4, ClaimFacts
    <3> QED
      BY <2>4, <3>1, NobodyTold
  <2> QED
    BY <2>2, <2>3, <2>4
<1>5. CASE BeginTurn
  <2>1. /\ pc = "turn" /\ consumed' = {} /\ waiting' = waiting /\ box' = box
    BY <1>5 DEF BeginTurn, log
  <2> QED
    BY <2>1 DEF WaitersSound, InTurn
<1>6. CASE KickFinally
  <2>1. PICK b \in {box, HoldUnsent(box)} : SetBox(b)
    BY <1>6 DEF KickFinally
  <2>2. /\ pc = "exit" /\ consumed' = {} /\ entered' = entered
        /\ box' = b /\ waiting' = waiting \ (b.held \union b.discarded)
    BY <1>6, <2>1, FreshStarts DEF KickFinally, SetBox, Fresh
  <2>3. Pending(b) = Pending(box)
    BY <1>1, <2>1, HoldUnsentFacts
  <2>4. waiting' \subseteq Pending(box') \ box'.held
    BY <2>2, <2>3 DEF WaitersSound, InTurn
  <2>5. \A m \in waiting \ waiting' : Told(m)
    BY <2>2, NewlyTold DEF Told, IInv
  <2> QED
    BY <2>2, <2>4, <2>5 DEF WaitersSound
<1>7. CASE EndMaintenance
  <2>1. Fresh /\ box' = box /\ waiting' = waiting /\ ~InTurn
    BY <1>7, FreshStarts DEF EndMaintenance, log, InTurn
  <2> QED
    BY <2>1, FreshTells
<1>8. CASE CrashAndReopen
  <2>1. waiting' = {} /\ consumed' = {} /\ crashes' = crashes + 1
    BY <1>8 DEF CrashAndReopen, GoIdle
  <2>2. crashes \in Nat
    BY <1>1, MaxCrashesAssumption DEF TypeOK, LogTypeOK
  <2> QED
    BY <2>1, <2>2 DEF WaitersSound
<1>9. CASE Flush \/ UNCHANGED vars
  <2>1. /\ box' = box /\ waiting' = waiting /\ entered' = entered
        /\ consumed' = consumed /\ pc' = pc
    BY <1>9 DEF Flush, vars, log, driver
  <2>2. InTurn => InTurn'
    BY <2>1 DEF InTurn
  <2> QED
    BY <2>1, <2>2, NobodyTold
<1> QED
  BY <1>2, <1>3, <1>4, <1>5, <1>6, <1>7, <1>8, <1>9
     DEF Next, Continue, Disk

-----------------------------------------------------------------------------
(***************************************************************************)
(* What is left when a run ends.                                           *)
(***************************************************************************)

\* A prompt that an idle agent should run.
Due(b) == Claimable(b) \intersect User

\* After holdUnsent, and when a session is opened, no prompt is due.
LEMMA NothingDue ==
  ASSUME NEW b \in Box
  PROVE  Due(HoldUnsent(b)) = {} /\ Due(Reopen(b)) = {}
BY HoldUnsentFacts, ReopenFacts DEF Due, Claimable

\* What takes prompts away leaves no more of them due.
LEMMA FewerDue ==
  ASSUME NEW b, NEW c, Pending(c) \subseteq Pending(b),
         c.reserved = b.reserved, b.held \intersect Pending(c) \subseteq c.held
  PROVE  Due(c) \subseteq Due(b)
BY DEF Due, Claimable

LEMMA StartLeavesNothing ==
  ASSUME StartRun PROVE NothingLeftBehind'
BY DEF StartRun, NothingLeftBehind

LEMMA CallsLeaveNothing ==
  ASSUME IInv, FlagsSound, NothingLeftBehind, Calls
  PROVE  NothingLeftBehind'
<1>1. /\ TypeOK /\ box \in Box /\ wakeRequested \in BOOLEAN
      /\ gate \in {"open", "full", "queued"}
  BY DEF IInv, TypeOK, LogTypeOK, DriverTypeOK, OtherTypeOK
<1>2. pc \in {"idle", "maintenance"} =>
        /\ box.reserved = {} /\ box.held \subseteq Pending(box)
        /\ \/ gate = "queued" \/ disposed \/ Due(box) = {}
           \/ pc = "maintenance" /\ wakeRequested
  BY DEF IInv, ClaimsSound, NothingLeftBehind, Due
<1>3. cause = "disposed" => disposed
  BY DEF FlagsSound
<1>4. ASSUME NEW wakeAfterAbort \in BOOLEAN, WakeDriver(wakeAfterAbort),
             disposed' = disposed
      PROVE  NothingLeftBehind'
  <2>1. CASE pc = "idle"
    BY <1>4, <2>1, StartLeavesNothing DEF WakeDriver
  <2>2. CASE pc # "idle"
    BY <1>3, <1>4, <2>2 DEF WakeDriver, NothingLeftBehind
  <2> QED
    BY <2>1, <2>2
<1>5. ASSUME Due(box') \subseteq Due(box), UNCHANGED <<pc, disposed, gate>>,
             wakeRequested => wakeRequested'
      PROVE  NothingLeftBehind'
  BY <1>2, <1>5 DEF NothingLeftBehind, Due
<1>6. ASSUME NEW m \in Msg, NEW l \in Lists, NEW wakeup \in BOOLEAN,
             Send(m, l, wakeup), wakeup \/ m \notin User
      PROVE  NothingLeftBehind'
  <2>1. CASE wakeup
    BY <1>4, <1>6, <2>1 DEF Send
  <2>2. CASE ~wakeup
    <3>1. /\ box' = AppendTo(box, l, m) /\ UNCHANGED <<driver, gate, disposed>>
          /\ m \notin User
      BY <1>6, <2>2 DEF Send
    <3>2. Due(box') \subseteq Due(box)
      <4>1. /\ Pending(box') = Pending(box) \union {m} /\ box'.held = box.held
            /\ box'.reserved = box.reserved
        BY <1>1, <3>1, AppendFacts
      <4> QED
        BY <3>1, <4>1 DEF Due, Claimable
    <3> QED
      BY <1>5, <3>1, <3>2 DEF driver
  <2> QED
    BY <2>1, <2>2
<1>7. CASE Stop
  <2> DEFINE d == DiscardWhere(box, Msg \ User)
  <2>1. d \in Box
    BY <1>1, DiscardWhereFacts
  <2>2. box' = HoldUnsent(d)
    BY <1>7 DEF Stop, SetBox
  <2> HIDE DEF d
  <2> QED
    BY <2>1, <2>2, NothingDue DEF NothingLeftBehind, Due
<1>8. ASSUME NEW m \in Msg, CancelWaiting(m)
      PROVE  NothingLeftBehind'
  <2>1. box' = Discard(box, {m}) /\ UNCHANGED <<driver, gate, disposed>>
    BY <1>8 DEF CancelWaiting, SetBox
  <2>2. /\ Pending(box') = Pending(box) \ {m} /\ box'.held = box.held \ {m}
        /\ box'.reserved = box.reserved
    BY <1>1, <2>1, DiscardFacts
  <2>3. Due(box') \subseteq Due(box)
    BY <2>2, FewerDue
  <2> QED
    BY <1>5, <2>1, <2>3 DEF driver
<1>9. ASSUME NEW m \in Msg, CancelTaken(m)
      PROVE  NothingLeftBehind'
  BY <1>9 DEF CancelTaken, Running, NothingLeftBehind
<1>10. ASSUME NEW m \in Msg, SendQueued(m) PROVE NothingLeftBehind'
  BY <1>4, <1>10 DEF SendQueued
<1>11. ASSUME NEW m \in Msg, InterjectQueued(m) PROVE NothingLeftBehind'
  <2>1. CASE m \in box.held
    BY <1>4, <1>11, <2>1 DEF InterjectQueued
  <2>2. CASE m \notin box.held
    <3> DEFINE a == AppendTo(box, "next-step", m)
    <3>1. /\ box' = Unhold(a, m) /\ UNCHANGED <<driver, gate, disposed>>
          /\ m \in Pending(box)
      BY <1>11, <2>2 DEF InterjectQueued, On, Pending, Lists
    <3>2. /\ a \in Box /\ Pending(a) = Pending(box) \union {m}
          /\ a.held = box.held /\ a.reserved = box.reserved
      BY <1>1, AppendFacts DEF Lists
    <3> HIDE DEF a
    <3>3. /\ Pending(box') = Pending(box) /\ box'.held = box.held
          /\ box'.reserved = box.reserved
      <4>1. Pending(a) = Pending(box) /\ box.held \ {m} = box.held
        BY <2>2, <3>1, <3>2
      <4>2. /\ Pending(Unhold(a, m)) = Pending(a)
            /\ Unhold(a, m).held = a.held \ {m}
            /\ Unhold(a, m).reserved = a.reserved
        BY <3>2, UnholdFacts
      <4>3. box' = Unhold(a, m)
        BY <3>1
      <4> QED
        BY <3>2, <4>1, <4>2, <4>3
    <3>4. Due(box') \subseteq Due(box)
      BY <3>3, FewerDue
    <3> QED
      BY <1>5, <3>1, <3>4 DEF driver
  <2> QED
    BY <2>1, <2>2
<1>12. CASE BeginMaintenance \/ Dispose \/ GateFills
  <2>1. box' = box
    BY <1>12 DEF BeginMaintenance, Dispose, GateFills, log
  <2>2. CASE BeginMaintenance
    BY <2>1, <2>2 DEF BeginMaintenance, NothingLeftBehind
  <2>3. CASE Dispose
    BY <2>3 DEF Dispose, NothingLeftBehind
  <2>4. CASE GateFills
    BY <2>1, <2>4 DEF GateFills, NothingLeftBehind, driver
  <2> QED
    BY <1>12, <2>2, <2>3, <2>4
<1>13. CASE GateOpens
  <2>1. box' = box /\ disposed' = disposed
    BY <1>13 DEF GateOpens, log
  <2>2. CASE gate = "queued" /\ ~disposed /\ HasClaimable(box)
    BY <1>3, <1>13, <2>1, <2>2 DEF GateOpens, NothingLeftBehind
  <2>3. CASE ~(gate = "queued" /\ ~disposed /\ HasClaimable(box))
    <3>1. ~HasClaimable(box) => Due(box) = {}
      BY DEF HasClaimable, Due
    <3>2. pc' = pc /\ wakeRequested' = wakeRequested
      BY <1>1, <1>13, <2>3 DEF GateOpens
    <3> QED
      BY <1>2, <2>1, <2>3, <3>1, <3>2 DEF NothingLeftBehind, Due
  <2> QED
    BY <2>2, <2>3
<1> QED
  BY <1>6, <1>7, <1>8, <1>9, <1>10, <1>11, <1>12, <1>13
     DEF Calls, Followup, Steer, Inject, Lists

LEMMA NothingLeft ==
  ASSUME IInv, FlagsSound, NothingLeftBehind, [Next]_vars
  PROVE  NothingLeftBehind'
<1>1. TypeOK /\ box \in Box /\ disk.box \in Box
  BY DEF IInv, TypeOK, LogTypeOK, Logged
<1>2. CASE Calls
  BY <1>2, CallsLeaveNothing
<1>3. CASE PreStep \/ Step \/ Hooks \/ ClaimStep \/ BudgetSpent \/ TurnAborted
           \/ BeginTurn
  <2>1. \/ \E b, reason : EndTurn(reason, b)
        \/ pc' \in {"stepping", "stopping", "loop", "preparing"}
    BY <1>3 DEF PreStep, PreStepEnter, PreStepReject, PreStepFails,
       PreStepAborted, Step, StepReturns, TurnFails, Hooks, HooksReturn,
       ClaimStep, BudgetSpent, TurnAborted, BeginTurn
  <2>2. pc' \notin {"idle", "maintenance"}
    BY <1>1, <2>1, EndTurnDrives
  <2> QED
    BY <2>2 DEF NothingLeftBehind
<1>4. CASE KickFinally
  <2>1. CASE wakeRequested /\ HasClaimable(box) /\ ~disposed
    BY <1>4, <2>1, StartLeavesNothing DEF KickFinally
  <2>2. CASE ~(wakeRequested /\ HasClaimable(box) /\ ~disposed)
    BY <1>1, <1>4, <2>2, NothingDue
       DEF KickFinally, SetBox, NothingLeftBehind, Due
  <2> QED
    BY <2>1, <2>2
<1>5. CASE EndMaintenance
  <2>1. CASE wakeRequested /\ HasClaimable(box)
    BY <1>5, <2>1, StartLeavesNothing DEF EndMaintenance
  <2>2. CASE ~(wakeRequested /\ HasClaimable(box))
    <3>1. ~HasClaimable(box) => Claimable(box) \intersect User = {}
      BY DEF HasClaimable
    <3> QED
      BY <1>5, <2>2, <3>1 DEF EndMaintenance, GoIdle, NothingLeftBehind, log
  <2> QED
    BY <2>1, <2>2
<1>6. CASE CrashAndReopen
  BY <1>1, <1>6, NothingDue DEF CrashAndReopen, NothingLeftBehind, Due
<1>7. CASE Flush \/ UNCHANGED vars
  BY <1>7 DEF Flush, vars, log, driver, NothingLeftBehind
<1> QED
  BY <1>2, <1>3, <1>4, <1>5, <1>6, <1>7 DEF Next, Continue, Disk

-----------------------------------------------------------------------------
(***************************************************************************)
(* The theorems.                                                           *)
(***************************************************************************)

LEMMA InitTurnInv == Init => TurnInv
<1> SUFFICES ASSUME Init PROVE TurnInv
  OBVIOUS
<1>1. /\ box = EmptyBox /\ Pending(box) = {} /\ waiting = {} /\ consumed = {}
      /\ pc = "idle" /\ cause = "none" /\ ~stopping /\ ~wakeRequested
      /\ ~stepped /\ disk = LogNow
  BY EmptyBoxFacts DEF Init
<1>2. Ordered(EmptyBox)
  BY DEF Ordered, EmptyBox, On, Lists
<1>3. Ordered(disk.box)
  <2>1. /\ LogNow.box.where = EmptyBox.where
        /\ LogNow.box.ahead = EmptyBox.ahead
    BY <1>1 DEF LogNow, Settled, EmptyBox
  <2> QED
    BY <1>1, <1>2, <2>1, SameOrder
<1>4. ListsOrdered
  BY <1>1, <1>2, <1>3 DEF ListsOrdered
<1>5. OnePrompt /\ FlagsSound /\ WaitersSound
  BY <1>1 DEF OnePrompt, FlagsSound, WaitersSound, Running
<1>6. NothingLeftBehind
  BY <1>1 DEF NothingLeftBehind, Claimable
<1> QED
  BY <1>4, <1>5, <1>6 DEF TurnInv

LEMMA TurnInvKept ==
  ASSUME IInv, TurnInv, [Next]_vars
  PROVE  TurnInv'
<1>1. IInv' /\ TypeOK
  BY StepKeeps DEF IInv
<1> QED
  BY <1>1, OrderKept, FlagsKept, OnePromptKept, WaitersKept, NothingLeft
     DEF TurnInv

\* The order of the inbox, the flags of the driver and who waits, together,
\* after every step (agent.ts: kick, turn, wakeDriver, cancel).
THEOREM TurnInvariance == Spec => []TurnInv
<1>1. IInv /\ TurnInv /\ [Next]_vars => TurnInv'
  BY TurnInvKept
<1> QED
  BY Invariance, InitTurnInv, <1>1, PTL DEF Spec

\* agent.ts:538: whoever waits for an outcome will hear, and an agent that
\* went idle left no prompt behind, whatever calls came while it ran.
THEOREM NobodyIsStranded == Spec => []NoStrandedPrompt
<1>1. TurnInv => NoStrandedPrompt
  BY DEF TurnInv, WaitersSound, NothingLeftBehind, NoStrandedPrompt
<1> QED
  BY <1>1, TurnInvariance, PTL

\* A step that takes a prompt is the first of its turn and takes one.
LEMMA StepTakesOne ==
  ASSUME IInv, DiskIsPast, TurnInv, [Next]_vars
  PROVE  \A m \in Entering \intersect On(box, "next-turn") :
           ~stepped /\ Entering \intersect On(box, "next-turn") = {m}
<1>1. CASE entered' = entered \/ entered' = disk.entered
  BY <1>1 DEF Entering, DiskIsPast
<1>2. ASSUME NEW E \in SUBSET box.reserved, entered' = entered \union E
      PROVE  \A m \in Entering \intersect On(box, "next-turn") :
               ~stepped /\ Entering \intersect On(box, "next-turn") = {m}
  <2>1. Entering \subseteq box.reserved
    BY <1>2 DEF Entering
  <2>2. Entering # {} => pc = "preparing"
    BY <2>1 DEF IInv, ClaimsSound
  <2> QED
    BY <2>1, <2>2 DEF TurnInv, OnePrompt
<1> QED
  BY <1>1, <1>2, LogSteps

\* inbox.ts:202: a claim takes one prompt of next-turn, so that prompts the
\* user queued apart never run as one.
THEOREM PromptsRunApart == Spec => TurnPerPrompt
<1>1. IInv /\ DiskIsPast /\ [Next]_vars => DiskIsPast'
  BY DiskStaysPast
<1>2. IInv /\ DiskIsPast /\ TurnInv /\ [Next]_vars
        => [\A m \in Entering \intersect On(box, "next-turn") :
              ~stepped /\ Entering \intersect On(box, "next-turn") = {m}]_vars
  BY StepTakesOne
<1> QED
  BY Invariance, TurnInvariance, InitDiskIsPast, <1>1, <1>2, PTL
     DEF Spec, TurnPerPrompt

\* agent.ts:636: an outcome is settled when its turn ends, or because the
\* message is held or discarded by this very step, or by the process's end.
THEOREM OutcomesAreTrue == Spec => OutcomesTruthful
<1>1. ASSUME IInv, TurnInv, [Next]_vars
      PROVE  \A m \in waiting \ waiting' :
               \/ m \in (box'.held \ box.held)
                          \union (box'.discarded \ box.discarded)
               \/ m \in consumed /\ InTurn /\ ~InTurn'
               \/ crashes' # crashes
  BY <1>1, StepKeeps, WaitersKept DEF TurnInv, Told
<1>2. IInv /\ TurnInv /\ [Next]_vars
        => [\A m \in waiting \ waiting' :
              \/ m \in (box'.held \ box.held)
                         \union (box'.discarded \ box.discarded)
              \/ m \in consumed /\ InTurn /\ ~InTurn'
              \/ crashes' # crashes]_vars
  BY <1>1
<1> QED
  BY Invariance, TurnInvariance, <1>2, PTL DEF Spec, OutcomesTruthful

\* A turn that was aborted without a stop or a disposal asked for a restart.
LEMMA CancelHoldsNothing ==
  ASSUME IInv, TurnInv, [Next]_vars, pc = "exit", lastEnd = "aborted",
         ~stopping, ~disposed
  PROVE  box'.held \subseteq box.held
<1>1. wakeRequested /\ box \in Box
  BY DEF IInv, TypeOK, LogTypeOK, TurnInv, FlagsSound, Running
<1>2. KickFinally \/ UNCHANGED vars
  BY DEF Next, Calls, Followup, Steer, Inject, Send, Stop, CancelWaiting,
     CancelTaken, SendQueued, InterjectQueued, BeginMaintenance, Dispose,
     GateFills, GateOpens, AtAwait, Awaits, PreStep, PreStepEnter,
     PreStepReject, PreStepFails, PreStepAborted, Step, StepReturns,
     TurnFails, Hooks, HooksReturn, Continue, BeginTurn, ClaimStep,
     BudgetSpent, TurnAborted, EndMaintenance, Disk, Flush, CrashAndReopen
<1>3. CASE UNCHANGED vars
  BY <1>3 DEF vars, log
<1>4. CASE KickFinally
  <2>1. box' \in {box, HoldUnsent(box)}
    BY <1>4 DEF KickFinally, SetBox
  <2>2. HasClaimable(box) => box' = box
    BY <1>1, <1>4 DEF KickFinally, SetBox
  <2>3. CASE ~HasClaimable(box)
    <3>1. User \intersect (Pending(box) \ box.reserved) \subseteq box.held
      BY <2>3 DEF HasClaimable, Claimable
    <3> QED
      BY <1>1, <2>1, <3>1, HoldUnsentFacts
  <2> QED
    BY <2>2, <2>3
<1> QED
  BY <1>2, <1>3, <1>4

\* agent.ts:347: cancelMessage ends one turn, and what is queued behind it
\* runs: only a stop or a disposal holds what waits behind an aborted turn.
THEOREM CancelHoldsNone == Spec => OnlyStopsHold
<1>1. IInv /\ TurnInv /\ [Next]_vars
        => [pc = "exit" /\ lastEnd = "aborted" /\ ~stopping /\ ~disposed =>
              box'.held \subseteq box.held]_vars
  BY CancelHoldsNothing
<1> QED
  BY Invariance, TurnInvariance, <1>1, PTL DEF Spec, OnlyStopsHold
=============================================================================
