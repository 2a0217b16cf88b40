----------------------------- MODULE GoalRounds -----------------------------
(***************************************************************************)
(* Goal mode of one session: the goal domain (harness/goal/service.ts,     *)
(* fold.ts, authority.ts) and the driver that keeps a goal going in rounds *)
(* (round-driver.ts), over the agent's inbox (Inbox) and the part of the   *)
(* agent's driver that decides when rounds are claimed, enter a step and   *)
(* end (agent.ts, whole in AgentLoop).                                     *)
(*                                                                         *)
(* A goal's (id, revision) is one number, ref: every change writes a new   *)
(* one, so two refs are equal exactly when id and revision are.  The       *)
(* program has one thread; other code runs only where the agent awaits     *)
(* (AtAwait).  The durability checkpoint of the driver is an option the    *)
(* host does not set, so a drive is one step.                              *)
(***************************************************************************)
EXTENDS Inbox, Naturals

CONSTANTS
  Round,         \* ids of the messages the driver may queue
  Caps,          \* values a user gives maxGoalRounds
  BlockedAfter,  \* blockedAfterConsecutiveRounds
  MaxCalls       \* bound on prompts, goal changes, stops and restarts together

ASSUME GoalAssumption ==
  /\ Round \subseteq Msg \ User
  /\ Caps \subseteq Nat \ {0}
  /\ BlockedAfter \in Nat \ {0} /\ MaxCalls \in Nat

VARIABLES
  box,           \* agent.inbox
  sent,          \* messages ever queued
  pc,            \* where the agent's driver is
  aborted,       \* phase.abort.signal.aborted
  stopping,      \* phase.stopping
  wake,          \* phase.wakeRequested
  stepped,       \* phase.step > 0
  passed,        \* what the gate let through, while later middlewares run
  turn,          \* the messages that entered the open turn
  goals,         \* the goal cache and the DriverState: see Goals
  reservations,  \* the goal/round events: [ref, round] by message
  busy,          \* outstanding subagents or background jobs
  calls,
  mayRun,        \* history: a user armed the goal, nothing stopped it since
  missed         \* history: the inbox was emptied behind the driver's back

agent == <<pc, aborted, stopping, wake, stepped, passed, turn>>
env   == <<busy, calls>>
vars  == <<box, sent, agent, goals, reservations, env, mayRun, missed>>

AtAwait == pc # "loop"

\* A drive is queued as a microtask: it runs before the task in which a
\* call of a user or an API client arrives.
Quiet   == AtAwait /\ ~goals.requested

Running == pc \in {"loop", "preparing", "gated", "stepping"}

\* One more call, within the bound.
Called == calls < MaxCalls /\ calls' = calls + 1

NoGoal    == [ref |-> 0, phase |-> "none", max |-> 0, rounds |-> 0]
NoAttempt == [msg |-> {}, ref |-> 0, round |-> 0, phase |-> "none",
              stale |-> FALSE, cancelled |-> FALSE, rejected |-> FALSE]
NoReservation == [ref |-> 0, round |-> 0]

Phases == {"none", "active", "paused", "blocked", "complete"}

\* A goal with the rounds it started; msg is the attempt's message, {} for
\* no attempt.  last is the latest ref written.
Goals ==
  [goal      : [ref : Nat, phase : Phases, max : Nat, rounds : Nat],
   last      : Nat,
   armed     : BOOLEAN,
   attempt   : [msg : SUBSET Round, ref : Nat, round : Nat,
                phase : {"none", "queued", "claimed", "admitted"},
                stale : BOOLEAN, cancelled : BOOLEAN, rejected : BOOLEAN],
   competing : BOOLEAN,
   requested : BOOLEAN]

Init ==
  /\ box = EmptyBox /\ sent = {}
  /\ pc = "idle" /\ aborted = FALSE /\ stopping = FALSE /\ wake = FALSE
  /\ stepped = FALSE /\ passed = {} /\ turn = {}
  /\ goals = [goal |-> NoGoal, last |-> 0, armed |-> FALSE,
              attempt |-> NoAttempt, competing |-> FALSE, requested |-> FALSE]
  /\ reservations = [r \in Round |-> NoReservation]
  /\ busy = FALSE /\ calls = 0
  /\ mayRun = FALSE /\ missed = FALSE

-----------------------------------------------------------------------------
(***************************************************************************)
(* The goal domain and the driver's observers, as functions of g, a value  *)
(* of goals, and of b, the inbox at that moment.                           *)
(***************************************************************************)

ArmedActive(g) == g.goal.phase = "active" /\ g.armed

RequestDrive(g) == [g EXCEPT !.requested = TRUE]

Disarmed(g) == [g EXCEPT !.armed = FALSE]

\* commit: the change is logged and every listener hears of it, the driver
\* among them.
Committed(g, goal, armed) ==
  [RequestDrive(g) EXCEPT !.goal = [goal EXCEPT !.ref = g.last + 1],
                          !.last = @ + 1,
                          !.armed = armed]

Moved(g, phase, armed) ==
  Committed(g, [g.goal EXCEPT !.phase = phase], armed)

StillQueued(b, a) ==
  a.phase = "queued" /\ a.msg \subseteq Pending(b)

\* Mutant of Inserted: a waiting reservation stays good.
InsertedUnseen(g) == [g EXCEPT !.competing = TRUE]

\* A splice inserts another message into next-turn.
Inserted(g) ==
  [g EXCEPT !.competing = TRUE,
            !.attempt.stale = @ \/ g.attempt.phase = "queued"]

\* turn/end.  An error was reported to the observers before it.
TurnEnded(g, b, reason) ==
  LET a      == g.attempt
      queued == a.msg = {} \/ StillQueued(b, a)
  IN  CASE reason \in {"max-tokens", "budget", "error"} -> Disarmed(g)
        [] reason = "aborted" /\ queued  -> Disarmed(g)
        [] reason = "aborted" /\ ~queued -> [g EXCEPT !.attempt.cancelled = TRUE]
        [] reason = "blocked" /\ ~queued /\ a.phase # "admitted" ->
             [g EXCEPT !.attempt.rejected = TRUE]
        [] OTHER -> g

\* The attempt of an idle agent was rejected, cancelled, or never admitted.
Failed(g, b) ==
  LET a == g.attempt
  IN  /\ a.msg # {} /\ ~StillQueued(b, a)
      /\ a.rejected \/ a.cancelled \/ a.phase # "admitted"

\* Mutant of IdleGoals: a round that was cancelled does not pause its goal.
IdleGoalsUnpaused(g, b) == RequestDrive([g EXCEPT !.competing = FALSE])

\* onIdle: a failed attempt stops its goal.
IdleGoals(g, b) ==
  LET a    == g.attempt
      free == [g EXCEPT !.competing = FALSE]
  IN  IF /\ Failed(g, b) /\ ArmedActive(g)
         /\ a.rejected => g.goal.ref = a.ref
      THEN Moved([free EXCEPT !.attempt = NoAttempt],
                 IF a.rejected THEN "blocked" ELSE "paused", FALSE)
      ELSE RequestDrive(free)

\* What onIdle leaves in the inbox: a failed round must not run later.
IdleBox(g, b) ==
  IF Failed(g, b) THEN DiscardWhere(b, g.attempt.msg) ELSE b

\* isNextRound of reservation r.
IsNextRound(goal, r) ==
  /\ goal.phase = "active" /\ r.ref = goal.ref
  /\ r.round = goal.rounds + 1 /\ r.round <= goal.max

\* The user/message events of the messages of E: the fold counts a round
\* its goal still waits for, the driver notes that it was admitted.
Entered(g, E) ==
  LET counted == {r \in E \intersect Round : IsNextRound(g.goal, reservations[r])}
  IN  [g EXCEPT !.goal.rounds = IF counted = {} THEN @ ELSE @ + 1,
                !.attempt.phase =
                   IF g.attempt.msg # {} /\ g.attempt.msg \subseteq E
                   THEN "admitted" ELSE @]

-----------------------------------------------------------------------------
(***************************************************************************)
(* The agent's driver.                                                     *)
(***************************************************************************)

\* The phase is "running", at the head of a turn; or it is idle.
Begin == /\ pc' = "loop"
         /\ aborted' = FALSE /\ stopping' = FALSE /\ wake' = FALSE
         /\ stepped' = FALSE /\ passed' = {} /\ turn' = {}

Rest  == /\ pc' = "idle"
         /\ aborted' = FALSE /\ stopping' = FALSE /\ wake' = FALSE
         /\ stepped' = FALSE /\ passed' = {} /\ turn' = {}

\* wakeDriver(afterAbort).
Wake(afterAbort) ==
  IF pc = "idle"
  THEN Begin
  ELSE /\ wake' = (wake \/ pc = "maintenance" \/ afterAbort)
       /\ UNCHANGED <<pc, aborted, stopping, stepped, passed, turn>>

\* The finally of turn() and of kick(), from inbox b and goals g: turn/end,
\* then another turn, or the idle edge and what asked to be run after it.
EndTurn(reason, b, g) ==
  LET c       == IF reason \in {"error", "blocked"} THEN HoldUnsent(b) ELSE b
      ended   == TurnEnded(g, b, reason)
      more    == reason \in {"completed", "max-tokens"} /\ HasClaimable(c)
      restart == wake /\ HasClaimable(c)
      kept    == IF restart THEN c ELSE HoldUnsent(c)
  IN  /\ IF more
         THEN /\ box' = c /\ goals' = ended
              /\ pc' = "loop"
              /\ aborted' = FALSE /\ wake' = FALSE /\ stepped' = FALSE
              /\ passed' = {} /\ turn' = {} /\ stopping' = stopping
         ELSE /\ box' = IdleBox(ended, kept) /\ goals' = IdleGoals(ended, kept)
              /\ IF restart THEN Begin ELSE Rest
      /\ mayRun' = (mayRun /\ reason \in {"completed", "blocked"})
      /\ missed' = (missed /\ more)
      /\ UNCHANGED <<sent, reservations, env>>

\* The head of the loop: claim what the next step takes.
ClaimStep ==
  /\ pc = "loop"
  /\ box' = Claim(box, IF stepped THEN "next-step" ELSE "next-turn")
  /\ pc' = "preparing"
  /\ UNCHANGED <<sent, aborted, stopping, wake, stepped, passed, turn, goals,
                 reservations, env, mayRun, missed>>

\* A budget is spent: the turn ends before it claims anything.
BudgetSpent == pc = "loop" /\ EndTurn("budget", box, goals)

\* Mutant of Valid: a prompt that came meanwhile does not matter.
ValidStale(r) ==
  LET a == goals.attempt
  IN  /\ a.msg = {r} /\ ~busy
      /\ ArmedActive(goals)
      /\ IsNextRound(goals.goal, [ref |-> a.ref, round |-> a.round])

\* Whether the gate admits r: the reserved round of the live revision.
Valid(r) ==
  LET a == goals.attempt
  IN  /\ a.msg = {r} /\ ~a.stale /\ ~busy
      /\ ArmedActive(goals)
      /\ IsNextRound(goals.goal, [ref |-> a.ref, round |-> a.round])

\* gate, the first pre-step middleware, after the pre-assemble hooks: a
\* round that is not valid is dropped from the step.
Gate ==
  LET round == box.reserved \intersect Round
      ours  == round # {} /\ goals.attempt.msg = round
      valid == \A r \in round : Valid(r)
  IN  /\ pc = "preparing" /\ ~aborted
      /\ pc' = "gated"
      /\ passed' = IF valid THEN box.reserved ELSE box.reserved \ round
      /\ goals' = CASE ours /\ valid  -> [goals EXCEPT !.attempt.phase = "claimed"]
                    [] ours /\ ~valid ->
                         RequestDrive([goals EXCEPT !.attempt = NoAttempt])
                    [] OTHER          -> goals
      /\ missed' = (missed /\ (~ours \/ valid))
      /\ UNCHANGED <<box, sent, aborted, stopping, wake, stepped, turn,
                     reservations, env, mayRun>>

\* The other middlewares returned.  context: one of them, or the prompt,
\* adds context of its own.  A first step with nothing to run ends the turn.
EnterStep(context) ==
  LET b == Commit(box, passed)
  IN  /\ pc = "gated" /\ ~aborted
      /\ IF passed = {} /\ ~context /\ ~stepped
         THEN EndTurn("completed", b, goals)
         ELSE /\ box' = b
              /\ goals' = Entered(goals, passed)
              /\ turn' = turn \union passed
              /\ pc' = "stepping" /\ stepped' = TRUE /\ passed' = {}
              /\ UNCHANGED <<sent, aborted, stopping, wake, reservations, env,
                             mayRun, missed>>

\* releaseClaim: after a stop, what the claim had is discarded or held.
Released ==
  LET b == Release(box)
      r == box.reserved \ box.withdrawn
  IN  IF stopping THEN Hold(DiscardWhere(b, r \ User), r \intersect User)
                  ELSE b

\* A hook rejects the step; a hook or a middleware throws; the abort.
RejectStep ==
  pc = "gated" /\ ~aborted /\ EndTurn("blocked", Released, goals)

PrepareFails ==
  pc \in {"preparing", "gated"} /\ ~aborted /\ EndTurn("error", Released, goals)

PrepareAborted ==
  pc \in {"preparing", "gated"} /\ aborted /\ EndTurn("aborted", Released, goals)

\* A step returns and the turn goes on, or has messages to go on for.
StepContinues ==
  /\ pc = "stepping" /\ ~aborted
  /\ pc' = "loop"
  /\ UNCHANGED <<box, sent, aborted, stopping, wake, stepped, passed, turn,
                 goals, reservations, env, mayRun, missed>>

StepEnds(reason) ==
  /\ pc = "stepping"
  /\ CASE reason = "aborted" -> aborted
       [] reason = "error"   -> ~aborted
       [] OTHER              -> ~aborted /\ ~HasClaimableStep(box)
  /\ EndTurn(reason, box, goals)

-----------------------------------------------------------------------------
(***************************************************************************)
(* What users and other components do to the agent.                        *)
(***************************************************************************)

\* followup: a new prompt (or one sent into an aborted run).
Prompt(m) ==
  /\ Quiet /\ m \in User \ sent
  /\ Called
  /\ box' = AppendTo(box, "next-turn", m)
  /\ sent' = sent \union {m}
  /\ goals' = Inserted(goals)
  /\ Wake(aborted)
  /\ UNCHANGED <<reservations, busy, mayRun, missed>>

\* A prompt for the very next step of a running turn.
Steer(m) ==
  /\ Quiet /\ Running /\ ~aborted
  /\ m \in User \ sent
  /\ Called
  /\ box' = AppendTo(box, "next-step", m)
  /\ sent' = sent \union {m}
  /\ UNCHANGED <<agent, goals, reservations, busy, mayRun, missed>>

\* A waiting prompt is removed: nobody tells the round driver.
CancelWaiting(m) ==
  /\ Quiet /\ m \in User \intersect Unreserved(box)
  /\ box' = Discard(box, {m})
  /\ missed' = (missed \/ ~Running)
  /\ UNCHANGED <<sent, agent, goals, reservations, env, mayRun>>

\* Its submitter cancels a prompt the open turn reserved or consumed.
CancelTaken(m) ==
  /\ Quiet /\ Running /\ m \in User
  /\ \/ m \in box.reserved /\ box' = Withdraw(box, m)
     \/ m \in turn /\ UNCHANGED box
  /\ wake' = TRUE /\ aborted' = TRUE
  /\ UNCHANGED <<sent, pc, stopping, stepped, passed, turn, goals,
                 reservations, env, mayRun, missed>>

\* The user sends a held prompt again.
SendHeld(m) ==
  /\ Quiet /\ m \in box.held
  /\ box' = Unhold(box, m)
  /\ Wake(TRUE)
  /\ UNCHANGED <<sent, goals, reservations, env, mayRun, missed>>

\* Whether the agent's activity is aborted, and is being stopped.
Cancelled ==
  /\ box' = HoldUnsent(DiscardWhere(box, Msg \ User))
  /\ wake' = FALSE /\ stopping' = Running /\ aborted' = (pc # "idle")
  /\ UNCHANGED <<sent, pc, stepped, passed, turn>>

\* HarnessHost.stop: an active goal is paused before the cancel.
Stop ==
  /\ Quiet /\ Called
  /\ goals' = IF goals.goal.phase = "active" THEN Moved(goals, "paused", FALSE)
                                             ELSE Disarmed(goals)
  /\ Cancelled
  /\ mayRun' = FALSE
  /\ missed' = (missed /\ goals.goal.phase # "active")
  /\ UNCHANGED <<reservations, busy>>

BeginMaintenance ==
  /\ Quiet /\ pc = "idle"
  /\ pc' = "maintenance"
  /\ UNCHANGED <<box, sent, aborted, stopping, wake, stepped, passed, turn,
                 goals, reservations, env, mayRun, missed>>

\* The status was idle all along: no observer hears of the end.
EndMaintenance ==
  /\ pc = "maintenance"
  /\ IF wake /\ HasClaimable(box) THEN Begin ELSE Rest
  /\ UNCHANGED <<box, sent, goals, reservations, env, mayRun, missed>>

\* A step starts subagents or background jobs, or the user writes to a subagent
\* that is there; the last of them settles.
WorkStarts ==
  /\ \/ pc = "stepping" /\ UNCHANGED calls
     \/ Quiet /\ Called
  /\ ~busy /\ busy' = TRUE
  /\ UNCHANGED <<box, sent, agent, goals, reservations, mayRun, missed>>

\* Mutant of WorkSettles: the driver is not told.
WorkSettlesUnheard ==
  /\ AtAwait /\ busy
  /\ busy' = FALSE
  /\ UNCHANGED <<box, sent, agent, goals, reservations, calls, mayRun,
                 missed>>

WorkSettles ==
  /\ AtAwait /\ busy
  /\ busy' = FALSE
  /\ goals' = RequestDrive(goals)
  /\ missed' = FALSE
  /\ UNCHANGED <<box, sent, agent, reservations, calls, mayRun>>

\* The process ends and the session is opened again from its log.
CrashAndReopen ==
  /\ AtAwait /\ Called
  /\ box' = Reopen(box)
  /\ Rest
  /\ goals' = [goals EXCEPT !.armed = FALSE, !.attempt = NoAttempt,
                            !.competing = FALSE, !.requested = FALSE]
  /\ busy' = FALSE
  /\ mayRun' = FALSE /\ missed' = FALSE
  /\ UNCHANGED <<sent, reservations>>

-----------------------------------------------------------------------------
(***************************************************************************)
(* Changes of the goal.                                                    *)
(***************************************************************************)

\* A change a user (or the model of a turn a user started) makes.
Change(g, arms) ==
  /\ Quiet /\ Called
  /\ goals' = g
  /\ mayRun' = (mayRun \/ arms) /\ missed' = FALSE
  /\ UNCHANGED <<box, sent, agent, reservations, busy>>

Create(max) ==
  /\ goals.goal.phase \in {"none", "complete"}
  /\ Change(Committed(goals, [ref |-> 0, phase |-> "active", max |-> max,
                              rounds |-> 0], TRUE),
            TRUE)

Edit(max) ==
  /\ goals.goal.phase # "none"
  /\ Change(Committed(goals, [goals.goal EXCEPT !.max = max], goals.armed),
            FALSE)

Pause ==
  /\ goals.goal.phase = "active"
  /\ Change(Moved(goals, "paused", FALSE), FALSE)

Resume ==
  /\ goals.goal.phase \in {"active", "paused", "blocked"}
  /\ ~ArmedActive(goals)
  /\ goals.goal.rounds < goals.goal.max
  /\ Change(Moved(goals, "active", TRUE), TRUE)

Clear ==
  /\ goals.goal.phase # "none"
  /\ Change(Committed(goals, NoGoal, FALSE), FALSE)

\* completionAuthority: a user's turn, or the goal's latest round.
ByUser  == turn \intersect User # {}
ByRound == \E r \in turn \intersect Round :
             reservations[r] = [ref   |-> goals.goal.ref,
                                round |-> goals.goal.rounds]

ModelCompletes ==
  /\ pc = "stepping"
  /\ goals.goal.phase \in {"active", "paused", "blocked"}
  /\ ByUser \/ ByRound
  /\ Change(Moved(goals, "complete", FALSE), FALSE)

ModelBlocks ==
  /\ pc = "stepping"
  /\ goals.goal.phase = "active"
  /\ ByUser \/ (ByRound /\ goals.goal.rounds >= BlockedAfter)
  /\ Change(Moved(goals, "blocked", FALSE), FALSE)

\* The host disarms: permissions were narrowed, the cost cap is spent.
HostDisarms ==
  /\ AtAwait /\ goals.armed
  /\ goals' = Disarmed(goals)
  /\ UNCHANGED <<box, sent, agent, reservations, env, mayRun, missed>>

-----------------------------------------------------------------------------
(***************************************************************************)
(* drive, one turn of the driver's coalesced loop.                         *)
(***************************************************************************)

Driven == [goals EXCEPT !.requested = FALSE]

Ready == pc \in {"idle", "maintenance"} /\ ~goals.competing

\* Not idle, a round still waits, no goal to drive, or work to wait for.
DriveWaits ==
  /\ AtAwait /\ goals.requested
  /\ \/ ~Ready
     \/ goals.attempt.msg # {} /\ StillQueued(box, goals.attempt)
     \/ /\ goals.attempt.msg = {}
        /\ \/ ~ArmedActive(goals)
           \/ /\ goals.goal.rounds < goals.goal.max
              /\ Pending(box) # {} \/ busy
  /\ goals' = Driven
  /\ UNCHANGED <<box, sent, agent, reservations, env, mayRun, missed>>

\* The previous round settled: the loop goes round again.
DriveSettles ==
  /\ AtAwait /\ goals.requested /\ Ready
  /\ goals.attempt.msg # {} /\ ~StillQueued(box, goals.attempt)
  /\ goals' = [goals EXCEPT !.attempt = NoAttempt]
  /\ UNCHANGED <<box, sent, agent, reservations, env, mayRun, missed>>

DriveBlocks ==
  /\ AtAwait /\ goals.requested /\ Ready
  /\ goals.attempt.msg = {} /\ ArmedActive(goals)
  /\ goals.goal.rounds >= goals.goal.max
  /\ goals' = Moved(Driven, "blocked", FALSE)
  /\ UNCHANGED <<box, sent, agent, reservations, env, mayRun, missed>>

\* The next round is reserved and its message queued.
DriveReserves(r) ==
  LET goal  == goals.goal
      round == goal.rounds + 1
  IN  /\ AtAwait /\ goals.requested /\ Ready
      /\ goals.attempt.msg = {} /\ ArmedActive(goals)
      /\ goal.rounds < goal.max /\ Pending(box) = {} /\ ~busy
      /\ r \in Round \ sent
      /\ reservations' = [reservations EXCEPT
                            ![r] = [ref |-> goal.ref, round |-> round]]
      /\ goals' = [Driven EXCEPT
                     !.attempt = [NoAttempt EXCEPT !.msg = {r}, !.ref = goal.ref,
                                                   !.round = round,
                                                   !.phase = "queued"]]
      /\ box' = AppendTo(box, "next-turn", r)
      /\ sent' = sent \union {r}
      /\ Wake(aborted)
      /\ UNCHANGED <<env, mayRun, missed>>

-----------------------------------------------------------------------------
Driver == \/ ClaimStep \/ BudgetSpent \/ Gate
          \/ \E context \in BOOLEAN : EnterStep(context)
          \/ RejectStep \/ PrepareFails \/ PrepareAborted
          \/ StepContinues
          \/ \E reason \in {"completed", "max-tokens", "aborted", "error"} :
               StepEnds(reason)
          \/ BeginMaintenance \/ EndMaintenance

Calls == \/ \E m \in User : \/ Prompt(m) \/ Steer(m) \/ CancelWaiting(m)
                            \/ CancelTaken(m) \/ SendHeld(m)
         \/ Stop \/ WorkStarts \/ WorkSettles

GoalChanges == \/ \E max \in Caps : Create(max) \/ Edit(max)
               \/ Pause \/ Resume \/ Clear
               \/ ModelCompletes \/ ModelBlocks \/ HostDisarms

Drive == \/ DriveWaits \/ DriveSettles \/ DriveBlocks
         \/ \E r \in Round : DriveReserves(r)

Next == Driver \/ Calls \/ GoalChanges \/ Drive \/ CrashAndReopen

Spec == Init /\ [][Next]_vars

-----------------------------------------------------------------------------
TypeOK ==
  /\ box \in Box /\ sent \subseteq Msg
  /\ pc \in {"idle", "maintenance", "loop", "preparing", "gated", "stepping"}
  /\ aborted \in BOOLEAN /\ stopping \in BOOLEAN /\ wake \in BOOLEAN
  /\ stepped \in BOOLEAN /\ passed \subseteq Msg /\ turn \subseteq Msg
  /\ goals \in Goals
  /\ reservations \in [Round -> [ref : Nat, round : Nat]]
  /\ busy \in BOOLEAN /\ calls \in Nat
  /\ mayRun \in BOOLEAN /\ missed \in BOOLEAN

\* An attempt is of one message, which was sent and reserved for it.
AttemptReserved ==
  LET a == goals.attempt
  IN  /\ (a.msg = {}) <=> (a.phase = "none")
      /\ \A r \in a.msg :
           /\ a.msg = {r} /\ r \in sent
           /\ reservations[r] = [ref |-> a.ref, round |-> a.round]
      /\ Pending(box) \subseteq sent

\* The driver has at most one round on its way, those of an earlier process
\* included.
OneRound == \A r, s \in Pending(box) \intersect Round : r = s

\* While a reservation is good, nothing else waits for a turn of its own.
NothingBehindRound ==
  LET a == goals.attempt
  IN  a.phase = "queued" /\ ~a.stale => On(box, "next-turn") \subseteq a.msg

\* A round that is on the inbox has not been claimed, or the gate has just
\* let it through.
ClaimedIsPassing ==
  LET a == goals.attempt
  IN  a.msg # {} /\ a.msg \subseteq Pending(box) /\ a.phase # "queued" =>
        pc = "gated" /\ a.phase = "claimed" /\ a.msg \subseteq passed

ClaimsSound ==
  /\ box.reserved \subseteq Pending(box)
  /\ box.reserved # {} => pc \in {"preparing", "gated"}
  /\ passed \subseteq box.reserved
  /\ passed # {} => pc = "gated"

\* The inductive invariant of GoalRoundsProofs.
IInv ==
  /\ TypeOK
  /\ AttemptReserved /\ OneRound /\ NothingBehindRound /\ ClaimedIsPassing
  /\ ClaimsSound

Entering == (turn' \ turn) \intersect Round

\* Human work wins: the gate admits a round only when no prompt waits for
\* a turn of its own (round-driver.ts:20).
PromptsFirst ==
  [][pc = "preparing" /\ passed' \intersect Round # {} =>
       On(box, "next-turn") \subseteq Round]_vars

\* After a stop, a cancelled or failed turn, a spent budget or a restart no
\* round enters a step until a user arms the goal (round-driver.ts:12).
StoppedGoalStaysDown == [][Entering # {} => mayRun]_vars

\* A goal that is active and armed goes on: an agent that is idle, with an
\* empty inbox and no work to wait for, is about to be driven.  Two cases in
\* which it is not are GoalContinues' business: a waiting prompt was removed
\* from an idle agent, or from one in maintenance (competing).
GoalKeepsGoing ==
  /\ pc = "idle" /\ ArmedActive(goals)
  /\ Pending(box) = {} /\ ~busy /\ ~goals.competing
  => goals.requested \/ missed

\* round-driver.ts:4: an idle agent whose goal is active and armed, with
\* room for a round, no prompt and no work to wait for, gets its round.
GoalContinues ==
  /\ pc = "idle" /\ ArmedActive(goals)
  /\ goals.goal.rounds < goals.goal.max
  /\ Pending(box) \intersect User = {} /\ ~busy
  => goals.requested
=============================================================================
