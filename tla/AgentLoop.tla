----------------------------- MODULE AgentLoop -----------------------------
(***************************************************************************)
(* The driver of one agent (harness/agent/agent.ts) over its durable inbox *)
(* (Inbox): turns, steps, two-phase claims, stop, cancelMessage,           *)
(* maintenance, disposal, the admission gate, and a crash that falls back  *)
(* to what the session log holds on disk.                                  *)
(*                                                                         *)
(* The program is one JavaScript thread.  It can be interrupted only where *)
(* the driver awaits: while a step is prepared ("preparing"), while it     *)
(* runs ("stepping"), while the turn-stopping hooks run ("stopping"), in a *)
(* maintenance job and while idle.  The other values of pc are points the  *)
(* driver passes without leaving the event loop, so no operation of a user *)
(* or of another component happens there (AtAwait).                        *)
(***************************************************************************)
EXTENDS Inbox, Naturals

CONSTANT MaxCrashes    \* bound on crashes and restarts

ASSUME MaxCrashesAssumption == MaxCrashes \in Nat

VARIABLES
  box,            \* agent.inbox, with what the log says was discarded
  sent,           \* messages an insertion splice of the log names
  entered,        \* messages with a user/message in the log
  pc,             \* where the driver is
  cause,          \* abort reason of the phase's controller, or "none"
  stopping,       \* phase.stopping
  wakeRequested,  \* phase.wakeRequested
  consumed,       \* phase.consumed
  stepped,        \* phase.step > 0
  turnEnds,       \* turn(): turnEnds, as far as it decides the control flow
  target,         \* turn(): target
  lastEnd,        \* phase.lastEnd
  disposed,       \* agent.disposed
  gate,           \* the admission gate: "open", "full", or "queued" (refused)
  waiting,        \* user messages whose outcome promise is not settled
  disk,           \* what a crash finds: the written prefix of the log
  crashes,
  parked,         \* history: user messages that wait for the user
  barred          \* history: messages a stop or a cancel took back

log     == <<box, sent, entered>>
driver  == <<pc, cause, stopping, wakeRequested, consumed, stepped,
             turnEnds, target, lastEnd>>
durable == <<disk, crashes>>
vars    == <<log, driver, disposed, gate, waiting, durable, parked, barred>>

Awaits  == {"idle", "maintenance", "preparing", "stepping", "stopping"}
AtAwait == pc \in Awaits
Running == pc \notin {"idle", "maintenance"}
InTurn  == pc \in {"loop", "preparing", "stepping", "stopping"}

Causes  == {"none", "user", "disposed"}
Endings == {"none", "completed", "max-tokens"}
Reasons == {"none", "completed", "max-tokens", "aborted", "error",
            "blocked", "budget"}
Logged  == [box : Box, sent : SUBSET Msg, entered : SUBSET Msg]

\* What is appended to the log so far.  Holds and claims are not.
LogNow == [box     |-> [Settled(box) EXCEPT !.held = {}],
           sent    |-> sent,
           entered |-> entered]

Init ==
  /\ box = EmptyBox /\ sent = {} /\ entered = {}
  /\ pc = "idle" /\ cause = "none" /\ stopping = FALSE
  /\ wakeRequested = FALSE /\ consumed = {} /\ stepped = FALSE
  /\ turnEnds = "none" /\ target = "next-turn" /\ lastEnd = "none"
  /\ disposed = FALSE /\ gate = "open" /\ waiting = {}
  /\ disk = LogNow /\ crashes = 0
  /\ parked = {} /\ barred = {}

-----------------------------------------------------------------------------
(***************************************************************************)
(* Pieces the handlers share.                                              *)
(***************************************************************************)

\* Mutants of SetBox: nobody hears of a hold; everybody hears of anything.
SetBoxHoldUnheard(b) ==
  /\ box' = b
  /\ waiting' = waiting \ b.discarded

SetBoxTellsAll(b) ==
  /\ box' = b
  /\ waiting' = waiting \ Pending(b)

\* The box changes, and queueChanged settles the outcome of every message
\* that became held or discarded.
SetBox(b) ==
  /\ box' = b
  /\ waiting' = waiting \ (b.held \union b.discarded)

\* wakeDriver on an idle agent: the gate may refuse and remember it.
StartRun ==
  /\ IF gate = "open"
     THEN /\ pc' = "turn"
          /\ gate' = gate
     ELSE /\ pc' = "idle"
          /\ gate' = "queued"
  /\ cause' = "none" /\ stopping' = FALSE /\ wakeRequested' = FALSE
  /\ consumed' = {} /\ stepped' = FALSE /\ lastEnd' = "none"
  /\ turnEnds' = "none" /\ target' = "next-turn"

\* The phase is idle again; the phase object that held the rest is dropped.
GoIdle ==
  /\ pc' = "idle" /\ gate' = gate
  /\ cause' = "none" /\ stopping' = FALSE /\ wakeRequested' = FALSE
  /\ consumed' = {} /\ stepped' = FALSE /\ lastEnd' = "none"
  /\ turnEnds' = "none" /\ target' = "next-turn"

\* wakeDriver(wakeAfterAbort).
WakeDriver(wakeAfterAbort) ==
  IF pc = "idle"
  THEN StartRun
  ELSE /\ wakeRequested' =
            (wakeRequested \/ /\ cause # "disposed"
                              /\ pc = "maintenance" \/ wakeAfterAbort)
       /\ UNCHANGED <<pc, cause, stopping, consumed, stepped, turnEnds,
                      target, lastEnd, gate>>

\* Mutant of Abort: the abort is lost on a step that is being prepared.
AbortStepOnly(reason) ==
  cause' = IF pc = "stepping" /\ cause = "none" THEN reason ELSE cause

\* AbortController.abort: the first reason stays.
Abort(reason) ==
  cause' = IF pc # "idle" /\ cause = "none" THEN reason ELSE cause

-----------------------------------------------------------------------------
(***************************************************************************)
(* What users and other components call.                                   *)
(***************************************************************************)

\* send: followup and steer wake the driver, inject does not.  A message
\* that wakes an aborted run goes to the next turn.
Send(m, l, wakeup) ==
  LET afterAbort == wakeup /\ pc # "idle" /\ cause # "none"
  IN  /\ AtAwait /\ ~disposed
      /\ m \notin sent
      /\ box' = AppendTo(box, IF afterAbort THEN "next-turn" ELSE l, m)
      /\ sent' = sent \union {m}
      /\ waiting' = waiting \union ({m} \intersect User)
      /\ IF wakeup THEN WakeDriver(afterAbort) ELSE UNCHANGED <<driver, gate>>
      /\ UNCHANGED <<entered, disposed, durable, parked, barred>>

Followup(m) == Send(m, "next-turn", TRUE)
Steer(m)    == Send(m, "next-step", TRUE)
Inject(m)   == m \notin User /\ Send(m, "next-step", FALSE)

\* cancel without keepInbox: the user's stop.
Stop ==
  /\ AtAwait
  /\ SetBox(HoldUnsent(DiscardWhere(box, Msg \ User)))
  /\ wakeRequested' = FALSE
  /\ stopping' = Running
  /\ Abort("user")
  /\ parked' = parked \union (User \intersect Pending(box))
  /\ barred' = barred \union (Pending(box) \ User)
  /\ UNCHANGED <<sent, entered, pc, consumed, stepped, turnEnds, target,
                 lastEnd, disposed, gate, durable>>

\* cancelMessage of a message that waits; also the queue's remove button.
CancelWaiting(m) ==
  /\ AtAwait
  /\ m \in Unreserved(box)
  /\ SetBox(Discard(box, {m}))
  /\ barred' = barred \union {m}
  /\ UNCHANGED <<sent, entered, driver, disposed, gate, durable, parked>>

\* Mutant of CancelTaken: it does not ask for another run.
CancelTakenOnly(m) ==
  /\ AtAwait /\ Running
  /\ \/ /\ m \in box.reserved
        /\ box' = Withdraw(box, m)
        /\ barred' = barred \union {m}
     \/ /\ m \notin Pending(box) /\ m \in consumed
        /\ UNCHANGED <<box, barred>>
  /\ Abort("user")
  /\ UNCHANGED <<sent, entered, pc, stopping, wakeRequested, consumed, stepped,
                 turnEnds, target, lastEnd, disposed, gate, waiting, durable,
                 parked>>

\* cancelMessage of one a turn reserved or consumed: only that turn ends.
CancelTaken(m) ==
  /\ AtAwait /\ Running
  /\ \/ /\ m \in box.reserved
        /\ box' = Withdraw(box, m)
        /\ barred' = barred \union {m}
     \/ /\ m \notin Pending(box) /\ m \in consumed
        /\ UNCHANGED <<box, barred>>
  /\ wakeRequested' = ~disposed
  /\ Abort("user")
  /\ UNCHANGED <<sent, entered, pc, stopping, consumed, stepped, turnEnds,
                 target, lastEnd, disposed, gate, waiting, durable, parked>>

\* The queue's send button.
SendQueued(m) ==
  /\ AtAwait /\ ~disposed
  /\ m \in box.held
  /\ box' = Unhold(box, m)
  /\ WakeDriver(TRUE)
  /\ parked' = parked \ {m}
  /\ UNCHANGED <<sent, entered, disposed, waiting, durable, barred>>

\* The queue's insert-into-this-run button.
InterjectQueued(m) ==
  /\ AtAwait /\ ~disposed
  /\ m \in (User \intersect On(box, "next-turn")) \ box.reserved
  /\ box' = Unhold(AppendTo(box, "next-step", m), m)
  /\ IF m \in box.held THEN WakeDriver(TRUE) ELSE UNCHANGED <<driver, gate>>
  /\ parked' = parked \ {m}
  /\ UNCHANGED <<sent, entered, disposed, waiting, durable, barred>>

\* runMaintenance, for instance a manual compaction.
BeginMaintenance ==
  /\ pc = "idle"
  /\ pc' = "maintenance"
  /\ UNCHANGED <<log, cause, stopping, wakeRequested, consumed, stepped,
                 turnEnds, target, lastEnd, disposed, gate, waiting, durable,
                 parked, barred>>

\* dispose: cancel with keepInbox.
Dispose ==
  /\ AtAwait /\ ~disposed
  /\ disposed' = TRUE
  /\ Abort("disposed")
  /\ UNCHANGED <<log, pc, stopping, wakeRequested, consumed, stepped,
                 turnEnds, target, lastEnd, gate, waiting, durable, parked,
                 barred>>

\* Other agents of the task tree take the last slot.
GateFills ==
  /\ AtAwait /\ gate = "open"
  /\ gate' = "full"
  /\ UNCHANGED <<log, driver, disposed, waiting, durable, parked, barred>>

\* A slot is free: the gate wakes an agent it refused (wakeInbox), which
\* may be in a maintenance job by now.
GateOpens ==
  LET wake == gate = "queued" /\ ~disposed /\ HasClaimable(box)
  IN  /\ AtAwait /\ gate # "open"
      /\ gate' = "open"
      /\ pc' = IF wake /\ pc = "idle" THEN "turn" ELSE pc
      /\ wakeRequested' =
            (\/ wakeRequested
             \/ wake /\ pc = "maintenance" /\ cause # "disposed")
      /\ UNCHANGED <<log, cause, stopping, consumed, stepped, turnEnds, target,
                     lastEnd, disposed, waiting, durable, parked, barred>>

-----------------------------------------------------------------------------
(***************************************************************************)
(* The driver.                                                             *)
(***************************************************************************)

\* The finally of turn(), from a turn whose box is b: turn/end, settleTurn,
\* and whether kick goes on with another turn.
EndTurn(reason, b) ==
  LET failed == reason \in {"error", "blocked"}
      c      == IF failed THEN HoldUnsent(b) ELSE b
      more   == /\ reason \in {"completed", "max-tokens"}
                /\ HasClaimable(c) /\ ~disposed
  IN  /\ box' = c
      /\ waiting' = (waiting \ consumed) \ (c.held \union c.discarded)
      /\ lastEnd' = reason
      /\ parked' = IF failed
                   THEN parked \union (User \intersect Pending(c))
                   ELSE parked
      /\ pc' = IF more THEN "turn" ELSE "exit"
      /\ cause' = IF more THEN "none" ELSE cause
      /\ wakeRequested' = (wakeRequested /\ ~more)
      /\ stepped' = (stepped /\ ~more)
      /\ turnEnds' = "none"
      /\ target' = "next-turn"
      /\ UNCHANGED <<stopping, consumed, disposed, gate, durable, barred>>

\* turn() up to its loop.  Nothing ran since the controller was made, so
\* the abort checks before the claim pass.
BeginTurn ==
  /\ pc = "turn"
  /\ pc' = "loop"
  /\ consumed' = {}
  /\ turnEnds' = "none" /\ target' = "next-turn"
  /\ UNCHANGED <<log, cause, stopping, wakeRequested, stepped, lastEnd,
                 disposed, gate, waiting, durable, parked, barred>>

\* The head of the loop: reserve what the next step takes.
ClaimStep ==
  /\ pc = "loop"
  /\ box' = Claim(box, target)
  /\ pc' = "preparing"
  /\ UNCHANGED <<sent, entered, cause, stopping, wakeRequested, consumed,
                 stepped, turnEnds, target, lastEnd, disposed, gate, waiting,
                 durable, parked, barred>>

\* A budget is spent: the turn ends before it claims anything.
BudgetSpent ==
  /\ pc = "loop"
  /\ EndTurn("budget", box)
  /\ UNCHANGED <<sent, entered>>

\* The step enters with the messages of E; context: it also has some that
\* were never queued.
PreStepEnter(E, context) ==
  LET b == Commit(box, E)
  IN  /\ pc = "preparing" /\ cause = "none"
      /\ E \subseteq box.reserved
      /\ IF E = {} /\ ~context /\ (turnEnds # "none" \/ ~stepped)
         THEN /\ EndTurn(IF turnEnds = "none" THEN "completed" ELSE turnEnds,
                         b)
              /\ UNCHANGED <<sent, entered>>
         ELSE /\ SetBox(b)
              /\ entered' = entered \union E
              /\ consumed' = consumed \union E
              /\ stepped' = TRUE
              /\ pc' = "stepping"
              /\ UNCHANGED <<sent, cause, stopping, wakeRequested, turnEnds,
                             target, lastEnd, disposed, gate, durable, parked,
                             barred>>

\* Mutant of ReleaseClaim: it does not look at phase.stopping.
ReleaseUnstopped == Release(box)

\* releaseClaim: while a stop unwinds the turn, what it releases is
\* discarded or held like what waited.
ReleaseClaim ==
  LET b == Release(box)
      r == box.reserved \ box.withdrawn
  IN  IF stopping THEN Hold(DiscardWhere(b, r \ User), r \intersect User)
                  ELSE b

PreStepReject ==
  /\ pc = "preparing" /\ cause = "none"
  /\ EndTurn("blocked", ReleaseClaim)
  /\ UNCHANGED <<sent, entered>>

PreStepFails ==
  /\ pc = "preparing" /\ cause = "none"
  /\ EndTurn("error", ReleaseClaim)
  /\ UNCHANGED <<sent, entered>>

PreStepAborted ==
  /\ pc = "preparing" /\ cause # "none"
  /\ EndTurn("aborted", ReleaseClaim)
  /\ UNCHANGED <<sent, entered>>

\* A step returns: "none" when the model called tools (the turn goes on),
\* else how the turn would end.  max-tokens is sticky.
StepReturns(ending) ==
  LET ends == IF turnEnds = "max-tokens" THEN turnEnds ELSE ending
  IN  /\ pc = "stepping" /\ cause = "none"
      /\ IF ends # "none" /\ ~HasClaimableStep(box)
         THEN pc' = "stopping" /\ target' = target
         ELSE pc' = "loop" /\ target' = "next-step"
      /\ turnEnds' = ends
      /\ UNCHANGED <<log, cause, stopping, wakeRequested, consumed, stepped,
                     lastEnd, disposed, gate, waiting, durable, parked,
                     barred>>

\* The turn-stopping hooks are done: messages that arrived meanwhile get a
\* further step.
HooksReturn ==
  /\ pc = "stopping" /\ cause = "none"
  /\ IF HasClaimableStep(box)
     THEN /\ pc' = "loop" /\ target' = "next-step"
          /\ UNCHANGED <<log, cause, stopping, wakeRequested, consumed,
                         stepped, turnEnds, lastEnd, disposed, gate, waiting,
                         durable, parked, barred>>
     ELSE /\ EndTurn(turnEnds, box)
          /\ UNCHANGED <<sent, entered>>

\* A step or a hook throws.
TurnFails ==
  /\ pc \in {"stepping", "stopping"} /\ cause = "none"
  /\ EndTurn("error", box)
  /\ UNCHANGED <<sent, entered>>

\* The abort reaches a step or a hook.
TurnAborted ==
  /\ pc \in {"stepping", "stopping"} /\ cause # "none"
  /\ EndTurn("aborted", box)
  /\ UNCHANGED <<sent, entered>>

\* Mutant of KickFinally: what still waits is not held.
KickLeavesWaiting ==
  /\ pc = "exit"
  /\ SetBox(box)
  /\ IF wakeRequested /\ HasClaimable(box) /\ ~disposed THEN StartRun ELSE GoIdle
  /\ UNCHANGED <<sent, entered, disposed, durable, parked, barred>>

\* The finally of kick(): go on for messages that asked to be run after an
\* abort, else hold the user messages still waiting.
KickFinally ==
  LET restart == wakeRequested /\ HasClaimable(box) /\ ~disposed
      b       == IF restart THEN box ELSE HoldUnsent(box)
  IN  /\ pc = "exit"
      /\ SetBox(b)
      /\ IF restart THEN StartRun ELSE GoIdle
      /\ parked' = IF restart THEN parked
                   ELSE parked \union (User \intersect Pending(box))
      /\ UNCHANGED <<sent, entered, disposed, durable, barred>>

EndMaintenance ==
  /\ pc = "maintenance"
  /\ IF wakeRequested /\ HasClaimable(box) THEN StartRun ELSE GoIdle
  /\ UNCHANGED <<log, disposed, waiting, durable, parked, barred>>

-----------------------------------------------------------------------------
(***************************************************************************)
(* The log on disk.  SessionLog models when and how it is written; here    *)
(* everything appended so far is written, or it is not.                    *)
(***************************************************************************)

Flush ==
  /\ AtAwait /\ crashes < MaxCrashes
  /\ disk # LogNow
  /\ disk' = LogNow
  /\ UNCHANGED <<log, driver, disposed, gate, waiting, crashes, parked,
                 barred>>

\* The process ends, the session is opened again from its log.
CrashAndReopen ==
  /\ AtAwait /\ crashes < MaxCrashes
  /\ crashes' = crashes + 1
  /\ box' = Reopen(disk.box)
  /\ sent' = disk.sent /\ entered' = disk.entered
  /\ GoIdle
  /\ disposed' = FALSE /\ waiting' = {}
  /\ disk' = disk
  /\ parked' = User \intersect Pending(disk.box)
  /\ barred' = {}

-----------------------------------------------------------------------------
Calls ==
  \/ \E m \in Msg : \/ Followup(m) \/ Steer(m) \/ Inject(m)
                    \/ CancelWaiting(m) \/ CancelTaken(m)
                    \/ SendQueued(m) \/ InterjectQueued(m)
  \/ Stop
  \/ BeginMaintenance
  \/ Dispose
  \/ GateFills
  \/ GateOpens

PreStep == \/ \E E \in SUBSET Msg, context \in BOOLEAN :
                PreStepEnter(E, context)
           \/ PreStepReject
           \/ PreStepFails
           \/ PreStepAborted

Step == (\E ending \in Endings : StepReturns(ending)) \/ TurnFails

Hooks == HooksReturn

Continue == BeginTurn \/ ClaimStep \/ BudgetSpent \/ TurnAborted \/ KickFinally

Disk == Flush \/ CrashAndReopen

Next == Calls \/ PreStep \/ Step \/ Hooks \/ Continue \/ EndMaintenance \/ Disk

Spec == Init /\ [][Next]_vars

(***************************************************************************)
(* Fairness.  The event loop runs every continuation it has.  A pre-step,  *)
(* a step, a hook and a maintenance job return in the end (requests and    *)
(* hooks time out), a turn's model answers without tool calls again and    *)
(* again, and the task tree frees a slot again and again while the agent   *)
(* is idle.  No user has to do anything.                                   *)
(***************************************************************************)
Fairness ==
  /\ WF_vars(BeginTurn \/ ClaimStep \/ KickFinally)
  /\ WF_vars(PreStep)
  /\ WF_vars(Step)
  /\ SF_vars(StepReturns("completed"))
  /\ WF_vars(TurnAborted)
  /\ WF_vars(Hooks)
  /\ WF_vars(EndMaintenance)
  /\ SF_vars(pc = "idle" /\ GateOpens)

FairSpec == Spec /\ Fairness

-----------------------------------------------------------------------------
(***************************************************************************)
(* Invariants.                                                             *)
(***************************************************************************)

LogTypeOK ==
  /\ box \in Box /\ sent \subseteq Msg /\ entered \subseteq Msg
  /\ disk \in Logged /\ crashes \in 0..MaxCrashes

DriverTypeOK ==
  /\ pc \in Awaits \union {"turn", "loop", "exit"}
  /\ cause \in Causes /\ stopping \in BOOLEAN /\ wakeRequested \in BOOLEAN
  /\ consumed \subseteq Msg /\ stepped \in BOOLEAN /\ turnEnds \in Endings
  /\ target \in Lists /\ lastEnd \in Reasons

OtherTypeOK ==
  /\ disposed \in BOOLEAN /\ gate \in {"open", "full", "queued"}
  /\ waiting \subseteq Msg /\ parked \subseteq Msg /\ barred \subseteq Msg

\* Every variable stays in its type.
TypeOK == LogTypeOK /\ DriverTypeOK /\ OtherTypeOK

Accounted(b, s, e) ==
  /\ s = Pending(b) \union e \union b.discarded
  /\ Pending(b) \intersect e = {}
  /\ Pending(b) \intersect b.discarded = {}
  /\ e \intersect b.discarded = {}

\* inbox.ts:25: every message that was sent is in exactly one place: still
\* in the inbox, in a user/message, or named by a discard event.  It holds
\* of the running agent and of whatever a crash would find on disk.
EveryMessageAccounted ==
  /\ Accounted(box, sent, entered)
  /\ Accounted(disk.box, disk.sent, disk.entered)

\* The open claim reserves only pending messages nobody holds, and exists
\* only while a step is prepared; a withdrawal names a reserved message.
ClaimsSound ==
  /\ box.reserved \subseteq Pending(box) \ box.held
  /\ box.reserved # {} => pc = "preparing"
  /\ box.withdrawn \subseteq box.reserved
  /\ box.held \subseteq User \intersect Pending(box)

\* Nobody is left standing.  A submitter that waits for a message's outcome
\* will hear: the message still waits to run, or the turn running now consumed
\* it.  And an idle agent that may run has no prompt it should run: whatever
\* ended the last run, it either went on with the prompt or gave it back
\* (held).
NoStrandedPrompt ==
  /\ waiting \subseteq (Pending(box) \ box.held) \union
                        (IF InTurn THEN consumed ELSE {})
  /\ pc = "idle" /\ gate # "queued" /\ ~disposed =>
       Claimable(box) \intersect User = {}

\* Why parked messages do not run: they are held, or the claim that has
\* them belongs to a turn a stop unwinds.
ParkedWaits ==
  \A m \in parked \intersect Pending(box) :
    m \in box.held \/ (m \in box.reserved /\ stopping)

\* Why cancelled messages do not run: the claim that has them belongs to a
\* turn that was aborted, and its release discards them.
BarredWaits ==
  \A m \in barred \intersect Pending(box) :
    m \in box.withdrawn \/ (m \in box.reserved \ User /\ stopping)

\* Stopped turns and turns with withdrawn messages are aborted.
TakenBackAborts == stopping \/ box.withdrawn # {} => cause # "none"

HistoryIsSent == parked \union barred \subseteq sent

\* The inductive invariant of AgentLoopProofs.
IInv ==
  /\ TypeOK
  /\ EveryMessageAccounted
  /\ ClaimsSound
  /\ ParkedWaits /\ BarredWaits /\ TakenBackAborts /\ HistoryIsSent

-----------------------------------------------------------------------------
(***************************************************************************)
(* What a step may never do.                                               *)
(***************************************************************************)

Entering == entered' \ entered

\* A prompt that waited behind a failed turn, behind a stop, or when the
\* session was reopened never runs on its own: the user sends it again
\* first (inbox.ts:17).
ParkedNeverRuns == [][Entering \intersect parked = {}]_vars

\* One prompt starts one turn: a step that takes a queued prompt is the
\* first of its turn and takes no other (inbox.ts: claim).
TurnPerPrompt ==
  [][\A m \in Entering \intersect On(box, "next-turn") :
       ~stepped /\ Entering \intersect On(box, "next-turn") = {m}]_vars

\* A message whose submitter cancelled it, and harness context a stop found
\* waiting or reserved, never enters a step (agent.ts:346, 400).
CancelledNeverRuns == [][Entering \intersect barred = {}]_vars

\* An outcome is settled with the truth: its message was held or discarded
\* by this step, or the turn that consumed it ended (or the process died).
OutcomesTruthful ==
  [][\A m \in waiting \ waiting' :
       \/ m \in (box'.held \ box.held) \union (box'.discarded \ box.discarded)
       \/ m \in consumed /\ InTurn /\ ~InTurn'
       \/ crashes' # crashes]_vars

\* cancelMessage ends one turn and whatever else is queued still runs
\* (agent.ts:347): a driver whose turn was aborted without a stop or a
\* disposal holds nothing when it ends.
OnlyStopsHold ==
  [][pc = "exit" /\ lastEnd = "aborted" /\ ~stopping /\ ~disposed =>
       box'.held \subseteq box.held]_vars

-----------------------------------------------------------------------------
(***************************************************************************)
(* The abstract specification this module implements.                      *)
(***************************************************************************)

FateIn(b, e, p) ==
  [m \in Msg |-> IF m \in e THEN "entered"
                 ELSE IF m \in b.discarded THEN "discarded"
                 ELSE IF m \notin Pending(b) THEN "new"
                 ELSE IF m \in p THEN "parked" ELSE "waiting"]

Ledger == INSTANCE PromptLedger WITH
            fate    <- FateIn(box, entered, parked),
            written <- FateIn(disk.box, disk.entered, {})

\* Every message lives the life PromptLedger promises, crashes included.
LedgerImplemented == Ledger!Spec

-----------------------------------------------------------------------------
(***************************************************************************)
(* What must happen in the end.                                            *)
(***************************************************************************)

\* Whoever waits for a prompt's outcome hears: it ran to the end of its
\* turn, was held or was discarded, unless the agent was disposed.
OutcomesSettle ==
  \A m \in User : m \in waiting ~> (m \notin waiting \/ disposed)
=============================================================================
