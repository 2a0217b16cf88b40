# Emperor Agent: specifications and proofs

TLA+ models of the harness core of Emperor Agent (`src/packages/core/src`), the
TLC runs that check them, and theorems checked by TLAPS. `PROJECT.json` maps
every definition to the lines it stands for; this file says what is modelled,
how, what the runs and proofs show, and what is left out.

## 1. The system

Emperor Agent is an Electron desktop agent. One Node process holds the core;
the main process, the Vue renderer and native helpers talk to it over IPC. A
*session* is an append-only event log; everything else about it is a fold of
that log or lives in memory and dies with the process. The core runs on one
JavaScript thread: code is atomic between two awaits, and all concurrency is
what happens at an await.

| Component | State it keeps | Operations | Talks to |
|---|---|---|---|
| Agent inbox (`harness/agent/inbox.ts`) | two pending lists, holds, the open claim | append, promote, discard, hold, unhold, claim / commit / release, withdraw | writes splices to the session log |
| Agent driver (`harness/agent/agent.ts`) | phase (idle, running, maintenance), abort controller, outcome promises | send, stop, cancelMessage, queue buttons, runMaintenance, dispose, turns and steps | inbox, log, tools, admission gate |
| Tool-call scheduler (`tool-calls.ts`) | slots, in-flight set, commit cursor of one step | start, race, commit, drain, skip | tool registry, log |
| Tool registry (`harness/tools/registry.ts`) | tools, stages | prepare, dispatch, finalize | approvals, hooks, leases |
| Session log store (`session-log/store.ts`) | open entries: written bytes, pause, timer | attach, append, flush, close, load and repair | file system |
| Session repair (`repair.ts`) | - | closers of an interrupted turn, answers for open calls | store, driver |
| Task tree (`harness/host/task-tree.ts`) | members, parked agents, lent slots, cost window | admit, pump, waiting, takeWake, charge | drivers, subagent manager |
| Subagent manager (`harness/subagent/manager.ts`) | entries with a foreground waiter | start, wait, settle, report, interrupt, dispose | task tree, drivers |
| Goal mode (`harness/goal`) | the goal fold, the round attempt, competingQueued, needDrive | set, edit, pause, resume, complete, block; drive, gate, observers of idle, turns, queue and background work | driver, log |
| Scheduler (`scheduler/`) | the store of jobs (snapshot and journal), queued and active runs, in-flight claims, one timer | add, edit, pause, remove, run now, tick, admit, finalize, start, stop; pool: enqueue, pump, cancel, shutdown | host, file system |
| Interactions (`harness/host/interactions.ts`, approval, questions) | pending requests | ask, answer, cancel | registry, UI |
| External delegation (`harness/delegation`) | per conversation a journal (record, runs, messages, interactions, outbox); in memory `stop`, `noticesHeld`, `held`, the session and the serial chain `tail` | start, send, steer, answer, interrupt, stopRoot, recover, abandon, close, apply and discard results, reconcile | executors (processes), workspace leases, the parent's inbox |
| Jobs, workflow, compaction, hooks, MCP, computer use, memory, skills, plugins, updates, persistence | see `PROJECT.json` | | |

What is hard here: calls that arrive while the driver awaits; two-phase claims
held across an await; flags that one handler sets and another reads after the
turn has unwound; a log written behind, in batches that can be cut; settlement
in any order with commitment in one order; slots that are lent; observers of
one event that run in registration order. `PROJECT.json` lists each hazard at
its line with the properties that cover it.

What makes each component correct:

- inbox and driver: every message has exactly one fate; a prompt the user did
  not send (again) does not run; who waits for a prompt hears, and the truth;
- session log: a prefix survives, nothing is repeated, what was reported
  durable is there;
- tool calls: order, barrier, an answer for every call, an end for every stop;
- task tree: no idle slot beside a parked agent, no wait for nobody, budgets;
- goal mode: one round at a time, prompts before rounds, a stopped goal stays
  down, a goal that may go on is driven;
- scheduler: every job that wants to run has a timer, a slot or a place in the
  queue; no occurrence begins twice; the record of a run outlives it only as
  long as the run;
- delegation: a message is given to an executor at most once and the journal
  says so truthfully; a workspace is free only when nobody can write to it; a
  stop holds; every run ends and its parent is told once.

## 2. The modules

**`Inbox`** - operators on a *box*, the value of one inbox. A list is a set of
messages with an order; each code operation (append, discard, hold, claim,
commit, release, reopen) is an operator from box to box.

**`AgentLoop`** extends it with the driver. `pc` is where the driver is:
`idle`, `maintenance`, `preparing` (pre-step awaited), `stepping`, `stopping`
(turn-stopping hooks) are awaits, where every call of a user or another
component may come; `turn`, `loop`, `exit` are passed without an await
(`AtAwait` is a guard of every call). One action per public operation
(`Followup`, `Steer`, `Inject`, `Stop`, `CancelWaiting`, `CancelTaken`,
`SendQueued`, `InterjectQueued`, `BeginMaintenance`, `Dispose`), per
continuation of the driver (`BeginTurn` .. `KickFinally`), for the admission
gate, and for the disk (`Flush`, `CrashAndReopen`). `EndTurn` is the whole
`finally` of `turn()`, `SetBox` the queue-changed observer that settles
outcomes. `parked` and `barred` are history: what must not run, as the user
sees it, kept apart from the holds and withdrawals that implement it.

**`PromptLedger`** - the abstract specification: the life a message may have.
`AgentLoop` implements it (`LedgerImplemented`).

**`InboxSplices`** - the data the boxes abstract: two arrays, the index splices
of `removeRuns`, and the lines an operation writes, one step per line. `cursor`
is the loop of `removeRuns`: the list it is at and the indexes it has left;
`Valid` is `validate`, which every splice must pass; `box` is the value the
operators of `Inbox` give the operations begun so far.

**`SessionLog`** - one open log: memory, batch, pause, timer, file lines with
their states (whole, no newline, cut, damaged), what a power loss spares, and
the repair at opening. A write is one synchronous block and so one step, with
every outcome it can have, death in its middle included. **`DurableLog`** is
what it promises: events are added in order, a crash keeps a prefix that holds
everything synced, and only damage to the stored file spares less
(`DurableImplemented`).

**`ToolCalls`** - the scheduler of one step, an await at a time, with the
environment (bodies, aborts, approvals) between; then the two ways open calls
are answered.

**`TaskTree`** - the pool. Handlers are synchronous chains of observers, so an
action is the chain: `EndRun` is the phase change, the tree's pump, the
manager's settlement and the delivery to the parent, in the code's order. The
map of parked agents, which the code iterates oldest first, is the set
`tree.parked` with the relation `tree.before`. `Pump` says in one go what the
loop of `pump()` does one by one: each subagent that starts leaves a slot less
to those behind it, so one is let go if slots are left when all ahead of it that
have something to do have started. A child is waited for by the step of its parent
that started it (`byStep`), or by a workflow that the parent runs in the
background (`flows`). Such a workflow is a job: it outlives the step and the
turn, starts workers, waits for them and disposes of them whatever its owner
does (`StartFlow`, `StartChild`, `DisposeChild`), so an agent may lend its slot
while it is idle, parked, or running turns of its own. Only the waits of a step
hold up the agent's run (`Waiting`) and are aborted with it; what an abort
reaches (`Reached`) is found along those waits, what a disposal removes along
parenthood (`Under`). A workflow ends by itself, by a kill
or by its time limit (`EndFlow`), and a settled job is told to its owner
(`Notice`). `Stop` leaves the root's own jobs alone.

**`GoalRounds`** extends `Inbox` with goal mode over the part of the driver that
decides when a round is claimed, enters a step and ends. The goal domain
(`set` .. `block`), the round driver's fold of its own events and its four
observers (idle, turn end, queue change, settled work) and its gate, one of the
pre-step middlewares, are operators on one record, `goals`, and a turn of the
driver is `BeginTurn`, `Gate`, `EnterStep`, `StepEnds`, `EndTurn`. `Drive` is
the coalesced loop of the driver, a microtask that runs before any call of a
user arrives (`Quiet`). `mayRun` and `missed` are history: what the user last
allowed, and whether the inbox was emptied without the driver being told.

**`Scheduler`** - the service over its store, pool and misfire decisions. A
*world* is the record of the store's jobs, the runs in memory and the in-flight
claims, and an operation takes a world to the next: `Admit`, `Enqueue`, `Pump`,
`CancelQueued`, `Finalized`, `Reconciled`. The actions are the calls (`AddJob`,
`UpdateJob`, `PauseJob`, `ResumeJob`, `RemoveJob`, `CancelQueuedJob`, `RunJob`),
the clock and `Tick`, a run's steps (`BodyBegins`, `Settle`, `Finalize`,
`LeaveFlight`), the writes that fail (`TickFails`, `StartFails` and the sets of
faulty jobs), and the process (`Start`, `Stop`, `Drained`, `Crash`). Runs
queued durably in the job record are started again by a restart, active ones
are closed as interrupted.

**`Delegation`** - one conversation with an external executor, over its journal
and the outbox of its parent. A section of the serial chain (`serial`) that does
not wait for the executor is one step; `Steer` and `Answer` hold the chain
(`holder`) until `SteerEnds` and `AnswerArrives` or `AnswerFails`. `ex` is where
`execute()` is: waiting for the budget, preparing, locking, opening, between the
durable intent and the send, in the turn, closing, settling, collecting
(`Grant` .. `Finish`). The calls are `Send`, `Interrupt`, `StopRoot`, `Prompt`
(`resumeRootNotices`), `InspectHistory`, `Recover`, `Abandon`, `CloseLive` and
`CloseSettled`, and for results `Decide` .. `Retire`, which run under a lock of
their own and not in the chain. `HandOver` and `MarkDelivered` are the two
writes of a notice. `Crash` loses what `Entry` keeps and leaves the executor's
process alive (`alive`); `Restart` is `reconcile()`, which proves that it ended
or does not. `alive`, `gone`, `handed` and `inbox` are the world: what really
runs, is on disk, was given and was told, beside what the journal says of it;
`barred` and `released` are history.

`MCAgentLoop`, `MCInboxSplices`, `MCGoalRounds` and `MCScheduler` give sets of
messages as model values, and jobs their owners and policies. `AgentLoopProofs`,
`InboxSplicesProofs`, `SessionLogProofs`, `ToolCallsProofs`, `TaskTreeProofs`,
`GoalRoundsProofs`, `SchedulerProofs` and `DelegationProofs` hold the proofs.

Mutants - operators with a comment "Mutant of X", defined before X - are
plausible bugs. Replacing X by one makes TLC find the property it is listed
with violated; no specification uses them.

### Abstractions worth knowing

- A turn that ends because its plan was dismissed is one that "completed": the
  driver treats them alike.
- The turn-stopping hooks are an await in the model even with no hook
  installed: the model has more interleavings than such a program.
- The inside of a step is its result: tools were called, completed, cut off at
  the token limit, failed, aborted.
- In `AgentLoop` the disk holds all of the log or what it held at the last
  flush; the cuts inside a batch are the business of `InboxSplices` and
  `SessionLog`.
- The header line of a log is left out: the lines of `SessionLog` are events.
- A tool body that ignores its abort runs on unseen once its dispatch is over.
- In `GoalRounds` the pair (id, revision) of a goal is one number, `ref`: every
  change writes a new one. The durability checkpoint of a drive is an option
  the host does not set, so a drive is one step. Which budget stopped a turn is
  not told apart, only that one did.
- In `Scheduler` snapshot and journal are one value that a write replaces or
  leaves alone; run histories and their statuses are left out, and a run is
  named by its trigger and its occurrence. The clock does not go back.
- In `Delegation` starting a process and recording its identity are one step, as
  the executor is spoken to only afterwards; of runs before the last one only
  the notice is kept. A turn the executor reports as interrupted counts as a
  failed one. A result is there or not; that it is a conflicted one is not told
  apart. The budget and the workspace lease are granted at some time.
- Three steps of `Delegation` merge sections of the serial chain. `Pump` takes
  the message and writes the run that is created for it (service.ts:1549): what
  could come between finds the conversation taken by `e.active` and a run that
  is not yet there. `InspectHistory` is instant, while the code holds the chain
  up to 30 seconds and may also read a run whose outcome is known
  (service.ts:476), which changes nothing. `StopRoot` reads the phase, holds the
  notices, pauses the queue (service.ts:1038) and interrupts (2529) in one step.
  A section that waits behind a steer can fall between these two, and the one
  that would matter is the section that settles the run. It does not: an
  executor that ends rejects the steer that is out before it waits for its
  process to end, and settling comes after that wait. Nor is a stop called from
  within a section: a spent budget only disarms the goal (host.ts:1873).
- In `TaskTree` a disposed agent unwinds unseen; whether a run ends with
  success is not told apart; an abort that ends several waits pumps once at the
  end, since each pump only sees fewer free slots than the last. A workflow is
  reduced to what it does to the tree; those of one owner count as one; which
  job a notice is about, and how often jobs may wake, is left open. The limit
  on the depth of delegation (manager.ts:356) is left out: three subagents stay
  within its three levels, and the proofs hold without it.
- In `AgentLoop` the await between two turns (`kick`, agent.ts:532) is passed
  without an interleaving: the promise is settled, so only other microtasks can
  come there, and a stop by one of them acts in the model at the next await,
  when the turn has begun. The check for an abort at the head of a turn
  (agent.ts:716), which would find just those, is left out.

## 3. The runs

| Run | Bounds | Shows |
|---|---|---|
| `AgentLoop` | 2 prompts, 1 context message, no crash; prompts symmetric (safety only) | waiters, stranded prompts, what may never run, truthful outcomes, who holds, one prompt per turn |
| `AgentLoopCrash` | 1 prompt, 1 context, 1 crash, fairness | `IInv` in memory and on disk, refinement of `PromptLedger`, every outcome settles |
| `InboxSplices` | 4 messages, symmetric | the arrays are the boxes; splices disturb nothing; none is refused |
| `SessionLog` | 4 events, 2 faults, 1 damaged line, 2 process ends, fairness | batches, timers, owed syncs, refinement of `DurableLog`, writing resumes |
| `ToolCalls` | 4 calls, every mix of modes, pool of 2, fairness | order, barrier, answers, ends |
| `TaskTree` | 3 subagents, 1 slot, 3 starts and 1 wake per task, 1 task, 1 background workflow at a time | slots, waits, order, cap |
| `GoalRounds` | 2 prompts, 3 rounds, caps 1 and 2, blocked after 2, 4 calls; prompts and rounds symmetric | `IInv` of the proofs, prompts first, stopped goals, no forgotten goal |
| `GoalRoundsStuck` | the same | *violation*: a goal armed after a withdrawn maintenance prompt is not driven |
| `Scheduler` | 3 jobs with 3 policies, pool of 1 running, 1 per owner, 1 queued, interval 2, time 2, at most 3 calls, 1 failed write, 2 stops or crashes, 3 of these together | pool, timer, no stranded job, one start per occurrence, records |
| `SchedulerEdit` | the same jobs, 2 running, time 3, 2 calls, no faults, no stop or crash | *violation*: an edited job never runs again |
| `Delegation` | 2 messages, 1 process end, fairness | messages once, notices once, workspaces held, stops, follow-ups, every run ends and is told |
| `DelegationRetire` | 2 messages, no process end | *violation*: a workspace removed under a run |

Why the bounds are enough. Two prompts are what order, overtaking and "one
prompt per turn" need, and a third would stand behind the second as the second
behind the first; context differs from prompts only by kind, so one is enough.
A crash leaves the disk behind memory whatever came before it, and the proofs
of `IInv` hold for any number. Four messages give `removeRuns` two runs with a
gap on one list, or runs on both. Four events hold a whole turn and the start
of the next, two faults let a retry fail, and the second process end comes
while the leftovers of the first are repaired. Four calls give parallel calls
before and after an exclusive one with the pool full. Three subagents give a
lender, the child it waits for and a competitor, and one background workflow an
owner that lends while it is idle, parked or in a turn of its own, with two
workers in the line. A second task only lifts the cap and gives fresh budgets;
the proofs hold for any number of tasks and workflows. Three rounds are one more
than the largest cap, and two caps let a user lower the cap below the rounds
done. Three jobs fill a pool of one that queues one and turn one away; an
interval of 2 in a time of 3 has an occurrence that falls due while the one
before runs, and a sleep over both. Two messages give a follow-up that waits,
one that steers and one that is sent while the first settles; with a process
end there are up to three runs, as a message the end left behind starts one of
its own, so that a run is recovered before another begins.

Deadlock is checked in the `AgentLoop` runs and in `ToolCalls` (whose `Done`
stutters at the end). The others may stop: all events, messages, calls or tasks
the bounds allow are used up, and nobody has to prompt.

### Fairness

- `AgentLoop`: the event loop runs every continuation; requests, hooks and
  maintenance jobs return because they have time limits; a model that is asked
  again and again at some time answers without tools; the task tree frees a
  slot again and again (`NoIdleSlot` and `NoForgottenWait` of `TaskTree` are
  what that rests on). Nothing is assumed of users.
- `SessionLog`: an armed timer fires. Nothing is assumed of writes except that
  faults are finite.
- `GoalRounds` and `Scheduler`: none. Their runs ask what a liveness property
  rests on as invariants instead: whenever nothing is under way and nothing
  competes, a goal that may go on has a drive requested (`GoalKeepsGoing`);
  every job that wants to run has its timer or its place
  (`NoStrandedJob`), and a free slot has nobody waiting (`PoolIsFull`).
- `Delegation`: every await of `execute()` ends (requests have time limits, a
  closing process is killed after a grace period, slots and leases come back);
  notices are dispatched; an interrupted session closes its events, and the
  run's time limit stops a turn that goes on; a steer and an answer return.
  Nothing is assumed of users, of results or of a restart.
- `ToolCalls`: the scheduler's continuations run and its result and commit
  hooks return; of tools, nothing until the signal aborts.

### What the violations say

1. `DelegationRetire` - `applyNow` and `discardNow` look at `e.active` once
   (service.ts:2807, 2856) and then await the merge and the cleanup; a follow-up
   sent meanwhile works in the directory that `git worktree remove --force`
   takes away.
2. `GoalRoundsStuck` - a prompt sent during a maintenance job sets
   `competingQueued` (round-driver.ts:237), which only an idle edge resets; a
   prompt withdrawn before the job ends leaves it set, and the goal armed next
   waits for an idle edge that needs a drive.
3. `SchedulerEdit` - `updateJob` leaves the next time alone while a run is
   active (service.ts:343), and the end of the run restores the one computed
   for the old schedule, which may be none. `enableJob` does the same
   (service.ts:369): a job paused, run by hand and resumed during that run was
   admitted without a time to resume at, and stays enabled with none. That was
   met on the way to a proof of `NoStrandedJob`, beyond the two calls its run
   allowed; three are allowed now, and `swapped` names both kinds of job.

### Read off the code, without a run

Met while the code was translated; the models contain each of these behaviours
and no property here claims the contrary.

- A crash between store.ts:583 and the rename after it leaves a session without
  its log, "not found" (store.ts:491), while the readable prefix and the
  original lie beside it; store.ts:14 promises that only an unreadable header
  makes a session unrecoverable. (`stage = "lost"` in `SessionLog`.)
- task-tree.ts:19 promises at most `maxActiveAgents` subagents at once; a lent
  slot can go to an agent that is not the child waited for (task-tree.ts:415),
  and after the wait there is one runner more. And an agent whose background
  workflow waits for a worker counts as waiting whatever it does itself: its own
  turns then run without a slot.
- docs/user/tools-skills-mcp.md:34 says that stopping the turn cancels a
  workflow that runs with it, the background ones included by what stands before
  it. `HarnessHost.stop` (host.ts:2422) cancels the turn and disposes of the
  subagents but leaves the root's own jobs alone: a background workflow goes on,
  and where it waited for a worker it waits until it is killed or over its 30
  minutes, since nothing settles a worker that was disposed of. This is the
  exception in `NoForgottenWait`.
- A disposed agent starts a turn after `runMaintenance`, which restarts the
  driver without looking at `disposed` (agent.ts:436), unlike the two other
  places that go on.
- inbox.ts:25 promises each message one of three places; a log cut inside a
  batch shows a message in none until the next line is written.
- A service that starts late (another process held the lock) marks a run it
  executes itself as interrupted (service.ts:576).
- A failed write of an admission leaves the job in `inFlightJobIds`
  (service.ts:705): the job is passed over until the process restarts. A failed
  write at the end of a run leaves `active_run` in the same way.
- A start that fails leaves the service accepting calls, without lock and
  timer; `stop` gives the lock up before the runs have drained.
- The gate of goal mode is one of several pre-step middlewares: a goal edited
  while a later one awaits lets a round in that counts for no goal, so the
  model may be asked once more than `maxGoalRounds` (round-driver.ts:464).
- A held prompt that is discarded while the agent is idle requests no drive.
- goal-mode.md:43 promises a drive when external delegations settle; nothing
  in `harness/delegation` calls `delegationSettled`.
- docs/user/automation-collaboration.md:193 says that after a restart nothing
  of an external task is run again by itself and that messages not yet sent
  count as unknown. `reconcile` marks only those on their way
  (service.ts:431); one whose run was still being prepared stays queued, and the
  next follow-up runs it first. `hasOutstanding` (service.ts:803) counts it
  until then.
- `discardNow` does not look at `currentRunId` as `applyNow` does
  (service.ts:2797): discarding the result of an earlier run retires the
  workspace that holds a later one.
- `recover` and `interrupt` of a run that a restart left queued write no notice:
  the parent hears of it after the next restart.
- A prompt to the root while its run is still being cancelled leaves the notices
  of that run held (service.ts:667) until another prompt.
- A stop waits for a steer that is on its way, which has a limit of its own
  that is longer than the one the interruption has.
- The wait for the workspace lease has no time limit of its own; a stop ends it.
- A turn refused for its model is given to the executor once more
  (service.ts:2046); `handed` counts the turn once.

## 4. The proofs

Every safety property of a passing run is proved for all values of the
constants, and so is every refinement; liveness is not.

`AgentLoopProofs` and `GoalRoundsProofs` begin with the same lemmas on what each
box operator preserves or moves: types, accounting, soundness of the claim
(`ASSUME .. PROVE`, no state). `AgentLoopProofs` proves of `AgentLoop!Spec`, for
every `Msg`, every `User \subseteq Msg` and every `MaxCrashes \in Nat`:

| Theorem | States |
|---|---|
| `TypeCorrect` | `[]TypeOK` |
| `Invariance` | `[]IInv` |
| `MessagesAccounted` | `[]EveryMessageAccounted` |
| `ClaimsAreSound` | `[]ClaimsSound` |
| `ParkedPromptsWait` | `ParkedNeverRuns` |
| `CancelledPromptsStayOut` | `CancelledNeverRuns` |
| `LedgerIsImplemented` | `LedgerImplemented`: `AgentLoop` implements `PromptLedger` |

The assumptions are the two `ASSUME`s of the modules (`User \subseteq Msg`,
`MaxCrashes \in Nat`).

The argument. `EveryMessageAccounted` is inductive with types alone only if
claims are sound: `Commit` removes what was reserved, so a reserved message
must be pending. That a parked prompt never runs needs a reason why it waits,
and there are two: it is held, or the claim that has it belongs to a turn that
a stop unwinds (`ParkedWaits`); a barred message is withdrawn, or is context
reserved by such a turn (`BarredWaits`). Neither may enter, because both kinds
of turn are aborted (`TakenBackAborts`) and an aborted pre-step commits
nothing. `HistoryIsSent` keeps a new message from being barred before it
exists. These make `IInv`. The two action properties need one more fact,
`DiskIsPast`: a crash cannot put a message into `entered` that was not there,
because the disk holds a past of the log.

Each action has a lemma that it preserves `IInv`; the lemmas about boxes do the
set reasoning once.

The refinement maps a message to its place (`FateIn`), in memory and on disk.
`FateFacts` turns a fate into membership, which accounting makes unambiguous.
Most operations only shrink the inbox (`Shrinks`), and `ShrinkingSettles` shows
once that whatever shrinks it, parks only prompts and lets nothing parked enter
is a `Settle` of the ledger; a message that comes or is sent again moves alone
(`OneWaits`); a flush is `Save` and a crash `Reopen` (`DiskRefines`). Besides
`IInv` it takes `OnlyPromptsPark` and `DiskIsPast`.

Its second part is about turns, under the same assumptions:

| Theorem | States |
|---|---|
| `TurnInvariance` | `[]TurnInv`: order of the lists, flags, waiters, what an idle agent left |
| `NobodyIsStranded` | `[]NoStrandedPrompt` |
| `PromptsRunApart` | `TurnPerPrompt` |
| `OutcomesAreTrue` | `OutcomesTruthful` |
| `CancelHoldsNone` | `OnlyStopsHold` |

The argument. A claim takes the first of a list, and "the first" is one message
only if the list is ordered (`ListsOrdered`), which every box operation keeps,
the reopened one included; with it the claim of a turn has one prompt, and no
later step of the turn claims from that list (`OnePrompt`). That an idle agent
left no prompt behind rests on flags that several handlers write and the end of
a run reads: an aborted turn has its cause still set at the exit, an abort that
is neither stop nor disposal has asked for a new run (`FlagsSound`), a gate
that refused a run remembers it, a prompt sent during maintenance has requested
one (`NothingLeftBehind`). A waiter that is released was held, discarded or
consumed by this very step because everything waited for is pending and not
held, or consumed by the turn that runs (`WaitersSound`).

`InboxSplicesProofs` proves of `InboxSplices!Spec`, for every `Msg`:

| Theorem | States |
|---|---|
| `SplicesInvariant` | `[]IInv`: lists, log and cursor against the lines left to write |
| `SplicesAgree` | `[]ArraysAgree` |
| `SplicesKeepOthers` | `[]OthersKeepTheirPlace` |
| `SplicesAreValid` | `[]NothingIsRefused` |

This is what lets the other modules speak of boxes: the operators of `Inbox`,
which the proofs about the driver and about goal mode rest on, do to a set with
an order what the code's index arithmetic does to its arrays.

The argument. Inside an operation the arrays are not the box. What they are
short of is what the lines left to write speak of: the messages they remove
(`Doomed`), insert (`Coming`, `Arriving`), name as discarded (`Naming`) and
record as entered (`Entering`), all unions over the sequence `todo` (`IdsOf`,
which `IdsOfTail` takes apart line by line, so that no induction is needed).
`ListsSound` and `LogSound` relate lists, log and box up to these sets;
`LinesSound` says in which order an operation may put its lines: removals
first, and an insertion last, of a message that the removals before it take off
its list. That order is why validation never refuses an insertion. An operation
is then proved by what its lines and its box have to do with each other
(`Opens`, `BeginKeeps`). `CursorSound` says that the indexes of `removeRuns`,
computed once per list, still point at the messages they were computed for,
whatever was spliced: `RunFacts` finds the last run of neighbours among them (by
the greatest and the least number), and `CutFacts` says where each of the other
elements stood before the cut. From the back, the smaller indexes stay where
they were.

`SessionLogProofs` proves of `SessionLog!Spec`, for any number of events,
faults, damaged lines and process ends (`BoundsAssumption`: they are numbers):

| Theorem | States |
|---|---|
| `InvariantHolds` | `[]IInv`: open, closed and half-renamed files |
| `NothingIsForgotten` | `[]NothingForgotten` |
| `LogIsDurable` | `DurableImplemented`: `SessionLog` implements `DurableLog` |

The argument. While a log is open its file starts with the batches that count
as written and goes on with at most a piece of the next one (`PieceOf`,
`Starts`), and then writing is paused. `FlushFacts` shows that whatever a write
does, a death inside it included, leaves such a file: the writer first cuts off
what it is not sure of. What was reported durable (`promised`) never exceeds
what was written, what a power loss spares, and, once nobody has the file open,
what the reader can decode. That last number, `Good`, is the first undecodable
line, about which `GoodFacts` and `GoodIs` say what is needed by the least
counterexample. For the refinement each step is shown to extend the visible log
by its events, to lose a tail behind what was promised, to spoil it by damage,
or to be unseen: a repair at opening, its renames included, shows a reader what
it could decode before (`WritingExtends`, `CloseEnds`, `KilledLoses`,
`PowerLostLoses`, `DamagedSpoils`, `OpeningUnseen`).

`GoalRoundsProofs` proves of `GoalRounds!Spec`, for every `Msg`, every set of
prompts and rounds in it, every set of caps and any number of calls:

| Theorem | States |
|---|---|
| `TypeCorrect` | `[]TypeOK` |
| `InvariantHolds` | `[]IInv`: one round at a time, nothing behind a good reservation, claims sound |
| `PromptsGoFirst` | `PromptsFirst` |
| `SoundHolds` | `[]GInv`: `IInv` with `Sound` and `Watched`, below |
| `StoppedStaysDown` | `StoppedGoalStaysDown` |
| `GoalGoesOn` | `[]GoalKeepsGoing` |

The assumptions are `UserAssumption` and `GoalAssumption`, the latter only that
rounds are messages that are not prompts and that the caps are positive.

The argument. A round that is queued is *the* round of the attempt
(`OneRound`); the attempt's reservation still holds unless something better is
waiting (`NothingBehindRound`); the claimed round is the one the gate passes
(`ClaimedIsPassing`). Most actions only shrink the inbox (`Shrinks`) and keep
the attempt or drop it with its message (`Keeps`, `KeepsPhase`), which `Kept`
turns into the invariant once; `Drive`, which queues a round, and `EndTurn`,
which takes the claim back, are proved apart (`EndTurnKeeps`). `PromptsFirst`
follows from `IInv` because the gate looks at the inbox and at the claim, and
the invariant says there is nothing else to look at.

The other two rest on more. `StoppedGoalStaysDown`: what is armed was armed by
a user (`ArmedByUser`), and so was what the gate let through, or the run is
aborted by now (`PassedByUser`). The end of a turn that did not go well disarms
the goal at once or at the idle edge, through the attempt; but the idle edge
spares the goal when the attempt was *rejected* under an older revision. That
this never hides a cancelled turn is `RejectedIsDriven`: a rejected attempt
exists only on an idle agent whose drive is requested, and a drive drops it
before anything else runs. It holds because a blocked turn whose round was
lost goes to rest: what could restart it is a wake or another prompt, and from
its reservation to the gate the round can neither be held nor overtaken
(`LiveWaits`), behind the gate it is alone (`ClaimedAlone`), and anybody who
comes meanwhile makes the reservation stale. `GoalMoves` proves the changes of
the goal at once (a revision that is new is one no attempt has), `EndTurnSound`
the ends of turns, from what they do (`EndTurnIs`). `GoalKeepsGoing` holds in
maintenance too (`Watched`), whose end nobody hears of: every way to rest asks
for a drive, and a drive that was asked for is given up only for a reason that
the property names.

`ToolCallsProofs` proves of `ToolCalls!Spec`, for any number of calls and any
pool (`CallsAssumption`, `MaxParallelAssumption`: both are positive):

| Theorem | States |
|---|---|
| `InvariantHolds` | `[]IInv`: the scheduler's counters, pool and slots agree with the log |
| `CallsAreInOrder` | `[]LoggedInModelOrder` |
| `CallsAreAnswered` | `[]EveryCallAnswered` |
| `BarrierHolds` | `[]ExclusiveIsBarrier` |
| `NothingOutlives` | `[]NothingOutlivesTheStep` |

The argument. `Progress` says at every place of the scheduler which calls are
logged as started (those up to `next`) and which have their results (those up
to `committed`), and that a group whose first call is exclusive has no other.
With it an appended event always comes behind those of exactly the earlier
calls, which keeps the order (`OrderAppend`), and an exclusive call starts only
behind a pool that is empty. `SlotsSound` says when a slot is filled: a
dispatch that left the pool without a failure left a result, so that
`commitReady` stops only at a call that is still in flight and a group that is
finished is committed (`CommittedKeeps`, `FinishGroupKeeps`). `InvokedSound`
says that only a logged call runs: the answers to the open calls tell the
model "not started" of no body that was entered. About the answers, the lemma
`Answered` shows that whatever is logged in order, cut off by a crash or not,
is completed in order; it rests on `LoggedUpTo` (the calls logged are an
initial segment) and `OneOrder` (an interval can be numbered upwards in one
way only), both by the least counterexample, because the prover has no
induction.

`TaskTreeProofs` proves of `TaskTree!Spec`, for any number of subagents, tasks
and background workflows and any budget (`BudgetAssumption`: a pool and a total
of at least one; `BoundsAssumption`: the bounds are numbers):

| Theorem | States |
|---|---|
| `InvariantHolds` | `[]IInv`: members, slots, waits and the line of the parked |
| `NobodyParkedInVain` | `[]NoIdleSlot` |
| `NobodyWaitsForever` | `[]NoForgottenWait`: whom a step or a workflow waits for |
| `OldestGoFirst` | `OldestFirst` |
| `SpentTasksStayDown` | `SpentTaskStaysDown` |

The argument. A handler is a chain of operators on the tree, so each operator
has a lemma that it keeps `Good` and `NoneIdle`, and the lemmas compose along
the chain. `Good` is well-formedness and two parts that `NoForgottenWait` needs.
Well-formed means that the line of the parked is a strict linear order among
them (`InLine`), and that every wait has its waiter: a step's is that of a
running agent, which cannot end before it, and a workflow's that of an owner
whose workflow has not ended, which runs, is idle or is parked; only a workflow
of the root may wait for what has left the tree, since every other owner left
with its workers. The other two: a child that is waited for runs or is parked
before its first run (`Served`), and a parked subagent without work has neither
children nor a workflow (`Busy`), since only a cancellation takes the work of a
parked one, and it strikes only those that are waited for. Without `Busy` a
parked parent that lost its work could be told by a child that ends, and would
lose its place in the line. That `Pump` fills the pool is a matter of counting,
where agents that lend take no slot whether they run or not: of the subagents
that stay parked the one with the fewest ahead has only such ahead of it as
start (`FirstThatStays`, by the least number), and those are as many as there
were slots. `OldestFirst` is carried along the chain as `Fair`, which composes
only for an agent that is parked all the way (`FairTwice`); `SpentTaskStaysDown`
as a part of `Same`.

`DelegationProofs` proves of `Delegation!Spec`, for every `MaxMsgs \in Nat \ {0}`
and every `MaxCrashes \in Nat`, which is all it assumes
(`DelegationAssumption`):

| Theorem | States |
|---|---|
| `InvariantHolds` | `[]IInv`: types, the run under way, messages, notices, writers |
| `MessagesHandedOnce` | `[]HandedOnce` |
| `ParentToldOnce` | `[]ToldOnce` |
| `WritersHold` | `[]WriterHoldsWorkspace` |
| `StopStops` | `StopMeansStopped` |
| `NoFollowUpForgotten` | `[]NoForgottenFollowUp` |

The argument. None of the first four properties is inductive, because each
relies on where `execute()` is. `RunUnderWay` ties the program counter `ex.pc`
to the phase in the journal, which two actors write: `execute()` and the calls
that stop, recover or abandon. Given that, `MessageSound` knows that a message
that is "sending" without having been given is the one of the run between its
intent and its send, so that a restart may call it undelivered and a stop that
finds it there (`barred`) makes `Submit` turn back. `NoticeSound` separates the
three states a notice can be in, with the handover that is not yet marked as the
fourth. `WritersSound` says who answers for a living process at each place: the
lease from `Lock` to `Settle`, the quarantine `held` after a settlement without
proof, the user after `Abandon`. What several actions do is proved once: a stop
(`InterruptedKeeps`), the start of the next run (`PumpFacts`, `StartKeeps`) and
coming to rest (`RestKeeps`).

`NoForgottenFollowUp` needs two facts more. The model has a bounded supply of
run numbers, which the code has not, so a queue might wait for no other reason
than the bound. `FewRuns` says that it never does: every run took a message off
the queue, and only a process end gives a message to a second run, so run
numbers count messages taken and crashes, and a message that still waits has a
number left (`TakenUpGrows`, by the size of finite sets). `QueueSound` says
where a message can be queued: a run that collects its result has none of its
own in the queue, a pause lasts no longer than the stop that made it, and a
queue at rest was stopped, or its conversation is closed or needs recovery.

`SchedulerProofs` proves of `Scheduler!Spec`, for every finite set of jobs, all
owners and policies, and any limits of the pool, interval, grace, longest sleep
and bounds (`JobsAssumption`, `LimitsAssumption`: jobs are numbers, the limits
of the pool and the interval are positive, the rest are numbers):

| Theorem | States |
|---|---|
| `ClaimsHold` | `[]IInv`: types, and claims, runs and records that agree |
| `PoolStaysFull` | `[]PoolIsFull` |
| `NoJobStranded` | `[]NoStrandedJob` |
| `RecordsStay` | `OnlyStartForgets` |
| `OccurrencesOnce` | `OccurrenceOnce` |

The argument. `Inv` says of every job (`Sound`) how its record and its run in
memory go together (`Kept`), and how all the times they carry compare with the
last occurrence that began by itself (`Timed`): a next time, a pending one and
a time to resume at are behind it and in the order in which they come to be
used, so whatever begins next begins later. That is why `OccurrenceOnce` needs
the whole record and not only the run. `Planned` is why no job is stranded: a
job that wants to run has a next time, or the run that took it carries one,
except for the jobs in `swapped`. The other parts of `Inv` are the claims
(`Intact`, as long as no write failed), the pool (`Pooled`) and the timer
(`Armed`). Types are a consequence: that no time leaves `Moments` is the part
`Ranged`, which holds because a time that is computed is at most one interval
ahead of the clock.

A tick, a start and a pump go through the jobs in an order that depends on the
times, as folds over finite sets. `FoldExists` shows that their recursion has a
solution, `FoldRule` that what every step keeps the fold keeps, by the size of
the set that is left (`TakeAway`, from a least counterexample). `PumpFacts` then
says that a pump starts only what was queued, keeps the limits and leaves
nobody beside room; `Looped` says what the turns of a loop that admits, skips
or restores jobs have done so far, and `TurnAgain` that one more turn keeps it.
Each action has a lemma `...Keeps`: `Inv` is kept and the step is `Steady`,
which is the two action properties at once.

The proof of `NoStrandedJob` failed at first, for a job that is paused, run by
hand and resumed during that run: no run of TLC had reached it, because the
calls were bounded by two. The third finding of section 3 tells the rest.

Only model-checked: liveness under fairness (`OutcomesSettle`,
`EverythingWritten`, `StopEndsTheStep`, `RunsEndAndTell`), which is out of the
prover's reach. The three violations are runs of TLC; a counterexample needs no
proof.

## 5. Not modelled

`PROJECT.json` lists the components with their reasons. In short: the network
side of a step (requests, retries, prompts), the text and rendering of
everything, registration and validation of tools, session management (forks,
deletion, listing), budgets of money and tokens beyond "reached", and the
subsystems below that are planned.

Of goal mode: detaching the driver, the `flush` option (never set in
production), the button that interjects a queued prompt, external delegations,
the verification of a completion by a second model, and the admission of root
agents. Of the scheduler: cron expressions, run histories and their statuses,
the notice of a terminal task, the stop signal inside a body, clocks that go
back, and the separate files of snapshot and journal. A start that fails while
it saves changes nothing the model can see. Of external delegation: several
conversations that share budgets and leases, receipts and acceptance, the
verification before applying, `undoResult`, `forgetRoot`, `shutdown`, narrowed
permissions, the limit of the queue, notices that only the collector reads, the
retry on another model, billing, and the protocols of the executors. Of
workflows: the script, its process, its calls and limits, Ralph loops and the
artifacts of a run; `TaskTree` has the waits, workers and ends of a workflow.

## 6. The plan

Done: 1. `Inbox`, `AgentLoop`, `PromptLedger`, proofs; 2. `InboxSplices`, proofs;
3. `SessionLog`, `DurableLog`, proofs; 4. `ToolCalls`, proofs; 5. `TaskTree`,
proofs; 6. `GoalRounds`, proofs; 7. `Scheduler`, proofs; 8. `Delegation`, proofs.

Next, in this order:

1. `Jobs` - background jobs: settlement, waits, kills, teardown and the order of
   notices, with the workflow engine behind them: `TaskTree` has only what both
   do to the pool.
2. `Interactions` - requests answered, aborted and cancelled with a session.
3. Compositions: `ToolCalls` with the write-behind of `SessionLog` (what a
   crash lets the model believe of calls whose bodies ran), `AgentLoop` with
   `TaskTree` in place of its abstract gate.
4. Tool pairing of compaction, the snapshot files.
