------------------------------ MODULE TaskTree ------------------------------
(***************************************************************************)
(* One root session and the subagents it and its subagents started         *)
(* (harness/host/task-tree.ts), with the subagent manager's part in it     *)
(* (harness/subagent/manager.ts): who runs, who waits parked for a slot of *)
(* the pool, whose slot is lent to a child it waits for, and what wakes an *)
(* idle parent.  A child is waited for by the step of its parent that      *)
(* started it (the subagent tool, a workflow in the foreground), or by a   *)
(* workflow its parent runs in the background (harness/workflow): a job    *)
(* that outlives the step and the turn, and starts workers and waits for   *)
(* them whatever its owner does.                                           *)
(*                                                                         *)
(* An agent is what AgentLoop models, reduced to whether it runs and       *)
(* whether its inbox has something to claim.  Every handler here is        *)
(* synchronous code that calls others through observers, so an action is   *)
(* such a chain: EndRun, for instance, is setPhase(idle), the tree's pump, *)
(* the manager's settlement, and the delivery to the parent.               *)
(***************************************************************************)
EXTENDS Naturals, FiniteSets

CONSTANTS
  MaxChildren, \* bound on the subagents ever started
  MaxActive,   \* budget: maxActiveAgents
  MaxTotal,    \* budget: maxTotalAgents
  MaxWakes,    \* budget: maxNoticeWakes
  MaxTasks,    \* bound on the user's messages to the root
  MaxFlows     \* bound on the background workflows at a time

ASSUME BudgetAssumption == /\ MaxActive \in Nat \ {0} /\ MaxTotal \in Nat \ {0}
                           /\ MaxWakes \in Nat

ASSUME BoundsAssumption == /\ MaxChildren \in Nat /\ MaxTasks \in Nat
                           /\ MaxFlows \in Nat

\* Subagents are numbered as they are started.
Root  == 0
Child == 1..MaxChildren
Agent == Child \union {Root}

(***************************************************************************)
(* tree.live     the members of the tree                                   *)
(* tree.parent   of each child that was started                            *)
(* tree.running  agents whose status is "running"                          *)
(* tree.work     agents with a claimable message they have not claimed     *)
(* tree.parked   agents the gate refused                                   *)
(* tree.before   <<a, b>>: a was parked before b                           *)
(* tree.lent     children waited for: their parent lends its slot          *)
(* tree.byStep   those of them a step of their parent waits for            *)
(* tree.flows    agents that own a background workflow                     *)
(* tree.spent    the verdict is "exceeded": the cost cap is reached        *)
(***************************************************************************)
VARIABLES
  tree,
  foreground,  \* children whose entry has a foreground waiter
  aborting,    \* running agents whose controller is aborted
  started,     \* window.started
  wakes,       \* window.wakes
  tasks,       \* tasks begun
  born         \* subagents ever started

vars == <<tree, foreground, aborting, started, wakes, tasks, born>>

Init ==
  /\ tree = [live |-> {}, parent |-> [c \in Child |-> Root], running |-> {},
             work |-> {}, parked |-> {}, before |-> {}, lent |-> {},
             byStep |-> {}, flows |-> {}, spent |-> FALSE]
  /\ foreground = {} /\ aborting = {}
  /\ started = 0 /\ wakes = [a \in Agent |-> 0] /\ tasks = 0
  /\ born = 0

-----------------------------------------------------------------------------
(***************************************************************************)
(* The pool.                                                               *)
(***************************************************************************)

\* Agents that wait for a child of theirs, themselves or their workflows.
Lenders(t) == {t.parent[c] : c \in t.lent}

\* runningChildren: the members that hold a slot.
Holding(t) == (t.live \intersect t.running) \ Lenders(t)

\* Mutant of Admits: the cap does not stop the root.
AdmitsRoot(t, a) == a = Root \/ Cardinality(Holding(t) \ {a}) < MaxActive

Admits(t, a) == IF a = Root THEN ~t.spent
                ELSE Cardinality(Holding(t) \ {a}) < MaxActive

\* The agents of S are parked no more.
Unparked(t, S) ==
  [t EXCEPT !.parked = @ \ S,
            !.before = {w \in @ : w[1] \notin S /\ w[2] \notin S}]

Park(t, a) == [t EXCEPT !.parked = @ \union {a},
                        !.before = @ \union (t.parked \X {a})]

\* The gate lets the agents of S go: those with something to claim start.
LetGo(t, S) == [Unparked(t, S) EXCEPT
                  !.running = @ \union (S \intersect t.work),
                  !.work = @ \ S]

Start(t, a) == [Unparked(t, {a}) EXCEPT !.running = @ \union {a},
                                        !.work = @ \ {a}]

\* wakeDriver through admit; an agent that is parked keeps its place.
Wake(t, a) ==
  IF a \in t.running THEN t
  ELSE IF Admits(t, a) THEN Start(t, a)
  ELSE IF a \in t.parked THEN t ELSE Park(t, a)

\* Subagents that take a slot if they get their turn before a.
Ahead(t, before, a) ==
  {b \in (t.parked \intersect t.work) \ (Lenders(t) \union {Root}) :
     <<b, a>> \in before}

\* pump() asks the parked agents one by one, and each that starts leaves a
\* slot less to those behind it: a subagent is let go if slots are left when
\* all that is ahead of it has started.
Passing(t, before) ==
  {a \in t.parked : IF a = Root THEN ~t.spent
                    ELSE Cardinality(Holding(t))
                           + Cardinality(Ahead(t, before, a)) < MaxActive}

\* Mutants of Pump: it looks at the oldest only; it goes by the newest.
PumpOne(t) ==
  LetGo(t, {a \in Passing(t, t.before) :
              \A b \in t.parked \ {a} : <<a, b>> \in t.before})

PumpNewest(t) ==
  LetGo(t, Passing(t, {<<w[2], w[1]>> : w \in t.before}))

Pump(t) == LetGo(t, Passing(t, t.before))

\* The root is no member: neither its waits nor its end pump.
PumpFor(t, p) == IF p = Root THEN t ELSE Pump(t)

GiveWork(t, a) == [t EXCEPT !.work = @ \union {a}]

-----------------------------------------------------------------------------
(***************************************************************************)
(* Tasks and messages.                                                     *)
(***************************************************************************)

\* The user (or a scheduler) sends the root a message.
BeginTask ==
  /\ tasks < MaxTasks
  /\ tasks' = tasks + 1
  /\ started' = 0 /\ wakes' = [a \in Agent |-> 0]
  /\ UNCHANGED <<foreground, aborting, born>>
  /\ tree' = Wake(GiveWork(Pump([tree EXCEPT !.spent = FALSE]), Root), Root)

\* The cost cap is reached: a request of some agent, or an executor's run.
Charge ==
  /\ ~tree.spent
  /\ tree' = [tree EXCEPT !.spent = TRUE]
  /\ UNCHANGED <<foreground, aborting, started, wakes, tasks, born>>

\* A background workflow is a job of its owner; several count as one.
StartFlow(p) ==
  /\ p \in tree.running \ (aborting \union tree.flows)
  /\ Cardinality(tree.flows) < MaxFlows
  /\ tree' = [tree EXCEPT !.flows = @ \union {p}]
  /\ UNCHANGED <<foreground, aborting, started, wakes, tasks, born>>

\* Who waits for a new child: nobody, the step that started it, or the
\* workflow in the background.
Waits == {"none", "step", "flow"}

\* SubagentManager.start, and waitForSettlement when somebody waits for c.
\* A workflow starts workers whether its owner runs, is idle or is parked.
StartChild(p, c, waits) ==
  /\ c = born + 1 /\ born' = c
  /\ IF waits = "flow" THEN p \in tree.flows ELSE p \in tree.running \ aborting
  /\ ~tree.spent /\ started < MaxTotal
  /\ started' = started + 1
  /\ foreground' = IF waits = "none" THEN foreground ELSE foreground \union {c}
  /\ UNCHANGED <<aborting, wakes, tasks>>
  /\ LET t == Wake(GiveWork([tree EXCEPT !.live = @ \union {c},
                                         !.parent[c] = p], c), c)
         w == [t EXCEPT !.lent = @ \union {c},
                        !.byStep = IF waits = "step" THEN @ \union {c} ELSE @]
     IN  tree' = IF waits = "none" THEN t ELSE PumpFor(w, p)

\* send_message, or the user writes to a child.
Message(c) ==
  /\ c \in tree.live
  /\ UNCHANGED <<foreground, aborting, started, wakes, tasks, born>>
  /\ tree' = Wake(GiveWork(tree, c), c)

\* A background job of a has settled (a command, a workflow): its owner is
\* told, and woken unless the user stopped the job or jobs woke it too often.
Notice(a) ==
  /\ tasks > 0 /\ a \in tree.live \union {Root}
  /\ UNCHANGED <<foreground, aborting, started, wakes, tasks, born>>
  /\ LET t == GiveWork(tree, a) IN tree' \in {t, Wake(t, a)}

-----------------------------------------------------------------------------
(***************************************************************************)
(* Runs and their ends.                                                    *)
(***************************************************************************)

\* A step of a waits for a child; a background workflow of a holds up none.
Waiting(a) == \E c \in tree.byStep : tree.parent[c] = a

\* The next turn of a run.
Continue(a) ==
  /\ a \in (tree.running \intersect tree.work) \ aborting
  /\ ~Waiting(a) /\ ~tree.spent
  /\ tree' = [tree EXCEPT !.work = @ \ {a}]
  /\ UNCHANGED <<foreground, aborting, started, wakes, tasks, born>>

\* deliverToParent of a settlement or a report: a running parent is
\* steered, an idle one woken while the budget has result wakes left.
Wakes(t, p) == p \notin t.running /\ wakes[p] < MaxWakes

Deliver(t, p) == IF Wakes(t, p) THEN Wake(GiveWork(t, p), p)
                 ELSE GiveWork(t, p)

Spend(t, p) == wakes' = IF Wakes(t, p) THEN [wakes EXCEPT ![p] = @ + 1]
                        ELSE wakes

Report(c) ==
  /\ c \in tree.live \intersect tree.running
  /\ UNCHANGED <<foreground, aborting, started, tasks, born>>
  /\ Spend(tree, tree.parent[c])
  /\ tree' = Deliver(tree, tree.parent[c])

\* settle, after the tree's pump made t of the tree: the waiter is served
\* and the slot goes back, or the parent is told.
Settle(t, c) ==
  /\ foreground' = foreground \ {c}
  /\ IF c \in foreground THEN UNCHANGED wakes ELSE Spend(t, tree.parent[c])

\* Mutant of Settled: the parent does not get its slot back.
SettledStillLent(t, c) ==
  IF c \in foreground THEN t ELSE Deliver(t, tree.parent[c])

Settled(t, c) ==
  IF c \notin foreground THEN Deliver(t, tree.parent[c])
  ELSE IF c \in t.lent THEN PumpFor([t EXCEPT !.lent = @ \ {c},
                                             !.byStep = @ \ {c}],
                                   tree.parent[c])
  ELSE t

\* A run ends: its turn completed, failed, or was stopped by a budget or an
\* abort.  again: a message came after the abort, or the abort was of one
\* message only, and a new run is asked for.
EndRun(a, again) ==
  LET t == PumpFor([tree EXCEPT !.running = @ \ {a}], a)
      s == IF a = Root THEN t ELSE Settled(t, a)
  IN  /\ a \in tree.running /\ ~Waiting(a)
      /\ again => a \in aborting \intersect tree.work
      /\ aborting' = aborting \ {a}
      /\ UNCHANGED <<started, tasks, born>>
      /\ IF a = Root THEN UNCHANGED <<foreground, wakes>> ELSE Settle(t, a)
      /\ tree' = IF again THEN Wake(s, a) ELSE s

-----------------------------------------------------------------------------
(***************************************************************************)
(* Aborts and disposal.                                                    *)
(***************************************************************************)

\* a and the agents of K under it: those whose parents, all of K, lead to a.
Under(a, K) ==
  LET under[b \in Agent] == b = a \/ (b \in K /\ under[tree.parent[b]])
  IN  {b \in K \union {a} : under[b]}

\* The agents an abort of a reaches: it aborts the waits of a's step, and so
\* the children waited for, and theirs; not the workers of a background
\* workflow of a.
Reached(a) == Under(a, tree.byStep)

\* t, with its agents in S waited for no more and cancelled without their
\* inbox.  The code pumps after each wait it ends; each only takes a slot
\* back, so one pump at the end is the same.
Cancelled(t, S) ==
  Pump([t EXCEPT !.lent = @ \ S, !.byStep = @ \ S, !.work = @ \ S])

Abort(R) == /\ aborting' = aborting \union (R \intersect tree.running)
            /\ UNCHANGED <<foreground, started, wakes, tasks, born>>

\* interrupt_agent, the user interrupts a child, or the sender of a message
\* withdraws it while its turn runs.
Interrupt(a) ==
  LET R == Reached(a)
  IN  /\ a \in tree.running \ aborting
      /\ Abort(R)
      /\ tree' = Cancelled(tree, R \ {a})

\* The call that waits for c is aborted, its agent runs on (a workflow is
\* over its time, or disposes of a worker).
AbandonWait(c) ==
  LET R == Reached(c)
  IN  /\ c \in tree.lent
      /\ Abort(R)
      /\ tree' = Cancelled(tree, R)

\* The background workflow of p settles, is killed or is over its time: it
\* aborts what it still waits for.
EndFlow(p) ==
  LET R == UNION {Reached(c) : c \in {d \in tree.lent \ tree.byStep :
                                         tree.parent[d] = p}}
  IN  /\ p \in tree.flows
      /\ Abort(R)
      /\ tree' = Cancelled([tree EXCEPT !.flows = @ \ {p}], R)

\* The agents of D leave the tree, their jobs are cancelled; their drivers
\* unwind unseen.
Leave(D) == [Unparked(tree, D) EXCEPT !.live = @ \ D, !.running = @ \ D,
                                      !.work = @ \ D, !.lent = @ \ D,
                                      !.byStep = @ \ D, !.flows = @ \ D]

\* A workflow disposes of a worker that settled, or that it abandoned, and
\* so of all it and they started.
DisposeChild(c) ==
  LET D == Under(c, tree.live)
  IN  /\ c \in tree.live \ tree.lent
      /\ foreground' = foreground \ D /\ aborting' = aborting \ D
      /\ UNCHANGED <<started, wakes, tasks, born>>
      /\ tree' = Pump(Leave(D))

\* The user's stop: the root's turn and every subagent.  The root's own jobs
\* go on, and a workflow among them waits on for the workers it had, which
\* nothing will settle any more.
Stop ==
  /\ foreground' = {}
  /\ aborting' = {Root} \intersect tree.running
  /\ UNCHANGED <<started, wakes, tasks, born>>
  /\ tree' = Pump([Leave(Child) EXCEPT
                     !.work = {},
                     !.lent = {c \in tree.lent \ tree.byStep :
                                 tree.parent[c] = Root}])

-----------------------------------------------------------------------------
Next ==
  \/ BeginTask \/ Charge \/ Stop
  \/ \E p \in Agent, c \in Child, waits \in Waits : StartChild(p, c, waits)
  \/ \E c \in Child : \/ Message(c) \/ Report(c)
                      \/ AbandonWait(c) \/ DisposeChild(c)
  \/ \E a \in Agent : \/ StartFlow(a) \/ EndFlow(a) \/ Notice(a)
                      \/ Interrupt(a) \/ Continue(a)
                      \/ \E again \in BOOLEAN : EndRun(a, again)

Spec == Init /\ [][Next]_vars

-----------------------------------------------------------------------------
(***************************************************************************)
(* Properties.                                                             *)
(***************************************************************************)

Holds(a) == /\ a \in tree.live \intersect tree.running
            /\ \A c \in tree.lent : tree.parent[c] # a

Trees == [live : SUBSET Child, parent : [Child -> Agent],
          running : SUBSET Agent, work : SUBSET Agent,
          parked : SUBSET Agent, before : SUBSET (Agent \X Agent),
          lent : SUBSET Child, byStep : SUBSET Child,
          flows : SUBSET Agent, spent : BOOLEAN]

\* Every variable stays in its type, and only running agents are aborted.
TypeOK ==
  /\ tree \in Trees
  /\ foreground \subseteq Child /\ aborting \subseteq tree.running
  /\ started \in 0..MaxTotal /\ wakes \in [Agent -> 0..MaxWakes]
  /\ tasks \in 0..MaxTasks /\ born \in 0..MaxChildren

\* No lost wake-up: whoever is parked may not run.  Every step that frees a
\* slot, lends one or lifts the cap has started as many as it could; and as
\* the slots are held by agents that wait for nobody, no set of parked and
\* waiting agents blocks itself.
NoIdleSlot ==
  \A a \in tree.parked :
    IF a = Root THEN tree.spent
    ELSE Cardinality({c \in Child : Holds(c)}) >= MaxActive

\* Whoever is waited for runs or will, and its waiter is there: a step's wait
\* belongs to an agent that runs, a workflow's to a job not ended.  So no wait
\* is for ever, and no slot is lent for nothing.  The one exception is a
\* workflow of the root whose workers the user's stop disposed of: it waits
\* for what has left the tree until it is killed or over its time.
\* (And TypeOK, with the bound on wakes.)
NoForgottenWait == TypeOK /\
  \A c \in tree.lent :
    \/ /\ c \in tree.live \intersect foreground
       /\ c \in tree.running \/ (c \in tree.parked /\ c \in tree.work)
       /\ IF c \in tree.byStep THEN tree.parent[c] \in tree.running
          ELSE tree.parent[c]
                 \in tree.flows \intersect (tree.live \union {Root})
    \/ /\ c \notin tree.live \union tree.byStep
       /\ tree.parent[c] = Root /\ Root \in tree.flows

\* Slots go to the agents in the order they asked (task-tree.ts:428): a
\* subagent starts only when every subagent parked before it starts too, has
\* nothing to do or has left the tree.
OldestFirst ==
  [][\A c \in Child \intersect (tree'.running \ tree.running) :
       \A a \in (tree.parked \intersect tree'.parked) \ {Root, c} :
         <<c, a>> \in tree.before]_vars

\* Once the cap is reached nothing wakes the root before the user's next
\* message (task-tree.ts:18).
SpentTaskStaysDown ==
  [][tree.spent /\ tasks' = tasks /\ Root \notin tree.running =>
       Root \notin tree'.running]_vars
=============================================================================
