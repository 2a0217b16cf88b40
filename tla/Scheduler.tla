----------------------------- MODULE Scheduler -----------------------------
(***************************************************************************)
(* The scheduler of one process (scheduler/service.ts) over its durable    *)
(* store (store.ts), its run pool (run-pool.ts) and the misfire decisions  *)
(* (misfire.ts): jobs become due, are admitted, queue, run and are         *)
(* recorded, while the user edits them, writes fail, the computer sleeps   *)
(* and the process stops or dies.                                          *)
(*                                                                         *)
(* Every operation is synchronous up to an await, and so one step.  The    *)
(* jobs, the runs in memory and inFlightJobIds change together in most of  *)
(* them: a *world* is the record of the three, and the operators below     *)
(* take a world to the next.                                               *)
(***************************************************************************)
EXTENDS Integers, FiniteSets, FiniteSetsExt, Folds

CONSTANTS
  Jobs,           \* job ids, as numbers: their order is localeCompare's
  System,         \* the jobs registerSystemJobs registers, which recur
  Known,          \* those an earlier process left in the store, due at 1
  Owner,          \* the owner key of each job
  Policy,         \* the misfire policy of each job
  OneShot,        \* the jobs with deleteAfterRun
  MaxConcurrent, MaxPerOwner, MaxQueued,   \* the limits of the pool
  Interval,       \* every_ms of the recurring schedules
  Grace,          \* SCHEDULER_WAKE_GRACE_MS
  MaxSleep,       \* maxSleepMs
  MaxTime,        \* bound on the clock
  MaxCalls,       \* bound on the calls of users
  MaxFaults,      \* bound on failed writes
  MaxEnds,        \* bound on stops and process ends
  MaxEvents       \* bound on the three together

ASSUME JobsAssumption ==
  /\ Jobs \subseteq Nat /\ IsFiniteSet(Jobs)
  /\ System \subseteq Jobs /\ Known \subseteq System
ASSUME LimitsAssumption ==
  /\ {MaxConcurrent, MaxPerOwner, MaxQueued, Interval} \subseteq Nat \ {0}
  /\ {Grace, MaxSleep, MaxTime, MaxCalls, MaxFaults, MaxEnds} \subseteq Nat
  /\ Policy \in [Jobs -> {"skip", "latest", "catch-up-one"}]

VARIABLES
  now,        \* the clock
  job,        \* the store: snapshot and journal together
  svc,        \* "new": accepting calls, but not started (another process may
              \* hold the lock); then "running", "stopping", "stopped"
  locked,     \* the service holds scheduler.lock
  timer,      \* when the armed timer fires
  run,        \* the run of each job in memory, in the pool or on its way out
  flight,     \* inFlightJobIds
  begun,      \* history: the last occurrence whose body began by itself
  swapped,    \* history: jobs edited, or paused and resumed, during a run:
              \* nobody computed the time it leaves them with
  calls, faults, ends     \* counters for the bounds

counts == <<calls, faults, ends>>
vars   == <<now, job, svc, locked, timer, run, flight, begun, swapped, counts>>

NoTime  == -1
Moments == NoTime..(MaxTime + Interval)

\* The fields of active_run that decide something.  A run is named by its
\* trigger and its occurrence (run_id in the code).
NoRun == [trigger |-> "none", sched |-> NoTime, resume |-> NoTime, phase |-> "none"]
Queued(trigger, sched, resume) ==
  [trigger |-> trigger, sched |-> sched, resume |-> resume, phase |-> "queued"]

\* A job with at = NoTime recurs ("every"); others run once, at that time.
Blank == [life |-> "none", on |-> FALSE, at |-> NoTime, next |-> NoTime,
          active |-> NoRun, pending |-> NoTime]

Fresh == [Blank EXCEPT !.life = "live", !.on = TRUE]

NotRunning == [state |-> "none", trigger |-> "none", sched |-> NoTime,
               aborted |-> FALSE]
InPool     == {"starting", "refused", "executing"}

World == [job |-> job, run |-> run, flight |-> flight]

Becomes(w) == job' = w.job /\ run' = w.run /\ flight' = w.flight

Live(w)     == {j \in Jobs : w.job[j].life = "live"}
Accepting   == svc \in {"new", "running"}
Recurs(r)   == r.at = NoTime
Names(a, m) == a.trigger = m.trigger /\ a.sched = m.sched

\* The bound on everything from outside but the clock and the start.
Quiet == calls + faults + ends < MaxEvents

Last(S, before(_, _)) == CHOOSE j \in S : \A i \in S \ {j} : before(i, j)

\* A loop: the step of each job of S, in their order, from world w.
InTurn(step(_, _), w, S, before(_, _)) ==
  MapThenFoldSet(LAMBDA j, u : step(u, j), w,
                 LAMBDA j : j, LAMBDA T : Last(T, before), S)

Init == /\ now = 0 /\ svc = "new" /\ locked = FALSE /\ timer = NoTime
        /\ job = [j \in Jobs |-> IF j \in Known THEN [Fresh EXCEPT !.next = 1] ELSE Blank]
        /\ run = [j \in Jobs |-> NotRunning]
        /\ flight = {} /\ swapped = {}
        /\ begun = [j \in Jobs |-> NoTime]
        /\ calls = 0 /\ faults = 0 /\ ends = 0

-----------------------------------------------------------------------------
(***************************************************************************)
(* Times: computeNextRunMs, nextStrictlyAfter, occurrenceWindow and the    *)
(* decision about a missed occurrence.                                     *)
(***************************************************************************)

ComputeNext(r) ==
  IF Recurs(r) THEN now + Interval
  ELSE IF r.at > now THEN r.at ELSE NoTime

NextAfter(r, sched) ==
  IF Recurs(r)
  THEN sched + Max({1, (now - sched) \div Interval + 1}) * Interval
  ELSE NoTime

LatestMissed(r, first) ==
  IF Recurs(r) THEN first + ((now - first) \div Interval) * Interval ELSE first

\* Mutant of NextFuture: the latest missed occurrence again.
NextFutureAgain(r, first) ==
  IF Recurs(r) THEN LatestMissed(r, first) ELSE NoTime

NextFuture(r, first) ==
  IF Recurs(r) THEN LatestMissed(r, first) + Interval ELSE NoTime

Decision(r, policy) ==
  IF r.next = NoTime
  THEN [kind |-> "none", sched |-> NoTime, next |-> ComputeNext(r)]
  ELSE IF r.next >= now
  THEN [kind |-> "none", sched |-> NoTime, next |-> r.next]
  ELSE [kind  |-> IF policy = "skip" THEN "skip" ELSE "queue",
        sched |-> IF policy = "latest" THEN LatestMissed(r, r.next) ELSE r.next,
        next  |-> NextFuture(r, r.next)]

-----------------------------------------------------------------------------
(***************************************************************************)
(* The pool.  F is the set of jobs whose write of "running" fails.         *)
(***************************************************************************)

InState(w, S) == {j \in Jobs : w.run[j].state \in S}

HasRoom(w, j) ==
  LET active == InState(w, InPool)
  IN  /\ Cardinality(active) < MaxConcurrent
      /\ Cardinality({i \in active : Owner[i] = Owner[j]}) < MaxPerOwner

\* start, and markRunRunning up to its await.
Begin(w, j, F) ==
  LET r == w.job[j]
  IN  IF /\ Names(r.active, w.run[j])
         /\ r.on \/ r.active.trigger = "manual"
         /\ j \notin F
      THEN [w EXCEPT !.job[j].active.phase = "running",
                     !.run[j].state = "starting"]
      ELSE [w EXCEPT !.run[j].state = "refused"]

\* compareQueuedRuns.
Before(w, i, j) ==
  \/ w.run[i].sched < w.run[j].sched
  \/ w.run[i].sched = w.run[j].sched /\ i < j

BeginIfRoom(w, j, F) == IF HasRoom(w, j) THEN Begin(w, j, F) ELSE w

Pump(w, F) ==
  InTurn(LAMBDA u, j : BeginIfRoom(u, j, F), w, InState(w, {"queued"}),
         LAMBDA i, j : Before(w, i, j))

\* A run over the capacity leaves at once, rejected.
Enqueue(w, j, a, F) ==
  LET m == [state |-> "queued", trigger |-> a.trigger, sched |-> a.sched,
            aborted |-> FALSE]
      u == Pump([w EXCEPT !.run[j] = m], F)
  IN  IF j \in InState(u, {"queued"})
         /\ Cardinality(InState(u, {"queued"})) > MaxQueued
      THEN [u EXCEPT !.run[j].state = "settled"]
      ELSE u

CancelQueued(w, S) ==
  [w EXCEPT !.run = [j \in Jobs |->
     IF j \in S /\ w.run[j].state = "queued"
     THEN [w.run[j] EXCEPT !.state = "settled"] ELSE w.run[j]]]

-----------------------------------------------------------------------------
(***************************************************************************)
(* Admission: admitDurableRun, with and without its write.                 *)
(***************************************************************************)

Claim(w, j) == [w EXCEPT !.flight = @ \union {j}]

Persist(w, j, a) ==
  [w EXCEPT !.job[j].pending = NoTime, !.job[j].active = a, !.job[j].next = NoTime]

Admit(w, j, a, F) ==
  IF j \in w.flight THEN w ELSE Enqueue(Persist(Claim(w, j), j, a), j, a, F)

Readmit(w, j, F) ==
  IF j \in w.flight THEN w ELSE Enqueue(Claim(w, j), j, w.job[j].active, F)

\* The write of an admission fails: the exception passes the claim by.
AdmitFails(w, j) == Claim(w, j)

Eligible(w) ==
  {j \in Live(w) : w.job[j].on /\ w.job[j].active = NoRun /\ w.job[j].next # NoTime}

DueJobs(w) == {j \in Eligible(w) : w.job[j].next <= now}

\* armTimer of a running service: the next wake, at most MaxSleep away.
WakeTime(w) ==
  Min({now + MaxSleep} \union {Max({now, w.job[j].next}) : j \in Eligible(w)})

Arm(w) == timer' = IF svc = "running" THEN WakeTime(w) ELSE timer

\* The next write of "running" may fail; if it does, a run was refused.
MarkFaults(w, F) ==
  /\ \A j \in F : w.run[j].state = "refused" /\ run[j].state # "refused"
  /\ faults' = faults + Cardinality(F)

Faulty == {{}} \union {{j} : j \in {i \in Jobs : faults < MaxFaults /\ Quiet}}

-----------------------------------------------------------------------------
(***************************************************************************)
(* One tick of the timer: admitDueJobs and admitWakeMisfire.               *)
(***************************************************************************)

DueBefore(w, i, j) ==
  \/ w.job[i].next < w.job[j].next
  \/ w.job[i].next = w.job[j].next /\ i < j

Late(r) == now - r.next > Grace

\* What a due job is admitted as.
DueRun(r, policy) ==
  IF Late(r)
  THEN LET d == Decision(r, policy) IN Queued("misfire", d.sched, d.next)
  ELSE Queued("timer", r.next, NextAfter(r, r.next))

Consider(w, j, F) ==
  LET r == w.job[j]
  IN  IF j \in w.flight THEN w
      ELSE IF Late(r) /\ Policy[j] = "skip"
      THEN [w EXCEPT !.job[j] = [r EXCEPT !.next = NextFuture(r, r.next),
                                          !.on   = Recurs(r)]]
      ELSE Admit(w, j, DueRun(r, Policy[j]), F)

ConsiderAll(w, S, F) ==
  InTurn(LAMBDA u, j : Consider(u, j, F), w, S, LAMBDA i, j : DueBefore(w, i, j))

TimerDue == svc = "running" /\ timer # NoTime /\ timer <= now

Tick ==
  /\ TimerDue
  /\ \E F \in Faulty :
       LET w == ConsiderAll(World, DueJobs(World), F)
       IN  /\ MarkFaults(w, F) /\ Becomes(w) /\ Arm(w)
  /\ UNCHANGED <<now, svc, locked, begun, swapped, calls, ends>>

\* A write of the tick fails: the jobs before were admitted, the rest wait
\* for the next tick, which is armed all the same.
TickFails ==
  /\ TimerDue
  /\ faults < MaxFaults /\ Quiet /\ faults' = faults + 1
  /\ \E j \in DueJobs(World) \ flight :
       LET S == {i \in DueJobs(World) : DueBefore(World, i, j)}
           w == ConsiderAll(World, S, {})
           u == IF Late(w.job[j]) /\ Policy[j] = "skip" THEN w
                ELSE AdmitFails(w, j)
       IN  Becomes(u) /\ Arm(u)
  /\ UNCHANGED <<now, svc, locked, begun, swapped, calls, ends>>

-----------------------------------------------------------------------------
(***************************************************************************)
(* The life of a run: finishRun, finalizeRun and the end of its bodies.    *)
(***************************************************************************)

\* Mutant of PumpIfOpen: the end of a run does not pump.
PumpNever(w, F) == w

PumpIfOpen(w, F) == IF Accepting THEN Pump(w, F) ELSE w

\* run_scheduler_start was emitted: the body begins.
BodyBegins(j) ==
  /\ run[j].state = "starting" /\ ~run[j].aborted
  /\ run' = [run EXCEPT ![j].state = "executing"]
  /\ begun' = IF run[j].trigger = "manual" THEN begun
              ELSE [begun EXCEPT ![j] = run[j].sched]
  /\ UNCHANGED <<now, job, svc, locked, timer, flight, swapped, counts>>

\* The execution settles: the body returned or threw, the mark was refused
\* or could not be emitted, or the run was aborted before its body.
Settle(j) ==
  /\ run[j].state \in InPool
  /\ \E F \in Faulty :
       LET w == PumpIfOpen([World EXCEPT !.run[j].state = "settled"], F)
       IN  MarkFaults(w, F) /\ Becomes(w)
  /\ UNCHANGED <<now, svc, locked, timer, begun, swapped, calls, ends>>

\* Mutant of Finalized: it does not compare the run with the durable one.
FinalizedUnchecked(w, j) ==
  [w EXCEPT !.job[j].active = NoRun, !.job[j].pending = NoTime,
            !.job[j].next = NoTime]

\* finalizeRun up to its emit: nothing, when the run is not the durable one.
Finalized(w, j) ==
  LET r   == w.job[j]
      own == ~Recurs(r) /\ r.active.trigger # "manual"
      end == IF own
             THEN IF j \in OneShot THEN [Blank EXCEPT !.life = "gone"]
                  ELSE [r EXCEPT !.active = NoRun, !.pending = NoTime,
                                 !.next = NoTime, !.on = FALSE]
             ELSE [r EXCEPT !.active = NoRun, !.pending = NoTime,
                            !.next = IF r.on THEN r.active.resume ELSE NoTime]
  IN  IF Names(r.active, w.run[j]) THEN [w EXCEPT !.job[j] = end] ELSE w

Ended(w, j) == [w EXCEPT !.run[j].state = "ended"]

Finalize(j) ==
  /\ run[j].state = "settled"
  /\ \/ Becomes(Ended(Finalized(World, j), j)) /\ UNCHANGED faults
     \/ /\ Names(job[j].active, run[j])
        /\ faults < MaxFaults /\ Quiet /\ faults' = faults + 1
        /\ Becomes(Ended(World, j))
  /\ UNCHANGED <<now, svc, locked, timer, begun, swapped, calls, ends>>

\* The event is out (or failed): the finally of finishRun.
LeaveFlight(j) ==
  /\ run[j].state = "ended"
  /\ LET w == [World EXCEPT !.run[j] = NotRunning, !.flight = @ \ {j}]
     IN  Becomes(w) /\ Arm(w)
  /\ UNCHANGED <<now, svc, locked, begun, swapped, counts>>

-----------------------------------------------------------------------------
(***************************************************************************)
(* The calls of users, of tools and of the page.                           *)
(***************************************************************************)

Call == calls < MaxCalls /\ Quiet /\ calls' = calls + 1

Upsert(j, r) == [World EXCEPT !.job[j] = r]

\* The schedules a user names: a recurring one, or a time just ahead.
AtTimes == {NoTime, now + 1}

AddJob(j, at) ==
  /\ Call
  /\ job[j].life = "none" /\ j \notin System
  /\ LET r == [Fresh EXCEPT !.at = at]
         w == Upsert(j, [r EXCEPT !.next = ComputeNext(r)])
     IN  Becomes(w) /\ Arm(w)
  /\ UNCHANGED <<now, svc, locked, begun, swapped, faults, ends>>

\* updateJob with a new schedule: next_run_at_ms is left to a run under way.
UpdateJob(j, at) ==
  /\ Call
  /\ job[j].life = "live" /\ j \notin System
  /\ LET r == [job[j] EXCEPT !.at = at]
         w == Upsert(j, IF r.active = NoRun
                        THEN [r EXCEPT !.next = ComputeNext(r)] ELSE r)
     IN  Becomes(w) /\ Arm(w)
  /\ swapped' = IF job[j].active = NoRun THEN swapped \ {j}
                ELSE swapped \union {j}
  /\ UNCHANGED <<now, svc, locked, begun, faults, ends>>

PauseJob(j) ==
  /\ Call
  /\ job[j].life = "live"
  /\ LET u == Upsert(j, [job[j] EXCEPT !.on = FALSE, !.next = NoTime])
         w == IF job[j].active.phase = "queued" THEN CancelQueued(u, {j}) ELSE u
     IN  Becomes(w) /\ Arm(w)
  /\ UNCHANGED <<now, svc, locked, begun, swapped, faults, ends>>

ResumeJob(j) ==
  /\ Call
  /\ job[j].life = "live"
  /\ LET r == [job[j] EXCEPT !.on = TRUE]
         w == Upsert(j, IF r.active = NoRun
                        THEN [r EXCEPT !.next = ComputeNext(r)] ELSE r)
     IN  Becomes(w) /\ Arm(w)
  /\ swapped' = IF job[j].active = NoRun THEN swapped \ {j}
                ELSE IF job[j].active.resume = NoTime THEN swapped \union {j}
                ELSE swapped
  /\ UNCHANGED <<now, svc, locked, begun, faults, ends>>

\* Mutant of RemoveJob: a job that runs may be removed.
RemoveJobRunning(j) ==
  /\ Call
  /\ job[j].life = "live" /\ j \notin System
  /\ LET w == Upsert(j, [Blank EXCEPT !.life = "gone"])
     IN  Becomes(CancelQueued(w, {j})) /\ Arm(w)
  /\ UNCHANGED <<now, svc, locked, begun, swapped, faults, ends>>

RemoveJob(j) ==
  /\ Call
  /\ job[j].life = "live" /\ j \notin System
  /\ job[j].active.phase # "running"
  /\ LET u == Upsert(j, [Blank EXCEPT !.life = "gone"])
         w == IF job[j].active.phase = "queued" THEN CancelQueued(u, {j}) ELSE u
     IN  Becomes(w) /\ Arm(w)
  /\ UNCHANGED <<now, svc, locked, begun, swapped, faults, ends>>

CancelQueuedJob(j) ==
  /\ Call
  /\ job[j].active.phase = "queued" /\ run[j].state = "queued"
  /\ Names(job[j].active, run[j])
  /\ Becomes(CancelQueued(World, {j}))
  /\ UNCHANGED <<now, svc, locked, timer, begun, swapped, faults, ends>>

\* runJob with force, as the page and the tool call it.
RunJob(j) ==
  /\ Call
  /\ Accepting /\ job[j].life = "live"
  /\ job[j].active = NoRun /\ j \notin flight
  /\ \/ \E F \in Faulty :
          LET w == Admit(World, j, Queued("manual", now, job[j].next), F)
          IN  MarkFaults(w, F) /\ Becomes(w)
     \/ /\ faults < MaxFaults /\ Quiet /\ faults' = faults + 1
        /\ Becomes(AdmitFails(World, j))
  /\ UNCHANGED <<now, svc, locked, timer, begun, swapped, ends>>

-----------------------------------------------------------------------------
(***************************************************************************)
(* Start, stop, the end of the process, the clock.                         *)
(***************************************************************************)

\* registerSystemJobs.
Registered(j, r) ==
  IF j \notin System THEN r
  ELSE IF r.life = "none"
  THEN [Fresh EXCEPT !.next = ComputeNext(Fresh)]
  ELSE IF r.on /\ r.active = NoRun /\ r.pending = NoTime /\ r.next = NoTime
  THEN [r EXCEPT !.next = ComputeNext(r)]
  ELSE r

\* reconcileStartup for one job.
Reconciled(r, policy) ==
  LET clear == [r EXCEPT !.active = NoRun, !.pending = NoTime]
      d     == Decision(r, policy)
  IN  IF r.life # "live" THEN r
      ELSE CASE r.active.phase = "running" ->
                [clear EXCEPT !.next = IF r.on THEN r.active.resume ELSE NoTime]
           [] r.active.phase = "queued" ->
                IF r.on THEN r ELSE [clear EXCEPT !.next = NoTime]
           [] OTHER ->
                IF ~r.on THEN [r EXCEPT !.next = NoTime]
                ELSE IF r.pending # NoTime THEN r
                ELSE CASE d.kind = "none"  -> [r EXCEPT !.next = d.next]
                       [] d.kind = "skip"  -> [r EXCEPT !.next = d.next,
                                                        !.on = Recurs(r)]
                       [] d.kind = "queue" -> [r EXCEPT !.next = d.next,
                                                        !.pending = d.sched]

Loaded == [World EXCEPT !.job =
             [j \in Jobs |-> Reconciled(Registered(j, job[j]), Policy[j])]]

\* Mutant of Readmitted: the runs that were queued are forgotten.
ReadmittedNone(w, F) == w

Readmitted(w, F) ==
  InTurn(LAMBDA u, j : Readmit(u, j, F), w,
         {j \in Jobs : w.job[j].active.phase = "queued"}, LAMBDA i, j : i < j)

\* promotePendingMisfire, in the order of listJobs.
Overdue(w) ==
  {j \in Live(w) : w.job[j].pending # NoTime /\ w.job[j].active = NoRun /\ w.job[j].on}

ListKey(w, j) ==
  IF w.job[j].next = NoTime THEN MaxTime + Interval + 1 ELSE w.job[j].next

ListedBefore(w, i, j) ==
  \/ ListKey(w, i) < ListKey(w, j)
  \/ ListKey(w, i) = ListKey(w, j) /\ i < j

Promote(w, j, F) ==
  Admit(w, j, Queued("misfire", w.job[j].pending, w.job[j].next), F)

PromoteAll(w, S, F) ==
  InTurn(LAMBDA u, j : Promote(u, j, F), w, S, LAMBDA i, j : ListedBefore(w, i, j))

MayStart == svc \in {"new", "stopped"}

Start ==
  /\ MayStart
  /\ \E F \in Faulty :
       LET u == Readmitted(Loaded, F)
           w == PromoteAll(u, Overdue(u), F)
       IN  /\ MarkFaults(w, F) /\ Becomes(w)
           /\ timer' = WakeTime(w)
  /\ svc' = "running" /\ locked' = TRUE
  /\ swapped' = {j \in swapped : \/ job[j].active # NoRun \/ job[j].next # NoTime
                                 \/ job[j].pending # NoTime}
  /\ UNCHANGED <<now, begun, calls, ends>>

\* The write of a promotion fails: start gives the lock back and rethrows,
\* but the service is already marked running.
StartFails ==
  /\ MayStart
  /\ faults < MaxFaults /\ Quiet /\ faults' = faults + 1
  /\ LET u == Readmitted(Loaded, {})
     IN  \E j \in Overdue(u) \ u.flight :
           LET S == {i \in Overdue(u) : ListedBefore(u, i, j)}
           IN  Becomes(AdmitFails(PromoteAll(u, S, {}), j))
  /\ svc' = "running" /\ locked' = FALSE
  /\ UNCHANGED <<now, timer, begun, swapped, calls, ends>>

Stop ==
  /\ Accepting
  /\ ends < MaxEnds /\ Quiet /\ ends' = ends + 1
  /\ svc' = "stopping" /\ locked' = FALSE /\ timer' = NoTime
  /\ LET w == CancelQueued(World, Jobs)
     IN  Becomes([w EXCEPT !.run = [j \in Jobs |->
                    [w.run[j] EXCEPT !.aborted = @ \/ w.run[j].state \in InPool]]])
  /\ UNCHANGED <<now, begun, swapped, calls, faults>>

Drained ==
  /\ svc = "stopping" /\ \A j \in Jobs : run[j] = NotRunning
  /\ svc' = "stopped"
  /\ UNCHANGED <<now, job, locked, timer, run, flight, begun, swapped, counts>>

\* The process dies; the store survives.
Crash ==
  /\ ends < MaxEnds /\ Quiet /\ ends' = ends + 1
  /\ svc' = "new" /\ locked' = FALSE /\ timer' = NoTime
  /\ run' = [j \in Jobs |-> NotRunning] /\ flight' = {}
  /\ UNCHANGED <<now, job, begun, swapped, calls, faults>>

\* Time passes, at any pace: the computer may be asleep.
ClockAdvances ==
  /\ now < MaxTime /\ now' = now + 1
  /\ UNCHANGED <<job, svc, locked, timer, run, flight, begun, swapped, counts>>

-----------------------------------------------------------------------------
Calls == \E j \in Jobs :
  \/ \E at \in AtTimes : AddJob(j, at) \/ UpdateJob(j, at)
  \/ PauseJob(j) \/ ResumeJob(j) \/ RemoveJob(j)
  \/ CancelQueuedJob(j) \/ RunJob(j)

RunSteps(j) == BodyBegins(j) \/ Settle(j) \/ Finalize(j) \/ LeaveFlight(j)

Next == \/ Calls
        \/ \E j \in Jobs : RunSteps(j)
        \/ Tick \/ TickFails
        \/ Start \/ StartFails \/ Stop \/ Drained
        \/ Crash \/ ClockAdvances

Spec == Init /\ [][Next]_vars

-----------------------------------------------------------------------------
RunType == [trigger : {"none", "timer", "manual", "misfire"}, sched : Moments,
            resume : Moments, phase : {"none", "queued", "running"}]
JobType == [life : {"none", "live", "gone"}, on : BOOLEAN, at : Moments,
            next : Moments, active : RunType, pending : Moments]
States  == {"none", "queued", "settled", "ended"} \union InPool

TypeOK ==
  /\ now \in 0..MaxTime /\ timer \in Moments \union 0..(MaxTime + MaxSleep)
  /\ job \in [Jobs -> JobType]
  /\ svc \in {"new", "running", "stopping", "stopped"} /\ locked \in BOOLEAN
  /\ \A j \in Jobs : run[j].state \in States /\ run[j].sched \in Moments
  /\ flight \subseteq Jobs /\ swapped \subseteq Jobs
  /\ begun \in [Jobs -> Moments]
  /\ calls \in 0..MaxCalls /\ faults \in 0..MaxFaults /\ ends \in 0..MaxEnds

\* A run in memory is claimed; as long as no write failed, every claim has
\* its run, and every run the store calls active is in memory while the
\* service runs: nothing is stuck in the store.
Claims ==
  /\ \A j \in Jobs : run[j] # NotRunning => j \in flight
  /\ faults = 0 =>
       /\ \A j \in flight : run[j] # NotRunning
       /\ \A j \in Live(World) :
            svc = "running" /\ job[j].active # NoRun => Names(job[j].active, run[j])

IInv == TypeOK /\ Claims

\* The limits hold after every step, and as long as the pool is open no
\* queued run waits beside room for it (run-pool.ts:179).
PoolIsFull ==
  LET active == InState(World, InPool)
      queued == InState(World, {"queued"})
  IN  /\ Cardinality(active) <= MaxConcurrent
      /\ \A i \in active :
           Cardinality({j \in active : Owner[j] = Owner[i]}) <= MaxPerOwner
      /\ Cardinality(queued) <= MaxQueued
      /\ Accepting => \A j \in queued : ~HasRoom(World, j)

\* What executes is what the store calls running, so that a later process
\* sees that it was cut short.  No call, no tick and no failed write takes
\* the record from under the body; a late start does: it cannot tell this
\* process's runs from those of a process that died (service.ts:576).
Recorded(j) == job[j].active.phase = "running" /\ Names(job[j].active, run[j])

OnlyStartForgets ==
  [][svc' = svc =>
       \A j \in Jobs :
         run[j].state = "executing" /\ run'[j].state = "executing" /\ Recorded(j)
           => Recorded(j)']_vars

\* An enabled job that has a time to come is scheduled, running or about to
\* run.
Scheduled(j) ==
  \/ job[j].next # NoTime \/ job[j].active # NoRun \/ job[j].pending # NoTime
WantsRuns(j) == job[j].life = "live" /\ job[j].on /\ (Recurs(job[j]) \/ job[j].at > now)

\* No job that wants to run is forgotten, unless during a run its schedule was
\* edited, or it was resumed after a pause had taken the time the run carries:
\* it has a time, and a running service always has a timer that fires when, or
\* before, the next job is due; a job that waits for its last run to leave is
\* armed then.
NoStrandedJob ==
  /\ svc = "running" => \A j \in Jobs \ swapped : WantsRuns(j) => Scheduled(j)
  /\ svc = "running" /\ locked =>
       /\ timer # NoTime
       /\ \A j \in Eligible(World) \ flight : timer <= Max({now, job[j].next})

\* "every: runs at a fixed interval" (docs/user/automation-collaboration.md:31).
EditedJobsRun ==
  svc = "running" => \A j \in Jobs : WantsRuns(j) => Scheduled(j)

\* An occurrence begins at most once, whatever was missed, restarted or run
\* by hand in between: runs that begin by themselves move on in time.
OccurrenceOnce ==
  [][\A j \in Jobs :
       run'[j].state = "executing" /\ run[j].state # "executing"
         => run'[j].trigger = "manual" \/ run'[j].sched > begun[j]]_vars
=============================================================================
