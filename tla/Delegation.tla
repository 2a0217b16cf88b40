----------------------------- MODULE Delegation -----------------------------
(***************************************************************************)
(* One conversation with an external executor: the delegation service      *)
(* (harness/delegation/service.ts) over the conversation's journal         *)
(* (fold.ts, journal.ts) and the outbox of its parent (notices.ts).        *)
(*                                                                         *)
(* The journal is synchronous: what a serial section appends is one step,  *)
(* survives a crash, and nothing else runs in between.  The sections that  *)
(* wait for the executor while they hold the conversation (a steer, an     *)
(* answer) are split at that wait: holder names the one that does.         *)
(* Messages are numbered in the order in which they are enqueued, runs in  *)
(* the order of their generations; message 1 starts the conversation.      *)
(* The conversation writes, so that a run holds its workspace.             *)
(***************************************************************************)
EXTENDS Naturals, Sequences, FiniteSets

CONSTANTS
  MaxMsgs,      \* bound on the messages sent
  MaxCrashes    \* bound on the process ends

ASSUME DelegationAssumption ==
  MaxMsgs \in Nat \ {0} /\ MaxCrashes \in Nat

Messages == 1..MaxMsgs
\* A message left behind by a crash starts another run: see Restart.
Runs     == 1..MaxMsgs + MaxCrashes

VARIABLES
  \* The journal.
  run,          \* the last run: see NewRun; of earlier ones nothing is read
  msg,          \* status of each message
  avail,        \* record.availability
  paused,       \* record.dispatchPaused
  bound,        \* record.providerSessionId is known
  leased,       \* record.workspaceLeaseId is known
  ask,          \* the interaction of the current run
  \* The world.
  alive,        \* runs whose process lives
  gone,         \* the workspace was retired
  \* The notices of the runs.
  note,         \* state of each run's notice in the journal
  inbox,        \* how often each notice entered the parent's inbox
  telling,      \* notices a dispatchNotices() still has to look at
  marking,      \* the notice handed over but not yet marked
  \* The service.
  up,           \* Emperor runs
  stop,         \* e.stop
  hush,         \* e.noticesHeld
  held,         \* e.held: the last run has no outcome; is it quiescent?
  holder,       \* who waits for the executor inside e.tail
  ex,           \* execute(): see Started
  decision,     \* the apply or discard under the result lock
  closing,      \* the run whose end close() waits for
  \* History.
  crashes,
  handed,       \* how often each message was given to the provider
  barred,       \* messages that a stop found not yet given
  released      \* runs ended by the user while their process lived

journal == <<run, msg, avail, paused, bound, leased, ask>>
world   == <<alive, gone>>
notices == <<note, inbox, telling, marking>>
service == <<up, stop, hush, held, holder, ex, decision, closing>>
history == <<crashes, handed, barred, released>>
vars    == <<journal, world, notices, service, history>>

Final == {"completed", "failed", "cancelled", "interrupted",
          "outcome_unknown"}

RunTransitions ==
  [queued        |-> {"preparing", "cancelled"},
   preparing     |-> {"running", "cancelling", "failed", "interrupted",
                      "outcome_unknown"},
   running       |-> {"waiting_input", "cancelling", "completed", "failed",
                      "interrupted", "outcome_unknown"},
   waiting_input |-> {"running", "cancelling", "interrupted",
                      "outcome_unknown"},
   cancelling    |-> {"cancelled", "completed", "interrupted",
                      "outcome_unknown"}]

Phases   == DOMAIN RunTransitions \cup Final
Statuses == {"new", "queued", "sending", "accepted", "delivery_unknown",
             "cancelled"}

NewRun(n, m) ==
  [id |-> n, msg |-> m, phase |-> "queued", process |-> FALSE,
   inspected |-> FALSE, resolved |-> FALSE, result |-> FALSE]

\* execute() and what e keeps for it.  pc: "off" for no e.active, "asking"
\* and "refused" before the conversation exists.
Started ==
  [pc |-> "wait", sent |-> FALSE, accepted |-> FALSE, status |-> "none",
   aborted |-> FALSE, quiescent |-> TRUE, lease |-> FALSE, failure |-> FALSE]
Off == [Started EXCEPT !.pc = "off"]

NoDecision == [run |-> 0, step |-> "none"]

Open    == run.id # 0 /\ up
Settled == run.phase \in Final
Active  == ex.pc # "off"
Free    == holder = "none"
\* e.session is set.
Session == ex.pc \in {"intent", "submit", "turn", "close"}

Queued       == {m \in Messages : msg[m] = "queued"}
Undelivered  == {m \in Messages : msg[m] # "new" /\ handed[m] = 0}
Least(S)     == CHOOSE m \in S : \A n \in S : m <= n
Cancelled(S) == [m \in Messages |-> IF m \in S THEN "cancelled" ELSE msg[m]]
Patched(p)   == [run EXCEPT !.phase = p]
NextMessage(m) == msg[m] = "new" /\ \A n \in 1..m - 1 : msg[n] # "new"
Untold       == {r \in Runs : note[r] = "pending"}
Waiting      == ask = "pending"

\* A run's phase decides the availability of an open conversation.
AvailAfter(p) ==
  IF avail = "closed" \/ p \notin Final THEN avail
  ELSE IF p = "outcome_unknown" THEN "needs_recovery" ELSE "idle"

Init ==
  /\ run = NewRun(0, 1) /\ msg = [m \in Messages |-> "new"]
  /\ avail = "idle" /\ paused = FALSE /\ bound = FALSE /\ leased = FALSE
  /\ ask = "none"
  /\ alive = {} /\ gone = FALSE
  /\ note = [r \in Runs |-> "none"] /\ inbox = [r \in Runs |-> 0]
  /\ telling = {} /\ marking = 0
  /\ up = TRUE /\ stop = FALSE /\ hush = FALSE /\ held = "none"
  /\ holder = "none" /\ ex = [Off EXCEPT !.pc = "asking"]
  /\ decision = NoDecision /\ closing = 0
  /\ crashes = 0 /\ handed = [m \in Messages |-> 0]
  /\ barred = {} /\ released = {}
-----------------------------------------------------------------------------
(***************************************************************************)
(* The queue.                                                              *)
(***************************************************************************)
\* pump(): the oldest queued message starts a run, unless the queue waits.
\* (Runs is never the reason: DelegationProofs shows that a message that waits
\* always has a run left.)
PumpForgets(r, ms, av, stopped, waits, closes) ==
  /\ run' = r /\ avail' = IF closes THEN "closed" ELSE av
  /\ ex' = Off /\ UNCHANGED ask

Pump(r, ms, av, stopped, waits, closes) ==
  LET queue  == {m \in Messages : ms[m] = "queued"}
      starts == /\ queue # {} /\ ~stopped /\ ~waits /\ r.id + 1 \in Runs
                /\ av \notin {"closed", "needs_recovery"}
  IN /\ run' = IF starts THEN NewRun(r.id + 1, Least(queue)) ELSE r
     /\ avail' = IF closes THEN "closed" ELSE IF starts THEN "active" ELSE av
     /\ ex' = IF starts THEN Started ELSE Off
     /\ ask' = IF starts THEN "none" ELSE ask

\* create(), once the user allowed the executor and the root was not stopped.
Create ==
  /\ ex.pc = "asking"
  /\ msg' = [msg EXCEPT ![1] = "queued"]
  /\ run' = NewRun(1, 1) /\ avail' = "active" /\ ex' = Started
  /\ UNCHANGED <<paused, bound, leased, ask, world, notices, up, stop, hush,
                 held, holder, decision, closing, history>>

\* The user does not allow it, or stopRoot() came first and create() sees the
\* new epoch.
Refuse ==
  /\ ex.pc = "asking"
  /\ ex' = [ex EXCEPT !.pc = "refused"]
  /\ UNCHANGED <<journal, world, notices, up, stop, hush, held, holder,
                 decision, closing, history>>

MaySend ==
  /\ Open /\ Free
  /\ avail \notin {"closed", "needs_recovery"}
  /\ ~(paused /\ run.phase = "queued")
  /\ ~(stop /\ ~Settled)

\* send(): a follow-up ends every hold that a stop or a restart left.
Send(m) ==
  /\ MaySend /\ NextMessage(m)
  /\ msg' = [msg EXCEPT ![m] = "queued"]
  /\ stop' = FALSE /\ hush' = FALSE /\ paused' = FALSE
  /\ IF Active THEN UNCHANGED <<run, avail, ex, ask>>
     ELSE Pump(run, msg', avail, FALSE, FALSE, FALSE)
  /\ UNCHANGED <<bound, leased, world, notices, up, held, holder, decision,
                 closing, history>>

\* A steer goes into the running turn; the conversation waits for its answer.
Steer(m) ==
  /\ MaySend /\ NextMessage(m)
  /\ ~stop /\ run.phase = "running" /\ Session /\ ex.accepted
  /\ msg' = [msg EXCEPT ![m] = "sending"]
  /\ handed' = [handed EXCEPT ![m] = @ + 1]
  /\ holder' = "steer"
  /\ UNCHANGED <<run, avail, paused, bound, leased, ask, world, notices, up,
                 stop, hush, held, ex, decision, closing, crashes,
                 barred, released>>

Steered == {m \in Messages : msg[m] = "sending" /\ m # run.msg}

SteerEnds ==
  /\ Open /\ holder = "steer" /\ holder' = "none"
  /\ \E status \in {"accepted", "delivery_unknown"} :
       msg' = [m \in Messages |-> IF m \in Steered THEN status ELSE msg[m]]
  /\ UNCHANGED <<run, avail, paused, bound, leased, ask, world, notices, up,
                 stop, hush, held, ex, decision, closing, history>>
-----------------------------------------------------------------------------
(***************************************************************************)
(* execute(): from the queue to the turn.                                  *)
(***************************************************************************)
At(pc) == Open /\ ex.pc = pc

\* A failure before the session is open: nothing was sent.
Unwind ==
  /\ \E pc \in {"wait", "prepare", "lock", "open"} : At(pc)
  /\ ex' = [ex EXCEPT !.pc = "settle"]
  /\ UNCHANGED <<journal, world, notices, up, stop, hush, held, holder,
                 decision, closing, history>>

\* The budget is granted; change() leaves a settled run alone.
Grant ==
  /\ At("wait") /\ ~ex.aborted /\ ~stop /\ Free
  /\ run' = IF Settled THEN run ELSE Patched("preparing")
  /\ ex' = [ex EXCEPT !.pc = "prepare"]
  /\ UNCHANGED <<msg, avail, paused, bound, leased, ask, world, notices, up,
                 stop, hush, held, holder, decision, closing, history>>

\* The self-check passed and the workspace exists.
Prepare ==
  /\ At("prepare") /\ ~ex.aborted /\ ~stop /\ Free
  /\ leased' = TRUE
  /\ ex' = [ex EXCEPT !.pc = "lock"]
  /\ UNCHANGED <<run, msg, avail, paused, bound, ask, world, notices, up,
                 stop, hush, held, holder, decision, closing, history>>

\* The workspace's lease is granted and the executor may be opened.
Lock ==
  /\ At("lock") /\ ~ex.aborted /\ ~stop
  /\ ex' = [ex EXCEPT !.pc = "open", !.lease = TRUE]
  /\ UNCHANGED <<journal, world, notices, up, stop, hush, held, holder,
                 decision, closing, history>>

\* The process lives; its identity is recorded before it is spoken to.
ProcessStarts ==
  /\ At("open") /\ ~gone /\ Free
  /\ alive' = alive \cup {run.id}
  /\ run' = [run EXCEPT !.process = TRUE]
  /\ ex' = [ex EXCEPT !.pc = "init"]
  /\ UNCHANGED <<msg, avail, paused, bound, leased, ask, gone, notices, up,
                 stop, hush, held, holder, decision, closing, history>>

\* Startup fails; its process is gone, or that could not be proved.
OpenFails ==
  /\ At("init")
  /\ \E quiet \in BOOLEAN :
       /\ ex' = [ex EXCEPT !.pc = "settle", !.quiescent = quiet]
       /\ alive' = IF quiet THEN alive \ {run.id} ELSE alive
  /\ UNCHANGED <<journal, gone, notices, up, stop, hush, held, holder,
                 decision, closing, history>>

\* The session is open: the intent to send is durable before the send.
Opened ==
  /\ At("init") /\ Free
  /\ IF stop \/ ex.aborted
     THEN ex' = [ex EXCEPT !.pc = "close"] /\ UNCHANGED msg
     ELSE /\ ex' = [ex EXCEPT !.pc = "intent"]
          /\ msg' = [msg EXCEPT ![run.msg] = "sending"]
  /\ UNCHANGED <<run, avail, paused, bound, leased, ask, world, notices, up,
                 stop, hush, held, holder, decision, closing, history>>

Submit ==
  /\ At("intent")
  /\ IF stop \/ ex.aborted
     THEN ex' = [ex EXCEPT !.pc = "close"] /\ UNCHANGED handed
     ELSE /\ ex' = [ex EXCEPT !.pc = "submit", !.sent = TRUE]
          /\ handed' = [handed EXCEPT ![run.msg] = @ + 1]
  /\ UNCHANGED <<journal, world, notices, up, stop, hush, held, holder,
                 decision, closing, crashes, barred, released>>

Accept ==
  /\ At("submit") /\ Free
  /\ ex' = [ex EXCEPT !.pc = "turn", !.accepted = TRUE]
  /\ bound' = TRUE
  /\ msg' = [msg EXCEPT ![run.msg] = "accepted"]
  /\ run' = IF run.phase = "preparing" THEN Patched("running") ELSE run
  /\ UNCHANGED <<avail, paused, leased, ask, world, notices, up, stop, hush,
                 held, holder, decision, closing, history>>

\* The provider accepted under another session id: the journal refuses it.
AcceptElsewhere ==
  /\ At("submit") /\ Free /\ bound
  /\ ex' = [ex EXCEPT !.pc = "close", !.accepted = TRUE]
  /\ UNCHANGED <<journal, world, notices, up, stop, hush, held, holder,
                 decision, closing, history>>

SubmitFails ==
  /\ At("submit")
  /\ ex' = [ex EXCEPT !.pc = "close"]
  /\ UNCHANGED <<journal, world, notices, up, stop, hush, held, holder,
                 decision, closing, history>>
-----------------------------------------------------------------------------
(***************************************************************************)
(* The turn: questions, stops and its end.                                 *)
(***************************************************************************)
Question ==
  /\ At("turn") /\ Free /\ ~stop /\ ask = "none"
  /\ ask' = "pending" /\ run' = Patched("waiting_input")
  /\ UNCHANGED <<msg, avail, paused, bound, leased, world, notices, service,
                 history>>

\* handleQuestion(): its signal is aborted once the turn is over.
Asked == At("turn") /\ Free /\ ~stop /\ Waiting

Answer ==
  /\ Asked /\ holder' = "answer"
  /\ UNCHANGED <<journal, world, notices, up, stop, hush, held, ex, decision,
                 closing, history>>

AnswerArrives ==
  /\ Open /\ holder = "answer" /\ holder' = "none"
  /\ ask' = "over" /\ run' = Patched("running")
  /\ UNCHANGED <<msg, avail, paused, bound, leased, world, notices, up,
                 stop, hush, held, ex, decision, closing, history>>

\* A stop cancels what waits.
QueueKept == msg
QueueCut  == Cancelled(Queued)

\* interrupt(): the section that sets e.stop, then the session's interrupt
\* and close, or an abort of what waits before there is a session.
Interrupted(failure) ==
  /\ stop' = TRUE
  /\ run' = Patched(IF run.phase = "queued" THEN "cancelled"
                    ELSE "cancelling")
  /\ msg' = QueueCut
  /\ barred' = barred \cup Undelivered
  /\ ex' = [ex EXCEPT !.aborted = @ \/ (Active /\ ~Session),
                      !.failure = @ \/ (failure /\ Active)]

MayInterrupt == Open /\ Free /\ ~Settled

\* The user or the parent stops the run, or its time is up.
Interrupt ==
  /\ MayInterrupt /\ Interrupted(FALSE)
  /\ avail' = IF run.phase = "queued" THEN AvailAfter("cancelled") ELSE avail
  /\ UNCHANGED <<paused, bound, leased, ask, world, notices, up, hush, held,
                 holder, decision, closing, crashes, handed, released>>

\* runTimeoutMs, counted from the acceptance.
Timeout == At("turn") /\ Interrupt

\* Nobody answered, or the answer failed on its way.
Unanswered ==
  /\ Asked /\ Interrupted(TRUE)
  /\ UNCHANGED <<avail, paused, bound, leased, ask, world, notices, up,
                 hush, held, holder, decision, closing, crashes,
                 handed, released>>

AnswerFails ==
  /\ Open /\ holder = "answer" /\ holder' = "none"
  /\ IF At("turn") /\ ~stop /\ ~Settled
     THEN Interrupted(TRUE) ELSE UNCHANGED <<stop, run, msg, barred, ex>>
  /\ UNCHANGED <<avail, paused, bound, leased, ask, world, notices, up,
                 hush, held, decision, closing, crashes, handed, released>>

\* The events end: the turn finished, the transport broke, or a stop closed it.
\* (A turn the executor calls interrupted ends the run as a failed one does.)
TurnEnds ==
  /\ At("turn")
  /\ \E status \in {"none", "completed", "failed"} :
       ex' = [ex EXCEPT !.pc = "close", !.status = status]
  /\ UNCHANGED <<journal, world, notices, up, stop, hush, held, holder,
                 decision, closing, history>>

\* The session closes; its process is gone, or that could not be proved.
SessionCloses ==
  /\ At("close")
  /\ \E quiet \in BOOLEAN :
       /\ ex' = [ex EXCEPT !.pc = "settle", !.quiescent = quiet]
       /\ alive' = IF quiet THEN alive \ {run.id} ELSE alive
  /\ UNCHANGED <<journal, gone, notices, up, stop, hush, held, holder,
                 decision, closing, history>>
-----------------------------------------------------------------------------
(***************************************************************************)
(* The run's outcome.                                                      *)
(***************************************************************************)
Wanted ==
  IF ~ex.quiescent THEN "outcome_unknown"
  ELSE IF ex.failure THEN "interrupted"
  ELSE IF ex.status = "completed" THEN "completed"
  ELSE IF stop THEN "cancelled"
  ELSE IF ex.status # "none" THEN ex.status
  ELSE IF ex.sent THEN "outcome_unknown" ELSE "failed"

\* The phase the settling section writes, by legal steps only.
Outcome ==
  LET first == IF run.phase = "queued" /\ ~stop THEN "preparing" ELSE run.phase
      goal  == IF first = "cancelling" /\ Wanted = "failed"
               THEN "outcome_unknown" ELSE Wanted
      last  == IF goal = "cancelled" /\
                  first \in {"preparing", "running", "waiting_input"}
               THEN "cancelling"
               ELSE IF /\ first = "waiting_input"
                        /\ goal \in {"completed", "failed"}
               THEN "running" ELSE first
  IN  IF Settled THEN run.phase
      ELSE IF goal \in RunTransitions[last] THEN goal
      ELSE IF last = "queued" THEN "cancelled" ELSE "outcome_unknown"

\* What the section says of the message the run was for.
OwnStatus ==
  IF ~ex.sent THEN "cancelled"
  ELSE IF ~ex.accepted THEN "delivery_unknown" ELSE msg[run.msg]

\* No proof that the process stopped, no release of the workspace.
HeldUnlessUnknown(phase) ==
  IF phase # "outcome_unknown" THEN held ELSE "quiet"

HeldAfter(phase) ==
  IF ex.quiescent /\ phase # "outcome_unknown" THEN held
  ELSE IF ex.quiescent THEN "quiet" ELSE "loose"

Settle ==
  /\ At("settle") /\ Free
  /\ run' = Patched(Outcome)
  /\ avail' = IF Settled THEN avail ELSE AvailAfter(Outcome)
  /\ msg' = [msg EXCEPT ![run.msg] = OwnStatus]
  /\ held' = HeldAfter(Outcome)
  /\ ask' = IF Waiting THEN "over" ELSE ask
  /\ ex' = [Started EXCEPT !.pc = "collect"]
  /\ UNCHANGED <<paused, bound, leased, world, notices, up, stop, hush,
                 holder, decision, closing, history>>

\* The notices dispatchNotices() finds when a run has ended.
NoneToTell == telling
ToTell == telling \cup Untold \cup {run.id}

\* The result is collected (nothing if no executor ever ran), the parent's
\* notice written and the next message taken.  A close() that waited for this
\* run goes on right after that.
Finish ==
  /\ At("collect") /\ Free
  /\ note' = [note EXCEPT ![run.id] = "pending"]
  /\ telling' = ToTell
  /\ LET closes == closing = run.id /\ avail # "needs_recovery" IN
     /\ stop' = (stop \/ closes)
     /\ \E files \in (IF leased /\ ~gone /\ held = "none"
                        /\ (run.process \/ run.id > 1)
                     THEN BOOLEAN ELSE {FALSE}) :
          Pump([run EXCEPT !.result = files], msg, avail, stop, paused, closes)
  /\ closing' = 0
  /\ UNCHANGED <<msg, paused, bound, leased, world, inbox, marking, up, hush,
                 held, holder, decision, history>>
-----------------------------------------------------------------------------
(***************************************************************************)
(* The parent's notices.                                                   *)
(***************************************************************************)
NoticeDue(r) == r \in telling /\ marking = 0 /\ up

\* Nobody may be woken: the notice stays for a later dispatch.
Withhold(r) ==
  /\ NoticeDue(r) /\ inbox[r] = 0 /\ (hush \/ paused)
  /\ telling' = telling \ {r}
  /\ UNCHANGED <<journal, world, note, inbox, marking, service, history>>

HandOverAgain(r) ==
  /\ NoticeDue(r) /\ ~hush /\ ~paused
  /\ inbox' = [inbox EXCEPT ![r] = @ + 1]
  /\ marking' = r
  /\ UNCHANGED <<journal, world, note, telling, service, history>>

\* The notice enters the parent's inbox, once, and the inbox is flushed.
HandOver(r) ==
  /\ NoticeDue(r) /\ (inbox[r] > 0 \/ (~hush /\ ~paused))
  /\ inbox' = [inbox EXCEPT ![r] = IF @ = 0 THEN 1 ELSE @]
  /\ marking' = r
  /\ UNCHANGED <<journal, world, note, telling, service, history>>

MarkDelivered ==
  /\ up /\ marking # 0 /\ Free
  /\ note' = [note EXCEPT ![marking] = "delivered"]
  /\ telling' = telling \ {marking} /\ marking' = 0
  /\ UNCHANGED <<journal, world, inbox, service, history>>

\* resumeRootNotices(): the user talks to the root again.
Prompt ==
  /\ Open /\ Settled /\ Free
  /\ hush' = FALSE /\ paused' = FALSE
  /\ telling' = telling \cup Untold
  /\ UNCHANGED <<run, msg, avail, bound, leased, ask, world, note, inbox,
                 marking, up, stop, held, holder, ex, decision, closing,
                 history>>
-----------------------------------------------------------------------------
(***************************************************************************)
(* The user's other calls.                                                 *)
(***************************************************************************)
\* stopRoot().
StopRoot ==
  /\ Open /\ Free /\ hush' = TRUE
  /\ IF Settled
     THEN /\ stop' = TRUE /\ msg' = QueueCut
          /\ barred' = barred \cup Undelivered
          /\ UNCHANGED <<run, avail, paused, ex>>
     ELSE /\ paused' = TRUE /\ Interrupted(FALSE)
          /\ avail' = IF run.phase = "queued" THEN AvailAfter("cancelled")
                      ELSE avail
  /\ UNCHANGED <<bound, leased, ask, world, notices, up, held, holder,
                 decision, closing, crashes, handed, released>>

\* The native history may be read once nothing can still run.  What that and a
\* resolution leave in the journal is read of a run without outcome only.
InspectHistory ==
  /\ Open /\ Free /\ ~Active /\ bound /\ run.phase = "outcome_unknown"
  /\ held = "quiet" /\ ~run.inspected
  /\ run' = [run EXCEPT !.inspected = TRUE]
  /\ UNCHANGED <<msg, avail, paused, bound, leased, ask, world, notices,
                 service, history>>

RecoverUnproved ==
  /\ Open /\ Free /\ ~Active /\ leased /\ ~gone
  /\ Settled \/ run.phase = "queued"
  /\ run' = [run EXCEPT !.resolved = (run.phase = "outcome_unknown"),
                         !.phase = IF Settled THEN @ ELSE "cancelled"]
  /\ msg' = Cancelled({m \in Messages :
                         msg[m] \in {"queued", "sending", "delivery_unknown"}})
  /\ avail' = "idle" /\ paused' = FALSE
  /\ held' = "none" /\ stop' = FALSE /\ hush' = FALSE
  /\ UNCHANGED <<bound, leased, ask, world, notices, up, holder, ex,
                 decision, closing, history>>

Recover ==
  /\ Open /\ Free /\ ~Active /\ leased /\ ~gone
  /\ Settled \/ run.phase = "queued"
  /\ run.phase = "outcome_unknown" =>
       held = "quiet" /\ (bound => run.inspected)
  /\ run' = [run EXCEPT !.resolved = (run.phase = "outcome_unknown"),
                         !.phase = IF Settled THEN @ ELSE "cancelled"]
  /\ msg' = Cancelled({m \in Messages :
                         msg[m] \in {"queued", "sending", "delivery_unknown"}})
  /\ avail' = "idle" /\ paused' = FALSE
  /\ held' = "none" /\ stop' = FALSE /\ hush' = FALSE
  /\ UNCHANGED <<bound, leased, ask, world, notices, up, holder, ex,
                 decision, closing, history>>

\* delegationNeedsExit()
NeedsExit ==
  /\ avail # "closed"
  /\ \/ avail = "needs_recovery"
     \/ run.phase = "outcome_unknown" /\ ~run.resolved
     \/ run.phase = "queued" /\ paused

\* abandon(): ended as it is, on the user's word, after one last try to stop
\* what may still run.
Abandon ==
  /\ Open /\ Free /\ ~Active
  /\ NeedsExit \/ ~Settled
  /\ run' = [run EXCEPT !.resolved = (run.phase = "outcome_unknown"),
                         !.phase = IF Settled THEN @
                                   ELSE IF @ = "queued" THEN "cancelled"
                                   ELSE "interrupted"]
  /\ \E stopped \in (IF held = "loose" THEN BOOLEAN ELSE {FALSE}) :
       alive' = IF stopped THEN alive \ {run.id} ELSE alive
  /\ released' = released \cup (alive' \cap {run.id})
  /\ note' = [note EXCEPT ![run.id] = IF @ = "none" THEN "pending" ELSE @]
  /\ msg' = Cancelled({m \in Messages :
                         msg[m] \in {"queued", "sending", "delivery_unknown"}})
  /\ ask' = IF Waiting THEN "over" ELSE ask
  /\ avail' = IF avail = "closed" \/ (leased /\ gone) THEN "closed" ELSE "idle"
  /\ paused' = FALSE /\ held' = "none" /\ stop' = FALSE
  /\ UNCHANGED <<bound, leased, gone, inbox, telling, marking, up, hush,
                 holder, ex, decision, closing, crashes, handed, barred>>

\* close(): a live run is stopped first.
CloseLive ==
  /\ MayInterrupt /\ Active /\ closing = 0
  /\ Interrupted(FALSE) /\ closing' = run.id
  /\ avail' = IF run.phase = "queued" THEN AvailAfter("cancelled") ELSE avail
  /\ UNCHANGED <<paused, bound, leased, ask, world, notices, up, hush, held,
                 holder, decision, crashes, handed, released>>

CloseSettled ==
  /\ Open /\ Free /\ (Settled \/ ~Active)
  /\ avail # "needs_recovery" /\ avail # "closed"
  /\ IF Settled THEN UNCHANGED <<run, msg, barred, ex>> /\ stop' = TRUE
                ELSE Interrupted(FALSE)
  /\ avail' = "closed"
  /\ UNCHANGED <<paused, bound, leased, ask, world, notices, up, hush, held,
                 holder, decision, closing, crashes, handed, released>>

\* applyResult() and discardResult(): what is checked under the result lock.
Decide ==
  /\ Open /\ run.result /\ ~Active /\ decision = NoDecision
  /\ decision' = [run |-> run.id, step |-> "merge"]
  /\ UNCHANGED <<journal, world, notices, up, stop, hush, held, holder, ex,
                 closing, history>>

\* A conflict keeps the result.
MergeConflicts ==
  /\ Open /\ decision.step = "merge" /\ decision' = NoDecision
  /\ UNCHANGED <<journal, world, notices, up, stop, hush, held, holder, ex,
                 closing, history>>

MergeDone ==
  /\ Open /\ Free /\ decision.step = "merge"
  /\ decision' = [decision EXCEPT !.step = "cleanup"]
  /\ run' = [run EXCEPT !.result = @ /\ run.id # decision.run]
  /\ UNCHANGED <<msg, avail, paused, bound, leased, ask, world, notices, up,
                 stop, hush, held, holder, ex, closing, history>>

\* retireWorkspace(): the files go, then the conversation closes.
Cleanup ==
  /\ Open /\ decision.step = "cleanup"
  /\ decision' = [decision EXCEPT !.step = "retire"]
  /\ gone' = TRUE
  /\ UNCHANGED <<journal, alive, notices, up, stop, hush, held, holder, ex,
                 closing, history>>

Retire ==
  /\ Open /\ Free /\ decision.step = "retire"
  /\ decision' = NoDecision /\ avail' = "closed"
  /\ UNCHANGED <<run, msg, paused, bound, leased, ask, world, notices, up,
                 stop, hush, held, holder, ex, closing, history>>
-----------------------------------------------------------------------------
(***************************************************************************)
(* The end of the process, and reconcile() at the next start.              *)
(***************************************************************************)
Crash ==
  /\ Open /\ crashes < MaxCrashes /\ crashes' = crashes + 1
  /\ up' = FALSE /\ stop' = FALSE /\ hush' = FALSE /\ held' = "none"
  /\ holder' = "none" /\ ex' = Off /\ telling' = {} /\ marking' = 0
  /\ decision' = NoDecision /\ closing' = 0
  /\ UNCHANGED <<journal, world, note, inbox, handed, barred, released>>

\* A run of another life is interrupted once its process is known to be gone.
\* One that never recorded a process has none.
Reconciled(stopped) ==
  IF run.phase = "queued" \/ Settled THEN run.phase
  ELSE IF stopped THEN "interrupted" ELSE "outcome_unknown"

Unresolved == run.phase = "outcome_unknown" /\ ~run.resolved

RereadResent == [m \in Messages |-> IF msg[m] = "sending" THEN "queued"
                                    ELSE msg[m]]

Reread == [m \in Messages |-> IF msg[m] = "sending" THEN "delivery_unknown"
                              ELSE msg[m]]

Restart ==
  /\ ~up /\ up' = TRUE /\ stop' = TRUE /\ hush' = TRUE
  /\ \E stopped \in (IF run.process THEN BOOLEAN ELSE {TRUE}) :
     LET phase == Reconciled(stopped)
         after == IF phase # run.phase THEN AvailAfter(phase) ELSE avail
     IN /\ run' = Patched(phase)
        /\ note' = [r \in Runs |->
              IF /\ note[r] = "none"
                 /\ r < run.id \/ (r = run.id /\ phase \in Final)
              THEN "pending" ELSE note[r]]
        /\ avail' = IF /\ leased /\ gone
                       /\ after \notin {"closed", "needs_recovery"}
                    THEN "needs_recovery" ELSE after
        /\ LET tried == Unresolved \/ phase # run.phase IN
           /\ alive' = IF tried /\ stopped THEN alive \ {run.id} ELSE alive
           /\ held' = IF ~stopped /\ tried THEN "loose"
                      ELSE IF Unresolved THEN "quiet" ELSE "none"
  /\ paused' = (paused \/ run.phase = "queued")
  /\ msg' = Reread
  /\ ask' = IF Waiting THEN "over" ELSE ask
  /\ UNCHANGED <<bound, leased, gone, inbox, telling, marking, holder, ex,
                 decision, closing, history>>
-----------------------------------------------------------------------------
Execute ==
  \/ Unwind \/ Grant \/ Prepare \/ Lock \/ ProcessStarts \/ OpenFails
  \/ Opened \/ Submit \/ Accept \/ AcceptElsewhere \/ SubmitFails
  \/ SessionCloses \/ Settle \/ Finish

Notify == MarkDelivered \/ \E r \in Runs : HandOver(r) \/ Withhold(r)

Decided == MergeConflicts \/ MergeDone \/ Cleanup \/ Retire

Users ==
  \/ Create \/ Refuse \/ \E m \in Messages : Send(m) \/ Steer(m)
  \/ Answer \/ Unanswered \/ Interrupt \/ Prompt \/ StopRoot
  \/ InspectHistory \/ Recover \/ Abandon \/ CloseLive \/ CloseSettled
  \/ Decide

Next ==
  \/ Execute \/ Notify \/ Decided \/ Users
  \/ Question \/ TurnEnds \/ SteerEnds \/ AnswerArrives \/ AnswerFails
  \/ Crash \/ Restart

(***************************************************************************)
(* Fairness.  Every wait of execute() has a deadline of its own, or ends   *)
(* when others give up a budget slot or a lease; a stop closes the session *)
(* and with it the events; the run's timer stops a turn that goes on.      *)
(***************************************************************************)
StopClosesTurn == stop /\ TurnEnds

Fairness ==
  /\ WF_vars(Execute) /\ WF_vars(Notify)
  /\ WF_vars(StopClosesTurn) /\ WF_vars(Timeout)
  /\ WF_vars(SteerEnds) /\ WF_vars(AnswerArrives \/ AnswerFails)

Spec == Init /\ [][Next]_vars /\ Fairness
-----------------------------------------------------------------------------
(***************************************************************************)
(* Properties.                                                             *)
(***************************************************************************)
Run ==
  [id : {0} \cup Runs, msg : Messages, phase : Phases, process : BOOLEAN,
   inspected : BOOLEAN, resolved : BOOLEAN, result : BOOLEAN]

Execution ==
  [pc : {"off", "asking", "refused", "wait", "prepare", "lock", "open", "init",
         "intent", "submit", "turn", "close", "settle", "collect"},
   sent : BOOLEAN, accepted : BOOLEAN,
   status : {"none", "completed", "failed"},
   aborted : BOOLEAN, quiescent : BOOLEAN, lease : BOOLEAN,
   failure : BOOLEAN]

TypeOK ==
  /\ run \in Run /\ msg \in [Messages -> Statuses]
  /\ avail \in {"idle", "active", "needs_recovery", "closed"}
  /\ paused \in BOOLEAN /\ bound \in BOOLEAN /\ leased \in BOOLEAN
  /\ gone \in BOOLEAN /\ up \in BOOLEAN /\ stop \in BOOLEAN
  /\ hush \in BOOLEAN
  /\ ask \in {"none", "pending", "over"}
  /\ note \in [Runs -> {"none", "pending", "delivered"}]
  /\ inbox \in [Runs -> Nat] /\ telling \subseteq 1..run.id
  /\ marking \in 0..run.id /\ alive \subseteq 1..run.id
  /\ held \in {"none", "quiet", "loose"}
  /\ holder \in {"none", "steer", "answer"} /\ ex \in Execution
  /\ decision \in [run : 0..run.id,
                   step : {"none", "merge", "cleanup", "retire"}]
  /\ closing \in 0..run.id /\ crashes \in 0..MaxCrashes
  /\ handed \in [Messages -> Nat] /\ barred \subseteq Messages
  /\ released \subseteq 1..run.id

Opening   == {"wait", "prepare", "lock", "open", "init"}
Leasing   == {"open", "init", "intent", "submit", "turn", "close"}
Preparing == {"prepare", "lock", "open", "init", "intent", "submit"}

\* execute() and the journal agree on how far the last run is.
RunUnderWay ==
  /\ Active => up
  /\ Active /\ run.id # 0 => note[run.id] = "none"
  /\ run.id = 0 <=> ex.pc \in {"asking", "refused"}
  /\ up /\ run.id # 0 /\ ~Active => Settled \/ (run.phase = "queued" /\ paused)
  /\ ex.pc = "wait" => run.phase = "queued"
                       \/ (run.phase = "cancelled" /\ ex.aborted)
  /\ ex.pc \in Preparing => run.phase \in {"preparing", "cancelling"}
  /\ ex.pc = "turn" => run.phase \in {"running", "waiting_input", "cancelling"}
  /\ ex.pc = "close" => run.phase # "queued" /\ ~Settled
  /\ ex.pc = "settle" /\ ~ex.quiescent => run.phase # "queued" /\ ~Settled
  /\ ex.pc = "settle" /\ Settled => run.phase = "cancelled"
  /\ ex.pc = "collect" => Settled
  /\ ex.pc # "settle" => ex.quiescent
  /\ ex.pc \in Leasing \cup {"lock"} => leased
  /\ run.phase = "waiting_input" => ask # "none"
  /\ run.resolved => run.phase = "outcome_unknown"
  /\ holder # "none" => up /\ ex.pc \in {"turn", "close", "settle"} /\ ~Settled
  /\ closing # 0 => closing = run.id /\ Active

\* How a message stands with the executor.  One that is being sent was given,
\* but for the one execute() is about to give.
MessageSound(m) ==
  /\ handed[m] <= 1
  /\ msg[m] = "accepted" => handed[m] = 1
  /\ msg[m] \in {"new", "queued"} => handed[m] = 0
  /\ msg[m] = "sending" /\ handed[m] = 0 =>
       m = run.msg /\ (up => ex.pc \in {"intent", "close", "settle"})
  /\ m \in barred => msg[m] \notin {"new", "queued"}
  /\ run.id = 0 => msg[m] = "new"

\* The same for all of them, and how the message of the last run does.
MessagesSound ==
  /\ \A m \in Messages : MessageSound(m)
  /\ ex.pc \in Opening => handed[run.msg] = 0
  /\ ex.pc = "intent" => handed[run.msg] = 0 /\ msg[run.msg] = "sending"
  /\ ex.pc = "submit" => ex.sent /\ msg[run.msg] = "sending"
  /\ ex.pc = "turn" => ex.accepted /\ msg[run.msg] = "accepted"
  /\ ex.sent => handed[run.msg] = 1
  /\ ex.accepted => ex.sent
  /\ ex.pc \in Opening \cup {"intent"} /\ run.msg \in barred =>
       stop \/ ex.aborted

\* Where a notice stands between the journal and the parent's inbox.
NoticeSound(r) ==
  /\ inbox[r] <= 1
  /\ note[r] = "delivered" => inbox[r] = 1
  /\ inbox[r] > 0 => note[r] # "none"
  /\ r > run.id => note[r] = "none"
  /\ r \in telling => note[r] = "pending"

NoticesSound ==
  /\ \A r \in Runs : NoticeSound(r)
  /\ marking # 0 => inbox[marking] = 1 /\ marking \in telling

\* Who may still write, and who keeps the workspace meanwhile.
WritersSound ==
  /\ alive \subseteq released \cup {run.id}
  /\ up /\ ~ex.lease /\ held # "loose" => alive \subseteq released
  /\ ex.pc \in Leasing => ex.lease
  /\ ex.lease => ex.pc \in Leasing \cup {"settle"}
  /\ ex.pc = "open" => alive \subseteq released
  /\ ex.pc = "settle" /\ ex.quiescent => alive \subseteq released
  /\ run.phase = "queued" \/ (Settled /\ ~Unresolved) =>
       alive \subseteq released
  /\ run.id \in alive => run.process /\ leased
  /\ Unresolved => avail \in {"needs_recovery", "closed"}
  /\ held # "none" => Unresolved /\ up /\ ex.pc \in {"collect", "off"}

IInv ==
  TypeOK /\ RunUnderWay /\ MessagesSound /\ NoticesSound /\ WritersSound

\* What the journal says of a message is what became of it: nothing is given
\* to the executor twice, whatever crashes and is sent again, what counts as
\* accepted was given, and what still waits was not.
HandedOnce ==
  \A m \in Messages :
    /\ handed[m] <= 1
    /\ msg[m] = "accepted" => handed[m] = 1
    /\ msg[m] \in {"new", "queued"} => handed[m] = 0

\* The parent hears of a run's end once, although the handover and its record
\* are two writes with a process end between them.
ToldOnce ==
  \A r \in Runs :
    /\ inbox[r] <= 1
    /\ note[r] = "delivered" => inbox[r] = 1

\* While a process that was opened for a run may still write, the run or its
\* quarantine keeps the workspace from everybody else, unless the user ended
\* the run as it is.
WriterHoldsWorkspace ==
  \A r \in alive : up => ex.lease \/ held # "none" \/ r \in released

\* A conversation at rest with a message in its queue was stopped, paused,
\* closed or needs the user: no follow-up is forgotten.
NoForgottenFollowUp ==
  up /\ ex.pc = "off" /\ Queued # {} =>
    stop \/ paused \/ avail \in {"closed", "needs_recovery"}

\* After a stop of the root, nothing goes to the executor and nothing wakes
\* the parent until the user acts; what the stop found not yet given is never
\* given.
StopMeansStopped ==
  [][/\ hush /\ hush' => inbox' = inbox
     /\ \A m \in barred : handed'[m] = handed[m]]_vars

\* Whatever becomes of the runs under way, the conversation comes to rest with
\* every end written and told to the parent, unless a stop silences it or
\* Emperor ends.  (The messages are finitely many.)
RunsEndAndTell ==
  up /\ Active /\ run.id # 0 ~> ~up \/ hush \/ (~Active /\ Untold = {})

\* retireWorkspace() takes the files of a conversation in which "nothing is
\* left to continue": no process of it runs any more.
WorkspaceOutlivesRun == gone => alive = {}
=============================================================================
