-------------------------- MODULE DelegationProofs --------------------------
(***************************************************************************)
(* Proofs about Delegation: its inductive invariant (IInv), and what       *)
(* follows from it: no message is given to the executor twice, the parent  *)
(* hears of an end once, a process that may write has its workspace held,  *)
(* a stop of the root stops, and no follow-up waits for ever.              *)
(*                                                                         *)
(* Each action has a lemma, which takes the five parts of the invariant in *)
(* turn.  The two operations several actions share have lemmas of their    *)
(* own: what starts the next run (PumpFacts) and what a stop does to the   *)
(* run under way (InterruptedKeeps).  The last section adds to the         *)
(* invariant what the queue needs (QInv): how many runs there can be.      *)
(***************************************************************************)
EXTENDS Delegation, FiniteSetTheorems, WellFoundedInduction, TLAPS

-----------------------------------------------------------------------------
(***************************************************************************)
(* Numbers and records.                                                    *)
(***************************************************************************)

LEMMA LeastIsIn ==
  ASSUME NEW S \in SUBSET Nat, S # {}
  PROVE  Least(S) \in S
<1>1. PICK x \in S : \A y \in S : ~(<<y, x>> \in OpToRel(<, Nat))
  BY WFMin, NatLessThanWellFounded, Zenon
<1>2. \A y \in S : ~(y < x)
  BY <1>1, Zenon DEF OpToRel
<1>3. \A y \in S : x <= y
  BY <1>2
<1> QED
  BY <1>3, Zenon DEF Least

LEMMA TypeFacts ==
  ASSUME TypeOK
  PROVE  /\ run \in Run /\ ex \in Execution
         /\ run.id \in Nat /\ run.id \in {0} \cup Runs /\ run.msg \in Messages
         /\ run.phase \in Phases /\ run.resolved \in BOOLEAN
         /\ ex.aborted \in BOOLEAN /\ ex.failure \in BOOLEAN
         /\ ex.quiescent \in BOOLEAN
         /\ Runs \subseteq Nat \ {0} /\ Messages \subseteq Nat
         /\ 1 \in Runs /\ 1 \in Messages
         /\ TRUE \in BOOLEAN /\ FALSE \in BOOLEAN
BY DelegationAssumption DEF TypeOK, Run, Runs, Messages, Execution

LEMMA RunFlags ==
  ASSUME NEW r \in Run, NEW b \in BOOLEAN
  PROVE  /\ [r EXCEPT !.process = b] \in Run
         /\ [r EXCEPT !.process = b].id = r.id
         /\ [r EXCEPT !.inspected = b] \in Run
         /\ [r EXCEPT !.inspected = b].id = r.id
         /\ [r EXCEPT !.result = b] \in Run
         /\ [r EXCEPT !.result = b].id = r.id
BY DEF Run

LEMMA RunEnded ==
  ASSUME NEW r \in Run, NEW p \in Phases, NEW b \in BOOLEAN
  PROVE  /\ [r EXCEPT !.resolved = b, !.phase = p] \in Run
         /\ [r EXCEPT !.resolved = b, !.phase = p].id = r.id
<1>1. [r EXCEPT !.resolved = b] \in Run
  BY DEF Run
<1>2. [[r EXCEPT !.resolved = b] EXCEPT !.phase = p] \in Run
  BY <1>1 DEF Run
<1>3. [r EXCEPT !.resolved = b, !.phase = p] =
        [[r EXCEPT !.resolved = b] EXCEPT !.phase = p]
  BY DEF Run
<1>4. [r EXCEPT !.resolved = b, !.phase = p].id = r.id
  BY DEF Run
<1> QED
  BY <1>2, <1>3, <1>4

LEMMA PatchedFacts ==
  ASSUME TypeOK, NEW p \in Phases
  PROVE  /\ Patched(p) \in Run /\ Patched(p).id = run.id
         /\ Patched(p).msg = run.msg /\ Patched(p).phase = p
         /\ Patched(p).process = run.process
         /\ Patched(p).resolved = run.resolved
<1>1. run \in Run
  BY DEF TypeOK
<1> QED
  BY <1>1 DEF Patched, Run

LEMMA PhaseFacts ==
  /\ {"queued", "preparing", "running", "waiting_input", "cancelling"}
       \subseteq Phases
  /\ Final \subseteq Phases
BY DEF Phases, RunTransitions, Final

LEMMA OutcomeFacts ==
  ASSUME TypeOK
  PROVE  /\ Outcome \in Final
         /\ Settled => Outcome = run.phase
         /\ ~ex.quiescent /\ ~Settled /\ run.phase # "queued" =>
              Outcome = "outcome_unknown"
<1>1. ex.status \in {"none", "completed", "failed"} /\ run.phase \in Phases
  BY DEF TypeOK, Execution, Run
<1>2. Wanted \in Final /\ (~ex.quiescent => Wanted = "outcome_unknown")
  BY <1>1 DEF Wanted, Final
<1> HIDE DEF Wanted
<1> QED
  BY <1>2 DEF Outcome, Settled, Final

LEMMA NewRunType ==
  ASSUME NEW n \in {0} \cup Runs, NEW m \in Messages
  PROVE  NewRun(n, m) \in Run
BY DEF NewRun, Run, Phases, RunTransitions

Pcs == {"off", "asking", "refused", "wait", "prepare", "lock", "open", "init",
        "intent", "submit", "turn", "close", "settle", "collect"}

LEMMA AtPc ==
  ASSUME NEW e \in Execution, NEW pc \in Pcs
  PROVE  [e EXCEPT !.pc = pc] \in Execution
BY DEF Execution, Pcs

LEMMA AtPcWith ==
  ASSUME NEW e \in Execution, NEW pc \in Pcs, NEW b \in BOOLEAN
  PROVE  /\ [e EXCEPT !.pc = pc, !.lease = b] \in Execution
         /\ [e EXCEPT !.pc = pc, !.quiescent = b] \in Execution
         /\ [e EXCEPT !.pc = pc, !.sent = b] \in Execution
         /\ [e EXCEPT !.pc = pc, !.accepted = b] \in Execution
<1> DEFINE f == [e EXCEPT !.pc = pc]
<1>1. f \in Execution
  BY AtPc
<1>2. /\ [e EXCEPT !.pc = pc, !.lease = b] = [f EXCEPT !.lease = b]
      /\ [e EXCEPT !.pc = pc, !.quiescent = b] = [f EXCEPT !.quiescent = b]
      /\ [e EXCEPT !.pc = pc, !.sent = b] = [f EXCEPT !.sent = b]
      /\ [e EXCEPT !.pc = pc, !.accepted = b] = [f EXCEPT !.accepted = b]
  BY DEF Execution
<1> HIDE DEF f
<1> QED
  BY <1>1, <1>2 DEF Execution

LEMMA AtPcStatus ==
  ASSUME NEW e \in Execution, NEW pc \in Pcs,
         NEW status \in {"none", "completed", "failed"}
  PROVE  [e EXCEPT !.pc = pc, !.status = status] \in Execution
<1> DEFINE f == [e EXCEPT !.pc = pc]
<1>1. f \in Execution
  BY AtPc
<1>2. [e EXCEPT !.pc = pc, !.status = status] = [f EXCEPT !.status = status]
  BY DEF Execution
<1> HIDE DEF f
<1> QED
  BY <1>1, <1>2 DEF Execution

LEMMA StoppedType ==
  ASSUME NEW e \in Execution, NEW b \in BOOLEAN, NEW c \in BOOLEAN
  PROVE  [e EXCEPT !.aborted = b, !.failure = c] \in Execution
<1> DEFINE a == [e EXCEPT !.aborted = b]
<1>1. a \in Execution
  BY DEF Execution
<1>2. [e EXCEPT !.aborted = b, !.failure = c] = [a EXCEPT !.failure = c]
  BY DEF Execution
<1> HIDE DEF a
<1> QED
  BY <1>1, <1>2 DEF Execution

LEMMA StartedType ==
  /\ Started \in Execution /\ Off \in Execution
  /\ [Started EXCEPT !.pc = "collect"] \in Execution
<1>1. Started \in Execution
  BY DEF Started, Execution
<1> QED
  BY <1>1 DEF Off, Execution

-----------------------------------------------------------------------------
(***************************************************************************)
(* What a stop does to the run under way: Interrupted.                     *)
(***************************************************************************)

LEMMA InterruptedFacts ==
  ASSUME IInv, ~Settled, NEW f \in BOOLEAN, Interrupted(f)
  PROVE  /\ run' \in Run /\ run'.id = run.id /\ run'.msg = run.msg
         /\ run'.process = run.process /\ run'.resolved = run.resolved
         /\ run'.phase = IF run.phase = "queued" THEN "cancelled"
                                                 ELSE "cancelling"
         /\ ex' \in Execution
         /\ ex'.pc = ex.pc /\ ex'.sent = ex.sent /\ ex'.accepted = ex.accepted
         /\ ex'.quiescent = ex.quiescent /\ ex'.lease = ex.lease
         /\ ex.aborted \/ (Active /\ ~Session) => ex'.aborted
         /\ stop' = TRUE
         /\ msg' \in [Messages -> Statuses]
         /\ \A m \in Messages :
              msg'[m] = IF msg[m] = "queued" THEN "cancelled" ELSE msg[m]
         /\ barred' = barred \cup Undelivered
<1> DEFINE p == IF run.phase = "queued" THEN "cancelled" ELSE "cancelling"
           a == ex.aborted \/ (Active /\ ~Session)
           b == ex.failure \/ (f /\ Active)
<1>1. p \in Phases
  BY PhaseFacts DEF Final
<1>2. run' = Patched(p)
  BY DEF Interrupted
<1>3. ex' = [ex EXCEPT !.aborted = a, !.failure = b]
  BY DEF Interrupted
<1>4. a \in BOOLEAN /\ b \in BOOLEAN
  BY TypeFacts DEF IInv
<1> HIDE DEF a, b
<1>5. ex' \in Execution
  BY <1>3, <1>4, TypeFacts, StoppedType DEF IInv
<1>6. ex'.pc = ex.pc /\ ex'.sent = ex.sent /\ ex'.accepted = ex.accepted
      /\ ex'.quiescent = ex.quiescent /\ ex'.lease = ex.lease
      /\ ex'.aborted = a
  BY <1>3, TypeFacts DEF IInv, Execution
<1>7. /\ msg' \in [Messages -> Statuses]
      /\ \A m \in Messages :
           msg'[m] = IF msg[m] = "queued" THEN "cancelled" ELSE msg[m]
  BY DEF IInv, TypeOK, Interrupted, QueueCut, Cancelled, Queued, Statuses
<1>8. stop' = TRUE /\ barred' = barred \cup Undelivered
  BY DEF Interrupted
<1> QED
  BY <1>1, <1>2, <1>5, <1>6, <1>7, <1>8, PatchedFacts DEF IInv, a

LEMMA InterruptedKeeps ==
  ASSUME IInv, Open, ~Settled, NEW f \in BOOLEAN, Interrupted(f),
         avail' \in {"idle", "active", "needs_recovery", "closed"},
         paused' \in BOOLEAN, hush' \in BOOLEAN, holder' = "none",
         closing' = closing \/ (Active /\ closing' = run.id),
         UNCHANGED <<bound, leased, ask, world, notices, up, held, decision,
                     crashes, handed, released>>
  PROVE  IInv'
<1>1. TypeOK'
  <2>1. barred' \subseteq Messages
    BY InterruptedFacts DEF IInv, TypeOK, Undelivered
  <2>2. closing' \in 0..run'.id
    <3>1. closing \in 0..run.id /\ run.id \in Nat
      BY TypeFacts DEF IInv, TypeOK
    <3>2. run'.id = run.id
      BY InterruptedFacts
    <3> QED
      BY <3>1, <3>2
  <2>3. stop' \in BOOLEAN
    BY InterruptedFacts, Zenon
  <2>4. /\ run' \in Run /\ run'.id = run.id
        /\ msg' \in [Messages -> Statuses] /\ ex' \in Execution
    BY InterruptedFacts
  <2>5. UNCHANGED <<bound, leased, ask, alive, gone, note, inbox, telling,
                    marking, up, held, decision, crashes, handed, released>>
    BY DEF world, notices
  <2>6. holder' \in {"none", "steer", "answer"}
    OBVIOUS
  <2>7. TypeOK
    BY DEF IInv
  <2> QED
    BY <2>1, <2>2, <2>3, <2>4, <2>5, <2>6, <2>7 DEF TypeOK
<1>2. RunUnderWay'
  BY InterruptedFacts DEF IInv, RunUnderWay, Session, notices, Active, Settled,
     Final
<1>3. MessagesSound'
  <2>1. ASSUME NEW m \in Messages
        PROVE  MessageSound(m)'
    <3>1. MessageSound(m) /\ m \in Messages
      BY <2>1 DEF IInv, MessagesSound
    <3>2. msg'[m] = IF msg[m] = "queued" THEN "cancelled" ELSE msg[m]
      BY <3>1, InterruptedFacts
    <3>3. m \in barred' => m \in barred \/ msg[m] # "new"
      BY InterruptedFacts DEF Undelivered
    <3>4. run'.id = run.id /\ run'.msg = run.msg /\ ex'.pc = ex.pc
      BY InterruptedFacts
    <3> QED
      BY <3>1, <3>2, <3>3, <3>4 DEF MessageSound
  <2>2. \A m \in Messages : msg[m] # "queued" => msg'[m] = msg[m]
    BY InterruptedFacts
  <2> QED
    BY TypeFacts, <2>1, <2>2, InterruptedFacts DEF IInv, MessagesSound, Opening
<1>4. NoticesSound'
  BY InterruptedFacts DEF IInv, NoticesSound, NoticeSound, notices
<1>5. WritersSound'
  BY InterruptedFacts DEF IInv, WritersSound, world, Settled, Unresolved, Final
<1> QED
  BY <1>1, <1>2, <1>3, <1>4, <1>5 DEF IInv

LEMMA AvailFacts ==
  ASSUME TypeOK, NEW p
  PROVE  /\ avail \in {"idle", "active", "needs_recovery", "closed"}
         /\ AvailAfter(p) \in {"idle", "active", "needs_recovery", "closed"}
BY DEF TypeOK, AvailAfter

\* The steps that stop a run that has not ended.
LEMMA StopKeeps ==
  ASSUME IInv, \/ Interrupt \/ Unanswered \/ CloseLive
               \/ StopRoot /\ ~Settled
               \/ CloseSettled /\ ~Settled
               \/ AnswerFails /\ At("turn") /\ ~stop /\ ~Settled
  PROVE  IInv'
<1>1. CASE Interrupt
  BY <1>1, InterruptedKeeps, AvailFacts DEF IInv, TypeOK, Interrupt,
     MayInterrupt, Free
<1>2. CASE Unanswered
  <2>1. ~Settled
    BY <1>2 DEF IInv, RunUnderWay, Unanswered, Settled, Asked, Final, At
  <2> QED
    BY <1>2, <2>1, InterruptedKeeps DEF IInv, TypeOK, Unanswered, Asked, At,
       Free
<1>3. CASE CloseLive
  BY <1>3, InterruptedKeeps, AvailFacts DEF IInv, TypeOK, CloseLive,
     MayInterrupt, Free
<1>4. CASE StopRoot /\ ~Settled
  BY <1>4, InterruptedKeeps, AvailFacts DEF IInv, StopRoot, Free
<1>5. CASE CloseSettled /\ ~Settled
  BY <1>5, InterruptedKeeps DEF IInv, TypeOK, CloseSettled, Free
<1>6. CASE AnswerFails /\ At("turn") /\ ~stop /\ ~Settled
  BY <1>6, InterruptedKeeps DEF IInv, TypeOK, AnswerFails
<1> QED
  BY <1>1, <1>2, <1>3, <1>4, <1>5, <1>6

-----------------------------------------------------------------------------
(***************************************************************************)
(* What takes the next message: Pump.                                      *)
(***************************************************************************)

\* Message q starts the next run.
Starts(q) ==
  /\ q \in Messages /\ msg'[q] = "queued" /\ run.id + 1 \in Runs
  /\ avail \notin {"closed", "needs_recovery"}
  /\ run' = NewRun(run.id + 1, q) /\ ex' = Started /\ ask' = "none"
  /\ avail' \in {"active", "closed"}

\* The conversation comes to rest.
Rests(r) ==
  run' = r /\ ex' = Off /\ ask' = ask /\ avail' \in {avail, "closed"}

LEMMA PumpFacts ==
  ASSUME NEW r \in Run, r.id = run.id, msg' \in [Messages -> Statuses],
         NEW stopped, NEW waits, NEW closes,
         Pump(r, msg', avail, stopped, waits, closes)
  PROVE  Rests(r) \/ \E q \in Messages : Starts(q)
<1> DEFINE queue == {m \in Messages : msg'[m] = "queued"}
<1>1. CASE queue = {}
  BY <1>1 DEF Pump, Rests
<1>2. CASE queue # {}
  <2>1. queue \in SUBSET Nat
    BY DelegationAssumption DEF Messages
  <2>2. Least(queue) \in queue
    BY <1>2, <2>1, LeastIsIn
  <2>3. Rests(r) \/ Starts(Least(queue))
    BY <2>2 DEF Pump, Rests, Starts
  <2> QED
    BY <2>2, <2>3
<1> QED
  BY <1>1, <1>2

LEMMA StartedFacts ==
  /\ Started.pc = "wait" /\ ~Started.sent /\ ~Started.accepted
  /\ Started.quiescent /\ ~Started.lease /\ Off.pc = "off" /\ ~Off.sent
  /\ ~Off.accepted /\ Off.quiescent /\ ~Off.lease
  /\ Started \in Execution /\ Off \in Execution
<1>1. /\ Started.pc = "wait" /\ ~Started.sent /\ ~Started.accepted
      /\ Started.quiescent /\ ~Started.lease
  BY DEF Started
<1>2. /\ Off.pc = "off" /\ Off.sent = Started.sent
      /\ Off.accepted = Started.accepted
      /\ Off.quiescent = Started.quiescent /\ Off.lease = Started.lease
  BY StartedType DEF Off, Execution
<1> QED
  BY <1>1, <1>2, StartedType

\* What both of its callers leave as it is.
Resting ==
  /\ Open /\ Free /\ ex.pc \in {"off", "collect"} /\ closing' = 0
  /\ stop' \in BOOLEAN /\ hush' \in BOOLEAN /\ paused' \in BOOLEAN
  /\ msg' \in [Messages -> Statuses]
  /\ \A m \in Messages :
       msg'[m] # msg[m] => msg[m] = "new" /\ msg'[m] = "queued"
  /\ \A r \in Runs : note'[r] # note[r] => r = run.id
  /\ UNCHANGED <<bound, leased, world, inbox, marking, up, held, holder,
                 decision, history>>

LEMMA StartFacts ==
  ASSUME IInv, NEW q \in Messages, Starts(q)
  PROVE  /\ run' \in Run /\ run'.id = run.id + 1 /\ run'.msg = q
         /\ run'.phase = "queued" /\ ~run'.resolved
         /\ ex' \in Execution /\ ex'.pc = "wait" /\ ~ex'.sent
         /\ ~ex'.accepted /\ ex'.quiescent /\ ~ex'.lease
<1>1. run.id + 1 \in {0} \cup Runs /\ run' = NewRun(run.id + 1, q)
  BY DEF Starts
<1>2. run' \in Run
  BY <1>1, NewRunType
<1>3. run'.id = run.id + 1 /\ run'.msg = q /\ run'.phase = "queued"
      /\ ~run'.resolved
  BY <1>1 DEF NewRun
<1> QED
  BY <1>2, <1>3, StartedFacts DEF Starts

LEMMA StartKeeps ==
  ASSUME IInv, Resting, NEW q \in Messages, Starts(q)
  PROVE  RunUnderWay' /\ MessagesSound' /\ WritersSound'
<1>1. /\ held = "none" /\ alive \subseteq released /\ run.id \in Nat
      /\ alive \subseteq 1..run.id
  BY TypeFacts DEF IInv, TypeOK, RunUnderWay, WritersSound, Starts, Resting,
     Leasing, Open
<1>2. RunUnderWay'
  <2>1. note'[run.id + 1] = "none"
    BY TypeFacts, StartFacts DEF IInv, NoticesSound, NoticeSound, Starts,
       Resting
  <2> QED
    BY <1>1, <2>1, StartFacts DEF RunUnderWay, Resting, Active, Preparing,
       Leasing, Open, Free
<1>3. MessagesSound'
  <2>1. ASSUME NEW m \in Messages
        PROVE  MessageSound(m)'
    <3>1. /\ MessageSound(m)
          /\ \/ msg'[m] = msg[m]
             \/ msg[m] = "new" /\ msg'[m] = "queued"
      BY <2>1 DEF IInv, MessagesSound, Resting
    <3>2. run'.id # 0 /\ ~(msg[m] = "sending" /\ handed[m] = 0)
      BY <3>1, <1>1, StartFacts DEF MessageSound, Resting, Open
    <3> QED
      BY <3>1, <3>2 DEF MessageSound, Resting, history
  <2>2. MessageSound(q)'
    BY <2>1
  <2> QED
    BY <2>1, <2>2, StartFacts DEF MessagesSound, MessageSound, Starts
<1>4. WritersSound'
  BY <1>1, StartFacts DEF WritersSound, Resting, Leasing, Unresolved, world,
     history
<1> QED
  BY <1>2, <1>3, <1>4

LEMMA RestFacts ==
  ASSUME IInv, NEW r \in Run, Rests(r),
         r.id = run.id, r.msg = run.msg, r.phase = run.phase,
         r.process = run.process, r.resolved = run.resolved
  PROVE  /\ run' \in Run /\ run'.id = run.id /\ run'.msg = run.msg
         /\ run'.phase = run.phase /\ run'.process = run.process
         /\ run'.resolved = run.resolved
         /\ ex' \in Execution /\ ex'.pc = "off" /\ ~ex'.sent
         /\ ~ex'.accepted /\ ex'.quiescent /\ ~ex'.lease
BY StartedFacts DEF Rests

LEMMA RestKeeps ==
  ASSUME IInv, Resting, Settled, NEW r \in Run, Rests(r),
         r.id = run.id, r.msg = run.msg, r.phase = run.phase,
         r.process = run.process, r.resolved = run.resolved
  PROVE  RunUnderWay' /\ MessagesSound' /\ WritersSound'
<1>1. RunUnderWay'
  BY RestFacts DEF IInv, RunUnderWay, Rests, Resting, Active, Settled,
     Preparing, Leasing
<1>2. MessagesSound'
  <2>1. ASSUME NEW m \in Messages
        PROVE  MessageSound(m)'
    <3>1. /\ MessageSound(m)
          /\ \/ msg'[m] = msg[m]
             \/ msg[m] = "new" /\ msg'[m] = "queued"
      BY <2>1 DEF IInv, MessagesSound, Resting
    <3>2. run'.id # 0 /\ ~(msg[m] = "sending" /\ handed[m] = 0)
      BY <3>1, RestFacts DEF MessageSound, Resting, Open
    <3> QED
      BY <3>1, <3>2 DEF MessageSound, Resting, history
  <2> QED
    BY <2>1, RestFacts DEF MessagesSound, Opening
<1>3. WritersSound'
  BY RestFacts DEF IInv, WritersSound, Rests, Resting, Leasing, Unresolved,
     world, history
<1> QED
  BY <1>1, <1>2, <1>3

-----------------------------------------------------------------------------
(***************************************************************************)
(* The steps that start a run, and those that only may stop one.           *)
(***************************************************************************)

LEMMA CreateKeeps ==
  ASSUME IInv, Create
  PROVE  IInv'
<1>1. /\ run.id = 0 /\ ex.pc = "asking" /\ 1 \in Messages /\ 1 \in Runs
      /\ \A m \in Messages : msg[m] = "new" /\ handed[m] = 0 /\ m \notin barred
      /\ alive = {} /\ telling = {} /\ released = {}
      /\ marking = 0 /\ closing = 0
      /\ up /\ held = "none" /\ holder = "none" /\ note[1] = "none"
  <2>1. run.id = 0 /\ ex.pc = "asking" /\ up
    BY DEF IInv, RunUnderWay, Create, Active
  <2>2. /\ alive = {} /\ telling = {} /\ released = {}
        /\ marking = 0 /\ closing = 0
    BY <2>1 DEF IInv, TypeOK
  <2>3. \A m \in Messages : msg[m] = "new" /\ handed[m] = 0 /\ m \notin barred
    BY <2>1 DEF IInv, MessagesSound, MessageSound
  <2>4. held = "none" /\ holder = "none"
    BY <2>1 DEF IInv, RunUnderWay, WritersSound
  <2>5. 1 \in Runs /\ 1 \in Messages /\ note[1] = "none"
    BY <2>1, TypeFacts DEF IInv, NoticesSound, NoticeSound
  <2> QED
    BY <2>1, <2>2, <2>3, <2>4, <2>5
<1>2. /\ run' \in Run /\ run'.id = 1 /\ run'.msg = 1 /\ run'.phase = "queued"
      /\ ~run'.resolved
  <2>1. run' = NewRun(1, 1)
    BY DEF Create
  <2> QED
    BY <1>1, <2>1, NewRunType DEF NewRun
<1>3. /\ ex' \in Execution /\ ex'.pc = "wait" /\ ~ex'.sent /\ ~ex'.accepted
      /\ ex'.quiescent /\ ~ex'.lease
  BY StartedFacts DEF Create
<1>4. /\ msg' \in [Messages -> Statuses] /\ msg'[1] = "queued"
      /\ \A m \in Messages : msg'[m] \in {"new", "queued"}
  <2>1. msg' = [msg EXCEPT ![1] = "queued"] /\ msg \in [Messages -> Statuses]
    BY DEF IInv, TypeOK, Create
  <2>2. "queued" \in Statuses
    BY DEF Statuses
  <2> QED
    BY <1>1, <2>1, <2>2
<1>5. /\ avail' = "active"
      /\ UNCHANGED <<paused, bound, leased, ask, world, notices, up, stop,
                     hush, held, holder, decision, closing, history>>
  BY DEF Create
<1>6. TypeOK'
  BY <1>1, <1>2, <1>3, <1>4, <1>5 DEF IInv, TypeOK, world, notices, history
<1>7. RunUnderWay'
  BY <1>1, <1>2, <1>3, <1>5 DEF RunUnderWay, notices, Active, Preparing,
     Leasing
<1>8. MessagesSound'
  BY <1>1, <1>2, <1>3, <1>4, <1>5
     DEF MessagesSound, MessageSound, Opening, history
<1>9. NoticesSound'
  <2>1. Runs \subseteq Nat
    BY TypeFacts DEF IInv
  <2> QED
    BY <1>1, <1>2, <1>5, <2>1 DEF IInv, NoticesSound, NoticeSound, notices
<1>10. WritersSound'
  BY <1>1, <1>2, <1>3, <1>5 DEF WritersSound, world, Leasing, Unresolved
<1> QED
  BY <1>6, <1>7, <1>8, <1>9, <1>10 DEF IInv

LEMMA SendKeeps ==
  ASSUME IInv, NEW m \in Messages, Send(m)
  PROVE  IInv'
<1>1. /\ msg[m] = "new" /\ msg' = [msg EXCEPT ![m] = "queued"]
      /\ msg' \in [Messages -> Statuses] /\ msg'[m] = "queued"
      /\ \A n \in Messages : msg'[n] # msg[n] => n = m
  <2>1. msg' = [msg EXCEPT ![m] = "queued"] /\ msg[m] = "new"
        /\ msg \in [Messages -> Statuses]
    BY DEF IInv, TypeOK, Send, NextMessage
  <2>2. "queued" \in Statuses
    BY DEF Statuses
  <2> QED
    BY <2>1, <2>2
<1>2. /\ Open /\ Free /\ stop' = FALSE /\ hush' = FALSE /\ paused' = FALSE
      /\ ~(stop /\ ~Settled) /\ ~(paused /\ run.phase = "queued")
      /\ UNCHANGED <<bound, leased, world, notices, up, held, holder, decision,
                     closing, history>>
  BY DEF Send, MaySend
<1>3. stop' \in BOOLEAN /\ hush' \in BOOLEAN /\ paused' \in BOOLEAN
  BY <1>2
<1>4. CASE Active
  <2>1. UNCHANGED <<run, avail, ex, ask>>
    BY <1>4 DEF Send
  <2>2. TypeOK'
    BY <1>1, <1>2, <1>3, <2>1 DEF IInv, TypeOK, world, notices, history
  <2>3. RunUnderWay'
    BY <1>2, <2>1 DEF IInv, RunUnderWay, notices, Active, Settled
  <2>4. MessagesSound'
    <3>1. ASSUME NEW n \in Messages
          PROVE  MessageSound(n)'
      <4>1. /\ MessageSound(n)
            /\ \/ msg'[n] = msg[n]
               \/ msg[n] = "new" /\ msg'[n] = "queued"
        BY <1>1, <3>1 DEF IInv, MessagesSound
      <4> QED
        BY <1>2, <2>1, <4>1 DEF MessageSound, Open, history
    <3>2. ex.pc \in Opening \cup {"intent"} /\ run.msg \in barred => ex.aborted
      <4>1. CASE ~stop
        BY <4>1 DEF IInv, MessagesSound
      <4>2. CASE Settled
        BY <4>2 DEF IInv, RunUnderWay, Settled, Final, Opening, Preparing
      <4> QED
        BY <1>2, <4>1, <4>2
    <3>3. run.msg \in Messages
      BY TypeFacts DEF IInv
    <3> QED
      BY <1>1, <1>2, <2>1, <3>1, <3>2 DEF IInv, MessagesSound, history
  <2>5. NoticesSound'
    BY <1>2, <2>1 DEF IInv, NoticesSound, NoticeSound, notices
  <2>6. WritersSound'
    BY <1>2, <2>1 DEF IInv, WritersSound, Unresolved, Settled, world, history
  <2> QED
    BY <2>2, <2>3, <2>4, <2>5, <2>6 DEF IInv
<1>5. CASE ~Active
  <2>1. Rests(run) \/ \E q \in Messages : Starts(q)
    <3>1. Pump(run, msg', avail, FALSE, FALSE, FALSE)
      BY <1>5 DEF Send
    <3> QED
      BY <1>1, <3>1, PumpFacts, TypeFacts DEF IInv
  <2>2. Resting
    BY <1>1, <1>2, <1>3, <1>5
       DEF IInv, RunUnderWay, Resting, Active, notices
  <2>3. Settled
    BY <1>2, <1>5 DEF IInv, RunUnderWay, Open
  <2>4. CASE Rests(run)
    <3>1. RunUnderWay' /\ MessagesSound' /\ WritersSound'
      BY <2>2, <2>3, <2>4, RestKeeps, TypeFacts DEF IInv
    <3>2. run' = run /\ ask' = ask /\ avail' \in {avail, "closed"} /\ ex' = Off
      BY <2>4 DEF Rests
    <3>3. TypeOK'
      BY <1>1, <1>2, <1>3, <3>2, StartedFacts DEF IInv, TypeOK, world, notices,
         history
    <3>4. NoticesSound'
      BY <1>2, <3>2 DEF IInv, NoticesSound, NoticeSound, notices
    <3> QED
      BY <3>1, <3>3, <3>4 DEF IInv
  <2>5. ASSUME NEW q \in Messages, Starts(q)
        PROVE  IInv'
    <3>1. RunUnderWay' /\ MessagesSound' /\ WritersSound'
      BY <2>2, <2>5, StartKeeps
    <3>2. /\ run' \in Run /\ ex' \in Execution /\ run'.id = run.id + 1
          /\ ask' = "none" /\ avail' \in {"active", "closed"}
      BY <2>5, StartFacts DEF Starts
    <3>3. TypeOK'
      <4>1. run.id \in Nat /\ run'.id \in Nat /\ run.id <= run'.id
        BY <3>2, TypeFacts DEF IInv
      <4> QED
        BY <1>1, <1>2, <1>3, <3>2, <4>1 DEF IInv, TypeOK, world, notices,
           history
    <3>4. NoticesSound'
      <4>1. Runs \subseteq Nat /\ run.id \in Nat
        BY TypeFacts DEF IInv
      <4> QED
        BY <1>2, <3>2, <4>1 DEF IInv, NoticesSound, NoticeSound, notices
    <3> QED
      BY <3>1, <3>3, <3>4 DEF IInv
  <2> QED
    BY <2>1, <2>4, <2>5
<1> QED
  BY <1>4, <1>5

LEMMA FinishKeeps ==
  ASSUME IInv, Finish
  PROVE  IInv'
<1>1. /\ Open /\ Free /\ ex.pc = "collect" /\ Settled
      /\ run.id \in Runs /\ note[run.id] = "none"
  <2>1. Open /\ Free /\ ex.pc = "collect" /\ Settled /\ run.id # 0
    BY DEF IInv, RunUnderWay, Finish, At, Open
  <2> QED
    BY <2>1, TypeFacts DEF IInv, RunUnderWay, Active, Run
<1>2. /\ note' = [note EXCEPT ![run.id] = "pending"] /\ telling' = ToTell
      /\ closing' = 0
      /\ UNCHANGED <<msg, paused, bound, leased, world, inbox, marking, up,
                     hush, held, holder, decision, history>>
  BY DEF Finish
<1>3. PICK files \in BOOLEAN, closes \in BOOLEAN :
        /\ stop' = (stop \/ closes)
        /\ Pump([run EXCEPT !.result = files], msg, avail, stop, paused,
                closes)
  <2> DEFINE closes == closing = run.id /\ avail # "needs_recovery"
  <2>1. closes \in BOOLEAN
    OBVIOUS
  <2>2. \E files \in BOOLEAN :
          Pump([run EXCEPT !.result = files], msg, avail, stop, paused, closes)
    BY DEF Finish
  <2>3. stop' = (stop \/ closes)
    BY DEF Finish
  <2> HIDE DEF closes
  <2> QED
    BY <2>1, <2>2, <2>3
<1> DEFINE r == [run EXCEPT !.result = files]
<1>4. /\ r \in Run /\ r.id = run.id /\ r.msg = run.msg /\ r.phase = run.phase
      /\ r.process = run.process /\ r.resolved = run.resolved
  <2>1. r \in Run
    BY TypeFacts, RunFlags DEF IInv
  <2> QED
    BY <2>1, TypeFacts DEF IInv, Run
<1>5. /\ msg' = msg /\ msg' \in [Messages -> Statuses]
      /\ stop' \in BOOLEAN /\ hush' \in BOOLEAN /\ paused' \in BOOLEAN
  <2>1. stop' \in BOOLEAN
    BY <1>3, Zenon
  <2> QED
    BY <1>2, <2>1 DEF IInv, TypeOK
<1>6. /\ note' \in [Runs -> {"none", "pending", "delivered"}]
      /\ note'[run.id] = "pending"
      /\ \A n \in Runs : n # run.id => note'[n] = note[n]
  BY <1>1, <1>2 DEF IInv, TypeOK
<1>7. Resting
  <2>1. \A n \in Runs : note'[n] # note[n] => n = run.id
    BY <1>6
  <2> QED
    BY <1>1, <1>2, <1>5, <2>1 DEF Resting
<1>8. telling' \subseteq 1..run.id
  <2>1. ASSUME NEW n \in Runs, note[n] = "pending"
        PROVE  n \in 1..run.id
    BY <2>1, TypeFacts DEF IInv, NoticesSound, NoticeSound
  <2>2. run.id \in 1..run.id /\ telling \subseteq 1..run.id
    BY <1>1, TypeFacts DEF IInv, TypeOK
  <2> QED
    BY <1>2, <2>1, <2>2 DEF ToTell, Untold
<1>9. run'.id \in Nat /\ run'.id >= run.id => NoticesSound'
  <2>1. ASSUME NEW n \in Runs, run'.id \in Nat, run'.id >= run.id
        PROVE  NoticeSound(n)'
    <3>1. NoticeSound(n) /\ (n \in telling' => n \in telling \/ n = run.id
                             \/ note[n] = "pending")
      BY <1>2, <2>1 DEF IInv, NoticesSound, ToTell, Untold
    <3>2. n \in Nat /\ run.id \in Nat /\ (n > run'.id => n > run.id)
      BY <2>1, TypeFacts DEF IInv, Runs
    <3>3. CASE n = run.id
      BY <1>1, <1>2, <1>6, <3>1, <3>2, <3>3 DEF NoticeSound
    <3>4. CASE n # run.id
      BY <1>2, <1>6, <2>1, <3>1, <3>2, <3>4 DEF NoticeSound
    <3> QED
      BY <3>3, <3>4
  <2>2. marking' # 0 => inbox'[marking'] = 1 /\ marking' \in telling'
    BY <1>2 DEF IInv, NoticesSound, ToTell
  <2> QED
    BY <2>1, <2>2 DEF NoticesSound
<1> HIDE DEF r
<1>10. Rests(r) \/ \E q \in Messages : Starts(q)
  BY <1>3, <1>4, <1>5, PumpFacts DEF r
<1>11. CASE Rests(r)
  <2>1. RunUnderWay' /\ MessagesSound' /\ WritersSound'
    BY <1>1, <1>4, <1>7, <1>11, RestKeeps
  <2>2. run' = r /\ ask' = ask /\ avail' \in {avail, "closed"} /\ ex' = Off
    BY <1>11 DEF Rests
  <2>3. TypeOK'
    BY <1>2, <1>4, <1>5, <1>6, <1>8, <2>2, StartedFacts, TypeFacts DEF IInv,
       TypeOK, world, history
  <2>4. NoticesSound'
    <3>1. run'.id = run.id /\ run.id \in Nat
      BY <1>4, <2>2, TypeFacts DEF IInv
    <3> QED
      BY <1>9, <3>1
  <2> QED
    BY <2>1, <2>3, <2>4 DEF IInv
<1>12. ASSUME NEW q \in Messages, Starts(q)
       PROVE  IInv'
  <2>1. RunUnderWay' /\ MessagesSound' /\ WritersSound'
    BY <1>7, <1>12, StartKeeps
  <2>2. /\ run' \in Run /\ ex' \in Execution /\ run'.id = run.id + 1
        /\ ask' = "none" /\ avail' \in {"active", "closed"}
    BY <1>12, StartFacts DEF Starts
  <2>3. run.id \in Nat /\ run'.id \in Nat /\ run'.id >= run.id
    BY <2>2, TypeFacts DEF IInv
  <2>4. TypeOK'
    BY <1>2, <1>5, <1>6, <1>8, <2>2, <2>3 DEF IInv, TypeOK, world, history
  <2>5. NoticesSound'
    BY <1>9, <2>3
  <2> QED
    BY <2>1, <2>4, <2>5 DEF IInv
<1> QED
  BY <1>10, <1>11, <1>12

\* What is left of the steps that may stop a run.
LEMMA NoStopKeeps ==
  ASSUME IInv, \/ StopRoot /\ Settled
               \/ CloseSettled /\ Settled
               \/ AnswerFails /\ ~(At("turn") /\ ~stop /\ ~Settled)
  PROVE  IInv'
<1>1. /\ run' = run /\ ex' = ex /\ ask' = ask /\ holder' \in {holder, "none"}
      /\ avail' = avail \/ (avail' = "closed" /\ Settled)
      /\ UNCHANGED <<paused, bound, leased, world, notices, up, held,
                     decision, closing, crashes, handed, released>>
  BY DEF StopRoot, CloseSettled, AnswerFails, Free
<1>2. /\ Open /\ stop' \in {stop, TRUE} /\ hush' \in {hush, TRUE}
      /\ \/ msg' = msg /\ barred' = barred
         \/ /\ msg' = QueueCut /\ barred' = barred \cup Undelivered
            /\ stop' = TRUE
  BY DEF StopRoot, CloseSettled, AnswerFails
<1>3. /\ barred' \subseteq Messages /\ msg' \in [Messages -> Statuses]
      /\ \A m \in Messages :
           /\ msg'[m] = msg[m] \/ (msg[m] = "queued" /\ msg'[m] = "cancelled")
           /\ m \in barred' =>
                m \in barred \/ (msg[m] # "new" /\ msg'[m] # "queued")
  BY <1>2 DEF IInv, TypeOK, QueueCut, Cancelled, Queued, Undelivered, Statuses
<1>4. TypeOK'
  <2>1. stop' \in BOOLEAN /\ hush' \in BOOLEAN
    BY <1>2, Zenon DEF IInv, TypeOK
  <2> QED
    BY <1>1, <1>3, <2>1 DEF IInv, TypeOK, world, notices
<1>5. RunUnderWay'
  BY <1>1 DEF IInv, RunUnderWay, notices, Active, Settled, Preparing, Leasing,
     Final
<1>6. MessagesSound'
  <2>1. ASSUME NEW m \in Messages
        PROVE  MessageSound(m)'
    <3>1. MessageSound(m)
      BY <2>1 DEF IInv, MessagesSound
    <3> QED
      BY <1>1, <1>3, <2>1, <3>1 DEF MessageSound
  <2>2. run.msg \in Messages
    BY TypeFacts DEF IInv
  <2>3. stop => stop'
    BY <1>2, Zenon
  <2>4. barred' = barred \/ stop'
    BY <1>2
  <2> QED
    BY <1>1, <1>3, <2>1, <2>2, <2>3, <2>4 DEF IInv, MessagesSound, Opening
<1>7. NoticesSound'
  BY <1>1 DEF IInv, NoticesSound, NoticeSound, notices
<1>8. WritersSound'
  BY <1>1 DEF IInv, WritersSound, world, Leasing, Settled, Unresolved, Final
<1> QED
  BY <1>4, <1>5, <1>6, <1>7, <1>8 DEF IInv

LEMMA RefuseKeeps ==
  ASSUME IInv, Refuse
  PROVE  IInv'
<1>1. run' \in Run /\ run'.id = run.id
  BY TypeFacts DEF IInv, TypeOK, Refuse, journal, world, notices, history
<1>2. ex' \in Execution
  BY TypeFacts, AtPc DEF IInv, Refuse, Pcs
<1>3. TypeOK'
  BY <1>2 DEF IInv, TypeOK, Refuse, journal, world, notices, history
<1>4. RunUnderWay'
  BY DEF IInv, RunUnderWay, Refuse, Active, Preparing, Leasing, journal
<1>5. MessagesSound'
  BY DEF IInv, MessagesSound, Refuse, MessageSound, Opening, journal, history
<1>6. NoticesSound'
  BY DEF IInv, NoticesSound, Refuse, NoticeSound, journal, notices
<1>7. WritersSound'
  BY DEF IInv, WritersSound, Refuse, Leasing, Settled, Unresolved, journal,
     world, history
<1> QED
  BY <1>3, <1>4, <1>5, <1>6, <1>7 DEF IInv

LEMMA SteerKeeps ==
  ASSUME IInv, NEW m \in Messages, Steer(m)
  PROVE  IInv'
<1>1. run' \in Run /\ run'.id = run.id
  BY DEF IInv, TypeOK, Steer
<1>2. ex' \in Execution
  BY DEF IInv, TypeOK, Steer
<1>3. TypeOK'
  BY DEF IInv, TypeOK, Steer, Statuses, world, notices
<1>4. RunUnderWay'
  BY DEF IInv, RunUnderWay, Steer, Active, Settled, Preparing, Session,
     notices, Final
<1>5. MessagesSound'
  BY DelegationAssumption, <1>1, <1>2 DEF IInv, MessagesSound, TypeOK, Steer,
     Messages, MessageSound, Opening, Run, Statuses, Runs, Execution, MaySend,
     NextMessage, Session, world, notices, Phases, Open, Free, Settled,
     RunTransitions, Final
<1>6. NoticesSound'
  BY DEF IInv, NoticesSound, Steer, NoticeSound, notices
<1>7. WritersSound'
  BY DEF IInv, WritersSound, Steer, Settled, Unresolved, world
<1> QED
  BY <1>3, <1>4, <1>5, <1>6, <1>7 DEF IInv

LEMMA SteerEndsKeeps ==
  ASSUME IInv, SteerEnds
  PROVE  IInv'
<1>1. run' \in Run /\ run'.id = run.id
  BY TypeFacts DEF IInv, TypeOK, SteerEnds, Open, Steered, world, notices,
     history
<1>2. ex' \in Execution
  BY DEF IInv, TypeOK, SteerEnds
<1>3. TypeOK'
  BY DEF IInv, TypeOK, SteerEnds, Statuses, world, notices, history
<1>4. RunUnderWay'
  BY DEF IInv, RunUnderWay, SteerEnds, Active, Settled, notices
<1>5. MessagesSound'
  <2>1. PICK status \in {"accepted", "delivery_unknown"} :
          msg' = [m \in Messages |-> IF m \in Steered THEN status ELSE msg[m]]
    BY DEF SteerEnds
  <2>2. UNCHANGED <<run, up, stop, ex, handed, barred>>
    BY DEF SteerEnds, service, history
  <2>3. ASSUME NEW m \in Messages
        PROVE  MessageSound(m)'
    <3>1. msg'[m] = IF msg[m] = "sending" /\ m # run.msg THEN status
                    ELSE msg[m]
      BY <2>1 DEF Steered
    <3>2. handed[m] \in Nat
      BY DEF IInv, TypeOK
    <3> QED
      BY <2>2, <3>1, <3>2 DEF IInv, MessagesSound, MessageSound
  <2>4. ex.pc \in {"turn", "close", "settle"}
    BY DEF IInv, RunUnderWay, SteerEnds
  <2>5. run.msg \in Messages => msg'[run.msg] = msg[run.msg]
    BY <2>1 DEF Steered
  <2> QED
    BY TypeFacts, <2>2, <2>3, <2>4, <2>5 DEF IInv, MessagesSound, Opening
<1>6. NoticesSound'
  BY DEF IInv, NoticesSound, SteerEnds, NoticeSound, notices
<1>7. WritersSound'
  BY DEF IInv, WritersSound, SteerEnds, Settled, Unresolved, world, history
<1> QED
  BY <1>3, <1>4, <1>5, <1>6, <1>7 DEF IInv

LEMMA UnwindKeeps ==
  ASSUME IInv, Unwind
  PROVE  IInv'
<1>1. run' \in Run /\ run'.id = run.id
  BY TypeFacts DEF IInv, Unwind, journal
<1>2. ex' \in Execution
  BY TypeFacts, AtPc DEF IInv, Unwind, Pcs
<1>3. TypeOK'
  BY <1>2 DEF IInv, TypeOK, Unwind, journal, world, notices, history
<1>4. RunUnderWay'
  BY DEF IInv, RunUnderWay, Unwind, Active, Settled, Preparing, Leasing, At,
     journal, notices, Final
<1>5. MessagesSound'
  BY DEF IInv, MessagesSound, Unwind, MessageSound, Opening, journal, history
<1>6. NoticesSound'
  BY <1>1 DEF IInv, NoticesSound, Unwind, NoticeSound, notices
<1>7. WritersSound'
  BY DEF IInv, WritersSound, Unwind, Leasing, Unresolved, At, journal, world,
     history, Open
<1> QED
  BY <1>3, <1>4, <1>5, <1>6, <1>7 DEF IInv

LEMMA GrantKeeps ==
  ASSUME IInv, Grant
  PROVE  IInv'
<1>1. run' \in Run /\ run'.id = run.id
  BY PatchedFacts, PhaseFacts DEF IInv, TypeOK, Grant
<1>2. ex' \in Execution
  BY AtPc DEF IInv, TypeOK, Grant, Pcs
<1>3. TypeOK'
  BY <1>1, <1>2 DEF IInv, TypeOK, Grant, world, notices, history
<1>4. RunUnderWay'
  BY DEF IInv, RunUnderWay, Grant, Active, Settled, Leasing, At, Patched,
     notices, Final
<1>5. MessagesSound'
  BY DEF IInv, MessagesSound, Grant, MessageSound, Opening, At, Patched,
     history
<1>6. NoticesSound'
  BY <1>1 DEF IInv, NoticesSound, Grant, NoticeSound, notices
<1>7. WritersSound'
  BY DEF IInv, WritersSound, Grant, Leasing, Settled, Unresolved, At, Patched,
     world, history, Final
<1> QED
  BY <1>3, <1>4, <1>5, <1>6, <1>7 DEF IInv

LEMMA PrepareKeeps ==
  ASSUME IInv, Prepare
  PROVE  IInv'
<1>1. run' \in Run /\ run'.id = run.id
  BY DEF IInv, TypeOK, Prepare
<1>2. ex' \in Execution
  BY TypeFacts, AtPc DEF IInv, Prepare, Pcs
<1>3. TypeOK'
  BY <1>2 DEF IInv, TypeOK, Prepare, world, notices, history
<1>4. RunUnderWay'
  BY DEF IInv, RunUnderWay, Prepare, Active, Preparing, At, notices
<1>5. MessagesSound'
  BY DEF IInv, MessagesSound, Prepare, MessageSound, Opening, At, history
<1>6. NoticesSound'
  BY DEF IInv, NoticesSound, Prepare, NoticeSound, notices
<1>7. WritersSound'
  BY DEF IInv, WritersSound, Prepare, Leasing, Settled, Unresolved, At, world,
     history
<1> QED
  BY <1>3, <1>4, <1>5, <1>6, <1>7 DEF IInv

LEMMA LockKeeps ==
  ASSUME IInv, Lock
  PROVE  IInv'
<1>1. run' \in Run /\ run'.id = run.id
  BY TypeFacts DEF IInv, Lock, journal
<1>2. ex' \in Execution
  BY TypeFacts, AtPcWith DEF IInv, Lock, Pcs
<1>3. TypeOK'
  BY <1>2 DEF IInv, TypeOK, Lock, journal, world, notices, history
<1>4. RunUnderWay'
  BY DEF IInv, RunUnderWay, Lock, Active, Preparing, At, journal, notices
<1>5. MessagesSound'
  BY DEF IInv, MessagesSound, Lock, MessageSound, Opening, At, journal, history
<1>6. NoticesSound'
  BY <1>1 DEF IInv, NoticesSound, Lock, NoticeSound, notices
<1>7. WritersSound'
  BY DEF IInv, WritersSound, Lock, Leasing, Unresolved, At, journal, world,
     history, Open
<1> QED
  BY <1>3, <1>4, <1>5, <1>6, <1>7 DEF IInv

LEMMA ProcessStartsKeeps ==
  ASSUME IInv, ProcessStarts
  PROVE  IInv'
<1>1. run' \in Run /\ run'.id = run.id
  <2>1. run' = [run EXCEPT !.process = TRUE]
    BY TypeFacts, PhaseFacts DEF IInv, ProcessStarts, At, Free, notices,
       history, Open
  <2> QED
    BY <2>1, TypeFacts, RunFlags DEF IInv
<1>2. ex' \in Execution
  BY AtPc DEF IInv, TypeOK, ProcessStarts, Pcs
<1>3. TypeOK'
  BY TypeFacts, <1>1, <1>2 DEF IInv, TypeOK, ProcessStarts, At, notices,
     history, Open
<1>4. RunUnderWay'
  BY DEF IInv, RunUnderWay, ProcessStarts, Active, Preparing, Leasing, At,
     notices
<1>5. MessagesSound'
  BY DEF IInv, MessagesSound, ProcessStarts, MessageSound, Opening, At, history
<1>6. NoticesSound'
  BY DEF IInv, NoticesSound, ProcessStarts, NoticeSound, notices
<1>7. WritersSound'
  BY DEF IInv, WritersSound, RunUnderWay, ProcessStarts, Leasing, Settled,
     Unresolved, Preparing, At, history, Final
<1> QED
  BY <1>3, <1>4, <1>5, <1>6, <1>7 DEF IInv

LEMMA OpenFailsKeeps ==
  ASSUME IInv, OpenFails
  PROVE  IInv'
<1>1. run' \in Run /\ run'.id = run.id
  BY TypeFacts DEF IInv, TypeOK, OpenFails, At, journal, notices, history, Open
<1>2. ex' \in Execution
  <2>1. PICK quiet \in BOOLEAN : ex' = [ex EXCEPT !.pc = "settle",
                                                    !.quiescent = quiet]
    BY DEF OpenFails
  <2> QED
    BY <2>1, TypeFacts, AtPcWith DEF IInv, Pcs
<1>3. TypeOK'
  BY <1>2 DEF IInv, TypeOK, OpenFails, journal, notices, history
<1>4. RunUnderWay'
  BY DEF IInv, RunUnderWay, OpenFails, Active, Settled, Preparing, Leasing, At,
     journal, notices, Final
<1>5. MessagesSound'
  BY DEF IInv, MessagesSound, OpenFails, MessageSound, Opening, journal,
     history
<1>6. NoticesSound'
  BY <1>1 DEF IInv, NoticesSound, OpenFails, NoticeSound, notices
<1>7. WritersSound'
  BY DEF IInv, WritersSound, OpenFails, Leasing, Settled, Unresolved, At,
     journal, history
<1> QED
  BY <1>3, <1>4, <1>5, <1>6, <1>7 DEF IInv

LEMMA OpenedKeeps ==
  ASSUME IInv, Opened
  PROVE  IInv'
<1>1. run' \in Run /\ run'.id = run.id
  BY DEF IInv, TypeOK, Opened
<1>2. ex' \in Execution
  <2>1. ex' \in {[ex EXCEPT !.pc = "close"], [ex EXCEPT !.pc = "intent"]}
    BY DEF Opened
  <2> QED
    BY <2>1, TypeFacts, AtPc DEF IInv, Pcs
<1>3. TypeOK'
  BY <1>2 DEF IInv, TypeOK, Opened, Statuses, world, notices, history
<1>4. RunUnderWay'
  BY <1>2 DEF IInv, RunUnderWay, Opened, Execution, Active, Settled, Preparing,
     Leasing, At, notices, Final
<1>5. MessagesSound'
  BY DelegationAssumption, <1>1, <1>2 DEF IInv, MessagesSound, TypeOK, Opened,
     Messages, MessageSound, Opening, Run, Statuses, Runs, Execution, At,
     Free, world, notices, history, Phases, Open, RunTransitions, Final
<1>6. NoticesSound'
  BY DEF IInv, NoticesSound, Opened, NoticeSound, notices
<1>7. WritersSound'
  BY <1>2 DEF IInv, WritersSound, Opened, Execution, Settled, Leasing,
     Unresolved, At, world, history
<1> QED
  BY <1>3, <1>4, <1>5, <1>6, <1>7 DEF IInv

LEMMA SubmitKeeps ==
  ASSUME IInv, Submit
  PROVE  IInv'
<1>1. run' \in Run /\ run'.id = run.id
  BY TypeFacts DEF IInv, TypeOK, Submit, At, journal, world, notices, Open
<1>2. ex' \in Execution
  <2>1. CASE ex' = [ex EXCEPT !.pc = "close"]
    BY <2>1, TypeFacts, AtPc DEF IInv, Pcs
  <2>2. CASE ex' = [ex EXCEPT !.pc = "submit", !.sent = TRUE]
    BY <2>2, TypeFacts, AtPcWith DEF IInv, Pcs
  <2> QED
    BY <2>1, <2>2 DEF Submit
<1>8. At("intent") /\ UNCHANGED <<journal, world, notices, up, stop, hush,
        held, holder, decision, closing, crashes, barred, released>>
  BY TypeFacts DEF Submit
<1>9. /\ ex'.accepted = ex.accepted /\ ex'.aborted = ex.aborted
      /\ ex'.quiescent = ex.quiescent /\ ex'.lease = ex.lease
  BY TypeFacts DEF IInv, TypeOK, Execution, Submit
<1>10. \/ ex'.pc = "close" /\ (ex'.sent => ex.sent) /\ handed' = handed
      \/ /\ ex'.pc = "submit" /\ ex'.sent = TRUE
         /\ handed' = [handed EXCEPT ![run.msg] = @ + 1]
  BY TypeFacts DEF IInv, TypeOK, Execution, Submit
<1>3. TypeOK'
  BY <1>2 DEF IInv, TypeOK, Submit, journal, world, notices
<1>4. RunUnderWay'
  BY <1>8, <1>9, <1>10 DEF IInv, RunUnderWay, journal, notices, At, Active,
     Settled, Preparing, Leasing, Final
<1>5. MessagesSound'
  <2>1. /\ run.msg \in Messages /\ handed[run.msg] = 0
        /\ msg[run.msg] = "sending" /\ handed \in [Messages -> Nat] /\ ~ex.sent
    BY TypeFacts, <1>8 DEF IInv, TypeOK, MessagesSound, At
  <2>2. \/ ex'.pc = "close" /\ ~ex'.sent /\ handed' = handed
        \/ /\ ex'.pc = "submit" /\ ex'.sent /\ handed'[run.msg] = 1
           /\ \A m \in Messages \ {run.msg} : handed'[m] = handed[m]
    BY <1>10, <2>1
  <2>3. ASSUME NEW m \in Messages
        PROVE  MessageSound(m)'
    BY <1>8, <2>1, <2>2
       DEF IInv, MessagesSound, MessageSound, journal, service, history
  <2> QED
    BY <1>8, <1>9, <2>1, <2>2, <2>3
       DEF IInv, MessagesSound, Opening, journal
<1>6. NoticesSound'
  BY <1>1, <1>8 DEF IInv, NoticesSound, notices, NoticeSound
<1>7. WritersSound'
  BY <1>8, <1>9, <1>10 DEF IInv, WritersSound, journal, world, At, Settled,
     Leasing, Unresolved
<1> QED
  BY <1>3, <1>4, <1>5, <1>6, <1>7 DEF IInv

LEMMA AcceptKeeps ==
  ASSUME IInv, Accept
  PROVE  IInv'
<1>1. run' \in Run /\ run'.id = run.id
  BY TypeFacts, PatchedFacts, PhaseFacts DEF IInv, Accept
<1>2. ex' \in Execution
  BY TypeFacts, AtPcWith DEF IInv, Accept, Pcs
<1>3. TypeOK'
  BY TypeFacts, <1>1, <1>2 DEF IInv, TypeOK, Accept, Statuses, world, notices,
     history
<1>4. RunUnderWay'
  BY DEF IInv, RunUnderWay, Accept, Active, Preparing, Leasing, At, Patched,
     notices
<1>5. MessagesSound'
  BY DEF IInv, MessagesSound, TypeOK, Accept, MessageSound, Opening, Run, At,
     Patched, history
<1>6. NoticesSound'
  BY <1>1 DEF IInv, NoticesSound, Accept, NoticeSound, notices
<1>7. WritersSound'
  BY DEF IInv, WritersSound, Accept, Leasing, Settled, Unresolved, At, Patched,
     world, history, Final
<1> QED
  BY <1>3, <1>4, <1>5, <1>6, <1>7 DEF IInv

LEMMA AcceptElsewhereKeeps ==
  ASSUME IInv, AcceptElsewhere
  PROVE  IInv'
<1>1. run' \in Run /\ run'.id = run.id
  BY DEF IInv, TypeOK, AcceptElsewhere, journal
<1>2. ex' \in Execution
  BY AtPcWith DEF IInv, TypeOK, AcceptElsewhere, Pcs
<1>3. TypeOK'
  BY <1>2 DEF IInv, TypeOK, AcceptElsewhere, journal, world, notices, history
<1>4. RunUnderWay'
  BY DEF IInv, RunUnderWay, AcceptElsewhere, Active, Settled, Preparing,
     Leasing, At, journal, notices, Final
<1>5. MessagesSound'
  BY DEF IInv, MessagesSound, AcceptElsewhere, MessageSound, Opening, At,
     journal, history
<1>6. NoticesSound'
  BY <1>1 DEF IInv, NoticesSound, AcceptElsewhere, NoticeSound, notices
<1>7. WritersSound'
  BY DEF IInv, WritersSound, AcceptElsewhere, Leasing, Settled, Unresolved, At,
     journal, world, history
<1> QED
  BY <1>3, <1>4, <1>5, <1>6, <1>7 DEF IInv

LEMMA SubmitFailsKeeps ==
  ASSUME IInv, SubmitFails
  PROVE  IInv'
<1>1. run' \in Run /\ run'.id = run.id
  BY TypeFacts DEF IInv, SubmitFails, journal
<1>2. ex' \in Execution
  BY TypeFacts, AtPc DEF IInv, SubmitFails, Pcs
<1>3. TypeOK'
  BY <1>2 DEF IInv, TypeOK, SubmitFails, journal, world, notices, history
<1>4. RunUnderWay'
  BY DEF IInv, RunUnderWay, SubmitFails, Active, Settled, Preparing, Leasing,
     At, journal, notices, Final
<1>5. MessagesSound'
  BY DEF IInv, MessagesSound, SubmitFails, MessageSound, Opening, journal,
     history
<1>6. NoticesSound'
  BY <1>1 DEF IInv, NoticesSound, SubmitFails, NoticeSound, notices
<1>7. WritersSound'
  BY DEF IInv, WritersSound, SubmitFails, Leasing, Settled, Unresolved, At,
     journal, world, history
<1> QED
  BY <1>3, <1>4, <1>5, <1>6, <1>7 DEF IInv

LEMMA QuestionKeeps ==
  ASSUME IInv, Question
  PROVE  IInv'
<1>1. run' \in Run /\ run'.id = run.id
  BY PatchedFacts, PhaseFacts DEF IInv, Question
<1>2. ex' \in Execution
  BY TypeFacts DEF IInv, Question, service
<1>3. TypeOK'
  BY <1>1 DEF IInv, TypeOK, Question, world, notices, service, history
<1>4. RunUnderWay'
  BY DEF IInv, RunUnderWay, Question, Active, Preparing, At, Free, Patched,
     notices, service
<1>5. MessagesSound'
  BY DEF IInv, MessagesSound, Question, MessageSound, Patched, service, history
<1>6. NoticesSound'
  BY <1>1 DEF IInv, NoticesSound, Question, NoticeSound, notices
<1>7. WritersSound'
  BY DEF IInv, WritersSound, Question, Settled, Unresolved, At, Patched, world,
     service, history, Final
<1> QED
  BY <1>3, <1>4, <1>5, <1>6, <1>7 DEF IInv

LEMMA AnswerKeeps ==
  ASSUME IInv, Answer
  PROVE  IInv'
<1>1. run' \in Run /\ run'.id = run.id
  BY DEF IInv, TypeOK, Answer, journal
<1>2. ex' \in Execution
  BY DEF IInv, TypeOK, Answer
<1>3. TypeOK'
  BY DEF IInv, TypeOK, Answer, journal, world, notices, history
<1>4. RunUnderWay'
  BY DEF IInv, RunUnderWay, Answer, Active, Settled, Asked, journal, notices,
     Final, At
<1>5. MessagesSound'
  BY DEF IInv, MessagesSound, Answer, MessageSound, journal, history
<1>6. NoticesSound'
  BY <1>1 DEF IInv, NoticesSound, Answer, NoticeSound, notices
<1>7. WritersSound'
  BY DEF IInv, WritersSound, Answer, Settled, Unresolved, journal, world,
     history
<1> QED
  BY <1>3, <1>4, <1>5, <1>6, <1>7 DEF IInv

LEMMA AnswerArrivesKeeps ==
  ASSUME IInv, AnswerArrives
  PROVE  IInv'
<1>1. run' \in Run /\ run'.id = run.id
  BY PatchedFacts, PhaseFacts DEF IInv, AnswerArrives
<1>2. ex' \in Execution
  BY TypeFacts DEF IInv, TypeOK, AnswerArrives, Pcs, Open, world, notices,
     history
<1>3. TypeOK'
  BY <1>1 DEF IInv, TypeOK, AnswerArrives, world, notices, history
<1>4. RunUnderWay'
  BY DEF IInv, RunUnderWay, AnswerArrives, Active, Settled, Preparing, Patched,
     notices, Final
<1>5. MessagesSound'
  BY DEF IInv, MessagesSound, AnswerArrives, MessageSound, Patched, history
<1>6. NoticesSound'
  BY <1>1 DEF IInv, NoticesSound, AnswerArrives, NoticeSound, notices
<1>7. WritersSound'
  BY DEF IInv, WritersSound, RunUnderWay, AnswerArrives, Settled, Unresolved,
     Patched, world, history, Final
<1> QED
  BY <1>3, <1>4, <1>5, <1>6, <1>7 DEF IInv

LEMMA TurnEndsKeeps ==
  ASSUME IInv, TurnEnds
  PROVE  IInv'
<1>1. run' \in Run /\ run'.id = run.id
  BY TypeFacts DEF IInv, TurnEnds, journal
<1>2. ex' \in Execution
  <2>1. PICK status \in {"none", "completed", "failed"} :
          ex' = [ex EXCEPT !.pc = "close", !.status = status]
    BY DEF TurnEnds
  <2> QED
    BY <2>1, TypeFacts, AtPcStatus DEF IInv, Pcs
<1>3. TypeOK'
  BY <1>2 DEF IInv, TypeOK, TurnEnds, journal, world, notices, history
<1>4. RunUnderWay'
  BY DEF IInv, RunUnderWay, TurnEnds, Active, Settled, Preparing, Leasing, At,
     journal, notices, Final
<1>5. MessagesSound'
  BY DEF IInv, MessagesSound, TurnEnds, MessageSound, Opening, journal, history
<1>6. NoticesSound'
  BY <1>1 DEF IInv, NoticesSound, TurnEnds, NoticeSound, notices
<1>7. WritersSound'
  BY DEF IInv, WritersSound, TurnEnds, Leasing, Settled, Unresolved, At,
     journal, world, history
<1> QED
  BY <1>3, <1>4, <1>5, <1>6, <1>7 DEF IInv

LEMMA SessionClosesKeeps ==
  ASSUME IInv, SessionCloses
  PROVE  IInv'
<1>1. run' \in Run /\ run'.id = run.id
  BY TypeFacts DEF IInv, TypeOK, SessionCloses, At, journal, notices, history,
     Open
<1>2. ex' \in Execution
  <2>1. PICK quiet \in BOOLEAN : ex' = [ex EXCEPT !.pc = "settle",
                                                    !.quiescent = quiet]
    BY DEF SessionCloses
  <2> QED
    BY <2>1, TypeFacts, AtPcWith DEF IInv, Pcs
<1>3. TypeOK'
  BY <1>2 DEF IInv, TypeOK, SessionCloses, journal, notices, history
<1>4. RunUnderWay'
  BY DEF IInv, RunUnderWay, SessionCloses, Active, Settled, Preparing, Leasing,
     At, journal, notices
<1>5. MessagesSound'
  BY DEF IInv, MessagesSound, SessionCloses, MessageSound, Opening, journal,
     history
<1>6. NoticesSound'
  BY <1>1 DEF IInv, NoticesSound, SessionCloses, NoticeSound, notices
<1>7. WritersSound'
  BY DEF IInv, WritersSound, SessionCloses, Leasing, Settled, Unresolved, At,
     journal, history
<1> QED
  BY <1>3, <1>4, <1>5, <1>6, <1>7 DEF IInv

LEMMA SettleKeeps ==
  ASSUME IInv, Settle
  PROVE  IInv'
<1>1. run' \in Run /\ run'.id = run.id
  <2>1. TypeOK /\ run' = Patched(Outcome)
    BY DEF IInv, Settle
  <2>2. Outcome \in Phases
    BY <2>1, OutcomeFacts, PhaseFacts
  <2> QED
    BY <2>1, <2>2, PatchedFacts
<1>2. ex' \in Execution
  BY StartedType DEF Settle
<1>8. run'.phase = Outcome /\ run'.msg = run.msg
      /\ run'.resolved = run.resolved /\ run'.process = run.process
  BY TypeFacts, OutcomeFacts, PatchedFacts, PhaseFacts DEF IInv, Settle
<1>9. ex'.pc = "collect" /\ ~ex'.sent /\ ~ex'.accepted /\ ~ex'.lease
      /\ ex'.quiescent
  BY TypeFacts DEF Settle, Started
<1>10. /\ Outcome \in Final
       /\ Settled => Outcome = run.phase
       /\ ~ex.quiescent => Outcome = "outcome_unknown"
  BY TypeFacts, OutcomeFacts DEF IInv, RunUnderWay, Settle, At
<1>11. /\ At("settle") /\ Free
       /\ avail' = IF Settled THEN avail ELSE AvailAfter(Outcome)
       /\ msg' = [msg EXCEPT ![run.msg] = OwnStatus]
       /\ held' = HeldAfter(Outcome)
       /\ ask' = IF Waiting THEN "over" ELSE ask
       /\ UNCHANGED <<paused, bound, leased, world, notices, up, stop, hush,
                      holder, decision, closing, history>>
  BY TypeFacts DEF Settle
<1>3. TypeOK'
  BY TypeFacts, <1>1, <1>2 DEF IInv, TypeOK, Settle, Statuses, AvailAfter,
     OwnStatus, HeldAfter, world, notices, history
<1>4. RunUnderWay'
  BY <1>1, <1>8, <1>9, <1>10, <1>11 DEF IInv, RunUnderWay, At, Free, notices,
     Active, Settled, Preparing, Leasing, Final
<1>5. MessagesSound'
  BY DelegationAssumption, <1>1, <1>2, <1>8, <1>9, <1>10, <1>11 DEF IInv,
     TypeOK, RunUnderWay, MessagesSound, AvailAfter, HeldAfter, OwnStatus,
     Waiting, At, Free, world, notices, history, Messages, Statuses, Runs,
     Active, Settled, Preparing, Leasing, MessageSound, Opening, Final, Open
<1>6. NoticesSound'
  BY <1>1, <1>11 DEF IInv, NoticesSound, notices, NoticeSound
<1>7. WritersSound'
  BY <1>1, <1>8, <1>9, <1>10, <1>11 DEF IInv, RunUnderWay, WritersSound,
     AvailAfter, HeldAfter, At, world, history, Active, Settled, Leasing,
     Unresolved
<1> QED
  BY <1>3, <1>4, <1>5, <1>6, <1>7 DEF IInv

LEMMA WithholdKeeps ==
  ASSUME IInv, NEW r \in Runs, Withhold(r)
  PROVE  IInv'
<1>1. run' \in Run /\ run'.id = run.id
  BY TypeFacts DEF IInv, TypeOK, Withhold, NoticeDue, journal, world, service,
     history
<1>2. ex' \in Execution
  BY TypeFacts DEF IInv, Withhold, service
<1>3. TypeOK'
  BY DEF IInv, TypeOK, Withhold, NoticeDue, journal, world, service, history
<1>4. RunUnderWay'
  BY DEF IInv, RunUnderWay, Withhold, Active, Settled, journal, service
<1>5. MessagesSound'
  BY DEF IInv, MessagesSound, Withhold, MessageSound, journal, service, history
<1>6. NoticesSound'
  BY <1>1 DEF IInv, NoticesSound, Withhold, NoticeSound
<1>7. WritersSound'
  BY DEF IInv, WritersSound, Withhold, Settled, Unresolved, journal, world,
     service, history
<1> QED
  BY <1>3, <1>4, <1>5, <1>6, <1>7 DEF IInv

LEMMA HandOverKeeps ==
  ASSUME IInv, NEW r \in Runs, HandOver(r)
  PROVE  IInv'
<1>1. run' \in Run /\ run'.id = run.id
  BY TypeFacts DEF IInv, TypeOK, HandOver, NoticeDue, journal, world, service,
     history
<1>2. ex' \in Execution
  BY TypeFacts DEF IInv, HandOver, service
<1>3. TypeOK'
  BY DEF IInv, TypeOK, HandOver, NoticeDue, journal, world, service, history
<1>4. RunUnderWay'
  BY DEF IInv, RunUnderWay, HandOver, Active, Settled, journal, service
<1>5. MessagesSound'
  BY DEF IInv, MessagesSound, HandOver, MessageSound, journal, service, history
<1>6. NoticesSound'
  BY DelegationAssumption, <1>1, <1>2 DEF IInv, NoticesSound, TypeOK,
     HandOver, Runs, NoticeSound, Run, Messages, Statuses, Execution,
     NoticeDue, journal, world, service, history, Phases, RunTransitions,
     Final
<1>7. WritersSound'
  BY DEF IInv, WritersSound, HandOver, Settled, Unresolved, journal, world,
     service, history
<1> QED
  BY <1>3, <1>4, <1>5, <1>6, <1>7 DEF IInv

LEMMA MarkDeliveredKeeps ==
  ASSUME IInv, MarkDelivered
  PROVE  IInv'
<1>1. run' \in Run /\ run'.id = run.id
  BY TypeFacts DEF IInv, TypeOK, MarkDelivered, Free, journal, world, service,
     history
<1>2. ex' \in Execution
  BY TypeFacts DEF IInv, MarkDelivered, service
<1>3. TypeOK'
  <2>1. note' \in [Runs -> {"none", "pending", "delivered"}]
    BY TypeFacts, <1>1 DEF IInv, TypeOK, MarkDelivered
  <2> QED
    BY TypeFacts, <2>1 DEF IInv, TypeOK, MarkDelivered, journal, world,
       service, history
<1>4. RunUnderWay'
  BY DEF IInv, RunUnderWay, TypeOK, NoticesSound, MarkDelivered, Active,
     Settled, NoticeSound, journal, service
<1>5. MessagesSound'
  BY DEF IInv, MessagesSound, MarkDelivered, MessageSound, journal, service,
     history
<1>6. NoticesSound'
  BY <1>1 DEF IInv, NoticesSound, MarkDelivered, NoticeSound
<1>7. WritersSound'
  BY DEF IInv, WritersSound, MarkDelivered, Settled, Unresolved, journal,
     world, service, history
<1> QED
  BY <1>3, <1>4, <1>5, <1>6, <1>7 DEF IInv

LEMMA PromptKeeps ==
  ASSUME IInv, Prompt
  PROVE  IInv'
<1>1. run' \in Run /\ run'.id = run.id
  BY DEF IInv, TypeOK, Prompt
<1>2. ex' \in Execution
  BY TypeFacts DEF IInv, Prompt
<1>3. TypeOK'
  <2>1. Untold \subseteq 1..run.id
    BY TypeFacts, <1>1 DEF IInv, NoticesSound, NoticeSound, Untold
  <2>2. telling' \subseteq 1..run'.id
    BY TypeFacts, <1>1, <2>1 DEF IInv, TypeOK, Prompt
  <2>3. paused' \in BOOLEAN /\ hush' \in BOOLEAN
    BY TypeFacts, <1>1 DEF Prompt
  <2> QED
    BY <2>1, <2>3 DEF IInv, TypeOK, Prompt, world, history
<1>4. RunUnderWay'
  BY DEF IInv, RunUnderWay, Prompt, Active, Settled
<1>5. MessagesSound'
  BY DEF IInv, MessagesSound, Prompt, MessageSound, history
<1>6. NoticesSound'
  BY DEF IInv, NoticesSound, Prompt, NoticeSound, Untold
<1>7. WritersSound'
  BY DEF IInv, WritersSound, Prompt, Unresolved, world, history
<1> QED
  BY <1>3, <1>4, <1>5, <1>6, <1>7 DEF IInv

LEMMA InspectHistoryKeeps ==
  ASSUME IInv, InspectHistory
  PROVE  IInv'
<1>1. run' \in Run /\ run'.id = run.id
  <2>1. run' = [run EXCEPT !.inspected = TRUE]
    BY DEF InspectHistory
  <2> QED
    BY <2>1, TypeFacts, RunFlags DEF IInv
<1>2. ex' \in Execution
  BY TypeFacts DEF IInv, InspectHistory, service
<1>3. TypeOK'
  BY <1>1 DEF IInv, TypeOK, InspectHistory, world, notices, service, history
<1>4. RunUnderWay'
  BY DEF IInv, RunUnderWay, InspectHistory, Active, Settled, service
<1>5. MessagesSound'
  BY DEF IInv, MessagesSound, InspectHistory, MessageSound, service, history
<1>6. NoticesSound'
  BY DEF IInv, NoticesSound, InspectHistory, NoticeSound, notices
<1>7. WritersSound'
  BY DEF IInv, WritersSound, InspectHistory, Unresolved, world, service,
     history
<1> QED
  BY <1>3, <1>4, <1>5, <1>6, <1>7 DEF IInv

LEMMA RecoverKeeps ==
  ASSUME IInv, Recover
  PROVE  IInv'
<1>1. run' \in Run /\ run'.id = run.id
  <2>1. PICK b \in BOOLEAN, p \in Phases :
          run' = [run EXCEPT !.resolved = b, !.phase = p]
    BY PhaseFacts DEF Recover, Settled, Final
  <2> QED
    BY <2>1, TypeFacts, RunEnded DEF IInv
<1>2. ex' \in Execution
  BY DEF IInv, TypeOK, Recover
<1>3. TypeOK'
  BY <1>1 DEF IInv, TypeOK, Recover, Statuses, Cancelled, world, notices,
     history
<1>4. RunUnderWay'
  BY DelegationAssumption, <1>1, <1>2 DEF IInv, RunUnderWay, TypeOK, Recover,
     Active, Settled, Preparing, Leasing, Run, Messages, Statuses, Runs,
     Execution, Open, Free, Cancelled, world, notices, history, Final, Phases,
     RunTransitions
<1>5. MessagesSound'
  BY DEF IInv, MessagesSound, Recover, MessageSound, Opening, Active,
     Cancelled, history
<1>6. NoticesSound'
  BY DEF IInv, NoticesSound, Recover, NoticeSound, notices
<1>7. WritersSound'
  BY DelegationAssumption, <1>1, <1>2 DEF IInv, WritersSound, TypeOK,
     RunUnderWay, Recover, Leasing, Settled, Unresolved, Run, Messages,
     Statuses, Runs, Execution, Active, Preparing, Open, Free, Cancelled,
     world, notices, history, Final, Phases, RunTransitions
<1> QED
  BY <1>3, <1>4, <1>5, <1>6, <1>7 DEF IInv

LEMMA AbandonKeeps ==
  ASSUME IInv, Abandon
  PROVE  IInv'
<1>1. run' \in Run /\ run'.id = run.id
  <2>1. PICK b \in BOOLEAN, p \in Phases :
          run' = [run EXCEPT !.resolved = b, !.phase = p]
    BY TypeFacts, PhaseFacts DEF IInv, Abandon, Final
  <2> QED
    BY <2>1, TypeFacts, RunEnded DEF IInv
<1>2. ex' \in Execution
  BY DEF IInv, TypeOK, Abandon
<1>3. TypeOK'
  <2>1. released' \subseteq 1..run'.id /\ alive' \subseteq 1..run'.id
    BY TypeFacts, <1>1 DEF IInv, TypeOK, Abandon
  <2>2. note' \in [Runs -> {"none", "pending", "delivered"}]
    BY TypeFacts, <1>1 DEF IInv, TypeOK, Abandon
  <2>3. paused' \in BOOLEAN /\ stop' \in BOOLEAN
    BY TypeFacts, <1>1 DEF Abandon
  <2> QED
    BY <1>1, <2>2, <2>3 DEF IInv, TypeOK, Abandon, Statuses, Cancelled
<1>4. RunUnderWay'
  BY DelegationAssumption, <1>1, <1>2 DEF IInv, RunUnderWay, TypeOK, Abandon,
     Active, Settled, Preparing, Leasing, Run, Messages, Statuses, Runs,
     Execution, Open, Free, NeedsExit, Cancelled, Waiting, Final, Phases,
     RunTransitions
<1>5. MessagesSound'
  BY DEF IInv, MessagesSound, Abandon, MessageSound, Opening, Active, Cancelled
<1>6. NoticesSound'
  BY DEF IInv, NoticesSound, Abandon, Runs, NoticeSound
<1>7. WritersSound'
  BY DelegationAssumption, <1>1, <1>2 DEF IInv, WritersSound, TypeOK,
     RunUnderWay, Abandon, Leasing, Settled, Unresolved, Run, Messages,
     Statuses, Runs, Execution, Active, Preparing, Open, Free, NeedsExit,
     Cancelled, Waiting, Final, Phases, RunTransitions
<1> QED
  BY <1>3, <1>4, <1>5, <1>6, <1>7 DEF IInv

LEMMA DecideKeeps ==
  ASSUME IInv, Decide
  PROVE  IInv'
<1>1. run' \in Run /\ run'.id = run.id
  BY DEF IInv, TypeOK, Decide, journal
<1>2. ex' \in Execution
  BY TypeFacts DEF IInv, Decide
<1>3. TypeOK'
  BY TypeFacts DEF IInv, TypeOK, Decide, journal, world, notices, history
<1>4. RunUnderWay'
  BY DEF IInv, RunUnderWay, Decide, Active, Settled, journal
<1>5. MessagesSound'
  BY DEF IInv, MessagesSound, Decide, MessageSound, journal, history
<1>6. NoticesSound'
  BY <1>1 DEF IInv, NoticesSound, Decide, NoticeSound, notices
<1>7. WritersSound'
  BY DEF IInv, WritersSound, Decide, Settled, Unresolved, journal, world,
     history
<1> QED
  BY <1>3, <1>4, <1>5, <1>6, <1>7 DEF IInv

LEMMA MergeConflictsKeeps ==
  ASSUME IInv, MergeConflicts
  PROVE  IInv'
<1>1. run' \in Run /\ run'.id = run.id
  BY TypeFacts DEF IInv, MergeConflicts, journal
<1>2. ex' \in Execution
  BY DEF IInv, TypeOK, MergeConflicts
<1>3. TypeOK'
  BY TypeFacts DEF IInv, TypeOK, MergeConflicts, NoDecision, journal, world,
     notices, history
<1>4. RunUnderWay'
  BY DEF IInv, RunUnderWay, MergeConflicts, Active, Settled, journal, notices
<1>5. MessagesSound'
  BY DEF IInv, MessagesSound, MergeConflicts, MessageSound, journal, history
<1>6. NoticesSound'
  BY <1>1 DEF IInv, NoticesSound, MergeConflicts, NoticeSound, notices
<1>7. WritersSound'
  BY DEF IInv, WritersSound, MergeConflicts, Settled, Unresolved, journal,
     world, history
<1> QED
  BY <1>3, <1>4, <1>5, <1>6, <1>7 DEF IInv

LEMMA MergeDoneKeeps ==
  ASSUME IInv, MergeDone
  PROVE  IInv'
<1>1. run' \in Run /\ run'.id = run.id
  <2>1. PICK b \in BOOLEAN : run' = [run EXCEPT !.result = b]
    BY TypeFacts, PhaseFacts DEF IInv, MergeDone, Open, Free, world, notices,
       history
  <2> QED
    BY <2>1, TypeFacts, RunFlags DEF IInv
<1>2. ex' \in Execution
  BY DEF IInv, TypeOK, MergeDone
<1>3. TypeOK'
  BY <1>1 DEF IInv, TypeOK, MergeDone, world, notices, history
<1>4. RunUnderWay'
  BY DEF IInv, RunUnderWay, MergeDone, Active, Settled, notices
<1>5. MessagesSound'
  BY DEF IInv, MessagesSound, MergeDone, MessageSound, history
<1>6. NoticesSound'
  BY DEF IInv, NoticesSound, MergeDone, NoticeSound, notices
<1>7. WritersSound'
  BY DEF IInv, WritersSound, MergeDone, Settled, Unresolved, world, history
<1> QED
  BY <1>3, <1>4, <1>5, <1>6, <1>7 DEF IInv

LEMMA CleanupKeeps ==
  ASSUME IInv, Cleanup
  PROVE  IInv'
<1>1. run' \in Run /\ run'.id = run.id
  BY TypeFacts DEF IInv, TypeOK, Cleanup, Open, journal, notices, history
<1>2. ex' \in Execution
  BY TypeFacts DEF IInv, TypeOK, Cleanup, Pcs, Open, journal, notices, history
<1>3. TypeOK'
  BY DEF IInv, TypeOK, Cleanup, journal, notices, history
<1>4. RunUnderWay'
  BY DEF IInv, RunUnderWay, Cleanup, Active, Settled, journal, notices
<1>5. MessagesSound'
  BY DEF IInv, MessagesSound, Cleanup, MessageSound, journal, history
<1>6. NoticesSound'
  BY DEF IInv, NoticesSound, Cleanup, NoticeSound, journal, notices
<1>7. WritersSound'
  BY DEF IInv, WritersSound, Cleanup, Leasing, Settled, Unresolved, journal,
     history
<1> QED
  BY <1>3, <1>4, <1>5, <1>6, <1>7 DEF IInv

LEMMA RetireKeeps ==
  ASSUME IInv, Retire
  PROVE  IInv'
<1>1. run' \in Run /\ run'.id = run.id
  BY DEF IInv, TypeOK, Retire
<1>2. ex' \in Execution
  BY DEF IInv, TypeOK, Retire
<1>3. TypeOK'
  BY TypeFacts DEF IInv, TypeOK, Retire, NoDecision, world, notices, history
<1>4. RunUnderWay'
  BY DEF IInv, RunUnderWay, Retire, Active, Settled, world, notices
<1>5. MessagesSound'
  BY DEF IInv, MessagesSound, Retire, MessageSound, notices, history
<1>6. NoticesSound'
  BY DEF IInv, NoticesSound, Retire, NoticeSound, notices
<1>7. WritersSound'
  BY DEF IInv, WritersSound, Retire, Settled, Unresolved, world, history
<1> QED
  BY <1>3, <1>4, <1>5, <1>6, <1>7 DEF IInv

LEMMA CrashKeeps ==
  ASSUME IInv, Crash
  PROVE  IInv'
<1>1. run' \in Run /\ run'.id = run.id
  BY TypeFacts DEF IInv, Crash, journal
<1>2. ex' \in Execution
  BY StartedType DEF Crash
<1>3. TypeOK'
  <2>1. crashes' \in 0..MaxCrashes
    BY TypeFacts, <1>1, DelegationAssumption DEF IInv, TypeOK, Crash
  <2>2. decision' \in [run : 0..run'.id,
                   step : {"none", "merge", "cleanup", "retire"}]
    BY TypeFacts, <1>1 DEF IInv, Crash, NoDecision
  <2>3. telling' \subseteq 1..run'.id /\ marking' \in 0..run'.id
          /\ closing' \in 0..run'.id
    BY TypeFacts, <1>1 DEF IInv, Crash
  <2>4. up' \in BOOLEAN /\ stop' \in BOOLEAN /\ hush' \in BOOLEAN
    BY TypeFacts, <1>1 DEF Crash
  <2> QED
    BY <1>2, <2>1, <2>2, <2>3 DEF IInv, TypeOK, Crash, journal, world
<1>4. RunUnderWay'
  BY DEF IInv, RunUnderWay, Crash, Active, Preparing, Leasing, Open, Off,
     journal, Started
<1>5. MessagesSound'
  BY DEF IInv, MessagesSound, Crash, MessageSound, Opening, Off, journal,
     Started
<1>6. NoticesSound'
  BY <1>1 DEF IInv, NoticesSound, Crash, NoticeSound
<1>7. WritersSound'
  BY DEF IInv, WritersSound, Crash, Leasing, Settled, Unresolved, Off, journal,
     world, Started
<1> QED
  BY <1>3, <1>4, <1>5, <1>6, <1>7 DEF IInv

LEMMA RestartKeeps ==
  ASSUME IInv, Restart
  PROVE  IInv'
<1>1. PICK stopped \in (IF run.process THEN BOOLEAN ELSE {TRUE}) :
        LET phase == Reconciled(stopped)
            after == IF phase # run.phase THEN AvailAfter(phase) ELSE avail
        IN /\ run' = Patched(phase)
           /\ note' = [r \in Runs |->
                 IF /\ note[r] = "none"
                    /\ r < run.id \/ (r = run.id /\ phase \in Final)
                 THEN "pending" ELSE note[r]]
           /\ avail' = IF /\ leased /\ gone
                          /\ after \notin {"closed", "needs_recovery"}
                       THEN "needs_recovery" ELSE after
           /\ LET tried == Unresolved \/ phase # run.phase IN
              /\ alive' = IF tried /\ stopped THEN alive \ {run.id} ELSE alive
              /\ held' = IF ~stopped /\ tried THEN "loose"
                         ELSE IF Unresolved THEN "quiet" ELSE "none"
  BY Zenon DEF Restart
<1> DEFINE phase == Reconciled(stopped)
           after == IF phase # run.phase THEN AvailAfter(phase) ELSE avail
           tried == Unresolved \/ phase # run.phase
<1>2. /\ ~up /\ up' = TRUE /\ stop' = TRUE /\ hush' = TRUE
      /\ paused' = (paused \/ run.phase = "queued")
      /\ msg' = Reread /\ ask' = (IF Waiting THEN "over" ELSE ask)
      /\ UNCHANGED <<bound, leased, gone, inbox, telling, marking, holder, ex,
                     decision, closing, crashes, handed, barred, released>>
  BY Zenon DEF Restart, history
<1>3. /\ run' = Patched(phase)
      /\ note' = [r \in Runs |->
            IF /\ note[r] = "none"
               /\ r < run.id \/ (r = run.id /\ phase \in Final)
            THEN "pending" ELSE note[r]]
  BY <1>1, Zenon
<1>4. /\ avail' = IF /\ leased /\ gone
                     /\ after \notin {"closed", "needs_recovery"}
                  THEN "needs_recovery" ELSE after
      /\ alive' = IF tried /\ stopped THEN alive \ {run.id} ELSE alive
      /\ held' = IF ~stopped /\ tried THEN "loose"
                 ELSE IF Unresolved THEN "quiet" ELSE "none"
  BY <1>1, Zenon
<1>5. /\ ex.pc = "off" /\ run.id # 0 /\ run.id \in Runs /\ ex.quiescent
      /\ holder = "none" /\ closing = 0
  BY <1>2, TypeFacts DEF IInv, RunUnderWay, Active, TypeOK
\* Every run that was under way has ended, as far as anyone can tell.
<1>6. /\ phase \in Phases
      /\ phase \in Final \/ phase = "queued"
      /\ run.phase = "queued" \/ Settled => phase = run.phase
      /\ ~(run.phase = "queued" \/ Settled) =>
           phase = IF stopped THEN "interrupted" ELSE "outcome_unknown"
      /\ phase = "queued" => run.phase = "queued"
  BY TypeFacts, PhaseFacts DEF IInv, Reconciled, Settled, Final
<1> HIDE DEF phase
<1>7. /\ run' \in Run /\ run'.id = run.id /\ run'.msg = run.msg
      /\ run'.phase = phase /\ run'.process = run.process
      /\ run'.resolved = run.resolved
  BY <1>3, <1>6, PatchedFacts DEF IInv
<1>8. Settled' <=> phase \in Final
  BY <1>7 DEF Settled
<1>9. ~run.process => stopped = TRUE
  BY <1>1, Zenon
<1>10. stopped \in BOOLEAN
  BY <1>1, TypeFacts DEF IInv
<1>11. TypeOK'
  <2>1. note' \in [Runs -> {"none", "pending", "delivered"}]
    BY <1>3 DEF IInv, TypeOK
  <2>2. alive' \subseteq 1..run'.id
    BY <1>4, <1>7 DEF IInv, TypeOK
  <2>3. paused' \in BOOLEAN /\ up' \in BOOLEAN /\ stop' \in BOOLEAN
          /\ hush' \in BOOLEAN
    BY <1>2, TypeFacts, Zenon DEF IInv, TypeOK
  <2>4. msg' \in [Messages -> Statuses]
    BY <1>2 DEF IInv, TypeOK, Reread, Statuses
  <2>5. avail' \in {"idle", "active", "needs_recovery", "closed"}
    BY <1>4, AvailFacts DEF IInv
  <2>6. held' \in {"none", "quiet", "loose"}
    BY <1>4
  <2>7. ask' \in {"none", "pending", "over"}
    BY <1>2 DEF IInv, TypeOK
  <2> QED
    BY <1>2, <1>7, <2>1, <2>2, <2>3, <2>4, <2>5, <2>6, <2>7 DEF IInv, TypeOK
<1>12. RunUnderWay'
  <2>1. ~Active'
    BY <1>2, <1>5 DEF Active
  <2>2. Settled' \/ (phase = "queued" /\ paused')
    BY <1>2, <1>6, <1>8
  <2>3. run.resolved => phase = "outcome_unknown"
    BY <1>6 DEF IInv, RunUnderWay, Settled, Final
  <2>4. phase # "waiting_input"
    BY <1>6 DEF Final
  <2> QED
    BY <1>2, <1>5, <1>7, <2>1, <2>2, <2>3, <2>4
    DEF RunUnderWay, Preparing, Leasing
<1>13. MessagesSound'
  <2>1. ASSUME NEW m \in Messages
        PROVE  MessageSound(m)'
    <3>1. MessageSound(m)
      BY <2>1 DEF IInv, MessagesSound
    <3>2. msg'[m] = IF msg[m] = "sending" THEN "delivery_unknown" ELSE msg[m]
      BY <1>2, <2>1 DEF Reread
    <3> QED
      BY <1>2, <1>5, <1>7, <3>1, <3>2 DEF MessageSound
  <2> QED
    BY <1>2, <1>5, <1>7, <2>1 DEF IInv, MessagesSound, Opening
<1>14. NoticesSound'
  <2>1. ASSUME NEW r \in Runs
        PROVE  NoticeSound(r)'
    <3>1. NoticeSound(r) /\ r \in Nat /\ run.id \in Nat
      BY <2>1, TypeFacts DEF IInv, NoticesSound
    <3>2. note'[r] = IF /\ note[r] = "none"
                        /\ r < run.id \/ (r = run.id /\ phase \in Final)
                     THEN "pending" ELSE note[r]
      BY <1>3, <2>1
    <3> QED
      BY <1>2, <1>7, <3>1, <3>2 DEF NoticeSound
  <2> QED
    BY <1>2, <2>1 DEF IInv, NoticesSound
<1>15. WritersSound'
  <2>0. run.resolved => Settled
    BY DEF IInv, RunUnderWay, Settled, Final
  <2>1. run.id \in alive => run.process /\ leased
    BY DEF IInv, WritersSound
  <2>2. alive \subseteq released \cup {run.id}
    BY DEF IInv, WritersSound
  <2>3. /\ Unresolved' <=> phase = "outcome_unknown" /\ ~run.resolved
        /\ Unresolved <=> run.phase = "outcome_unknown" /\ ~run.resolved
    BY <1>7 DEF Unresolved
  <2>4. run.phase = "queued" \/ (Settled /\ ~Unresolved) =>
          alive \subseteq released
    BY DEF IInv, WritersSound
  <2>5. Unresolved => avail \in {"needs_recovery", "closed"}
    BY DEF IInv, WritersSound
  \* What is not settled is looked for, and either ended or kept apart.
  <2>6. ~tried => alive \subseteq released
    BY <1>6, <2>4, Zenon DEF Settled
  <2>7. tried /\ stopped => alive' \subseteq released'
    BY <1>2, <1>4, <2>2
  <2>8. held' # "loose" => alive' \subseteq released'
    BY <1>2, <1>4, <2>6, <2>7
  <2>9. phase = "queued" \/ (phase \in Final /\ ~Unresolved') =>
          alive' \subseteq released'
    <3>1. CASE run.phase = "queued" \/ Settled
      <4>1. phase = run.phase /\ alive' \subseteq alive /\ released' = released
        BY <1>2, <1>4, <1>6, <3>1
      <4>2. SUFFICES ASSUME phase = "queued"
                            \/ (phase \in Final /\ ~Unresolved')
                     PROVE  alive \subseteq released
        BY <4>1
      <4>3. run.phase = "queued" \/ (Settled /\ ~Unresolved)
        BY <2>3, <4>1, <4>2 DEF Settled
      <4> QED
        BY <2>4, <4>3
    <3>2. CASE ~(run.phase = "queued" \/ Settled)
      <4>1. phase # "queued" /\ (Unresolved' \/ stopped)
        BY <1>6, <2>0, <2>3, <3>2
      <4>2. phase \in Final /\ phase # run.phase
        BY <1>6, <3>2, <4>1 DEF Settled
      <4> QED
        BY <2>7, <4>1, <4>2
    <3> QED
      BY <3>1, <3>2
  <2>10. Unresolved' => avail' \in {"needs_recovery", "closed"}
    BY <1>4, <1>6, <2>3, <2>5, AvailFacts DEF IInv, AvailAfter, Final
  <2>11. held' # "none" => Unresolved'
    <3>1. CASE Unresolved
      <4>1. phase = run.phase
        BY <1>6, <2>3, <3>1 DEF Settled, Final
      <4> QED
        BY <2>3, <3>1, <4>1
    <3>2. CASE ~Unresolved /\ ~stopped /\ phase # run.phase
      BY <1>6, <2>0, <2>3, <3>2
    <3> QED
      BY <1>4, <3>1, <3>2
  <2>12. alive' \subseteq alive
    BY <1>4
  <2>13. ex.pc \notin Leasing /\ ~ex.lease
    BY <1>5 DEF IInv, WritersSound, Leasing
  <2> QED
    BY <1>2, <1>5, <1>7, <1>8, <2>1, <2>2, <2>8, <2>9, <2>10, <2>11, <2>12,
       <2>13 DEF WritersSound
<1> QED
  BY <1>11, <1>12, <1>13, <1>14, <1>15 DEF IInv
-----------------------------------------------------------------------------
(***************************************************************************)
(* The invariant, and what it gives.                                       *)
(***************************************************************************)

LEMMA InitEstablishes ==
  ASSUME Init
  PROVE  IInv
<1>1. run = NewRun(0, 1) /\ ex = [Off EXCEPT !.pc = "asking"]
      /\ 0 \in {0} \cup Runs /\ 1 \in Messages
  BY DelegationAssumption DEF Init, Messages
<1>2. /\ run \in Run /\ run.id = 0 /\ run.msg = 1 /\ run.phase = "queued"
      /\ ~run.resolved
  BY <1>1, NewRunType DEF NewRun
<1>3. /\ ex \in Execution /\ ex.pc = "asking" /\ ~ex.sent /\ ~ex.accepted
      /\ ex.quiescent /\ ~ex.lease
  <2>1. Off \in Execution /\ "asking" \in Pcs
    BY StartedType DEF Pcs
  <2>2. ex \in Execution
    BY <1>1, <2>1, AtPc
  <2> QED
    BY <1>1, <2>1, <2>2, StartedFacts DEF Execution
<1>4. TypeOK
  <2>1. msg \in [Messages -> Statuses] /\ handed \in [Messages -> Nat]
        /\ note \in [Runs -> {"none", "pending", "delivered"}]
        /\ inbox \in [Runs -> Nat]
    BY DEF Init, Statuses
  <2>2. 0 \in 0..run.id /\ 0 \in 0..MaxCrashes
    BY <1>2, DelegationAssumption
  <2> QED
    BY <1>2, <1>3, <2>1, <2>2 DEF Init, TypeOK, NoDecision
<1>5. RunUnderWay
  BY <1>2, <1>3 DEF Init, RunUnderWay, Active, Preparing, Leasing, Settled,
     Final
<1>6. MessagesSound
  BY <1>1, <1>2, <1>3 DEF Init, MessagesSound, MessageSound, Opening
<1>7. NoticesSound
  BY <1>2 DEF Init, NoticesSound, NoticeSound
<1>8. WritersSound
  BY <1>2, <1>3 DEF Init, WritersSound, Leasing, Settled, Unresolved, Final
<1> QED
  BY <1>4, <1>5, <1>6, <1>7, <1>8 DEF IInv

LEMMA NextPreserves ==
  ASSUME IInv, [Next]_vars
  PROVE  IInv'
<1>1. CASE Execute
  BY <1>1, UnwindKeeps, GrantKeeps, PrepareKeeps, LockKeeps,
     ProcessStartsKeeps, OpenFailsKeeps, OpenedKeeps, SubmitKeeps, AcceptKeeps,
     AcceptElsewhereKeeps, SubmitFailsKeeps, SessionClosesKeeps, SettleKeeps,
     FinishKeeps DEF Execute
<1>2. CASE Notify
  BY <1>2, MarkDeliveredKeeps, HandOverKeeps, WithholdKeeps DEF Notify
<1>3. CASE Decided
  BY <1>3, MergeConflictsKeeps, MergeDoneKeeps, CleanupKeeps, RetireKeeps
     DEF Decided
<1>4. CASE StopRoot \/ CloseSettled \/ AnswerFails
  BY <1>4, StopKeeps, NoStopKeeps
<1>5. CASE Users
  <2>1. CASE Create \/ Refuse \/ \E m \in Messages : Send(m) \/ Steer(m)
    BY <2>1, CreateKeeps, RefuseKeeps, SendKeeps, SteerKeeps
  <2>2. CASE Interrupt \/ Unanswered \/ CloseLive
    BY <2>2, StopKeeps
  <2>3. CASE Answer \/ Prompt \/ InspectHistory \/ Recover \/ Abandon \/ Decide
    BY <2>3, AnswerKeeps, PromptKeeps, InspectHistoryKeeps, RecoverKeeps,
       AbandonKeeps, DecideKeeps
  <2> QED
    BY <1>4, <1>5, <2>1, <2>2, <2>3 DEF Users
<1>6. CASE \/ Question \/ TurnEnds \/ SteerEnds \/ AnswerArrives
           \/ Crash \/ Restart
  BY <1>6, QuestionKeeps, TurnEndsKeeps, SteerEndsKeeps, AnswerArrivesKeeps,
     CrashKeeps, RestartKeeps
<1>7. CASE UNCHANGED vars
  <2>1. UNCHANGED <<run, msg, avail, paused, bound, leased, ask, alive, gone,
                    note, inbox, telling, marking, up, stop, hush, held,
                    holder, ex, decision, closing, crashes, handed, barred,
                    released>>
    BY <1>7 DEF vars, journal, world, notices, service, history
  <2>2. TypeOK'
    BY <2>1 DEF IInv, TypeOK
  <2>3. RunUnderWay'
    BY <2>1 DEF IInv, RunUnderWay, Active, Settled
  <2>4. MessagesSound'
    BY <2>1 DEF IInv, MessagesSound, MessageSound
  <2>5. NoticesSound'
    BY <2>1 DEF IInv, NoticesSound, NoticeSound
  <2>6. WritersSound'
    BY <2>1 DEF IInv, WritersSound, Unresolved, Settled
  <2> QED
    BY <2>2, <2>3, <2>4, <2>5, <2>6 DEF IInv
<1> QED
  BY <1>1, <1>2, <1>3, <1>4, <1>5, <1>6, <1>7 DEF Next

\* Whatever the user does with the conversation and whenever Emperor ends, the
\* run that executes, the journal, the notices and the processes agree as the
\* service's serial sections and its reconcile() take for granted.
THEOREM InvariantHolds == Spec => []IInv
<1> QED
  BY InitEstablishes, NextPreserves, PTL DEF Spec

\* Nothing is given to the executor twice: neither a message found "sending"
\* at a restart nor one whose run failed is submitted again (submit, steer and
\* reconcile).
THEOREM MessagesHandedOnce == Spec => []HandedOnce
<1>1. IInv => HandedOnce
  BY DEF IInv, MessagesSound, MessageSound, HandedOnce
<1> QED
  BY <1>1, InvariantHolds, PTL

\* The parent hears of a run's end once, although dispatchNotices() and
\* MarkDelivered write in two places, with a process end between them.
THEOREM ParentToldOnce == Spec => []ToldOnce
<1>1. IInv => ToldOnce
  BY DEF IInv, NoticesSound, NoticeSound, ToldOnce
<1> QED
  BY <1>1, InvariantHolds, PTL

\* A process that may still write has its workspace held, by the lease of
\* execute() or by the quarantine after a stop without proof, unless the user
\* abandoned it as it is.
THEOREM WritersHold == Spec => []WriterHoldsWorkspace
<1>1. IInv => WriterHoldsWorkspace
  BY DEF IInv, TypeOK, WritersSound, WriterHoldsWorkspace
<1> QED
  BY <1>1, InvariantHolds, PTL

\* Only Submit and Steer give a message, only HandOver tells the parent.
LEMMA WhoGivesAndTells ==
  ASSUME [Next]_vars
  PROVE  /\ \/ handed' = handed \/ Submit \/ \E m \in Messages : Steer(m)
         /\ \/ inbox' = inbox \/ \E r \in Runs : HandOver(r)
<1>1. CASE Execute
  BY <1>1 DEF Execute, Unwind, Grant, Prepare, Lock, ProcessStarts, OpenFails,
     Opened, Submit, Accept, AcceptElsewhere, SubmitFails, SessionCloses,
     Settle, Finish, notices, history
<1>2. CASE Notify
  BY <1>2 DEF Notify, MarkDelivered, Withhold, HandOver, history
<1>3. CASE Decided
  BY <1>3 DEF Decided, MergeConflicts, MergeDone, Cleanup, Retire, notices,
     history
<1>4. CASE Users
  BY <1>4 DEF Users, Create, Refuse, Send, Steer, Answer, Unanswered,
     Interrupt, Prompt, StopRoot, InspectHistory, Recover, Abandon, CloseLive,
     CloseSettled, Decide, notices, history
<1>5. CASE \/ Question \/ TurnEnds \/ SteerEnds \/ AnswerArrives
           \/ AnswerFails \/ Crash \/ Restart
  BY <1>5 DEF Question, TurnEnds, SteerEnds, AnswerArrives, AnswerFails,
     Crash, Restart, notices, history
<1>6. CASE UNCHANGED vars
  BY <1>6 DEF vars, notices, history
<1> QED
  BY <1>1, <1>2, <1>3, <1>4, <1>5, <1>6 DEF Next

\* After stopRoot() nothing wakes the parent until the user acts, and what the
\* stop found not yet given is never given: not by the run that was about to
\* submit it, nor by a steer.
THEOREM StopStops == Spec => StopMeansStopped
<1>1. ASSUME IInv, [Next]_vars, hush
      PROVE  inbox' = inbox
  <2>1. ASSUME NEW r \in Runs, HandOver(r)
        PROVE  inbox' = inbox
    <3>1. /\ inbox[r] > 0 /\ inbox \in [Runs -> Nat]
          /\ inbox' = [inbox EXCEPT ![r] = IF @ = 0 THEN 1 ELSE @]
      BY <1>1, <2>1 DEF IInv, TypeOK, HandOver
    <3> QED
      BY <3>1
  <2> QED
    BY <1>1, <2>1, WhoGivesAndTells
<1>2. ASSUME IInv, [Next]_vars, NEW m \in barred
      PROVE  handed'[m] = handed[m]
  <2>1. m \in Messages /\ msg[m] # "new" /\ handed \in [Messages -> Nat]
    BY <1>2 DEF IInv, TypeOK, MessagesSound, MessageSound
  <2>2. CASE Submit
    <3>1. run.msg # m \/ handed' = handed
      BY <1>2, <2>2 DEF IInv, MessagesSound, Submit, At
    <3>2. \/ handed' = handed
          \/ handed' = [handed EXCEPT ![run.msg] = @ + 1]
      BY <2>2 DEF Submit
    <3> QED
      BY <2>1, <3>1, <3>2
  <2>3. ASSUME NEW n \in Messages, Steer(n)
        PROVE  handed'[m] = handed[m]
    <3>1. n # m /\ handed' = [handed EXCEPT ![n] = @ + 1]
      BY <2>1, <2>3 DEF Steer, NextMessage
    <3> QED
      BY <2>1, <3>1
  <2> QED
    BY <1>2, <2>2, <2>3, WhoGivesAndTells
<1>3. IInv /\ [Next]_vars =>
        [/\ hush /\ hush' => inbox' = inbox
         /\ \A m \in barred : handed'[m] = handed[m]]_vars
  BY <1>1, <1>2
<1> QED
  BY <1>3, InvariantHolds, PTL DEF Spec, StopMeansStopped

-----------------------------------------------------------------------------
(***************************************************************************)
(* The queue: no follow-up waits for ever.                                 *)
(***************************************************************************)

\* The messages that have left the queue, and the one of the run under way
\* that has not yet.
TakenUp(ms) == {m \in Messages : ms[m] \notin {"new", "queued"}}
ToTake      == IF Active /\ msg[run.msg] = "queued" THEN 1 ELSE 0

\* A run takes a message from the queue; only a process end gives one to a
\* second run.
FewRuns == run.id <= Cardinality(TakenUp(msg)) + crashes + ToTake

\* A message is queued where the next run will look for it, or where a stop or
\* the end of the conversation keeps it.
QueueSound ==
  /\ run.id # 0 => msg[run.msg] # "new"
  /\ ex.pc = "collect" => msg[run.msg] # "queued"
  /\ up /\ paused => stop
  /\ up /\ ex.pc = "off" /\ Queued # {} =>
       stop \/ avail \in {"closed", "needs_recovery"}

QInv == FewRuns /\ QueueSound

LEMMA TakenUpFinite ==
  ASSUME NEW ms
  PROVE  /\ IsFiniteSet(TakenUp(ms)) /\ Cardinality(TakenUp(ms)) \in Nat
         /\ Cardinality(TakenUp(ms)) <= MaxMsgs
<1>1. IsFiniteSet(Messages) /\ Cardinality(Messages) = MaxMsgs
  BY DelegationAssumption, FS_Interval DEF Messages
<1>2. TakenUp(ms) \subseteq Messages
  BY DEF TakenUp
<1> QED
  BY <1>1, <1>2, FS_Subset, FS_CardinalityType

LEMMA TakenUpGrows ==
  ASSUME NEW ms, NEW ns, TakenUp(ms) \subseteq TakenUp(ns)
  PROVE  /\ Cardinality(TakenUp(ms)) <= Cardinality(TakenUp(ns))
         /\ \A m \in TakenUp(ns) \ TakenUp(ms) :
              Cardinality(TakenUp(ms)) < Cardinality(TakenUp(ns))
<1>1. Cardinality(TakenUp(ms)) <= Cardinality(TakenUp(ns))
  BY TakenUpFinite, FS_Subset
<1>2. ASSUME NEW m \in TakenUp(ns) \ TakenUp(ms)
      PROVE  Cardinality(TakenUp(ms)) < Cardinality(TakenUp(ns))
  <2>1. /\ TakenUp(ms) \subseteq TakenUp(ns) \ {m}
        /\ IsFiniteSet(TakenUp(ns) \ {m})
        /\ Cardinality(TakenUp(ns) \ {m}) = Cardinality(TakenUp(ns)) - 1
    BY <1>2, TakenUpFinite, FS_RemoveElement
  <2>2. Cardinality(TakenUp(ms)) <= Cardinality(TakenUp(ns)) - 1
    BY <2>1, FS_Subset
  <2> QED
    BY <2>2, TakenUpFinite
<1> QED
  BY <1>1, <1>2

\* What is left to count when the run goes on.
LEMMA FewRunsKept ==
  ASSUME IInv, FewRuns, run'.id = run.id, run'.msg = run.msg,
         crashes' \in Nat, crashes' >= crashes,
         TakenUp(msg) \subseteq TakenUp(msg'),
         Active /\ msg[run.msg] = "queued" =>
           \/ run.msg \in TakenUp(msg')
           \/ Active' /\ msg'[run.msg] = "queued"
           \/ crashes' = crashes + 1
  PROVE  FewRuns'
<1>1. run.id \in Nat /\ crashes \in Nat /\ run.msg \in Messages
  BY TypeFacts DEF IInv, TypeOK
<1>2. /\ Cardinality(TakenUp(msg)) \in Nat /\ Cardinality(TakenUp(msg')) \in Nat
      /\ Cardinality(TakenUp(msg)) <= Cardinality(TakenUp(msg'))
  BY TakenUpFinite, TakenUpGrows
<1>3. ToTake = IF Active /\ msg[run.msg] = "queued" THEN 1 ELSE 0
  BY DEF ToTake
<1>4. ToTake' = IF Active' /\ msg'[run.msg] = "queued" THEN 1 ELSE 0
  BY DEF ToTake
<1>5. FewRuns' <=> run.id <= Cardinality(TakenUp(msg')) + crashes' + ToTake'
  BY DEF FewRuns
<1>6. run.id <= Cardinality(TakenUp(msg)) + crashes + ToTake
  BY DEF FewRuns
<1>7. CASE ~(Active /\ msg[run.msg] = "queued")
  BY <1>1, <1>2, <1>3, <1>4, <1>5, <1>6, <1>7
<1>8. CASE Active /\ msg[run.msg] = "queued"
  <2>1. CASE run.msg \in TakenUp(msg')
    <3>1. run.msg \in TakenUp(msg') \ TakenUp(msg)
      BY <1>8, <2>1 DEF TakenUp
    <3>2. Cardinality(TakenUp(msg)) < Cardinality(TakenUp(msg'))
      BY <3>1, TakenUpGrows
    <3> QED
      BY <1>1, <1>2, <1>3, <1>4, <1>5, <1>6, <1>8, <3>2
  <2>2. CASE Active' /\ msg'[run.msg] = "queued"
    BY <1>1, <1>2, <1>3, <1>4, <1>5, <1>6, <1>8, <2>2
  <2>3. CASE crashes' = crashes + 1
    BY <1>1, <1>2, <1>3, <1>4, <1>5, <1>6, <1>8, <2>3
  <2> QED
    BY <1>8, <2>1, <2>2, <2>3
<1> QED
  BY <1>7, <1>8

\* The steps that touch neither the queue nor who waits for what.
Aside ==
  /\ run'.id = run.id /\ run'.msg = run.msg
  /\ UNCHANGED <<msg, crashes, up, paused, stop>>
  /\ ex'.pc = "off" <=> ex.pc = "off"
  /\ ex'.pc = "collect" => ex.pc = "collect"
  /\ ex.pc = "off" => avail' = avail \/ avail' = "closed"

LEMMA AsideKeeps ==
  ASSUME IInv, QInv, Aside
  PROVE  QInv'
<1>1. FewRuns'
  <2>1. crashes' \in Nat /\ crashes' >= crashes
    BY DEF IInv, TypeOK, Aside
  <2>2. TakenUp(msg) = TakenUp(msg') /\ (Active' <=> Active)
    BY DEF Aside, Active
  <2> QED
    BY <2>1, <2>2, FewRunsKept DEF QInv, Aside
<1>2. QueueSound'
  BY DEF QInv, QueueSound, Aside, Queued
<1> QED
  BY <1>1, <1>2 DEF QInv

AsideStep ==
  \/ Refuse \/ Unwind \/ Grant \/ Prepare \/ Lock \/ ProcessStarts
  \/ OpenFails \/ Submit \/ AcceptElsewhere \/ SubmitFails \/ Question
  \/ Answer \/ AnswerArrives \/ TurnEnds \/ SessionCloses
  \/ \E r \in Runs : Withhold(r) \/ HandOver(r)
  \/ MarkDelivered \/ InspectHistory \/ Decide \/ Decided
  \/ UNCHANGED vars

LEMMA AsideSteps ==
  ASSUME IInv, AsideStep
  PROVE  Aside
<1>1. run \in Run /\ ex \in Execution
  BY TypeFacts DEF IInv
<1>2. CASE Refuse \/ Unwind \/ Prepare \/ Lock
  BY <1>1, <1>2 DEF Aside, Refuse, Unwind, Prepare, Lock, At, journal, history,
     Execution
<1>3. CASE Grant \/ ProcessStarts
  BY <1>1, <1>3 DEF Aside, Grant, ProcessStarts, At, Patched, history,
     Execution, Run
<1>4. CASE Submit \/ AcceptElsewhere \/ SubmitFails
  BY <1>1, <1>4 DEF Aside, Submit, AcceptElsewhere, SubmitFails, At, journal,
     history, Execution
<1>5. CASE Question \/ Answer \/ AnswerArrives
  BY <1>1, <1>5 DEF Aside, Question, Answer, AnswerArrives, At, Patched,
     journal, service, history, Run
<1>6. CASE TurnEnds
  <2>1. PICK status \in {"none", "completed", "failed"} :
          ex' = [ex EXCEPT !.pc = "close", !.status = status]
    BY <1>6 DEF TurnEnds
  <2>2. ex'.pc \notin {"off", "collect"}
    BY <1>1, <2>1 DEF Execution
  <2> QED
    BY <1>6, <2>2 DEF Aside, TurnEnds, At, journal, history
<1>11. CASE OpenFails
  <2>1. PICK quiet \in BOOLEAN :
          ex' = [ex EXCEPT !.pc = "settle", !.quiescent = quiet]
    BY <1>11 DEF OpenFails
  <2>2. ex'.pc \notin {"off", "collect"}
    BY <1>1, <2>1 DEF Execution
  <2> QED
    BY <1>11, <2>2 DEF Aside, OpenFails, At, journal, history
<1>12. CASE SessionCloses
  <2>1. PICK quiet \in BOOLEAN :
          ex' = [ex EXCEPT !.pc = "settle", !.quiescent = quiet]
    BY <1>12 DEF SessionCloses
  <2>2. ex'.pc \notin {"off", "collect"}
    BY <1>1, <2>1 DEF Execution
  <2> QED
    BY <1>12, <2>2 DEF Aside, SessionCloses, At, journal, history
<1>7. CASE (\E r \in Runs : Withhold(r) \/ HandOver(r)) \/ MarkDelivered
  BY <1>7 DEF Aside, Withhold, HandOver, MarkDelivered, journal, service,
     history
<1>8. CASE InspectHistory
  BY <1>1, <1>8 DEF Aside, InspectHistory, service, history, Run
<1>9. CASE Decide \/ Decided
  BY <1>1, <1>9 DEF Aside, Decide, Decided, MergeConflicts, MergeDone, Cleanup,
     Retire, journal, history, Run
<1>10. CASE UNCHANGED vars
  BY <1>10 DEF Aside, vars, journal, service, history
<1> QED
  BY <1>2, <1>3, <1>4, <1>5, <1>6, <1>7, <1>8, <1>9, <1>10, <1>11,
     <1>12 DEF AsideStep

\* A message that waits has a run left for it.
LEMMA RunLeft ==
  ASSUME IInv, FewRuns, ~(Active /\ msg[run.msg] = "queued"),
         TakenUp(msg') = TakenUp(msg), NEW q \in Messages, msg'[q] = "queued"
  PROVE  /\ run.id + 1 \in Runs
         /\ run.id <= Cardinality(TakenUp(msg')) + crashes
<1>1. /\ run.id \in Nat /\ crashes \in 0..MaxCrashes
      /\ MaxMsgs \in Nat /\ MaxCrashes \in Nat
  BY TypeFacts, DelegationAssumption DEF IInv, TypeOK
<1>2. Cardinality(TakenUp(msg')) \in Nat /\ Cardinality(TakenUp(msg')) < MaxMsgs
  <2>1. IsFiniteSet(Messages) /\ Cardinality(Messages) = MaxMsgs
    BY DelegationAssumption, FS_Interval DEF Messages
  <2>2. /\ TakenUp(msg') \subseteq Messages \ {q}
        /\ IsFiniteSet(Messages \ {q})
        /\ Cardinality(Messages \ {q}) = MaxMsgs - 1
    BY <2>1, FS_RemoveElement DEF TakenUp
  <2> QED
    BY <1>1, <2>2, FS_Subset, FS_CardinalityType
<1>3. run.id <= Cardinality(TakenUp(msg')) + crashes
  BY <1>1, <1>2 DEF FewRuns, ToTake
<1> QED
  BY <1>1, <1>2, <1>3 DEF Runs

LEMMA PumpKeepsQueue ==
  ASSUME IInv, QInv, Open, ex.pc \in {"off", "collect"},
         msg' \in [Messages -> Statuses],
         \A m \in Messages :
           msg'[m] # msg[m] => msg[m] = "new" /\ msg'[m] = "queued",
         UNCHANGED <<up, crashes>>,
         NEW r \in Run, r.id = run.id, r.msg = run.msg,
         NEW stopped \in BOOLEAN, NEW waits \in BOOLEAN, NEW closes \in BOOLEAN,
         Pump(r, msg', avail, stopped, waits, closes),
         stop' = (stopped \/ closes), waits => stop', paused' => stop'
  PROVE  QInv'
<1> DEFINE queue == {m \in Messages : msg'[m] = "queued"}
<1>1. /\ run.id \in Nat /\ run.msg \in Messages /\ run.id # 0
      /\ crashes \in Nat /\ msg \in [Messages -> Statuses]
  BY TypeFacts DEF IInv, TypeOK, Open
<1>2. TakenUp(msg') = TakenUp(msg) /\ msg'[run.msg] = msg[run.msg]
      /\ msg[run.msg] # "new"
  BY <1>1 DEF TakenUp, QInv, QueueSound
<1>3. ~(Active /\ msg[run.msg] = "queued")
  BY DEF QInv, QueueSound, Active
<1>4. ASSUME NEW q \in queue
      PROVE  /\ r.id + 1 \in Runs
             /\ run.id <= Cardinality(TakenUp(msg')) + crashes
  BY <1>2, <1>3, <1>4, RunLeft DEF QInv
<1>5. queue # {} => Least(queue) \in queue
  <2>1. queue \in SUBSET Nat
    BY DelegationAssumption DEF Messages
  <2> QED
    BY <2>1, LeastIsIn
<1>6. CASE /\ queue # {} /\ ~stopped /\ ~waits
           /\ avail \notin {"closed", "needs_recovery"}
  <2>1. run' = NewRun(run.id + 1, Least(queue)) /\ ex' = Started
    BY <1>4, <1>6 DEF Pump
  <2>2. run'.id = run.id + 1 /\ run'.msg = Least(queue) /\ ex'.pc = "wait"
    BY <2>1 DEF NewRun, Started
  <2>3. msg'[run'.msg] = "queued"
    BY <1>5, <1>6, <2>2
  <2>4. ToTake' = 1
    BY <2>2, <2>3 DEF ToTake, Active
  <2>5. Cardinality(TakenUp(msg')) \in Nat
    BY TakenUpFinite
  <2>6. FewRuns'
    BY <1>1, <1>4, <1>5, <1>6, <2>2, <2>4, <2>5 DEF FewRuns
  <2>7. QueueSound'
    BY <2>2, <2>3 DEF QueueSound
  <2> QED
    BY <2>6, <2>7 DEF QInv
<1>7. CASE ~(/\ queue # {} /\ ~stopped /\ ~waits
             /\ avail \notin {"closed", "needs_recovery"})
  <2>1. /\ run' = r /\ ex' = Off
        /\ avail' = IF closes THEN "closed" ELSE avail
    BY <1>7 DEF Pump
  <2>2. ex'.pc = "off"
    BY <2>1 DEF Off, Started
  <2>3. FewRuns'
    BY <1>1, <1>2, <1>3, <2>1, FewRunsKept DEF QInv
  <2>4. up /\ Queued' # {} => stop' \/ avail' \in {"closed", "needs_recovery"}
    BY <1>7, <2>1 DEF Queued
  <2>5. QueueSound'
    BY <1>2, <2>1, <2>2, <2>4 DEF QueueSound
  <2> QED
    BY <2>3, <2>5 DEF QInv
<1> QED
  BY <1>6, <1>7

LEMMA SendKeepsQueue ==
  ASSUME IInv, QInv, NEW m \in Messages, Send(m)
  PROVE  QInv'
<1>1. /\ msg[m] = "new" /\ msg' = [msg EXCEPT ![m] = "queued"]
      /\ msg \in [Messages -> Statuses] /\ Open /\ run.id # 0
      /\ stop' = FALSE /\ paused' = FALSE /\ UNCHANGED <<up, crashes>>
  BY DEF IInv, TypeOK, Send, NextMessage, MaySend, history, Open
<1>2. /\ msg' \in [Messages -> Statuses] /\ "queued" \in Statuses
      /\ \A n \in Messages :
           msg'[n] # msg[n] => msg[n] = "new" /\ msg'[n] = "queued"
  <2>1. "queued" \in Statuses
    BY DEF Statuses
  <2> QED
    BY <1>1, <2>1
<1>3. CASE Active
  <2>1. UNCHANGED <<run, avail, ex>>
    BY <1>3 DEF Send
  <2>2. run.msg \in Messages /\ msg[run.msg] # "new" /\ crashes \in Nat
    BY <1>1, TypeFacts DEF IInv, TypeOK, QInv, QueueSound
  <2>3. TakenUp(msg) = TakenUp(msg') /\ msg'[run.msg] = msg[run.msg]
    BY <1>1, <1>2, <2>2 DEF TakenUp
  <2>4. FewRuns'
    BY <1>1, <1>3, <2>1, <2>2, <2>3, FewRunsKept DEF QInv, Active
  <2>5. QueueSound'
    BY <1>1, <1>3, <2>1, <2>2, <2>3 DEF QInv, QueueSound, Active
  <2> QED
    BY <2>4, <2>5 DEF QInv
<1>4. CASE ~Active
  <2>1. Pump(run, msg', avail, FALSE, FALSE, FALSE)
    BY <1>4 DEF Send
  <2>2. ex.pc \in {"off", "collect"} /\ run \in Run
    BY <1>4, TypeFacts DEF IInv, Active
  <2> QED
    BY <1>1, <1>2, <2>1, <2>2, PumpKeepsQueue
<1> QED
  BY <1>3, <1>4

LEMMA FinishKeepsQueue ==
  ASSUME IInv, QInv, Finish
  PROVE  QInv'
<1>1. /\ Open /\ ex.pc = "collect" /\ msg' = msg
      /\ UNCHANGED <<up, paused, crashes>>
  BY DEF Finish, At, history
<1>2. PICK files \in BOOLEAN, closes \in BOOLEAN :
        /\ stop' = (stop \/ closes)
        /\ Pump([run EXCEPT !.result = files], msg, avail, stop, paused,
                closes)
  <2> DEFINE closes == closing = run.id /\ avail # "needs_recovery"
  <2>1. closes \in BOOLEAN
    OBVIOUS
  <2>2. \E files \in BOOLEAN :
          Pump([run EXCEPT !.result = files], msg, avail, stop, paused, closes)
    BY DEF Finish
  <2>3. stop' = (stop \/ closes)
    BY DEF Finish
  <2> HIDE DEF closes
  <2> QED
    BY <2>1, <2>2, <2>3
<1> DEFINE r == [run EXCEPT !.result = files]
<1>3. r \in Run /\ r.id = run.id /\ r.msg = run.msg
  BY TypeFacts, RunFlags DEF IInv, Run
<1>4. /\ msg' \in [Messages -> Statuses]
      /\ stop \in BOOLEAN /\ paused \in BOOLEAN
      /\ paused => stop
  BY <1>1 DEF IInv, TypeOK, QInv, QueueSound, Open
<1>5. Pump(r, msg', avail, stop, paused, closes)
  BY <1>1, <1>2
<1>6. stop' = (stop \/ closes) /\ (paused => stop') /\ (paused' => stop')
  BY <1>1, <1>2, <1>4, Zenon
<1> HIDE DEF r
<1> QED
  BY <1>1, <1>3, <1>4, <1>5, <1>6, PumpKeepsQueue

\* A stop empties the queue.
LEMMA CutKeepsQueue ==
  ASSUME IInv, QInv, run'.id = run.id, run'.msg = run.msg, ex'.pc = ex.pc,
         msg' \in [Messages -> Statuses],
         \A m \in Messages :
           msg'[m] = IF msg[m] = "queued" THEN "cancelled" ELSE msg[m],
         stop' = TRUE, UNCHANGED <<up, crashes>>
  PROVE  QInv'
<1>1. run.msg \in Messages /\ crashes \in Nat
  BY TypeFacts DEF IInv, TypeOK
<1>2. TakenUp(msg) \subseteq TakenUp(msg')
  BY DEF TakenUp
<1>3. msg[run.msg] = "queued" => run.msg \in TakenUp(msg')
  BY <1>1 DEF TakenUp
<1>4. FewRuns'
  BY <1>1, <1>2, <1>3, FewRunsKept DEF QInv
<1>5. QueueSound'
  BY <1>1 DEF QInv, QueueSound
<1> QED
  BY <1>4, <1>5 DEF QInv

LEMMA StopKeepsQueue ==
  ASSUME IInv, QInv,
         \/ Interrupt \/ Unanswered \/ CloseLive \/ StopRoot \/ CloseSettled
         \/ AnswerFails
  PROVE  QInv'
<1>1. ASSUME ~Settled, NEW f \in BOOLEAN, Interrupted(f),
             UNCHANGED <<up, crashes>>
      PROVE  QInv'
  BY <1>1, InterruptedFacts, CutKeepsQueue
<1>2. CASE Interrupt
  BY <1>1, <1>2 DEF Interrupt, MayInterrupt
<1>3. CASE Unanswered
  <2>1. ~Settled
    BY <1>3 DEF IInv, RunUnderWay, Unanswered, Settled, Asked, Final, At
  <2> QED
    BY <1>1, <1>3, <2>1 DEF Unanswered
<1>4. CASE CloseLive
  BY <1>1, <1>4 DEF CloseLive, MayInterrupt
<1>5. CASE StopRoot
  <2>1. CASE Settled
    <3>1. UNCHANGED <<run, ex, up, crashes>> /\ stop' = TRUE
          /\ msg' = Cancelled(Queued)
      BY <1>5, <2>1 DEF StopRoot, QueueCut
    <3>2. /\ msg' \in [Messages -> Statuses]
          /\ \A m \in Messages :
               msg'[m] = IF msg[m] = "queued" THEN "cancelled" ELSE msg[m]
      BY <3>1 DEF IInv, TypeOK, Cancelled, Queued, Statuses
    <3> QED
      BY <3>1, <3>2, CutKeepsQueue
  <2> QED
    BY <1>1, <1>5, <2>1 DEF StopRoot
<1>6. CASE CloseSettled
  <2>1. CASE Settled
    <3>1. UNCHANGED <<run, ex, msg, up, paused, crashes>> /\ stop' = TRUE
      BY <1>6, <2>1 DEF CloseSettled
    <3>2. FewRuns'
      BY <3>1 DEF QInv, FewRuns, ToTake, Active
    <3> QED
      BY <3>1, <3>2 DEF QInv, QueueSound
  <2> QED
    BY <1>1, <1>6, <2>1 DEF CloseSettled
<1>7. CASE AnswerFails
  <2>1. CASE At("turn") /\ ~stop /\ ~Settled
    BY <1>1, <1>7, <2>1 DEF AnswerFails
  <2>2. CASE ~(At("turn") /\ ~stop /\ ~Settled)
    <3>1. UNCHANGED <<run, ex, msg, up, stop, paused, crashes, avail>>
      BY <1>7, <2>2 DEF AnswerFails
    <3> QED
      BY <3>1, AsideKeeps DEF Aside
  <2> QED
    BY <2>1, <2>2
<1> QED
  BY <1>2, <1>3, <1>4, <1>5, <1>6, <1>7

\* create(): the first message starts the first run.
LEMMA CreateKeepsQueue ==
  ASSUME IInv, QInv, Create
  PROVE  QInv'
<1>1. /\ run.id = 0 /\ \A m \in Messages : msg[m] = "new"
      /\ msg \in [Messages -> Statuses] /\ 1 \in Messages
      /\ crashes \in Nat /\ Open' = up
  <2>1. run.id = 0
    BY DEF IInv, RunUnderWay, Create
  <2>2. \A m \in Messages : msg[m] = "new"
    BY <2>1 DEF IInv, MessagesSound, MessageSound
  <2>3. run' = NewRun(1, 1) /\ up' = up
    BY DEF Create
  <2> QED
    BY <2>1, <2>2, <2>3, TypeFacts DEF IInv, TypeOK, Open, NewRun
<1>2. /\ run' = NewRun(1, 1) /\ ex' = Started /\ crashes' = crashes
      /\ msg' = [msg EXCEPT ![1] = "queued"] /\ UNCHANGED <<up, paused, stop>>
  BY DEF Create, history
<1>3. /\ run'.id = 1 /\ run'.msg = 1 /\ ex'.pc = "wait"
      /\ msg'[1] = "queued"
  BY <1>1, <1>2 DEF NewRun, Started
<1>4. ToTake' = 1 /\ Cardinality(TakenUp(msg')) \in Nat
  BY <1>3, TakenUpFinite DEF ToTake, Active
<1>5. FewRuns'
  BY <1>1, <1>2, <1>3, <1>4 DEF FewRuns
<1>6. QueueSound'
  BY <1>2, <1>3 DEF QInv, QueueSound
<1> QED
  BY <1>5, <1>6 DEF QInv

\* A message that a run or a steer sends, and the answer to it.
LEMMA DeliveryKeepsQueue ==
  ASSUME IInv, QInv, run'.id = run.id, run'.msg = run.msg,
         UNCHANGED <<up, stop, paused, crashes, avail>>,
         Active, Active', ex'.pc # "collect" \/ msg'[run.msg] # "queued",
         \A m \in Messages :
           msg'[m] = msg[m] \/ msg'[m] \notin {"new", "queued"}
  PROVE  QInv'
<1>1. run.msg \in Messages /\ crashes \in Nat
  BY TypeFacts DEF IInv, TypeOK
<1>2. TakenUp(msg) \subseteq TakenUp(msg')
  BY DEF TakenUp
<1>3. msg[run.msg] = "queued" =>
        run.msg \in TakenUp(msg') \/ msg'[run.msg] = "queued"
  BY <1>1 DEF TakenUp
<1>4. FewRuns'
  BY <1>1, <1>2, <1>3, FewRunsKept DEF QInv
<1>5. QueueSound'
  BY <1>1 DEF QInv, QueueSound, Active
<1> QED
  BY <1>4, <1>5 DEF QInv

LEMMA DeliveriesKeepQueue ==
  ASSUME IInv, QInv,
         \/ \E m \in Messages : Steer(m)
         \/ SteerEnds \/ Opened \/ Accept \/ Settle
  PROVE  QInv'
<1>1. /\ msg \in [Messages -> Statuses] /\ run.msg \in Messages
      /\ run \in Run /\ ex \in Execution
  BY TypeFacts DEF IInv, TypeOK
<1>2. ASSUME NEW m \in Messages, Steer(m)
      PROVE  QInv'
  <2>1. /\ msg' = [msg EXCEPT ![m] = "sending"]
        /\ UNCHANGED <<run, up, stop, paused, crashes, avail, ex>>
        /\ ex.pc \notin {"off", "collect"}
    BY <1>2 DEF Steer, Session
  <2> QED
    BY <1>1, <2>1, DeliveryKeepsQueue DEF Active
<1>3. CASE SteerEnds
  <2>1. UNCHANGED <<run, up, stop, paused, crashes, avail, ex>>
        /\ ex.pc \notin {"off", "collect"}
    BY <1>3 DEF SteerEnds, history, IInv, RunUnderWay
  <2>2. PICK status \in {"accepted", "delivery_unknown"} :
          msg' = [m \in Messages |-> IF m \in Steered THEN status ELSE msg[m]]
    BY <1>3 DEF SteerEnds
  <2> QED
    BY <2>1, <2>2, DeliveryKeepsQueue DEF Active
<1>4. CASE Opened
  <2>1. /\ UNCHANGED <<run, up, stop, paused, crashes, avail>>
        /\ Active /\ ex'.pc \in {"close", "intent"}
    BY <1>1, <1>4 DEF Opened, At, history, Active, Execution
  <2>2. msg' = msg \/ msg' = [msg EXCEPT ![run.msg] = "sending"]
    BY <1>4 DEF Opened
  <2> QED
    BY <1>1, <2>1, <2>2, DeliveryKeepsQueue DEF Active
<1>5. CASE Accept
  <2>1. /\ UNCHANGED <<up, stop, paused, crashes, avail>>
        /\ Active /\ ex'.pc = "turn"
        /\ run'.id = run.id /\ run'.msg = run.msg
    BY <1>1, <1>5 DEF Accept, At, history, Active, Execution, Patched, Run
  <2>2. msg' = [msg EXCEPT ![run.msg] = "accepted"]
    BY <1>5 DEF Accept
  <2> QED
    BY <1>1, <2>1, <2>2, DeliveryKeepsQueue DEF Active
<1>6. CASE Settle
  <2>1. /\ UNCHANGED <<up, stop, paused, crashes>>
        /\ ex.pc = "settle" /\ ex'.pc = "collect"
        /\ run'.id = run.id /\ run'.msg = run.msg
    BY <1>1, <1>6 DEF Settle, At, history, Patched, Run, Started
  <2>2. msg' = [msg EXCEPT ![run.msg] = OwnStatus]
    BY <1>6 DEF Settle
  <2>3. OwnStatus \notin {"new", "queued"}
    BY <1>1 DEF OwnStatus, IInv, MessagesSound, MessageSound
  <2>4. /\ run.msg \in TakenUp(msg') /\ TakenUp(msg) \subseteq TakenUp(msg')
        /\ crashes \in Nat
    BY <1>1, <2>2, <2>3 DEF TakenUp, IInv, TypeOK
  <2>5. FewRuns'
    BY <2>1, <2>4, FewRunsKept DEF QInv
  <2>6. QueueSound'
    BY <1>1, <2>1, <2>2, <2>3 DEF QInv, QueueSound
  <2> QED
    BY <2>5, <2>6 DEF QInv
<1> QED
  BY <1>2, <1>3, <1>4, <1>5, <1>6

\* What the user does to a conversation at rest.
LEMMA RestKeepsQueue ==
  ASSUME IInv, QInv, Prompt \/ Recover \/ Abandon
  PROVE  QInv'
<1>1. /\ msg \in [Messages -> Statuses] /\ run.msg \in Messages
      /\ run \in Run /\ crashes \in Nat /\ run.phase \in Phases
  BY TypeFacts DEF IInv, TypeOK
<1>2. CASE Prompt
  <2>1. /\ UNCHANGED <<run, msg, ex, up, stop, crashes, avail>>
        /\ paused' = FALSE
    BY <1>2 DEF Prompt, history
  <2>2. FewRuns'
    BY <2>1 DEF QInv, FewRuns, ToTake, Active
  <2>3. QueueSound'
    BY <2>1 DEF QInv, QueueSound, Queued
  <2> QED
    BY <2>2, <2>3 DEF QInv
<1>3. CASE Recover \/ Abandon
  <2> DEFINE S == {m \in Messages :
                     msg[m] \in {"queued", "sending", "delivery_unknown"}}
  <2>1. /\ UNCHANGED <<ex, up, crashes>> /\ paused' = FALSE /\ ~Active
        /\ msg' = Cancelled(S) /\ run.id # 0
    BY <1>3 DEF Recover, Abandon, history, Open
  <2>2. run'.id = run.id /\ run'.msg = run.msg
    BY <1>1, <1>3 DEF Recover, Abandon, Run
  <2>3. /\ \A m \in Messages : msg'[m] # "queued"
        /\ msg[run.msg] # "new" => msg'[run.msg] # "new"
        /\ TakenUp(msg) \subseteq TakenUp(msg')
    BY <1>1, <2>1 DEF Cancelled, TakenUp
  <2>4. FewRuns'
    BY <1>1, <2>1, <2>2, <2>3, FewRunsKept DEF QInv
  <2>5. QueueSound'
    BY <1>1, <2>1, <2>2, <2>3 DEF QInv, QueueSound, Queued
  <2> QED
    BY <2>4, <2>5 DEF QInv
<1> QED
  BY <1>2, <1>3

\* A process end may cost a run: the message that it was to take waits for
\* another one.
LEMMA CrashKeepsQueue ==
  ASSUME IInv, QInv, Crash
  PROVE  QInv'
<1>1. /\ UNCHANGED <<run, msg, paused>> /\ crashes' = crashes + 1
      /\ up' = FALSE /\ ex' = Off /\ crashes \in Nat
  BY DEF Crash, journal, IInv, TypeOK
<1>2. ex'.pc = "off"
  BY <1>1 DEF Off, Started
<1>3. FewRuns'
  BY <1>1, FewRunsKept DEF QInv
<1>4. QueueSound'
  BY <1>1, <1>2 DEF QInv, QueueSound
<1> QED
  BY <1>3, <1>4 DEF QInv

LEMMA RestartKeepsQueue ==
  ASSUME IInv, QInv, Restart
  PROVE  QInv'
<1>1. /\ msg \in [Messages -> Statuses] /\ run.msg \in Messages
      /\ run \in Run /\ crashes \in Nat
  BY TypeFacts DEF IInv, TypeOK
<1>2. /\ stop' = TRUE /\ msg' = Reread /\ UNCHANGED <<ex, crashes>>
      /\ ~Active
  BY DEF Restart, history, IInv, RunUnderWay
<1>3. run'.id = run.id /\ run'.msg = run.msg
  <2>1. \E p : run' = Patched(p)
    BY DEF Restart
  <2> QED
    BY <1>1, <2>1 DEF Patched, Run
<1>4. /\ msg[run.msg] # "new" => msg'[run.msg] # "new"
      /\ TakenUp(msg) \subseteq TakenUp(msg')
  BY <1>1, <1>2 DEF Reread, TakenUp
<1>5. FewRuns'
  BY <1>1, <1>2, <1>3, <1>4, FewRunsKept DEF QInv
<1>6. QueueSound'
  BY <1>1, <1>2, <1>3, <1>4 DEF QInv, QueueSound, Active
<1> QED
  BY <1>5, <1>6 DEF QInv

LEMMA InitQueue ==
  ASSUME Init
  PROVE  QInv
<1>1. /\ run.id = 0 /\ ex.pc = "asking" /\ crashes = 0 /\ paused = FALSE
      /\ \A m \in Messages : msg[m] = "new"
  BY DEF Init, NewRun, Off, Started
<1>2. Cardinality(TakenUp(msg)) \in Nat /\ ToTake \in Nat
  BY TakenUpFinite DEF ToTake
<1>3. FewRuns
  BY <1>1, <1>2 DEF FewRuns
<1>4. QueueSound
  BY <1>1 DEF QueueSound
<1> QED
  BY <1>3, <1>4 DEF QInv

LEMMA NextKeepsQueue ==
  ASSUME IInv, QInv, [Next]_vars
  PROVE  QInv'
<1>1. CASE AsideStep
  BY <1>1, AsideSteps, AsideKeeps
<1>2. CASE \/ \E m \in Messages : Steer(m)
           \/ SteerEnds \/ Opened \/ Accept \/ Settle
  BY <1>2, DeliveriesKeepQueue
<1>3. CASE Finish \/ Create \/ \E m \in Messages : Send(m)
  BY <1>3, FinishKeepsQueue, CreateKeepsQueue, SendKeepsQueue
<1>4. CASE \/ Interrupt \/ Unanswered \/ CloseLive \/ StopRoot \/ CloseSettled
           \/ AnswerFails
  BY <1>4, StopKeepsQueue
<1>5. CASE Prompt \/ Recover \/ Abandon
  BY <1>5, RestKeepsQueue
<1>6. CASE Crash \/ Restart
  BY <1>6, CrashKeepsQueue, RestartKeepsQueue
<1>7. Execute => AsideStep \/ Opened \/ Accept \/ Settle \/ Finish
  BY DEF Execute, AsideStep
<1>8. Notify \/ Decided \/ UNCHANGED vars => AsideStep
  BY DEF Notify, AsideStep
<1>9. Users => \/ AsideStep \/ Create
               \/ \E m \in Messages : Send(m) \/ Steer(m)
               \/ Unanswered \/ Interrupt \/ Prompt \/ StopRoot \/ Recover
               \/ Abandon \/ CloseLive \/ CloseSettled
  BY DEF Users, AsideStep
<1>10. Question \/ TurnEnds \/ AnswerArrives => AsideStep
  BY DEF AsideStep
<1> QED
  BY <1>1, <1>2, <1>3, <1>4, <1>5, <1>6, <1>7, <1>8, <1>9, <1>10 DEF Next

\* A conversation at rest with a follow-up in its queue was stopped, closed or
\* needs the user: send() and the end of every run (pump) take what waits.
\* The runs the model has never hold a message back: each takes up one message,
\* and only a process end makes two runs of one.
THEOREM NoFollowUpForgotten == Spec => []NoForgottenFollowUp
<1>1. Init => IInv /\ QInv
  BY InitEstablishes, InitQueue
<1>2. IInv /\ QInv /\ [Next]_vars => (IInv /\ QInv)'
  BY NextPreserves, NextKeepsQueue
<1>3. IInv /\ QInv => NoForgottenFollowUp
  BY DEF QInv, QueueSound, NoForgottenFollowUp
<1> QED
  BY <1>1, <1>2, <1>3, PTL DEF Spec

=============================================================================
