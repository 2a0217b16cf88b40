----------------------------- MODULE ToolCalls -----------------------------
(***************************************************************************)
(* The tool calls of one model step: the scheduler of                      *)
(* harness/agent/tool-calls.ts, what the registry's stages may return to   *)
(* it, and the two ways in which calls without a result are answered: by   *)
(* the step that threw (agent.ts, answerOpenToolCalls) and by the repair   *)
(* of a session whose process died (session-log/repair.ts).                *)
(*                                                                         *)
(* Calls are 1..Calls in the model's order.  A step of this module is the  *)
(* code between two awaits or less: bodies settle and the step's signal    *)
(* aborts between any two of them.  "In flight" is the dispatch of a body, *)
(* which ends early on a timeout or an abort; a body that ignores its      *)
(* signal runs on, unseen by the scheduler.                                *)
(***************************************************************************)
EXTENDS Integers, Sequences, FiniteSets

CONSTANTS
  Calls,         \* number of tool calls in the assistant message
  MaxParallel    \* batch.maxParallel

ASSUME CallsAssumption       == Calls \in Nat \ {0}
ASSUME MaxParallelAssumption == MaxParallel \in Nat \ {0}

VARIABLES
  mode,        \* tools.executionMode of each call
  signal,      \* batch.signal.aborted
  aborted,     \* runGroup: aborted
  failure,     \* runGroup: failure # undefined
  first,       \* executeToolCalls: next, the first call of the group
  next,        \* runGroup: nextToStart, counted over the whole batch
  committed,   \* the next call to commit, counted over the whole batch
  slots,       \* runGroup: slots; "empty", or the kind of the result
  flight,      \* runGroup: the keys of inFlight
  settled,     \* the calls in flight whose promise is settled
  invoked,     \* history: calls whose body was entered
  pc,          \* where the scheduler is
  log          \* the events <<"call", i>> and <<"result", i, kind>> logged

vars == <<mode, signal, aborted, failure, first, next, committed, slots,
          flight, settled, invoked, pc, log>>

Call  == 1..Calls
Kinds == {"result", "skipped", "notStarted", "unknown"}
Event == ({"call"} \X Call) \union ({"result"} \X Call \X Kinds)
Over  == {"ended", "answered", "recovered"}

\* The last call of the group that starts at first.
Last == IF mode[first] = "parallel" THEN Calls ELSE first

Logged(l, type) == {i \in Call : \E k \in 1..Len(l) :
                                   l[k][1] = type /\ l[k][2] = i}

Init ==
  /\ mode \in [Call -> {"parallel", "exclusive"}]
  /\ signal = FALSE /\ aborted = FALSE /\ failure = FALSE
  /\ first = 1 /\ next = 1 /\ committed = 1
  /\ slots = [i \in Call |-> "empty"]
  /\ flight = {} /\ settled = {} /\ invoked = {}
  /\ pc = "group" /\ log = <<>>

-----------------------------------------------------------------------------
(***************************************************************************)
(* The environment of the scheduler.                                       *)
(***************************************************************************)

\* The turn is cancelled.
Abort ==
  /\ pc \notin Over /\ ~signal
  /\ signal' = TRUE
  /\ UNCHANGED <<mode, aborted, failure, first, next, committed, slots,
                 flight, settled, invoked, pc, log>>

\* dispatch enters the body, after its lease was acquired.
Invoke(i) ==
  /\ i \in flight \ (settled \union invoked) /\ ~signal
  /\ invoked' = invoked \union {i}
  /\ UNCHANGED <<mode, signal, aborted, failure, first, next, committed,
                 slots, flight, settled, pc, log>>

\* Mutant of Fulfil: a dispatch does not race the abort.
FulfilUnraced(i) ==
  /\ i \in flight \ settled /\ ~signal
  /\ settled' = settled \union {i}
  /\ slots' = [slots EXCEPT ![i] = "result"]
  /\ UNCHANGED <<mode, signal, aborted, failure, first, next, committed,
                 flight, invoked, pc, log>>

\* A dispatch fulfils: the body returned, threw or timed out, the lease
\* was refused, or the abort won the race.
Fulfil(i) ==
  /\ i \in flight \ settled
  /\ settled' = settled \union {i}
  /\ slots' = [slots EXCEPT ![i] = IF signal /\ i \notin invoked
                                   THEN "skipped" ELSE "result"]
  /\ UNCHANGED <<mode, signal, aborted, failure, first, next, committed,
                 flight, invoked, pc, log>>

\* A dispatch rejects.
Reject(i) ==
  /\ i \in flight \ settled
  /\ settled' = settled \union {i}
  /\ failure' = TRUE
  /\ UNCHANGED <<mode, signal, aborted, first, next, committed, slots,
                 flight, invoked, pc, log>>

-----------------------------------------------------------------------------
(***************************************************************************)
(* The scheduler.                                                          *)
(***************************************************************************)

\* The head of executeToolCalls and of runGroup.
BeginGroup ==
  /\ pc = "group"
  /\ IF first > Calls
     THEN pc' = "ended" /\ UNCHANGED <<aborted, next, committed>>
     ELSE /\ pc' = "fill"
          /\ aborted' = signal
          /\ next' = first /\ committed' = first
  /\ UNCHANGED <<mode, signal, failure, first, slots, flight, settled,
                 invoked, log>>

\* Mutant of MayStart: an exclusive call may join parallel calls.
MayStartAny ==
  ~aborted /\ next <= Last /\ Cardinality(flight) < MaxParallel

\* fillPool takes one more call: not when aborted, the group or the pool is
\* at its limit, or the call is the exclusive one behind parallel calls.
MayStart ==
  /\ ~aborted /\ next <= Last /\ Cardinality(flight) < MaxParallel
  /\ next > first => mode[next] = "parallel"

StartCall ==
  /\ pc = "fill" /\ MayStart
  /\ log' = Append(log, <<"call", next>>)
  /\ pc' = "preparing"
  /\ UNCHANGED <<mode, signal, aborted, failure, first, next, committed,
                 slots, flight, settled, invoked>>

PoolFilled ==
  /\ pc = "fill" /\ ~MayStart
  /\ pc' = IF flight = {} THEN "finish" ELSE "racing"
  /\ UNCHANGED <<mode, signal, aborted, failure, first, next, committed,
                 slots, flight, settled, invoked, log>>

\* Mutant of ThrowOr: a failure does not wait for what is in flight.
ThrowAtOnce(label) == pc' = IF failure THEN "thrown" ELSE label

\* After an await: throwFailure, else the next statement.
ThrowOr(label) == pc' = IF failure THEN "draining" ELSE label

\* prepare allows the call, unless the signal aborted meanwhile.
Dispatched ==
  /\ pc = "preparing" /\ ~signal
  /\ flight' = flight \union {next}
  /\ next' = next + 1
  /\ ThrowOr("commit")
  /\ UNCHANGED <<mode, signal, aborted, failure, first, committed, slots,
                 settled, invoked, log>>

\* prepare answers the call itself: denied, invalid or aborted.
Refused ==
  /\ pc = "preparing"
  /\ slots' = [slots EXCEPT ![next] = IF signal THEN "skipped" ELSE "result"]
  /\ next' = next + 1
  /\ ThrowOr("commit")
  /\ UNCHANGED <<mode, signal, aborted, failure, first, committed, flight,
                 settled, invoked, log>>

\* Mutant of Commit: results are logged as they come.
CommitAnyReady ==
  /\ pc = "commit" /\ committed <= Last
  /\ \E i \in first..Last :
       /\ slots[i] # "empty" /\ i \notin Logged(log, "result")
       /\ log' = Append(log, <<"result", i, slots[i]>>)
  /\ committed' = committed + 1
  /\ UNCHANGED <<mode, signal, aborted, failure, first, next, slots, flight,
                 settled, invoked, pc>>

\* commitReady: the first call that is not committed has its result.
Commit ==
  /\ pc = "commit" /\ committed <= Last
  /\ slots[committed] # "empty"
  /\ log' = Append(log, <<"result", committed, slots[committed]>>)
  /\ committed' = committed + 1
  /\ UNCHANGED <<mode, signal, aborted, failure, first, next, slots, flight,
                 settled, invoked, pc>>

Committed ==
  /\ pc = "commit"
  /\ committed <= Last => slots[committed] = "empty"
  /\ aborted' = (aborted \/ (~failure /\ signal))
  /\ ThrowOr("fill")
  /\ UNCHANGED <<mode, signal, failure, first, next, committed, slots,
                 flight, settled, invoked, log>>

\* Promise.race: one settled dispatch leaves the pool.
RaceWon(i) ==
  /\ pc = "racing" /\ i \in settled
  /\ flight' = flight \ {i} /\ settled' = settled \ {i}
  /\ ThrowOr("commit")
  /\ UNCHANGED <<mode, signal, aborted, failure, first, next, committed,
                 slots, invoked, log>>

\* An append, prepare or finalize throws (a result the log cannot hold).
Throws ==
  /\ pc \in {"fill", "preparing", "commit"}
  /\ pc = "fill" => MayStart
  /\ pc = "commit" => committed <= Last /\ slots[committed] # "empty"
  /\ failure' = TRUE /\ pc' = "draining"
  /\ UNCHANGED <<mode, signal, aborted, first, next, committed, slots,
                 flight, settled, invoked, log>>

\* Promise.allSettled over what is in flight, then the batch rejects.
Drained ==
  /\ pc = "draining" /\ flight \subseteq settled
  /\ pc' = "thrown" /\ flight' = {} /\ settled' = {}
  /\ UNCHANGED <<mode, signal, aborted, failure, first, next, committed,
                 slots, invoked, log>>

\* The end of runGroup: the next group, or the rest is skipped.
FinishGroup ==
  /\ pc = "finish"
  /\ IF aborted
     THEN pc' = "skipping" /\ UNCHANGED first
     ELSE IF committed # next
          THEN pc' = "thrown" /\ UNCHANGED first
          ELSE pc' = "group" /\ first' = next
  /\ UNCHANGED <<mode, signal, aborted, failure, next, committed, slots,
                 flight, settled, invoked, log>>

\* appendSkippedToolCall for the calls that never started, of this group
\* and of the ones behind it.
Skip ==
  /\ pc = "skipping"
  /\ IF next > Calls
     THEN pc' = "ended" /\ UNCHANGED <<next, log>>
     ELSE /\ log' = log \o << <<"call", next>>,
                              <<"result", next, "skipped">> >>
          /\ next' = next + 1
          /\ pc' = pc
  /\ UNCHANGED <<mode, signal, aborted, failure, first, committed, slots,
                 flight, settled, invoked>>

-----------------------------------------------------------------------------
(***************************************************************************)
(* Answers for calls without a result.                                     *)
(***************************************************************************)

\* Mutant of Answers: calls that were never started get no result.
AnswersToStarted(l) ==
  LET open  == Logged(l, "call") \ Logged(l, "result")
      order == CHOOSE s \in [1..Cardinality(open) -> open] :
                 \A a, b \in DOMAIN s : a < b => s[a] < s[b]
  IN  [k \in DOMAIN order |-> <<"result", order[k], "unknown">>]

\* ToolCallRecovery.results after the events of l, in transcript order.
Answers(l) ==
  LET open  == Call \ Logged(l, "result")
      order == CHOOSE s \in [1..Cardinality(open) -> open] :
                 \A a, b \in DOMAIN s : a < b => s[a] < s[b]
      kind(i) == IF i \in Logged(l, "call") THEN "unknown" ELSE "notStarted"
  IN  [k \in DOMAIN order |-> <<"result", order[k], kind(order[k])>>]

\* answerOpenToolCalls, before the step that threw ends.
AnswerOpenToolCalls ==
  /\ pc = "thrown"
  /\ log' = log \o Answers(log)
  /\ pc' = "answered"
  /\ UNCHANGED <<mode, signal, aborted, failure, first, next, committed,
                 slots, flight, settled, invoked>>

\* The process dies; the session opens again from the part of the log that
\* was written, and interruptedTurnClosers closes the turn.  The assistant
\* message with the calls was written.
CrashAndRecover ==
  /\ pc \notin Over
  /\ \E n \in 0..Len(log) :
       log' = SubSeq(log, 1, n) \o Answers(SubSeq(log, 1, n))
  /\ pc' = "recovered"
  /\ signal' = FALSE /\ aborted' = FALSE /\ failure' = FALSE
  /\ first' = 1 /\ next' = 1 /\ committed' = 1
  /\ slots' = [i \in Call |-> "empty"]
  /\ flight' = {} /\ settled' = {}
  /\ UNCHANGED <<mode, invoked>>

\* The step has ended.
Done == pc \in Over /\ UNCHANGED vars

Environment == Abort \/ \E i \in Call : Invoke(i) \/ Fulfil(i) \/ Reject(i)

Scheduler == \/ BeginGroup \/ StartCall \/ PoolFilled \/ Dispatched
             \/ Refused \/ Commit \/ Committed \/ (\E i \in Call : RaceWon(i))
             \/ Throws \/ Drained \/ FinishGroup \/ Skip

Next == Environment \/ Scheduler \/ AnswerOpenToolCalls \/ CrashAndRecover
          \/ Done

Spec == Init /\ [][Next]_vars

(***************************************************************************)
(* Fairness.  The event loop runs the scheduler's continuations.  Nothing  *)
(* is assumed of a tool: a body may run for ever and prepare may wait for  *)
(* ever for an approval, until the signal aborts; then dispatch and the    *)
(* approval are released by the abort itself.  Result and commit hooks     *)
(* return: they have time limits.                                          *)
(***************************************************************************)
Fairness ==
  /\ WF_vars(Scheduler /\ pc # "preparing")
  /\ WF_vars(Scheduler /\ pc = "preparing" /\ signal)
  /\ WF_vars(AnswerOpenToolCalls)
  /\ \A i \in Call : WF_vars(signal /\ Fulfil(i))

FairSpec == Spec /\ Fairness

-----------------------------------------------------------------------------
(***************************************************************************)
(* Properties.                                                             *)
(***************************************************************************)

\* Every variable stays in its type.
TypeOK ==
  /\ mode \in [Call -> {"parallel", "exclusive"}]
  /\ signal \in BOOLEAN /\ aborted \in BOOLEAN /\ failure \in BOOLEAN
  /\ first \in 1..(Calls + 1) /\ next \in 1..(Calls + 1)
  /\ committed \in 1..(Calls + 1)
  /\ slots \in [Call -> {"empty", "result", "skipped"}]
  /\ flight \subseteq Call /\ settled \subseteq flight
  /\ invoked \subseteq Call
  /\ pc \in {"group", "fill", "preparing", "commit", "racing", "draining",
             "finish", "skipping", "thrown"} \union Over
  /\ log \in Seq(Event)

\* The calls with an event of the type of the a-th one before it.
Before(l, a) == {l[b][2] : b \in {c \in 1..(a - 1) : l[c][1] = l[a][1]}}

InModelOrder(l) == \A a \in 1..Len(l) : Before(l, a) = 1..(l[a][2] - 1)

\* tool/call and tool/result commit strictly in model order (tool-calls.ts:
\* 6), each at most once, a crash and its repair included: when an event of a
\* call is logged, those of exactly the calls before it were.  (And TypeOK.)
LoggedInModelOrder == TypeOK /\ InModelOrder(log)

\* However a step ends, every call of it has a result (tool-calls.ts:9): no
\* transcript with a dangling call is ever sent.  And no result says that a
\* call was not run when its body was entered: the model may retry such a call.
EveryCallAnswered ==
  /\ pc \in Over => Logged(log, "result") = Call
  /\ \A k \in 1..Len(log) :
       log[k][1] = "result" /\ log[k][2] \in invoked =>
         log[k][3] # "skipped" /\ (pc = "answered" => log[k][3] # "notStarted")

\* An exclusive call is a barrier (tool-calls.ts:5): while it is in flight
\* nothing else is, every earlier call has its result, and no later call
\* has started.  Parallel calls overlap only within the pool's limit.
ExclusiveIsBarrier ==
  /\ Cardinality(flight) <= MaxParallel
  /\ \A i \in flight : mode[i] = "exclusive" =>
       /\ flight = {i}
       /\ Logged(log, "call") = 1..i
       /\ Logged(log, "result") \subseteq 1..i
       /\ 1..(i - 1) \subseteq Logged(log, "result")

\* No dispatch outlives its step: when the step ends, or its open calls are
\* answered, every started call has settled (tool-calls.ts:11).
NothingOutlivesTheStep ==
  pc \in {"thrown"} \union Over => flight = {}

\* A stop ends the step whatever its tools do (registry.ts:456: a body that
\* ignores its signal must not keep a stopped turn waiting).
StopEndsTheStep == signal ~> pc \in Over
=============================================================================
