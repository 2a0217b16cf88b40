-------------------------- MODULE ToolCallsProofs --------------------------
(***************************************************************************)
(* Proofs about ToolCalls, for any number of calls and any pool: calls and *)
(* results are logged in the model's order, every call is answered however *)
(* the step ends, an exclusive call is a barrier, and no dispatch outlives *)
(* its step.                                                               *)
(***************************************************************************)
EXTENDS ToolCalls, FiniteSetTheorems, WellFoundedInduction, TLAPS

\* Where runGroup is while it starts, awaits and commits the calls of a group.
InGroup == {"fill", "preparing", "commit", "racing", "finish"}

Started   == Logged(log, "call")
Responded == Logged(log, "result")

\* What the scheduler counts is what the log says, group by group.  Only the
\* first call of a group may be exclusive, and then it is the only one.
Progress ==
  /\ pc = "group" =>
       next = first /\ Started = 1..first - 1 /\ Responded = Started
  /\ pc \in InGroup =>
       /\ Started = IF pc = "preparing" THEN 1..next ELSE 1..next - 1
       /\ Responded = 1..committed - 1
       /\ first <= Calls /\ first <= committed /\ committed <= next
       /\ next <= Last + 1
       /\ flight \subseteq first..next - 1
       /\ \A i \in flight : i = first \/ mode[i] = "parallel"
  /\ pc = "preparing" =>
       /\ next <= Last /\ Cardinality(flight) < MaxParallel
       /\ next > first => mode[next] = "parallel"
  /\ pc = "fill" => committed = next \/ committed \in flight
  /\ pc = "finish" => committed = next
  /\ pc = "skipping" => Started = 1..next - 1 /\ Responded = Started

\* A slot is filled once, when its call has an outcome.
SlotsSound ==
  /\ pc \in InGroup \union {"group"} =>
       /\ \A j \in Call : j >= next => slots[j] = "empty"
       /\ \A j \in first..next - 1 : j \in flight \/ slots[j] # "empty"
       /\ \A i \in settled : failure \/ slots[i] # "empty"
  /\ \A i \in flight \ settled : slots[i] = "empty" /\ i \notin Responded

\* Only a call that was logged runs, and only one that never ran is skipped.
InvokedSound ==
  /\ \A i \in invoked : slots[i] # "skipped"
  /\ pc \notin Over =>
       /\ invoked \subseteq Started /\ flight \subseteq Started
       /\ invoked \subseteq 1..next - 1 /\ flight \subseteq 1..next - 1
       /\ \A k \in 1..Len(log) :
            log[k][1] = "result" => log[k][3] \in {"result", "skipped"}

\* Where something may be in flight.
Busy == {"fill", "preparing", "commit", "racing", "draining"}

IInv ==
  /\ LoggedInModelOrder /\ EveryCallAnswered /\ ExclusiveIsBarrier
  /\ Progress /\ SlotsSound /\ InvokedSound
  /\ pc \notin Busy => flight = {}

-----------------------------------------------------------------------------
(***************************************************************************)
(* The log.                                                                *)
(***************************************************************************)

LEMMA EventFacts ==
  ASSUME NEW e \in Event
  PROVE  /\ e[1] \in {"call", "result"} /\ e[2] \in Call
         /\ e[1] = "result" => e[3] \in Kinds
<1>1. CASE e \in {"call"} \X Call
  BY <1>1
<1>2. CASE e \in {"result"} \X Call \X Kinds
  BY <1>2
<1> QED
  BY <1>1, <1>2 DEF Event

LEMMA AppendFacts ==
  ASSUME NEW l \in Seq(Event), NEW e \in Event
  PROVE  /\ Append(l, e) \in Seq(Event) /\ Len(l) \in Nat
         /\ Len(Append(l, e)) = Len(l) + 1
         /\ Append(l, e)[Len(l) + 1] = e
         /\ \A k \in 1..Len(l) : Append(l, e)[k] = l[k] /\ l[k] \in Event
OBVIOUS

\* What an appended event adds to the calls logged.
LEMMA LoggedAppend ==
  ASSUME NEW l \in Seq(Event), NEW e \in Event, NEW type
  PROVE  Logged(Append(l, e), type) =
           IF e[1] = type THEN Logged(l, type) \union {e[2]}
           ELSE Logged(l, type)
<1> DEFINE m == Append(l, e)
<1>1. /\ Len(m) = Len(l) + 1 /\ m[Len(l) + 1] = e /\ Len(l) \in Nat
      /\ \A k \in 1..Len(l) : m[k] = l[k]
  BY AppendFacts
<1> HIDE DEF m
<1>2. ASSUME NEW i \in Call
      PROVE  (\E k \in 1..Len(m) : m[k][1] = type /\ m[k][2] = i)
             <=> \/ \E k \in 1..Len(l) : l[k][1] = type /\ l[k][2] = i
                 \/ e[1] = type /\ e[2] = i
  <2>1. 1..Len(m) = 1..Len(l) \union {Len(l) + 1}
    BY <1>1
  <2> QED
    BY <1>1, <2>1
<1>3. Logged(m, type) = Logged(l, type) \union
                          {i \in Call : e[1] = type /\ e[2] = i}
  BY <1>2 DEF Logged
<1> QED
  BY <1>3, EventFacts DEF m

\* An event that is appended behind those of exactly the calls before it.
LEMMA OrderAppend ==
  ASSUME NEW l \in Seq(Event), NEW e \in Event, InModelOrder(l),
         Logged(l, e[1]) = 1..(e[2] - 1)
  PROVE  InModelOrder(Append(l, e))
<1> DEFINE m == Append(l, e)
<1>1. /\ Len(m) = Len(l) + 1 /\ m[Len(l) + 1] = e /\ Len(l) \in Nat
      /\ \A k \in 1..Len(l) : m[k] = l[k] /\ l[k] \in Event
  BY AppendFacts
<1> HIDE DEF m
<1>2. ASSUME NEW a \in 1..Len(l)
      PROVE  Before(m, a) = 1..(m[a][2] - 1)
  <2>1. \A b \in 1..(a - 1) : m[b] = l[b]
    BY <1>1
  <2>2. Before(m, a) = Before(l, a)
    BY <1>1, <2>1 DEF Before
  <2> QED
    BY <1>1, <2>2 DEF InModelOrder
<1>3. Before(m, Len(l) + 1) = Logged(l, e[1])
  <2>1. Len(l) + 1 - 1 = Len(l)
    BY <1>1
  <2>2. Before(m, Len(l) + 1) =
          {m[b][2] : b \in {c \in 1..Len(l) : m[c][1] = e[1]}}
    BY <1>1, <2>1 DEF Before
  <2>3. \A b \in 1..Len(l) : m[b] = l[b] /\ l[b][2] \in Call
    BY <1>1, EventFacts
  <2> QED
    BY <2>2, <2>3 DEF Logged
<1>4. \A a \in 1..Len(m) : a \in 1..Len(l) \/ a = Len(l) + 1
  BY <1>1
<1>5. ASSUME NEW a \in 1..Len(m)
      PROVE  Before(m, a) = 1..(m[a][2] - 1)
  BY <1>1, <1>2, <1>3, <1>4
<1> QED
  BY <1>5 DEF InModelOrder, m

\* A log that is cut off keeps its order.
LEMMA PrefixInOrder ==
  ASSUME NEW l \in Seq(Event), InModelOrder(l), NEW n \in 0..Len(l)
  PROVE  /\ SubSeq(l, 1, n) \in Seq(Event) /\ InModelOrder(SubSeq(l, 1, n))
         /\ Len(SubSeq(l, 1, n)) = n
         /\ \A k \in 1..n : SubSeq(l, 1, n)[k] = l[k] /\ k \in 1..Len(l)
<1> DEFINE m == SubSeq(l, 1, n)
<1>1. /\ m \in Seq(Event) /\ Len(m) = n /\ n \in Nat
      /\ \A k \in 1..n : m[k] = l[k] /\ k \in 1..Len(l)
  OBVIOUS
<1> HIDE DEF m
<1>2. ASSUME NEW a \in 1..n
      PROVE  Before(m, a) = 1..(m[a][2] - 1)
  <2>1. \A b \in 1..(a - 1) : m[b] = l[b]
    BY <1>1
  <2>2. Before(m, a) = Before(l, a)
    BY <1>1, <2>1 DEF Before
  <2> QED
    BY <1>1, <2>2 DEF InModelOrder
<1> QED
  BY <1>1, <1>2 DEF InModelOrder, m

LEMMA LeastNumber ==
  ASSUME NEW S \in SUBSET Nat, S # {}
  PROVE  \E n \in S : \A k \in S : n <= k
<1>1. PICK n \in S : \A k \in S : ~(<<k, n>> \in OpToRel(<, Nat))
  BY WFMin, NatLessThanWellFounded, Zenon
<1>2. \A k \in S : ~(k < n)
  BY <1>1, Zenon DEF OpToRel
<1> QED
  BY <1>2

\* What is logged in the model's order is logged up to some call.
LEMMA LoggedUpTo ==
  ASSUME NEW l \in Seq(Event), InModelOrder(l), NEW type
  PROVE  \E c \in 0..Calls : Logged(l, type) = 1..c
<1> DEFINE L == Logged(l, type)
           S == {n \in Nat : n + 1 \notin L}
<1>1. L \subseteq 1..Calls /\ Calls \in Nat
  BY CallsAssumption DEF Logged, Call
<1>2. Calls \in S
  BY <1>1
<1>3. PICK c \in S : \A k \in S : c <= k
  BY <1>2, LeastNumber
<1>4. ASSUME NEW i \in 1..c
      PROVE  i \in L
  <2>1. i - 1 \in Nat /\ i - 1 \notin S
    BY <1>3, <1>4
  <2> QED
    BY <2>1
<1>5. ASSUME NEW i \in L, i > c
      PROVE  FALSE
  <2>1. PICK a \in 1..Len(l) : l[a][1] = type /\ l[a][2] = i
    BY DEF Logged
  <2>2. c + 1 \in 1..(i - 1)
    BY <1>1, <1>3, <1>5
  <2>3. c + 1 \in Before(l, a)
    BY <2>1, <2>2 DEF InModelOrder
  <2>4. PICK b \in 1..(a - 1) : l[b][1] = type /\ l[b][2] = c + 1
    BY <2>1, <2>3 DEF Before
  <2>5. b \in 1..Len(l) /\ c + 1 \in Call
    BY <1>1, <2>2, <1>5 DEF Call
  <2>6. c + 1 \in L
    BY <2>4, <2>5 DEF Logged
  <2> QED
    BY <1>3, <2>6
<1> HIDE DEF L
<1>6. L = 1..c
  <2>1. c \in Nat
    BY <1>3
  <2>2. \A i \in L : i \in 1..c
    BY <1>1, <1>5, <2>1
  <2> QED
    BY <1>4, <2>2
<1>7. c \in 0..Calls
  BY <1>1, <1>2, <1>3
<1> QED
  BY <1>6, <1>7 DEF L

\* The only way to number an interval upwards.
LEMMA OneOrder ==
  ASSUME NEW c \in Nat, NEW n \in Nat, NEW s \in [1..n -> (c + 1)..(c + n)],
         \A a, b \in 1..n : a < b => s[a] < s[b]
  PROVE  \A k \in 1..n : s[k] = c + k
<1> DEFINE Low  == {k \in 1..n : s[k] < c + k}
           High == {k \in 0..n : n - k \in 1..n /\ s[n - k] > c + (n - k)}
<1>1. \A k \in 1..n : s[k] \in Nat /\ c + 1 <= s[k] /\ s[k] <= c + n
  OBVIOUS
<1>2. Low = {}
  <2> SUFFICES ASSUME Low # {} PROVE FALSE
    OBVIOUS
  <2> Low \in SUBSET Nat
    OBVIOUS
  <2>1. PICK k \in Low : \A j \in Low : k <= j
    BY LeastNumber
  <2>2. k # 1
    BY <1>1, <2>1
  <2>3. k - 1 \in 1..n /\ k - 1 < k
    BY <2>1, <2>2
  <2>4. s[k - 1] >= c + (k - 1)
    BY <1>1, <2>1, <2>3
  <2>5. s[k - 1] < s[k]
    BY <2>1, <2>3
  <2> QED
    BY <1>1, <2>1, <2>3, <2>4, <2>5
<1>3. High = {}
  <2> SUFFICES ASSUME High # {} PROVE FALSE
    OBVIOUS
  <2> High \in SUBSET Nat
    OBVIOUS
  <2>1. PICK k \in High : \A j \in High : k <= j
    BY LeastNumber
  <2>2. k # 0
    BY <1>1, <2>1
  <2>3. k - 1 \in 0..n /\ n - (k - 1) = (n - k) + 1 /\ (n - k) + 1 \in 1..n
    BY <2>1, <2>2
  <2>4. ~(s[(n - k) + 1] > c + ((n - k) + 1))
    <3>1. ~(k <= k - 1)
      BY <2>1
    <3>2. k - 1 \notin High
      BY <2>1, <3>1, Zenon
    <3> QED
      BY <2>3, <3>2
  <2>5. s[n - k] < s[(n - k) + 1]
    BY <2>1, <2>3
  <2> QED
    BY <1>1, <2>1, <2>3, <2>4, <2>5
<1>4. ASSUME NEW k \in 1..n, s[k] > c + k
      PROVE  FALSE
  <2>1. n - k \in 0..n /\ n - (n - k) = k
    OBVIOUS
  <2>2. n - k \in High
    BY <1>4, <2>1
  <2> QED
    BY <1>3, <2>2
<1>5. ASSUME NEW k \in 1..n, s[k] < c + k
      PROVE  FALSE
  <2>1. k \in Low
    BY <1>5
  <2> QED
    BY <1>2, <2>1
<1> HIDE DEF Low, High
<1> QED
  BY <1>1, <1>4, <1>5

\* The calls that are open get their answers in order.
LEMMA AnswersAre ==
  ASSUME NEW l \in Seq(Event), NEW c \in 0..Calls,
         Logged(l, "result") = 1..c
  PROVE  Answers(l) =
           [k \in 1..(Calls - c) |->
              <<"result", c + k, IF c + k \in Logged(l, "call")
                                 THEN "unknown" ELSE "notStarted">>]
<1> DEFINE n     == Calls - c
           open  == Call \ Logged(l, "result")
           Orders == {s \in [1..Cardinality(open) -> open] :
                        \A a, b \in DOMAIN s : a < b => s[a] < s[b]}
<1>1. n \in Nat /\ c \in Nat /\ c + n = Calls
  BY CallsAssumption
<1>2. open = (c + 1)..(c + n)
  BY <1>1 DEF Call
<1> HIDE DEF n, open
<1>3. Cardinality(open) = n
  <2>1. c + 1 \in Int /\ c + n \in Int
    BY <1>1
  <2>2. Cardinality((c + 1)..(c + n)) =
          IF c + 1 > c + n THEN 0 ELSE (c + n) - (c + 1) + 1
    BY <2>1, FS_Interval
  <2> QED
    BY <1>1, <1>2, <2>2
<1> DEFINE order == CHOOSE s \in [1..Cardinality(open) -> open] :
                      \A a, b \in DOMAIN s : a < b => s[a] < s[b]
           shift == [k \in 1..n |-> c + k]
<1>4. /\ shift \in [1..n -> open]
      /\ \A a, b \in DOMAIN shift : a < b => shift[a] < shift[b]
  BY <1>1, <1>2
<1>5. /\ order \in [1..n -> open]
      /\ \A a, b \in 1..n : a < b => order[a] < order[b]
  <2>1. \E s \in [1..Cardinality(open) -> open] :
           \A a, b \in DOMAIN s : a < b => s[a] < s[b]
    BY <1>3, <1>4
  <2>2. /\ order \in [1..Cardinality(open) -> open]
        /\ \A a, b \in DOMAIN order : a < b => order[a] < order[b]
    BY <2>1
  <2> QED
    BY <1>3, <2>2
<1>6. Answers(l) = [k \in DOMAIN order |->
                      <<"result", order[k], IF order[k] \in Logged(l, "call")
                                            THEN "unknown" ELSE "notStarted">>]
  BY DEF Answers, open
<1> HIDE DEF order
<1>7. \A k \in 1..n : order[k] = c + k
  BY <1>1, <1>2, <1>5, OneOrder
<1>8. DOMAIN order = 1..n
  BY <1>5
<1> QED
  BY <1>6, <1>7, <1>8 DEF n

\* However a log ends, its answers complete it.
LEMMA Answered ==
  ASSUME NEW l \in Seq(Event), InModelOrder(l)
  PROVE  LET m == l \o Answers(l)
         IN  /\ m \in Seq(Event) /\ InModelOrder(m)
             /\ Logged(m, "result") = Call
             /\ \A k \in 1..Len(m) :
                  \/ k \in 1..Len(l) /\ m[k] = l[k]
                  \/ m[k][3] = IF m[k][2] \in Logged(l, "call")
                               THEN "unknown" ELSE "notStarted"
<1>1. PICK c \in 0..Calls : Logged(l, "result") = 1..c
  BY LoggedUpTo
<1> DEFINE m == l \o Answers(l)
           n == Calls - c
           kind(i) == IF i \in Logged(l, "call") THEN "unknown"
                     ELSE "notStarted"
           ev(k) == <<"result", c + k, kind(c + k)>>
<1>2. /\ n \in Nat /\ c \in Nat /\ Calls \in Nat /\ c + n = Calls
      /\ Len(l) \in Nat
  BY CallsAssumption
<1>3. \A k \in 1..n : /\ ev(k) \in Event
                      /\ ev(k)[1] = "result" /\ ev(k)[2] = c + k
                      /\ ev(k)[3] = kind(c + k)
  <2>1. ASSUME NEW k \in 1..n
        PROVE  ev(k) \in Event
    <3>1. c + k \in Call /\ kind(c + k) \in Kinds
      BY <1>2 DEF Call, Kinds
    <3> QED
      BY <3>1 DEF Event
  <2> QED
    BY <2>1
<1> HIDE DEF kind
<1>4. Answers(l) = [k \in 1..n |-> ev(k)]
  BY <1>1, AnswersAre DEF kind
<1>5. Answers(l) \in Seq(Event) /\ Len(Answers(l)) = n
  BY <1>2, <1>3, <1>4
<1> HIDE DEF ev, n
<1>6. /\ m \in Seq(Event) /\ Len(m) = Len(l) + n
      /\ \A k \in 1..Len(l) : m[k] = l[k] /\ l[k] \in Event
      /\ \A k \in 1..n : m[Len(l) + k] = ev(k)
  BY <1>2, <1>4, <1>5
<1> HIDE DEF m
<1>7. ASSUME NEW a \in 1..Len(m)
      PROVE  \/ a \in 1..Len(l)
             \/ a - Len(l) \in 1..n /\ m[a] = ev(a - Len(l))
  <2>1. a \notin 1..Len(l) => a - Len(l) \in 1..n /\ Len(l) + (a - Len(l)) = a
    BY <1>2, <1>6
  <2> QED
    BY <1>6, <2>1
<1>8. ASSUME NEW a \in 1..Len(m)
      PROVE  Before(m, a) = 1..(m[a][2] - 1)
  <2>1. CASE a \in 1..Len(l)
    <3>1. \A b \in 1..(a - 1) : m[b] = l[b]
      BY <1>2, <1>6, <2>1
    <3>2. Before(m, a) = Before(l, a)
      BY <1>6, <2>1, <3>1 DEF Before
    <3> QED
      BY <1>6, <2>1, <3>2 DEF InModelOrder
  <2>2. ASSUME NEW k \in 1..n, a = Len(l) + k
        PROVE  Before(m, a) = 1..(m[a][2] - 1)
    <3>1. m[a][1] = "result" /\ m[a][2] = c + k
      BY <1>3, <1>6, <2>2
    <3>2. ASSUME NEW i \in 1..(c + k - 1)
          PROVE  i \in Before(m, a)
      <4>1. CASE i \in 1..c
        <5>1. PICK b \in 1..Len(l) : l[b][1] = "result" /\ l[b][2] = i
          BY <1>1, <4>1 DEF Logged
        <5>2. b \in 1..(a - 1) /\ m[b][1] = "result" /\ m[b][2] = i
          BY <1>2, <1>6, <2>2, <5>1
        <5> QED
          BY <3>1, <5>2 DEF Before
      <4>2. CASE i \notin 1..c
        <5>1. i - c \in 1..n /\ i - c < k /\ c + (i - c) = i
          BY <1>2, <2>2, <3>2, <4>2
        <5>2. Len(l) + (i - c) \in 1..(a - 1)
          BY <1>2, <2>2, <5>1
        <5>3. m[Len(l) + (i - c)][1] = "result" /\ m[Len(l) + (i - c)][2] = i
          BY <1>3, <1>6, <5>1
        <5> QED
          BY <3>1, <5>2, <5>3 DEF Before
      <4> QED
        BY <4>1, <4>2
    <3>3. ASSUME NEW i \in Before(m, a)
          PROVE  i \in 1..(c + k - 1)
      <4>1. PICK b \in 1..(a - 1) : m[b][1] = "result" /\ m[b][2] = i
        BY <3>1 DEF Before
      <4>2. CASE b \in 1..Len(l)
        <5>1. m[b] = l[b] /\ i \in Call
          BY <1>6, <4>1, <4>2, EventFacts
        <5>2. i \in 1..c
          BY <1>1, <4>1, <4>2, <5>1 DEF Logged
        <5> QED
          BY <1>2, <2>2, <5>2
      <4>3. CASE b \notin 1..Len(l)
        <5>1. b - Len(l) \in 1..n /\ b - Len(l) < k
              /\ Len(l) + (b - Len(l)) = b
          BY <1>2, <2>2, <4>1, <4>3
        <5>2. i = c + (b - Len(l))
          BY <1>3, <1>6, <4>1, <5>1
        <5> QED
          BY <1>2, <2>2, <5>1, <5>2
      <4> QED
        BY <4>2, <4>3
    <3>4. Before(m, a) = 1..(c + k - 1)
      BY <3>2, <3>3
    <3> QED
      BY <3>1, <3>4
  <2>3. a \notin 1..Len(l) => a - Len(l) \in 1..n /\ a = Len(l) + (a - Len(l))
    BY <1>2, <1>7
  <2> QED
    BY <2>1, <2>2, <2>3
<1>9. InModelOrder(m)
  BY <1>8 DEF InModelOrder
<1>10. Logged(m, "result") = Call
  <2>1. ASSUME NEW i \in Call
        PROVE  \E k \in 1..Len(m) : m[k][1] = "result" /\ m[k][2] = i
    <3>1. CASE i \in 1..c
      <4>1. PICK b \in 1..Len(l) : l[b][1] = "result" /\ l[b][2] = i
        BY <1>1, <3>1 DEF Logged
      <4> QED
        BY <1>2, <1>6, <4>1
    <3>2. CASE i \notin 1..c
      <4>1. i - c \in 1..n /\ c + (i - c) = i
        BY <1>2, <3>2 DEF Call
      <4>2. Len(l) + (i - c) \in 1..Len(m)
        BY <1>2, <1>6, <4>1
      <4> QED
        BY <1>3, <1>6, <4>1, <4>2
    <3> QED
      BY <3>1, <3>2
  <2> QED
    BY <2>1 DEF Logged
<1>11. ASSUME NEW a \in 1..Len(m)
       PROVE  \/ a \in 1..Len(l) /\ m[a] = l[a]
              \/ m[a][3] = kind(m[a][2])
  BY <1>3, <1>6, <1>7
<1> QED
  BY <1>6, <1>9, <1>10, <1>11 DEF kind, m

-----------------------------------------------------------------------------
(***************************************************************************)
(* The pool and the groups.                                                *)
(***************************************************************************)

LEMMA Counters ==
  ASSUME TypeOK
  PROVE  /\ Calls \in Nat \ {0} /\ Call \subseteq Nat /\ Call = 1..Calls
         /\ first \in Nat \ {0} /\ next \in Nat \ {0}
         /\ committed \in Nat \ {0}
         /\ flight \in SUBSET Call
         /\ \A i \in Call : mode[i] \in {"parallel", "exclusive"}
         /\ first <= Calls =>
              /\ first \in Call /\ Last \in Call /\ first <= Last
              /\ mode[first] = "exclusive" => Last = first
              /\ mode[first] # "exclusive" => Last = Calls
BY CallsAssumption DEF TypeOK, Call, Last

LEMMA PoolSize ==
  ASSUME NEW S \in SUBSET Call
  PROVE  /\ Cardinality(S) \in Nat
         /\ \A x : Cardinality(S \union {x}) <= Cardinality(S) + 1
         /\ \A R \in SUBSET S : Cardinality(R) <= Cardinality(S)
<1>1. IsFiniteSet(S)
  <2>1. IsFiniteSet(1..Calls)
    BY CallsAssumption, FS_Interval
  <2> QED
    BY <2>1, FS_Subset DEF Call
<1>2. Cardinality(S) \in Nat
  BY <1>1, FS_CardinalityType
<1>3. \A x : Cardinality(S \union {x}) <= Cardinality(S) + 1
  BY <1>1, <1>2, FS_AddElement
<1>4. \A R \in SUBSET S : Cardinality(R) <= Cardinality(S)
  BY <1>1, FS_Subset
<1> QED
  BY <1>2, <1>3, <1>4

\* With an empty pool there is nothing to guard.
LEMMA EmptyPool ==
  ASSUME flight' = {}
  PROVE  ExclusiveIsBarrier'
BY MaxParallelAssumption, FS_EmptySet DEF ExclusiveIsBarrier

\* A smaller pool with the same log is as well guarded.
LEMMA SmallerPool ==
  ASSUME TypeOK, ExclusiveIsBarrier, log' = log, mode' = mode,
         flight' \subseteq flight
  PROVE  ExclusiveIsBarrier'
<1>1. Cardinality(flight') <= MaxParallel
  <2>1. /\ Cardinality(flight') <= Cardinality(flight)
        /\ Cardinality(flight) \in Nat /\ Cardinality(flight') \in Nat
    BY PoolSize, Counters
  <2> QED
    BY <2>1, MaxParallelAssumption DEF ExclusiveIsBarrier
<1> QED
  BY <1>1 DEF ExclusiveIsBarrier

\* Nothing is concluded of the answers before the step is over.
LEMMA SameLog ==
  ASSUME LoggedInModelOrder, EveryCallAnswered, InvokedSound, pc \notin Over,
         log' = log, invoked' = invoked, TypeOK', pc' \notin Over
  PROVE  LoggedInModelOrder' /\ EveryCallAnswered'
BY DEF LoggedInModelOrder, EveryCallAnswered, Over

-----------------------------------------------------------------------------
(***************************************************************************)
(* The steps.                                                              *)
(***************************************************************************)

LEMMA AbortKeeps ==
  ASSUME IInv, Abort
  PROVE  IInv'
<1>1. /\ pc \notin Over /\ signal' = TRUE
      /\ UNCHANGED <<mode, aborted, failure, first, next, committed, slots,
                     flight, settled, invoked, pc, log>>
  BY DEF Abort
<1>2. TypeOK'
  BY <1>1 DEF IInv, LoggedInModelOrder, TypeOK
<1> QED
  BY <1>1, <1>2 DEF IInv, LoggedInModelOrder, EveryCallAnswered,
     ExclusiveIsBarrier, Progress, SlotsSound, InvokedSound, Started,
     Responded, Last

LEMMA InvokeKeeps ==
  ASSUME IInv, NEW i \in Call, Invoke(i)
  PROVE  IInv'
<1>1. /\ i \in flight \ settled /\ invoked' = invoked \union {i}
      /\ UNCHANGED <<mode, signal, aborted, failure, first, next, committed,
                     slots, flight, settled, pc, log>>
  BY DEF Invoke
<1>2. pc \notin Over /\ slots[i] = "empty" /\ i \notin Responded
  BY <1>1 DEF IInv, SlotsSound, Busy, Over
<1>3. TypeOK'
  BY <1>1 DEF IInv, LoggedInModelOrder, TypeOK
<1>4. EveryCallAnswered'
  <2>1. ASSUME NEW k \in 1..Len(log), log[k][1] = "result"
        PROVE  log[k][2] # i
    BY <1>2, <2>1 DEF Responded, Logged
  <2> QED
    BY <1>1, <1>2, <2>1 DEF IInv, EveryCallAnswered, Over
<1>5. InvokedSound'
  BY <1>1, <1>2 DEF IInv, InvokedSound, Started
<1> QED
  BY <1>1, <1>3, <1>4, <1>5 DEF IInv, LoggedInModelOrder, ExclusiveIsBarrier,
     Progress, SlotsSound, Started, Responded, Last

\* A dispatch is settled, with a result or with a failure.
LEMMA SettleKeeps ==
  ASSUME IInv, NEW i \in Call, Fulfil(i) \/ Reject(i)
  PROVE  IInv'
<1>1. /\ i \in flight \ settled /\ settled' = settled \union {i}
      /\ UNCHANGED <<mode, signal, aborted, first, next, committed, flight,
                     invoked, pc, log>>
  BY DEF Fulfil, Reject
<1>2. /\ failure' \in BOOLEAN /\ (failure => failure')
      /\ slots' \in [Call -> {"empty", "result", "skipped"}]
      /\ \A j \in Call \ {i} : slots'[j] = slots[j]
      /\ failure' \/ slots'[i] # "empty"
      /\ i \in invoked => slots'[i] # "skipped"
  <2>1. CASE Fulfil(i)
    BY <2>1 DEF Fulfil, IInv, LoggedInModelOrder, TypeOK
  <2>2. CASE Reject(i)
    BY <2>2 DEF Reject, IInv, LoggedInModelOrder, TypeOK, InvokedSound
  <2> QED
    BY <2>1, <2>2
<1>3. pc \notin Over
  BY <1>1 DEF IInv, Busy, Over
<1>4. TypeOK'
  BY <1>1, <1>2 DEF IInv, LoggedInModelOrder, TypeOK
<1>5. LoggedInModelOrder' /\ EveryCallAnswered'
  BY <1>1, <1>3, <1>4, SameLog DEF IInv
<1>6. Progress' /\ ExclusiveIsBarrier'
  BY <1>1 DEF IInv, Progress, ExclusiveIsBarrier, Started, Responded, Last
<1>7. SlotsSound'
  <2>1. pc \in InGroup \union {"group"} =>
          i < next /\ i \in Nat /\ next \in Nat
    BY <1>1, <1>3, Counters DEF IInv, InvokedSound, LoggedInModelOrder
  <2>2. /\ settled \subseteq Call
        /\ \A j \in Nat : j >= next /\ next > i => j # i
        /\ \A j \in Call : slots'[j] = "empty" => slots[j] = "empty" \/ j = i
    BY <1>1, <1>2, Counters DEF IInv, LoggedInModelOrder, TypeOK
  <2>3. ASSUME pc \in InGroup \union {"group"}
        PROVE  /\ \A j \in Call : j >= next => slots'[j] = "empty"
               /\ \A j \in first..next - 1 :
                    j \in flight \/ slots'[j] # "empty"
               /\ \A j \in settled' : failure' \/ slots'[j] # "empty"
    <3>1. \A j \in Call : j >= next => slots'[j] = "empty"
      BY <1>2, <2>1, <2>3, Counters DEF IInv, SlotsSound, LoggedInModelOrder
    <3>2. \A j \in first..next - 1 : j \in Call
      BY <2>1, <2>3, Counters DEF IInv, LoggedInModelOrder, TypeOK
    <3>3. \A j \in first..next - 1 : j \in flight \/ slots'[j] # "empty"
      BY <1>1, <1>2, <2>3, <3>2 DEF IInv, SlotsSound
    <3>4. \A j \in settled' : failure' \/ slots'[j] # "empty"
      BY <1>1, <1>2, <2>2, <2>3 DEF IInv, SlotsSound
    <3> QED
      BY <3>1, <3>3, <3>4
  <2>4. \A j \in flight' \ settled' :
          slots'[j] = "empty" /\ j \notin Responded'
    BY <1>1, <1>2, Counters DEF IInv, SlotsSound, Responded, LoggedInModelOrder
  <2> QED
    BY <1>1, <2>3, <2>4 DEF SlotsSound
<1>8. InvokedSound'
  <2>1. invoked \subseteq Call
    BY DEF IInv, LoggedInModelOrder, TypeOK
  <2> QED
    BY <1>1, <1>2, <2>1 DEF IInv, InvokedSound, Started
<1> QED
  BY <1>1, <1>5, <1>6, <1>7, <1>8 DEF IInv

LEMMA BeginGroupKeeps ==
  ASSUME IInv, BeginGroup
  PROVE  IInv'
<1>1. /\ pc = "group" /\ flight = {} /\ next = first
      /\ Started = 1..first - 1 /\ Responded = 1..first - 1
      /\ UNCHANGED <<mode, signal, failure, first, slots, flight, settled,
                     invoked, log>>
  BY DEF BeginGroup, IInv, Progress, Busy
<1>2. settled = {} /\ TypeOK
  BY <1>1 DEF IInv, LoggedInModelOrder, TypeOK
<1>3. CASE first > Calls
  <2>1. pc' = "ended" /\ UNCHANGED <<aborted, next, committed>>
    BY <1>3 DEF BeginGroup
  <2>2. TypeOK'
    BY <1>1, <1>2, <2>1 DEF TypeOK, Over
  <2>3. Responded = Call
    BY <1>1, <1>2, <1>3, Counters DEF TypeOK
  <2>4. LoggedInModelOrder' /\ EveryCallAnswered'
    BY <1>1, <2>1, <2>2, <2>3
       DEF IInv, LoggedInModelOrder, EveryCallAnswered, Responded, Over
  <2>5. ExclusiveIsBarrier'
    BY <1>1, EmptyPool
  <2>6. Progress' /\ SlotsSound' /\ InvokedSound'
    BY <1>1, <2>1 DEF IInv, Progress, SlotsSound, InvokedSound, InGroup, Over
  <2> QED
    BY <1>1, <2>1, <2>4, <2>5, <2>6 DEF IInv
<1>4. CASE first <= Calls
  <2>1. /\ pc' = "fill" /\ aborted' = signal
        /\ next' = first /\ committed' = first
    BY <1>2, <1>4, Counters DEF BeginGroup
  <2>2. TypeOK'
    BY <1>1, <1>2, <2>1 DEF TypeOK
  <2>3. LoggedInModelOrder' /\ EveryCallAnswered'
    BY <1>1, <2>1, <2>2, SameLog DEF IInv, Over
  <2>4. ExclusiveIsBarrier'
    BY <1>1, EmptyPool
  <2>5. Progress'
    BY <1>1, <1>2, <1>4, <2>1, Counters
       DEF Progress, InGroup, Started, Responded, Last
  <2>6. SlotsSound'
    BY <1>1, <1>2, <2>1, Counters DEF IInv, SlotsSound, InGroup
  <2>7. InvokedSound'
    BY <1>1, <2>1 DEF IInv, InvokedSound, Started, Over
  <2> QED
    BY <1>1, <2>1, <2>3, <2>4, <2>5, <2>6, <2>7 DEF IInv, Busy
<1> QED
  BY <1>2, <1>3, <1>4, Counters

\* Nothing exclusive is in flight when a further call may start.
LEMMA NoneExclusive ==
  ASSUME IInv, pc \in InGroup, next <= Last
  PROVE  \A i \in flight : mode[i] # "exclusive"
BY Counters DEF IInv, LoggedInModelOrder, Progress

LEMMA StartCallKeeps ==
  ASSUME IInv, StartCall
  PROVE  IInv'
<1> DEFINE e == <<"call", next>>
<1>1. /\ pc = "fill" /\ MayStart /\ log' = Append(log, e) /\ pc' = "preparing"
      /\ UNCHANGED <<mode, signal, aborted, failure, first, next, committed,
                     slots, flight, settled, invoked>>
  BY DEF StartCall
<1>2. TypeOK /\ InModelOrder(log) /\ log \in Seq(Event)
  BY DEF IInv, LoggedInModelOrder, TypeOK
<1>3. /\ next \in Call /\ next <= Last /\ Started = 1..next - 1
      /\ first <= Calls /\ first <= next
  BY <1>1, <1>2, Counters DEF IInv, Progress, InGroup, MayStart
<1>4. e \in Event /\ e[1] = "call" /\ e[2] = next
  BY <1>3 DEF Event
<1> HIDE DEF e
<1>5. /\ log' \in Seq(Event) /\ InModelOrder(log')
      /\ Len(log') = Len(log) + 1 /\ log'[Len(log) + 1] = e
      /\ Len(log) \in Nat /\ \A k \in 1..Len(log) : log'[k] = log[k]
  BY <1>1, <1>2, <1>3, <1>4, OrderAppend, AppendFacts DEF Started
<1>6. /\ Started' = Started \union {next} /\ Responded' = Responded
  BY <1>1, <1>2, <1>4, LoggedAppend DEF Started, Responded
<1>7. Started' = 1..next
  BY <1>2, <1>3, <1>6, Counters
<1>8. TypeOK'
  BY <1>1, <1>2, <1>5 DEF TypeOK
<1>9. EveryCallAnswered'
  BY <1>1, <1>4, <1>5 DEF IInv, EveryCallAnswered, Over
<1>10. ExclusiveIsBarrier'
  BY <1>1, <1>3, NoneExclusive DEF IInv, InGroup, ExclusiveIsBarrier
<1>11. Progress'
  BY <1>1, <1>3, <1>6, <1>7 DEF IInv, Progress, InGroup, MayStart, Last
<1>12. SlotsSound'
  BY <1>1, <1>6 DEF IInv, SlotsSound, InGroup
<1>13. InvokedSound'
  BY <1>1, <1>4, <1>5, <1>6 DEF IInv, InvokedSound, Over
<1> QED
  BY <1>1, <1>5, <1>8, <1>9, <1>10, <1>11, <1>12, <1>13
     DEF IInv, LoggedInModelOrder, Busy

LEMMA PoolFilledKeeps ==
  ASSUME IInv, PoolFilled
  PROVE  IInv'
<1>1. /\ pc = "fill" /\ pc' = IF flight = {} THEN "finish" ELSE "racing"
      /\ UNCHANGED <<mode, signal, aborted, failure, first, next, committed,
                     slots, flight, settled, invoked, log>>
  BY DEF PoolFilled
<1>2. TypeOK'
  BY <1>1 DEF IInv, LoggedInModelOrder, TypeOK
<1>3. LoggedInModelOrder' /\ EveryCallAnswered'
  BY <1>1, <1>2, SameLog DEF IInv, Over
<1>4. ExclusiveIsBarrier'
  BY <1>1 DEF IInv, ExclusiveIsBarrier
<1>5. Progress'
  BY <1>1 DEF IInv, Progress, InGroup, Started, Responded, Last
<1>6. SlotsSound' /\ InvokedSound'
  BY <1>1 DEF IInv, SlotsSound, InvokedSound, InGroup, Started, Responded, Over
<1> QED
  BY <1>1, <1>3, <1>4, <1>5, <1>6 DEF IInv, Busy

\* prepare is done with the next call, which may be in flight now.
LEMMA PreparedKeeps ==
  ASSUME IInv, Dispatched \/ Refused
  PROVE  IInv'
<1>1. /\ pc = "preparing" /\ next' = next + 1 /\ pc' \in {"draining", "commit"}
      /\ UNCHANGED <<mode, signal, aborted, failure, first, committed, settled,
                     invoked, log>>
  BY DEF Dispatched, Refused, ThrowOr
<1>2. TypeOK
  BY DEF IInv, LoggedInModelOrder
<1>3. /\ Started = 1..next /\ Responded = 1..committed - 1
      /\ first <= Calls /\ first <= committed /\ committed <= next
      /\ first <= next /\ next <= Last /\ next \in Call
      /\ flight \subseteq first..next - 1 /\ next \notin flight
      /\ Cardinality(flight) < MaxParallel
      /\ next > first => mode[next] = "parallel"
      /\ \A i \in flight : i = first \/ mode[i] = "parallel"
  <2>1. first <= next
    BY <1>1, <1>2, Counters DEF IInv, Progress, InGroup
  <2> QED
    BY <1>1, <1>2, <2>1, Counters DEF IInv, Progress, InGroup
<1>4. \/ slots' = slots /\ flight' = flight \union {next}
      \/ /\ flight' = flight
         /\ slots' = [slots EXCEPT ![next] =
                     IF signal THEN "skipped" ELSE "result"]
  BY DEF Dispatched, Refused
<1>5. /\ slots' \in [Call -> {"empty", "result", "skipped"}]
      /\ \A j \in Call \ {next} : slots'[j] = slots[j]
      /\ next \in flight' \/ slots'[next] # "empty"
      /\ next \in flight' => slots'[next] = "empty"
      /\ flight' \subseteq Call /\ flight \subseteq flight'
      /\ flight' \subseteq flight \union {next}
  <2>1. slots[next] = "empty"
        /\ slots \in [Call -> {"empty", "result", "skipped"}]
    BY <1>1, <1>2, <1>3, Counters DEF IInv, SlotsSound, InGroup, TypeOK
  <2> QED
    BY <1>2, <1>3, <1>4, <2>1, Counters
<1>6. /\ next' - 1 = next /\ next' \in 1..(Calls + 1)
      /\ \A j \in Nat : j <= next - 1 => j <= next' - 1
  BY <1>1, <1>2, <1>3, Counters
<1>7. TypeOK'
  BY <1>1, <1>2, <1>5, <1>6 DEF TypeOK
<1>8. LoggedInModelOrder' /\ EveryCallAnswered'
  BY <1>1, <1>7, SameLog DEF IInv, Over
<1>9. mode[first] = "exclusive" => next = first /\ flight = {}
  <2>1. first..first - 1 = {}
    BY <1>2, Counters
  <2> QED
    BY <1>2, <1>3, <2>1, Counters
<1>10. ExclusiveIsBarrier'
  <2>1. Cardinality(flight') <= MaxParallel
    <3>1. /\ Cardinality(flight) \in Nat
          /\ Cardinality(flight \union {next}) \in Nat
          /\ Cardinality(flight \union {next}) <= Cardinality(flight) + 1
      <4>1. flight \in SUBSET Call /\ flight \union {next} \in SUBSET Call
        BY <1>2, <1>3, Counters
      <4> QED
        BY <4>1, PoolSize
    <3>2. flight' = flight \/ flight' = flight \union {next}
      BY <1>4
    <3>3. MaxParallel \in Nat /\ Cardinality(flight) < MaxParallel
      BY <1>3, MaxParallelAssumption
    <3>4. CASE flight' = flight
      BY <3>1, <3>3, <3>4
    <3>5. CASE flight' = flight \union {next}
      <4>1. Cardinality(flight \union {next}) <= MaxParallel
        BY <3>1, <3>3
      <4> QED
        BY <3>5, <4>1
    <3> QED
      BY <3>2, <3>4, <3>5
  <2>2. ASSUME NEW i \in flight', mode[i] = "exclusive"
        PROVE  i = first /\ next = first /\ flight' = {i}
    <3>1. CASE i = next
      <4>1. next = first
        BY <1>2, <1>3, <2>2, <3>1, Counters
      <4> QED
        BY <1>4, <1>9, <2>2, <3>1, <4>1
    <3>2. CASE i \in flight
      BY <1>3, <1>9, <2>2, <3>2
    <3> QED
      BY <1>5, <2>2, <3>1, <3>2
  <2>3. 1..first - 1 \subseteq 1..committed - 1
        /\ 1..committed - 1 \subseteq 1..next
    BY <1>2, <1>3, Counters
  <2> QED
    BY <1>1, <1>3, <2>1, <2>2, <2>3 DEF ExclusiveIsBarrier, Started, Responded
<1>11. flight' \subseteq first..next' - 1 /\ flight' \subseteq 1..next' - 1
  <2>1. first..next - 1 \subseteq first..next /\ next \in first..next
        /\ first..next \subseteq 1..next
    BY <1>2, <1>3, Counters
  <2> QED
    BY <1>3, <1>5, <1>6, <2>1
<1>12. Progress'
  <2>1. /\ next' <= Last + 1 /\ committed <= next'
    BY <1>1, <1>2, <1>3, Counters
  <2>2. \A i \in flight' : i = first \/ mode[i] = "parallel"
    BY <1>2, <1>3, <1>5, Counters
  <2>3. Started' = 1..next' - 1 /\ Responded' = Responded /\ Last' = Last
    BY <1>1, <1>3, <1>6 DEF Started, Responded, Last
  <2> QED
    BY <1>1, <1>3, <1>11, <2>1, <2>2, <2>3 DEF Progress, InGroup
<1>13. SlotsSound'
  <2>1. \A j \in Call : j >= next' => slots'[j] = "empty"
    <3>1. \A j \in Call : j >= next' => j >= next /\ j # next
      BY <1>1, <1>2, Counters
    <3> QED
      BY <1>1, <1>5, <3>1 DEF IInv, SlotsSound, InGroup
  <2>2. \A j \in first..next' - 1 : j \in flight' \/ slots'[j] # "empty"
    <3>1. \A j \in first..next' - 1 :
            j = next \/ (j \in first..next - 1 /\ j \in Call)
      BY <1>1, <1>2, <1>3, <1>6, Counters
    <3> QED
      BY <1>1, <1>5, <3>1 DEF IInv, SlotsSound, InGroup
  <2>3. \A i \in settled' : failure' \/ slots'[i] # "empty"
    <3>1. \A i \in settled : i # next /\ i \in Call
      BY <1>2, <1>3, Counters DEF TypeOK
    <3> QED
      BY <1>1, <1>5, <3>1 DEF IInv, SlotsSound, InGroup
  <2>4. \A i \in flight' \ settled' :
          slots'[i] = "empty" /\ i \notin Responded'
    <3>1. next \notin Responded
      BY <1>2, <1>3, Counters
    <3> QED
      BY <1>1, <1>2, <1>3, <1>5, <3>1, Counters DEF IInv, SlotsSound, Responded
  <2>5. first' = first
    BY <1>1
  <2> QED
    BY <2>1, <2>2, <2>3, <2>4, <2>5 DEF SlotsSound
<1>14. InvokedSound'
  <2>1. invoked \subseteq 1..next - 1 /\ invoked \subseteq Started
        /\ \A i \in invoked : i \in Call /\ i # next
    BY <1>1, <1>2, Counters DEF IInv, InvokedSound, Over, TypeOK
  <2>2. 1..next - 1 \subseteq 1..next' - 1
    BY <1>2, <1>6, Counters
  <2>3. flight' \subseteq Started /\ Started' = Started
    BY <1>1, <1>3, <1>6, <1>11 DEF Started
  <2> QED
    BY <1>1, <1>5, <1>11, <2>1, <2>2, <2>3 DEF IInv, InvokedSound, Over
<1> QED
  BY <1>1, <1>8, <1>10, <1>12, <1>13, <1>14 DEF IInv, Busy

LEMMA CommitKeeps ==
  ASSUME IInv, Commit
  PROVE  IInv'
<1> DEFINE e == <<"result", committed, slots[committed]>>
<1>1. /\ pc = "commit" /\ committed <= Last /\ slots[committed] # "empty"
      /\ log' = Append(log, e) /\ committed' = committed + 1
      /\ UNCHANGED <<mode, signal, aborted, failure, first, next, slots,
                     flight, settled, invoked, pc>>
  BY DEF Commit
<1>2. TypeOK /\ InModelOrder(log) /\ log \in Seq(Event)
  BY DEF IInv, LoggedInModelOrder, TypeOK
<1>3. /\ committed \in Call /\ Responded = 1..committed - 1
      /\ first <= Calls /\ first <= committed /\ committed <= next
  BY <1>1, <1>2, Counters DEF IInv, Progress, InGroup
<1>4. committed < next
  <2>1. committed # next
    BY <1>1, <1>2, <1>3, Counters DEF IInv, SlotsSound, InGroup
  <2> QED
    BY <1>2, <1>3, <2>1, Counters
<1>5. /\ slots[committed] \in {"result", "skipped"} /\ e \in Event
      /\ e[1] = "result" /\ e[2] = committed /\ e[3] = slots[committed]
  BY <1>1, <1>2, <1>3 DEF TypeOK, Event, Kinds
<1> HIDE DEF e
<1>6. /\ log' \in Seq(Event) /\ InModelOrder(log')
      /\ Len(log') = Len(log) + 1 /\ log'[Len(log) + 1] = e
      /\ Len(log) \in Nat /\ \A k \in 1..Len(log) : log'[k] = log[k]
  BY <1>1, <1>2, <1>3, <1>5, OrderAppend, AppendFacts DEF Responded
<1>7. Responded' = Responded \union {committed} /\ Started' = Started
  BY <1>1, <1>2, <1>5, LoggedAppend DEF Started, Responded
<1>8. /\ committed' - 1 = committed /\ committed' \in 1..(Calls + 1)
      /\ first <= committed' /\ committed' <= next
  BY <1>1, <1>2, <1>3, <1>4, Counters
<1>9. Responded' = 1..committed' - 1
  <2>1. 1..committed - 1 \union {committed} = 1..committed
    BY <1>2, Counters
  <2> QED
    BY <1>3, <1>7, <1>8, <2>1
<1>10. TypeOK'
  BY <1>1, <1>2, <1>6, <1>8 DEF TypeOK
<1>11. EveryCallAnswered'
  <2>1. ASSUME NEW k \in 1..Len(log'), log'[k][1] = "result",
               log'[k][2] \in invoked
        PROVE  log'[k][3] # "skipped"
    <3>1. CASE k \in 1..Len(log)
      BY <1>6, <2>1, <3>1 DEF IInv, EveryCallAnswered
    <3>2. CASE k \notin 1..Len(log)
      <4>1. log'[k] = e
        BY <1>6, <3>2
      <4> QED
        BY <1>5, <2>1, <4>1 DEF IInv, InvokedSound
    <3> QED
      BY <3>1, <3>2
  <2> QED
    BY <1>1, <2>1 DEF EveryCallAnswered, Over
<1>12. ExclusiveIsBarrier'
  <2>1. ASSUME NEW i \in flight, mode[i] = "exclusive"
        PROVE  committed \in 1..i
    <3>1. i = first /\ Last = first
      BY <1>1, <1>2, <1>3, <2>1, Counters DEF IInv, Progress, InGroup
    <3> QED
      BY <1>1, <1>2, <1>3, <3>1, Counters
  <2>2. ASSUME NEW i \in flight, mode[i] = "exclusive"
        PROVE  /\ flight = {i} /\ Started' = 1..i /\ Responded' \subseteq 1..i
               /\ 1..(i - 1) \subseteq Responded'
    BY <1>7, <2>1, <2>2
       DEF IInv, ExclusiveIsBarrier, Started, Responded
  <2> QED
    BY <1>1, <2>2 DEF IInv, ExclusiveIsBarrier, Started, Responded
<1>13. Progress'
  BY <1>1, <1>3, <1>7, <1>8, <1>9 DEF IInv, Progress, InGroup, Last
<1>14. SlotsSound'
  BY <1>1, <1>7 DEF IInv, SlotsSound
<1>15. InvokedSound'
  <2>1. ASSUME NEW k \in 1..Len(log'), log'[k][1] = "result"
        PROVE  log'[k][3] \in {"result", "skipped"}
    <3>1. CASE k \in 1..Len(log)
      BY <1>1, <1>6, <2>1, <3>1 DEF IInv, InvokedSound, Over
    <3>2. CASE k \notin 1..Len(log)
      <4>1. log'[k] = e
        BY <1>6, <3>2
      <4> QED
        BY <1>5, <4>1
    <3> QED
      BY <3>1, <3>2
  <2> QED
    BY <1>1, <1>7, <2>1 DEF IInv, InvokedSound, Over
<1> QED
  BY <1>1, <1>6, <1>10, <1>11, <1>12, <1>13, <1>14, <1>15
     DEF IInv, LoggedInModelOrder, Busy


\* commitReady is done: everything is committed, or the first call that is
\* not is still in flight.
LEMMA CommittedKeeps ==
  ASSUME IInv, Committed
  PROVE  IInv'
<1>1. /\ pc = "commit" /\ aborted' = (aborted \/ (~failure /\ signal))
      /\ committed <= Last => slots[committed] = "empty"
      /\ pc' = IF failure THEN "draining" ELSE "fill"
      /\ UNCHANGED <<mode, signal, failure, first, next, committed, slots,
                     flight, settled, invoked, log>>
  BY DEF Committed, ThrowOr
<1>2. TypeOK /\ aborted \in BOOLEAN /\ failure \in BOOLEAN
      /\ signal \in BOOLEAN
  BY DEF IInv, LoggedInModelOrder, TypeOK
<1>3. TypeOK'
  BY <1>1, <1>2 DEF TypeOK
<1>4. LoggedInModelOrder' /\ EveryCallAnswered'
  BY <1>1, <1>3, SameLog DEF IInv, Over
<1>5. ExclusiveIsBarrier'
  BY <1>1 DEF IInv, ExclusiveIsBarrier
<1>6. committed = next \/ committed \in flight
  <2>1. /\ first <= Calls /\ first <= committed /\ committed <= next
        /\ next <= Last + 1
    BY <1>1 DEF IInv, Progress, InGroup
  <2>2. committed # next => committed \in first..next - 1 /\ committed <= Last
    BY <1>2, <2>1, Counters
  <2> QED
    BY <1>1, <2>2 DEF IInv, SlotsSound, InGroup
<1>7. Progress'
  BY <1>1, <1>6 DEF IInv, Progress, InGroup, Started, Responded, Last
<1>8. SlotsSound' /\ InvokedSound'
  BY <1>1 DEF IInv, SlotsSound, InvokedSound, InGroup, Started, Responded, Over
<1> QED
  BY <1>1, <1>4, <1>5, <1>7, <1>8 DEF IInv, Busy

\* Without a failure, what leaves the pool left its result.
LEMMA RaceWonKeeps ==
  ASSUME IInv, NEW i \in Call, RaceWon(i)
  PROVE  IInv'
<1>1. /\ pc = "racing" /\ i \in settled
      /\ flight' = flight \ {i} /\ settled' = settled \ {i}
      /\ pc' = IF failure THEN "draining" ELSE "commit"
      /\ UNCHANGED <<mode, signal, aborted, failure, first, next, committed,
                     slots, invoked, log>>
  BY DEF RaceWon, ThrowOr
<1>2. TypeOK
  BY DEF IInv, LoggedInModelOrder
<1>3. TypeOK'
  BY <1>1, <1>2 DEF TypeOK
<1>4. LoggedInModelOrder' /\ EveryCallAnswered'
  BY <1>1, <1>3, SameLog DEF IInv, Over
<1>5. ExclusiveIsBarrier'
  BY <1>1, <1>2, SmallerPool DEF IInv
<1>6. Progress'
  BY <1>1 DEF IInv, Progress, InGroup, Started, Responded, Last
<1>7. SlotsSound'
  BY <1>1 DEF IInv, SlotsSound, InGroup, Responded
<1>8. InvokedSound'
  BY <1>1 DEF IInv, InvokedSound, Started, Over
<1> QED
  BY <1>1, <1>4, <1>5, <1>6, <1>7, <1>8 DEF IInv, Busy

LEMMA ThrowsKeeps ==
  ASSUME IInv, Throws
  PROVE  IInv'
<1>1. /\ pc \in {"fill", "preparing", "commit"}
      /\ failure' = TRUE /\ pc' = "draining"
      /\ UNCHANGED <<mode, signal, aborted, first, next, committed, slots,
                     flight, settled, invoked, log>>
  BY DEF Throws
<1>2. TypeOK'
  BY <1>1 DEF IInv, LoggedInModelOrder, TypeOK
<1>3. LoggedInModelOrder' /\ EveryCallAnswered'
  BY <1>1, <1>2, SameLog DEF IInv, Over
<1>4. ExclusiveIsBarrier'
  BY <1>1 DEF IInv, ExclusiveIsBarrier
<1>5. Progress' /\ SlotsSound' /\ InvokedSound'
  BY <1>1 DEF IInv, Progress, SlotsSound, InvokedSound, InGroup, Started,
              Responded, Over
<1> QED
  BY <1>1, <1>3, <1>4, <1>5 DEF IInv, Busy

LEMMA DrainedKeeps ==
  ASSUME IInv, Drained
  PROVE  IInv'
<1>1. /\ pc = "draining" /\ pc' = "thrown" /\ flight' = {} /\ settled' = {}
      /\ UNCHANGED <<mode, signal, aborted, failure, first, next, committed,
                     slots, invoked, log>>
  BY DEF Drained
<1>2. TypeOK'
  BY <1>1 DEF IInv, LoggedInModelOrder, TypeOK
<1>3. LoggedInModelOrder' /\ EveryCallAnswered'
  BY <1>1, <1>2, SameLog DEF IInv, Over
<1>4. ExclusiveIsBarrier'
  BY <1>1, EmptyPool
<1>5. Progress' /\ SlotsSound'
  BY <1>1 DEF Progress, SlotsSound, InGroup
<1>6. InvokedSound'
  BY <1>1 DEF IInv, InvokedSound, Started, Over
<1> QED
  BY <1>1, <1>3, <1>4, <1>5, <1>6 DEF IInv

\* A group that is finished is committed: the next one starts behind it.
LEMMA FinishGroupKeeps ==
  ASSUME IInv, FinishGroup
  PROVE  IInv'
<1>1. /\ pc = "finish" /\ flight = {} /\ committed = next
      /\ Started = 1..next - 1 /\ Responded = 1..next - 1
      /\ UNCHANGED <<mode, signal, aborted, failure, next, committed, slots,
                     flight, settled, invoked, log>>
  BY DEF FinishGroup, IInv, Progress, InGroup, Busy
<1>2. \/ pc' = "skipping" /\ first' = first
      \/ pc' = "group" /\ first' = next
  BY <1>1 DEF FinishGroup
<1>3. TypeOK /\ settled = {}
  BY <1>1 DEF IInv, LoggedInModelOrder, TypeOK
<1>4. TypeOK'
  BY <1>1, <1>2, <1>3 DEF TypeOK
<1>5. LoggedInModelOrder' /\ EveryCallAnswered'
  BY <1>1, <1>2, <1>4, SameLog DEF IInv, Over
<1>6. ExclusiveIsBarrier'
  BY <1>1, EmptyPool
<1>7. Progress'
  BY <1>1, <1>2 DEF Progress, InGroup, Started, Responded
<1>8. SlotsSound'
  <2>1. CASE pc' = "skipping"
    BY <1>1, <2>1 DEF SlotsSound, InGroup
  <2>2. CASE pc' = "group" /\ first' = next
    <3>1. next..next - 1 = {}
      BY <1>3, Counters
    <3> QED
      BY <1>1, <1>3, <2>2, <3>1 DEF IInv, SlotsSound, InGroup
  <2> QED
    BY <1>2, <2>1, <2>2
<1>9. InvokedSound'
  BY <1>1, <1>2 DEF IInv, InvokedSound, Started, Over
<1> QED
  BY <1>1, <1>2, <1>5, <1>6, <1>7, <1>8, <1>9 DEF IInv, Busy

LEMMA AppendTwo ==
  ASSUME NEW S, NEW l \in Seq(S), NEW c \in S, NEW r \in S
  PROVE  l \o <<c, r>> = Append(Append(l, c), r)
OBVIOUS

\* A call that is skipped gets its two events at once.
LEMMA SkipKeeps ==
  ASSUME IInv, Skip
  PROVE  IInv'
<1>1. /\ pc = "skipping" /\ flight = {}
      /\ Started = 1..next - 1 /\ Responded = 1..next - 1
      /\ UNCHANGED <<mode, signal, aborted, failure, first, committed, slots,
                     flight, settled, invoked>>
  BY DEF Skip, IInv, Progress, Busy
<1>2. TypeOK /\ settled = {} /\ log \in Seq(Event) /\ InModelOrder(log)
  BY <1>1 DEF IInv, LoggedInModelOrder, TypeOK
<1>3. SlotsSound' /\ ExclusiveIsBarrier' /\ flight' = {}
  <2>1. pc' \in {"ended", "skipping"}
    BY <1>1 DEF Skip
  <2> QED
    BY <1>1, <1>2, <2>1, EmptyPool DEF SlotsSound, InGroup
<1>4. CASE next > Calls
  <2>1. pc' = "ended" /\ UNCHANGED <<next, log>>
    BY <1>4 DEF Skip
  <2>2. Responded = Call
    BY <1>1, <1>2, <1>4, Counters DEF TypeOK
  <2>3. TypeOK'
    BY <1>1, <1>2, <2>1 DEF TypeOK, Over
  <2>4. LoggedInModelOrder' /\ EveryCallAnswered'
    BY <1>1, <2>1, <2>2, <2>3
       DEF IInv, LoggedInModelOrder, EveryCallAnswered, Responded, Over
  <2>5. Progress' /\ InvokedSound'
    BY <1>1, <2>1 DEF IInv, Progress, InvokedSound, InGroup, Over
  <2> QED
    BY <1>3, <2>4, <2>5 DEF IInv
<1>5. CASE next <= Calls
  <2> DEFINE c == <<"call", next>>
             r == <<"result", next, "skipped">>
  <2>1. /\ log' = log \o <<c, r>> /\ next' = next + 1 /\ pc' = "skipping"
        /\ next \in Call
    <3>1. ~(next > Calls) /\ next \in Call
      BY <1>2, <1>5, Counters
    <3> QED
      BY <1>1, <3>1 DEF Skip
  <2>2. /\ c \in Event /\ c[1] = "call" /\ c[2] = next
        /\ r \in Event /\ r[1] = "result" /\ r[2] = next /\ r[3] = "skipped"
    BY <2>1 DEF Event, Kinds
  <2> HIDE DEF c, r
  <2>3. log' = Append(Append(log, c), r)
    BY <1>2, <2>1, <2>2, AppendTwo
  <2> DEFINE l == Append(log, c)
  <2>4. /\ l \in Seq(Event) /\ InModelOrder(l)
        /\ Logged(l, "call") = Started \union {next}
        /\ Logged(l, "result") = Responded
        /\ Len(log) \in Nat /\ Len(l) = Len(log) + 1 /\ l[Len(log) + 1] = c
        /\ \A k \in 1..Len(log) : l[k] = log[k]
    BY <1>1, <1>2, <2>2, AppendFacts, LoggedAppend, OrderAppend
       DEF Started, Responded
  <2> HIDE DEF l
  <2>5. log' = Append(l, r)
    BY <2>3 DEF l
  <2>6. /\ log' \in Seq(Event) /\ InModelOrder(log')
        /\ Started' = Started \union {next}
        /\ Responded' = Responded \union {next}
        /\ Len(log') = Len(l) + 1 /\ log'[Len(l) + 1] = r
        /\ \A k \in 1..Len(l) : log'[k] = l[k]
    BY <1>1, <2>2, <2>4, <2>5, AppendFacts, LoggedAppend, OrderAppend
       DEF Started, Responded
  <2>7. ASSUME NEW k \in 1..Len(log')
        PROVE  \/ k \in 1..Len(log) /\ log'[k] = log[k]
               \/ log'[k] = c
               \/ log'[k] = r
    <3>1. k \in 1..Len(log) \/ k = Len(log) + 1 \/ k = Len(l) + 1
      BY <2>4, <2>6
    <3>2. k \in 1..Len(log) => k \in 1..Len(l)
      BY <2>4
    <3>3. Len(log) + 1 \in 1..Len(l)
      BY <2>4
    <3> QED
      BY <2>4, <2>6, <3>1, <3>2, <3>3
  <2>8. /\ next' - 1 = next /\ next' \in 1..(Calls + 1)
        /\ 1..next = 1..next - 1 \union {next} /\ next \notin 1..next - 1
    BY <1>2, <1>5, <2>1, Counters
  <2>9. Started' = 1..next' - 1 /\ Responded' = Started'
    BY <1>1, <2>6, <2>8
  <2>10. TypeOK'
    BY <1>1, <1>2, <2>1, <2>6, <2>8 DEF TypeOK
  <2>11. next \notin invoked
    BY <1>1, <2>8 DEF IInv, InvokedSound, Over
  <2>12. EveryCallAnswered'
    <3>1. ASSUME NEW k \in 1..Len(log'), log'[k][1] = "result",
                 log'[k][2] \in invoked
          PROVE  log'[k][3] # "skipped"
      BY <2>2, <2>7, <2>11, <3>1 DEF IInv, EveryCallAnswered
    <3> QED
      BY <1>1, <2>1, <3>1 DEF EveryCallAnswered, Over
  <2>13. Progress'
    BY <2>1, <2>9 DEF Progress, InGroup
  <2>14. InvokedSound'
    <3>1. invoked \subseteq Started /\ \A i \in invoked : slots[i] # "skipped"
      BY <1>1 DEF IInv, InvokedSound, Over
    <3>2. invoked \subseteq Started'
      BY <2>6, <3>1
    <3>3. \A k \in 1..Len(log') :
            log'[k][1] = "result" => log'[k][3] \in {"result", "skipped"}
      BY <1>1, <2>2, <2>7 DEF IInv, InvokedSound, Over
    <3> QED
      BY <1>1, <1>3, <2>9, <3>1, <3>2, <3>3 DEF InvokedSound
  <2> QED
    BY <1>3, <2>1, <2>6, <2>10, <2>12, <2>13, <2>14
       DEF IInv, LoggedInModelOrder
<1> QED
  BY <1>2, <1>4, <1>5, Counters

-----------------------------------------------------------------------------
(***************************************************************************)
(* The answers.                                                            *)
(***************************************************************************)

\* A call whose body was entered was logged as started, so that the answer
\* it gets does not say that it was not.
LEMMA AnswerOpenToolCallsKeeps ==
  ASSUME IInv, AnswerOpenToolCalls
  PROVE  IInv'
<1>1. /\ pc = "thrown" /\ pc' = "answered" /\ flight = {}
      /\ log' = log \o Answers(log)
      /\ UNCHANGED <<mode, signal, aborted, failure, first, next, committed,
                     slots, flight, settled, invoked>>
  BY DEF AnswerOpenToolCalls, IInv, Busy
<1>2. TypeOK /\ log \in Seq(Event) /\ InModelOrder(log)
  BY DEF IInv, LoggedInModelOrder, TypeOK
<1>3. /\ log' \in Seq(Event) /\ InModelOrder(log')
      /\ Logged(log', "result") = Call
      /\ \A k \in 1..Len(log') :
           \/ k \in 1..Len(log) /\ log'[k] = log[k]
           \/ log'[k][3] = IF log'[k][2] \in Started
                           THEN "unknown" ELSE "notStarted"
  BY <1>1, <1>2, Answered DEF Started
<1>4. TypeOK'
  BY <1>1, <1>2, <1>3 DEF TypeOK, Over
<1>5. EveryCallAnswered'
  <2>1. ASSUME NEW k \in 1..Len(log'), log'[k][1] = "result",
               log'[k][2] \in invoked
        PROVE  log'[k][3] # "skipped" /\ log'[k][3] # "notStarted"
    <3>1. CASE k \in 1..Len(log) /\ log'[k] = log[k]
      BY <1>1, <2>1, <3>1 DEF IInv, EveryCallAnswered, InvokedSound, Over
    <3>2. CASE log'[k][3] = IF log'[k][2] \in Started
                            THEN "unknown" ELSE "notStarted"
      BY <1>1, <2>1, <3>2 DEF IInv, InvokedSound, Over
    <3> QED
      BY <1>3, <3>1, <3>2
  <2> QED
    BY <1>1, <1>3, <2>1 DEF EveryCallAnswered
<1>6. ExclusiveIsBarrier' /\ flight' = {}
  BY <1>1, EmptyPool
<1>7. Progress' /\ SlotsSound' /\ InvokedSound'
  BY <1>1 DEF IInv, Progress, SlotsSound, InvokedSound, InGroup, Over
<1> QED
  BY <1>1, <1>3, <1>4, <1>5, <1>6, <1>7 DEF IInv, LoggedInModelOrder

\* Whatever part of the log was written, the session opens with every call
\* answered.  A call that is not in that part may have run.
LEMMA CrashAndRecoverKeeps ==
  ASSUME IInv, CrashAndRecover
  PROVE  IInv'
<1>1. /\ pc \notin Over /\ pc' = "recovered"
      /\ signal' = FALSE /\ aborted' = FALSE /\ failure' = FALSE
      /\ first' = 1 /\ next' = 1 /\ committed' = 1
      /\ slots' = [i \in Call |-> "empty"]
      /\ flight' = {} /\ settled' = {}
      /\ UNCHANGED <<mode, invoked>>
  BY DEF CrashAndRecover
<1>2. TypeOK /\ log \in Seq(Event) /\ InModelOrder(log)
  BY DEF IInv, LoggedInModelOrder, TypeOK
<1>3. PICK n \in 0..Len(log) :
        log' = SubSeq(log, 1, n) \o Answers(SubSeq(log, 1, n))
  BY DEF CrashAndRecover
<1> DEFINE l == SubSeq(log, 1, n)
<1>4. /\ l \in Seq(Event) /\ InModelOrder(l)
      /\ \A k \in 1..Len(l) : l[k] = log[k] /\ k \in 1..Len(log)
  BY <1>2, PrefixInOrder
<1>5. log' = l \o Answers(l)
  BY <1>3
<1> HIDE DEF l
<1>6. /\ log' \in Seq(Event) /\ InModelOrder(log')
      /\ Logged(log', "result") = Call
      /\ \A k \in 1..Len(log') :
           \/ k \in 1..Len(l) /\ log'[k] = l[k]
           \/ log'[k][3] \in {"unknown", "notStarted"}
  BY <1>4, <1>5, Answered
<1>7. TypeOK'
  <2>1. 1 \in 1..(Calls + 1) /\ {} \subseteq Call
    BY CallsAssumption
  <2>2. slots' \in [Call -> {"empty", "result", "skipped"}]
    BY <1>1
  <2> QED
    BY <1>1, <1>2, <1>6, <2>1, <2>2 DEF TypeOK, Over
<1>8. EveryCallAnswered'
  <2>1. ASSUME NEW k \in 1..Len(log'), log'[k][1] = "result",
               log'[k][2] \in invoked
        PROVE  log'[k][3] # "skipped"
    <3>1. CASE k \in 1..Len(l) /\ log'[k] = l[k]
      BY <1>4, <2>1, <3>1 DEF IInv, EveryCallAnswered
    <3> QED
      BY <1>6, <3>1
  <2> QED
    BY <1>1, <1>6, <2>1 DEF EveryCallAnswered
<1>9. ExclusiveIsBarrier'
  BY <1>1, EmptyPool
<1>10. Progress' /\ SlotsSound'
  BY <1>1 DEF Progress, SlotsSound, InGroup
<1>11. InvokedSound'
  <2>1. invoked \subseteq Call
    BY <1>2 DEF TypeOK
  <2> QED
    BY <1>1, <2>1 DEF InvokedSound, Over
<1> QED
  BY <1>1, <1>6, <1>7, <1>8, <1>9, <1>10, <1>11 DEF IInv, LoggedInModelOrder

-----------------------------------------------------------------------------
(***************************************************************************)
(* The theorems.                                                           *)
(***************************************************************************)

LEMMA InitEstablishes ==
  ASSUME Init
  PROVE  IInv
<1>1. /\ pc = "group" /\ flight = {} /\ settled = {} /\ invoked = {}
      /\ first = 1 /\ next = 1 /\ log = <<>>
      /\ slots = [i \in Call |-> "empty"]
  BY DEF Init
<1>2. TypeOK
  <2>1. 1 \in 1..(Calls + 1) /\ log \in Seq(Event)
    BY <1>1, CallsAssumption
  <2>2. slots \in [Call -> {"empty", "result", "skipped"}]
    BY <1>1
  <2> QED
    BY <2>1, <2>2 DEF Init, TypeOK
<1>3. Len(log) = 0 /\ Started = {} /\ Responded = {}
  BY <1>1 DEF Started, Responded, Logged
<1>4. LoggedInModelOrder /\ EveryCallAnswered
  BY <1>1, <1>2, <1>3
     DEF LoggedInModelOrder, InModelOrder, EveryCallAnswered, Over
<1>5. ExclusiveIsBarrier
  BY <1>1, MaxParallelAssumption, FS_EmptySet DEF ExclusiveIsBarrier
<1>6. Progress /\ SlotsSound /\ InvokedSound
  <2>1. 1..1 - 1 = {}
    OBVIOUS
  <2> QED
    BY <1>1, <1>3, <2>1 DEF Progress, SlotsSound, InvokedSound, InGroup
<1> QED
  BY <1>1, <1>4, <1>5, <1>6 DEF IInv

LEMMA NextPreserves ==
  ASSUME IInv, [Next]_vars
  PROVE  IInv'
<1>1. CASE Environment
  BY <1>1, AbortKeeps, InvokeKeeps, SettleKeeps DEF Environment
<1>2. CASE Scheduler
  <2>1. CASE BeginGroup
    BY <2>1, BeginGroupKeeps
  <2>2. CASE StartCall
    BY <2>2, StartCallKeeps
  <2>3. CASE PoolFilled
    BY <2>3, PoolFilledKeeps
  <2>4. CASE Dispatched \/ Refused
    BY <2>4, PreparedKeeps
  <2>5. CASE Commit
    BY <2>5, CommitKeeps
  <2>6. CASE Committed
    BY <2>6, CommittedKeeps
  <2>7. CASE \E i \in Call : RaceWon(i)
    BY <2>7, RaceWonKeeps
  <2>8. CASE Throws
    BY <2>8, ThrowsKeeps
  <2>9. CASE Drained
    BY <2>9, DrainedKeeps
  <2>10. CASE FinishGroup
    BY <2>10, FinishGroupKeeps
  <2>11. CASE Skip
    BY <2>11, SkipKeeps
  <2> QED
    BY <1>2, <2>1, <2>2, <2>3, <2>4, <2>5, <2>6, <2>7, <2>8, <2>9, <2>10,
       <2>11 DEF Scheduler
<1>3. CASE AnswerOpenToolCalls
  BY <1>3, AnswerOpenToolCallsKeeps
<1>4. CASE CrashAndRecover
  BY <1>4, CrashAndRecoverKeeps
<1>5. CASE UNCHANGED vars
  BY <1>5 DEF vars, IInv, LoggedInModelOrder, TypeOK, EveryCallAnswered,
     ExclusiveIsBarrier, Progress, SlotsSound, InvokedSound, Started,
     Responded, Last
<1> QED
  BY <1>1, <1>2, <1>3, <1>4, <1>5 DEF Next, Done

\* The scheduler's counters, its pool and its slots always agree with the log
\* of calls and results (fillPool, commitReady and the race of runGroup).
THEOREM InvariantHolds == Spec => []IInv
<1>1. Init => IInv
  BY InitEstablishes
<1>2. IInv /\ [Next]_vars => IInv'
  BY NextPreserves
<1> QED
  BY <1>1, <1>2, PTL DEF Spec

\* Calls and results are logged in the model's order, each once, whatever
\* order the bodies settle in and wherever a crash cuts the log off.
THEOREM CallsAreInOrder == Spec => []LoggedInModelOrder
<1>1. IInv => LoggedInModelOrder
  BY DEF IInv
<1> QED
  BY <1>1, InvariantHolds, PTL

\* A step that ends, by its last result, by answerOpenToolCalls or by the
\* repair of its session, leaves no call without a result, and answers no
\* call whose body was entered with "skipped" (nor, unless the process died,
\* with "not started").
THEOREM CallsAreAnswered == Spec => []EveryCallAnswered
<1>1. IInv => EveryCallAnswered
  BY DEF IInv
<1> QED
  BY <1>1, InvariantHolds, PTL

\* An exclusive call runs alone, behind the results of all earlier calls, and
\* the pool never exceeds batch.maxParallel.
THEOREM BarrierHolds == Spec => []ExclusiveIsBarrier
<1>1. IInv => ExclusiveIsBarrier
  BY DEF IInv
<1> QED
  BY <1>1, InvariantHolds, PTL

\* When the batch rejects or the step ends, no dispatch is in flight.
THEOREM NothingOutlives == Spec => []NothingOutlivesTheStep
<1>1. IInv => NothingOutlivesTheStep
  BY DEF IInv, Busy, NothingOutlivesTheStep, Over
<1> QED
  BY <1>1, InvariantHolds, PTL
=============================================================================
