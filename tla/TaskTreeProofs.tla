--------------------------- MODULE TaskTreeProofs ---------------------------
(***************************************************************************)
(* Proofs about TaskTree, for any number of subagents and any budget: no   *)
(* slot is idle beside a parked agent, whoever is waited for runs or will  *)
(* and its waiter is there, slots go to the oldest first, and a spent task *)
(* stays down.                                                             *)
(***************************************************************************)
EXTENDS TaskTree, FiniteSetTheorems, WellFoundedInduction,
        TLAPS

\* The parked agents stand in one line.
InLine(t) ==
  /\ t.before \subseteq t.parked \X t.parked
  /\ \A a, b \in t.parked :
       a # b => <<a, b>> \in t.before \/ <<b, a>> \in t.before
  /\ \A a \in t.parked : <<a, a>> \notin t.before
  /\ \A a, b, c \in t.parked :
       <<a, b>> \in t.before /\ <<b, c>> \in t.before => <<a, c>> \in t.before

\* Who is told of whom, runs or is parked belongs to the tree.  A step that
\* waits is that of an agent that runs, a workflow that waits has not ended;
\* and only a workflow of the root may wait for what has left the tree.
WellFormed(t) ==
  /\ t.running \union t.parked \union t.flows \subseteq t.live \union {Root}
  /\ t.parked \intersect t.running = {}
  /\ t.byStep \subseteq t.lent \intersect t.live
  /\ \A c \in t.live : t.parent[c] \in t.live \union {Root}
  /\ \A c \in t.byStep : t.parent[c] \in t.running
  /\ \A c \in t.lent \ t.byStep : /\ t.parent[c] \in t.flows
                                  /\ c \notin t.live => t.parent[c] = Root
  /\ InLine(t)

\* An agent that has started nothing.
Childless(t, a) == a \notin t.flows /\ \A d \in t.live : t.parent[d] # a

\* A child somebody waits for (the ended ones of X apart) runs, or it is
\* parked before its first run, with its task still to claim.
Served(t, X) ==
  \A c \in (t.lent \intersect t.live) \ X :
    c \in t.running \/ (c \in t.parked \intersect t.work /\ Childless(t, c))

\* A parked subagent without work lost it before it could start others.
Busy(t) == \A a \in t.parked \ (t.work \union {Root}) : Childless(t, a)

\* Who is parked may not run.
NoneIdle(t) ==
  \A a \in t.parked : IF a = Root THEN t.spent
                      ELSE Cardinality(Holding(t)) >= MaxActive

Good(t, X) == /\ t \in Trees /\ WellFormed(t)
              /\ Served(t, X) /\ Busy(t)

IInv == /\ TypeOK
        /\ tree.live \union tree.lent \subseteq 1..born
        /\ tree.lent \intersect tree.live \subseteq foreground
        /\ Good(tree, {}) /\ NoneIdle(tree)

\* No subagent started on the way from t to u before one that was parked all
\* the way, except those that stood before it.
Fair(t, u) ==
  \A a \in (t.parked \intersect u.parked) \ {Root} :
    /\ \A s \in (u.running \ t.running) \ {Root} : <<s, a>> \in t.before
    /\ \A s : <<s, a>> \in u.before => <<s, a>> \in t.before

\* The members, the waits and the cap stay as they are, work is lost only to
\* a start, and a spent task does not start its root.
Same(t, u) ==
  /\ u.live = t.live /\ u.parent = t.parent /\ u.lent = t.lent
  /\ u.byStep = t.byStep /\ u.flows = t.flows /\ u.spent = t.spent
  /\ t.running \subseteq u.running
  /\ t.work \subseteq u.work \union u.running
  /\ Root \in u.running \ t.running => ~t.spent

-----------------------------------------------------------------------------
(***************************************************************************)
(* Counting.                                                               *)
(***************************************************************************)

LEMMA LeastNumber ==
  ASSUME NEW S \in SUBSET Nat, S # {}
  PROVE  \E n \in S : \A k \in S : n <= k
<1>1. PICK n \in S : \A k \in S : ~(<<k, n>> \in OpToRel(<, Nat))
  BY WFMin, NatLessThanWellFounded, Zenon
<1>2. \A k \in S : ~(k < n)
  BY <1>1, Zenon DEF OpToRel
<1> QED
  BY <1>2

LEMMA Counts ==
  ASSUME NEW T \in SUBSET Child, NEW S \in SUBSET T
  PROVE  /\ IsFiniteSet(T) /\ IsFiniteSet(S)
         /\ Cardinality(T) \in Nat /\ Cardinality(S) \in Nat
         /\ Cardinality(S) <= Cardinality(T)
         /\ S # T => Cardinality(S) < Cardinality(T)
<1>1. IsFiniteSet(Child)
  BY FS_Interval, BoundsAssumption DEF Child
<1>2. IsFiniteSet(T)
  BY <1>1, FS_Subset
<1>3. /\ IsFiniteSet(S) /\ Cardinality(S) <= Cardinality(T)
      /\ Cardinality(S) = Cardinality(T) => S = T
  BY <1>2, FS_Subset
<1>4. Cardinality(T) \in Nat /\ Cardinality(S) \in Nat
  BY <1>2, <1>3, FS_CardinalityType
<1> QED
  BY <1>2, <1>3, <1>4

LEMMA CountsTogether ==
  ASSUME NEW S \in SUBSET Child, NEW T \in SUBSET Child, S \intersect T = {}
  PROVE  Cardinality(S \union T) = Cardinality(S) + Cardinality(T)
<1>1. IsFiniteSet(S) /\ IsFiniteSet(T)
  BY Counts
<1>2. Cardinality(S \intersect T) = 0
  BY FS_EmptySet
<1>3. Cardinality(S \union T)
        = Cardinality(S) + Cardinality(T) - Cardinality(S \intersect T)
  BY <1>1, FS_Union
<1> QED
  BY <1>1, <1>2, <1>3, FS_CardinalityType

LEMMA HoldingFacts ==
  ASSUME NEW t \in Trees
  PROVE  Holding(t) \in SUBSET Child /\ Cardinality(Holding(t)) \in Nat
<1>1. Holding(t) \in SUBSET Child
  BY DEF Holding, Trees
<1> QED
  BY <1>1, Counts

\* An agent that does not run is let in while a slot is free.
LEMMA AdmitsFacts ==
  ASSUME NEW t \in Trees, NEW a \in Agent, a \notin t.running
  PROVE  Admits(t, a) <=> IF a = Root THEN ~t.spent
                          ELSE Cardinality(Holding(t)) < MaxActive
<1>1. Holding(t) \ {a} = Holding(t)
  BY DEF Holding
<1> QED
  BY <1>1 DEF Admits

LEMMA RootIsNoChild == Root \notin Child /\ Root \in Agent
BY BoundsAssumption DEF Root, Child, Agent

LEMMA AdmissionKeeps ==
  ASSUME NEW t \in Trees, NEW u \in Trees, NoneIdle(t),
         u.parked \subseteq t.parked, u.spent = t.spent,
         Holding(t) \subseteq Holding(u)
  PROVE  NoneIdle(u)
<1>1. /\ Cardinality(Holding(t)) \in Nat /\ Cardinality(Holding(u)) \in Nat
      /\ Cardinality(Holding(t)) <= Cardinality(Holding(u))
  BY HoldingFacts, Counts
<1> QED
  BY <1>1, BudgetAssumption DEF NoneIdle

-----------------------------------------------------------------------------
(***************************************************************************)
(* The fields the operators change.                                        *)
(***************************************************************************)

LEMMA UnparkedFields ==
  ASSUME NEW t \in Trees, NEW S
  PROVE  LET u == Unparked(t, S)
         IN  /\ u \in Trees /\ u.parked = t.parked \ S
             /\ u.before = {w \in t.before : w[1] \notin S /\ w[2] \notin S}
             /\ u.running = t.running /\ u.work = t.work /\ u.live = t.live
             /\ u.parent = t.parent /\ u.lent = t.lent /\ u.spent = t.spent
        /\ u.byStep = t.byStep /\ u.flows = t.flows
      /\ u.byStep = t.byStep /\ u.flows = t.flows
             /\ u.byStep = t.byStep /\ u.flows = t.flows
BY DEF Unparked, Trees

LEMMA LetGoFields ==
  ASSUME NEW t \in Trees, NEW S
  PROVE  LET u == LetGo(t, S)
         IN  /\ u \in Trees /\ u.parked = t.parked \ S
             /\ u.before = {w \in t.before : w[1] \notin S /\ w[2] \notin S}
             /\ u.running = t.running \union (S \intersect t.work)
             /\ u.work = t.work \ S /\ u.live = t.live
             /\ u.parent = t.parent /\ u.lent = t.lent /\ u.spent = t.spent
        /\ u.byStep = t.byStep /\ u.flows = t.flows
      /\ u.byStep = t.byStep /\ u.flows = t.flows
             /\ u.byStep = t.byStep /\ u.flows = t.flows
<1> DEFINE v == Unparked(t, S)
           u == [v EXCEPT !.running = v.running \union (S \intersect t.work),
                          !.work = v.work \ S]
<1>1. /\ v \in Trees /\ v.parked = t.parked \ S
      /\ v.before = {w \in t.before : w[1] \notin S /\ w[2] \notin S}
      /\ v.running = t.running /\ v.work = t.work /\ v.live = t.live
      /\ v.parent = t.parent /\ v.lent = t.lent /\ v.spent = t.spent
      /\ v.byStep = t.byStep /\ v.flows = t.flows
  BY UnparkedFields
<1>2. LetGo(t, S) = u
  BY DEF LetGo
<1> HIDE DEF v
<1>3. /\ u \in Trees /\ u.parked = v.parked /\ u.before = v.before
      /\ u.running = v.running \union (S \intersect t.work)
      /\ u.work = v.work \ S /\ u.live = v.live
      /\ u.parent = v.parent /\ u.lent = v.lent /\ u.spent = v.spent
      /\ u.byStep = v.byStep /\ u.flows = v.flows
  BY <1>1 DEF Trees
<1> HIDE DEF u
<1> QED
  BY <1>1, <1>2, <1>3

LEMMA StartFields ==
  ASSUME NEW t \in Trees, NEW a \in Agent
  PROVE  LET u == Start(t, a)
         IN  /\ u \in Trees /\ u.parked = t.parked \ {a}
             /\ u.before = {w \in t.before : w[1] # a /\ w[2] # a}
             /\ u.running = t.running \union {a}
             /\ u.work = t.work \ {a} /\ u.live = t.live
             /\ u.parent = t.parent /\ u.lent = t.lent /\ u.spent = t.spent
        /\ u.byStep = t.byStep /\ u.flows = t.flows
      /\ u.byStep = t.byStep /\ u.flows = t.flows
             /\ u.byStep = t.byStep /\ u.flows = t.flows
<1> DEFINE v == Unparked(t, {a})
           u == [v EXCEPT !.running = v.running \union {a},
                          !.work = v.work \ {a}]
<1>1. /\ v \in Trees /\ v.parked = t.parked \ {a}
      /\ v.before = {w \in t.before : w[1] \notin {a} /\ w[2] \notin {a}}
      /\ v.running = t.running /\ v.work = t.work /\ v.live = t.live
      /\ v.parent = t.parent /\ v.lent = t.lent /\ v.spent = t.spent
      /\ v.byStep = t.byStep /\ v.flows = t.flows
  BY UnparkedFields
<1>2. Start(t, a) = u
  BY DEF Start
<1> HIDE DEF v
<1>3. /\ u \in Trees /\ u.parked = v.parked /\ u.before = v.before
      /\ u.running = v.running \union {a}
      /\ u.work = v.work \ {a} /\ u.live = v.live
      /\ u.parent = v.parent /\ u.lent = v.lent /\ u.spent = v.spent
      /\ u.byStep = v.byStep /\ u.flows = v.flows
  BY <1>1 DEF Trees
<1> HIDE DEF u
<1> QED
  BY <1>1, <1>2, <1>3

LEMMA ParkFields ==
  ASSUME NEW t \in Trees, NEW a \in Agent
  PROVE  LET u == Park(t, a)
         IN  /\ u \in Trees /\ u.parked = t.parked \union {a}
             /\ u.before = t.before \union (t.parked \X {a})
             /\ u.running = t.running /\ u.work = t.work /\ u.live = t.live
             /\ u.parent = t.parent /\ u.lent = t.lent /\ u.spent = t.spent
        /\ u.byStep = t.byStep /\ u.flows = t.flows
      /\ u.byStep = t.byStep /\ u.flows = t.flows
             /\ u.byStep = t.byStep /\ u.flows = t.flows
BY DEF Park, Trees

LEMMA GiveWorkFields ==
  ASSUME NEW t \in Trees, NEW a \in Agent
  PROVE  LET u == GiveWork(t, a)
         IN  /\ u \in Trees /\ u.parked = t.parked /\ u.before = t.before
             /\ u.running = t.running /\ u.work = t.work \union {a}
             /\ u.live = t.live /\ u.parent = t.parent /\ u.lent = t.lent
             /\ u.spent = t.spent
             /\ u.byStep = t.byStep /\ u.flows = t.flows
BY DEF GiveWork, Trees

-----------------------------------------------------------------------------
(***************************************************************************)
(* What the operators preserve.                                            *)
(***************************************************************************)

LEMMA LineShrinks ==
  ASSUME NEW t, NEW u, NEW S, InLine(t), u.parked = t.parked \ S,
         u.before = {w \in t.before : w[1] \notin S /\ w[2] \notin S}
  PROVE  InLine(u)
<1>1. u.before \subseteq u.parked \X u.parked
  BY DEF InLine
<1>2. \A a, b \in u.parked : <<a, b>> \in u.before <=> <<a, b>> \in t.before
  OBVIOUS
<1> QED
  BY <1>1, <1>2 DEF InLine

LEMMA LineGrows ==
  ASSUME NEW t, NEW u, NEW a, InLine(t), a \notin t.parked,
         u.parked = t.parked \union {a},
         u.before = t.before \union (t.parked \X {a})
  PROVE  InLine(u)
<1>1. /\ u.before \subseteq u.parked \X u.parked
      /\ \A b, c \in t.parked : <<b, c>> \in u.before <=> <<b, c>> \in t.before
      /\ \A b \in t.parked : <<b, a>> \in u.before
      /\ \A b \in u.parked : <<a, b>> \notin u.before
  BY DEF InLine
<1>2. /\ \A b, c \in u.parked :
           b # c => <<b, c>> \in u.before \/ <<c, b>> \in u.before
      /\ \A b \in u.parked : <<b, b>> \notin u.before
  BY <1>1 DEF InLine
<1>3. ASSUME NEW b \in u.parked, NEW c \in u.parked, NEW d \in u.parked,
             <<b, c>> \in u.before, <<c, d>> \in u.before
      PROVE  <<b, d>> \in u.before
  <2>1. b \in t.parked /\ c \in t.parked
    BY <1>1, <1>3
  <2>2. CASE d = a
    BY <1>1, <2>1, <2>2
  <2>3. CASE d # a
    BY <1>1, <1>3, <2>1, <2>3 DEF InLine
  <2> QED
    BY <2>2, <2>3
<1> QED
  BY <1>1, <1>2, <1>3 DEF InLine

\* An agent gets work.
LEMMA GiveWorkKeeps ==
  ASSUME NEW t, NEW X, Good(t, X), NEW a \in Agent
  PROVE  LET u == GiveWork(t, a)
         IN  /\ Good(u, X) /\ Same(t, u) /\ Fair(t, u)
             /\ NoneIdle(t) => NoneIdle(u)
             /\ u.running = t.running /\ u.parked = t.parked
             /\ u.work = t.work \union {a}
<1> DEFINE u == GiveWork(t, a)
<1>1. /\ u \in Trees /\ u.parked = t.parked /\ u.before = t.before
      /\ u.running = t.running /\ u.work = t.work \union {a}
      /\ u.live = t.live /\ u.parent = t.parent /\ u.lent = t.lent
      /\ u.spent = t.spent
      /\ u.byStep = t.byStep /\ u.flows = t.flows
  BY GiveWorkFields DEF Good
<1> HIDE DEF u
<1>2. Holding(u) = Holding(t) /\ Lenders(u) = Lenders(t)
  BY <1>1 DEF Holding, Lenders
<1>3. WellFormed(u)
  BY <1>1, <1>2 DEF Good, WellFormed, InLine
<1>4. Served(u, X) /\ Busy(u)
  BY <1>1 DEF Good, Served, Busy, Childless
<1>5. Same(t, u) /\ Fair(t, u)
  BY <1>1 DEF Same, Fair
<1>6. NoneIdle(t) => NoneIdle(u)
  BY <1>1, <1>2 DEF NoneIdle
<1>7. /\ Good(u, X) /\ Same(t, u) /\ Fair(t, u)
      /\ NoneIdle(t) => NoneIdle(u)
      /\ u.running = t.running /\ u.parked = t.parked
      /\ u.work = t.work \union {a}
  BY <1>1, <1>3, <1>4, <1>5, <1>6 DEF Good
<1> QED
  BY <1>7 DEF u

\* An agent starts, because nobody is parked who should start before it.
LEMMA StartKeeps ==
  ASSUME NEW t, NEW X, Good(t, X), NoneIdle(t), NEW a \in t.live \union {Root},
         a \notin t.running, Admits(t, a)
  PROVE  LET u == Start(t, a)
         IN  /\ Good(u, X) /\ Same(t, u) /\ Fair(t, u) /\ NoneIdle(u)
             /\ u.running = t.running \union {a} /\ u.parked = t.parked \ {a}
<1> DEFINE u == Start(t, a)
<1>0. t \in Trees /\ a \in Agent
  BY RootIsNoChild DEF Good, Trees, Agent
<1>1. /\ u \in Trees /\ u.parked = t.parked \ {a}
      /\ u.before = {w \in t.before : w[1] # a /\ w[2] # a}
      /\ u.running = t.running \union {a}
      /\ u.work = t.work \ {a} /\ u.live = t.live
      /\ u.parent = t.parent /\ u.lent = t.lent /\ u.spent = t.spent
      /\ u.byStep = t.byStep /\ u.flows = t.flows
  BY <1>0, StartFields
<1> HIDE DEF u
<1>2. Lenders(u) = Lenders(t) /\ Holding(t) \subseteq Holding(u)
  BY <1>1 DEF Holding, Lenders
<1>3. WellFormed(u)
  <2>1. InLine(u)
    <3>1. u.parked = t.parked \ {a}
          /\ u.before = {w \in t.before : w[1] \notin {a} /\ w[2] \notin {a}}
      BY <1>1
    <3> QED
      BY <3>1, LineShrinks DEF Good, WellFormed
  <2> QED
    BY <1>1, <1>2, <2>1 DEF Good, WellFormed
<1>4. Served(u, X) /\ Busy(u)
  BY <1>1 DEF Good, Served, Busy, Childless
<1>5. Same(t, u)
  <2>1. a = Root => ~t.spent
    BY <1>0, AdmitsFacts
  <2> QED
    BY <1>1, <2>1 DEF Same
<1>6. Fair(t, u)
  <2>1. a # Root => t.parked \subseteq {Root}
    <3>1. a # Root => Cardinality(Holding(t)) < MaxActive
      BY <1>0, AdmitsFacts
    <3> QED
      BY <1>0, <3>1, HoldingFacts, BudgetAssumption DEF NoneIdle
  <2> QED
    BY <1>1, <2>1 DEF Fair
<1>7. NoneIdle(u)
  BY <1>0, <1>1, <1>2, AdmissionKeeps
<1>8. /\ Good(u, X) /\ Same(t, u) /\ Fair(t, u) /\ NoneIdle(u)
      /\ u.running = t.running \union {a} /\ u.parked = t.parked \ {a}
  BY <1>1, <1>3, <1>4, <1>5, <1>6, <1>7 DEF Good
<1> QED
  BY <1>8 DEF u

\* An agent that is not let in stands behind the others.
LEMMA ParkKeeps ==
  ASSUME NEW t, NEW X, Good(t, X), NoneIdle(t), NEW a \in t.live \union {Root},
         a \notin t.running \union t.parked, a \in t.work, ~Admits(t, a)
  PROVE  LET u == Park(t, a)
         IN  /\ Good(u, X) /\ Same(t, u) /\ Fair(t, u) /\ NoneIdle(u)
             /\ u.running = t.running /\ u.parked = t.parked \union {a}
             /\ u.work = t.work
<1> DEFINE u == Park(t, a)
<1>0. t \in Trees /\ a \in Agent
  BY RootIsNoChild DEF Good, Trees, Agent
<1>1. /\ u \in Trees /\ u.parked = t.parked \union {a}
      /\ u.before = t.before \union (t.parked \X {a})
      /\ u.running = t.running /\ u.work = t.work /\ u.live = t.live
      /\ u.parent = t.parent /\ u.lent = t.lent /\ u.spent = t.spent
      /\ u.byStep = t.byStep /\ u.flows = t.flows
  BY <1>0, ParkFields
<1> HIDE DEF u
<1>2. Lenders(u) = Lenders(t) /\ Holding(u) = Holding(t)
  BY <1>1 DEF Holding, Lenders
<1>3. WellFormed(u)
  <2>1. InLine(u)
    BY <1>1, LineGrows DEF Good, WellFormed
  <2> QED
    BY <1>1, <1>2, <2>1 DEF Good, WellFormed
<1>4. Served(u, X) /\ Busy(u)
  BY <1>1 DEF Good, Served, Busy, Childless
<1>5. Same(t, u) /\ Fair(t, u)
  BY <1>1 DEF Same, Fair
<1>6. NoneIdle(u)
  <2>1. IF a = Root THEN t.spent ELSE Cardinality(Holding(t)) >= MaxActive
    <3>1. ~(IF a = Root THEN ~t.spent
            ELSE Cardinality(Holding(t)) < MaxActive)
      BY <1>0, AdmitsFacts
    <3>2. t.spent \in BOOLEAN
      BY <1>0 DEF Trees
    <3> QED
      BY <1>0, <3>1, <3>2, HoldingFacts, BudgetAssumption
  <2> QED
    BY <1>1, <1>2, <2>1 DEF NoneIdle
<1>7. /\ Good(u, X) /\ Same(t, u) /\ Fair(t, u) /\ NoneIdle(u)
      /\ u.running = t.running /\ u.parked = t.parked \union {a}
      /\ u.work = t.work
  BY <1>1, <1>3, <1>4, <1>5, <1>6 DEF Good
<1> QED
  BY <1>7 DEF u

\* wakeDriver of an agent that has work: it runs, or it waits with its work.
LEMMA WakeKeeps ==
  ASSUME NEW t, NEW X, Good(t, X), NoneIdle(t), NEW a \in t.live \union {Root},
         a \in t.work \union t.running
  PROVE  LET u == Wake(t, a)
         IN  /\ Good(u, X) /\ Same(t, u) /\ Fair(t, u) /\ NoneIdle(u)
             /\ u.running \subseteq t.running \union {a}
             /\ t.parked \ {a} \subseteq u.parked
             /\ u.parked \subseteq t.parked \union {a}
             /\ a \in u.running \/ a \in u.parked \intersect u.work
<1> DEFINE u == Wake(t, a)
<1>1. CASE a \in t.running
  <2>1. u = t
    BY <1>1 DEF Wake
  <2>2. Same(t, t) /\ Fair(t, t)
    BY DEF Same, Fair
  <2> QED
    BY <1>1, <2>1, <2>2
<1>2. CASE a \notin t.running /\ Admits(t, a)
  <2>1. u = Start(t, a)
    BY <1>2 DEF Wake
  <2> HIDE DEF u
  <2>2. /\ Good(u, X) /\ Same(t, u) /\ Fair(t, u) /\ NoneIdle(u)
        /\ u.running = t.running \union {a} /\ u.parked = t.parked \ {a}
    BY <1>2, <2>1, StartKeeps
  <2>3. /\ u.running \subseteq t.running \union {a}
        /\ t.parked \ {a} \subseteq u.parked
        /\ u.parked \subseteq t.parked \union {a}
        /\ a \in u.running
    BY <2>2
  <2> QED
    BY <2>2, <2>3 DEF u
<1>3. CASE a \notin t.running /\ ~Admits(t, a) /\ a \in t.parked
  <2>1. u = t
    BY <1>3 DEF Wake
  <2>2. Same(t, t) /\ Fair(t, t)
    BY DEF Same, Fair
  <2> QED
    BY <1>3, <2>1, <2>2
<1>4. CASE a \notin t.running /\ ~Admits(t, a) /\ a \notin t.parked
  <2>1. u = Park(t, a)
    BY <1>4 DEF Wake
  <2> HIDE DEF u
  <2>2. /\ Good(u, X) /\ Same(t, u) /\ Fair(t, u) /\ NoneIdle(u)
        /\ u.running = t.running /\ u.parked = t.parked \union {a}
        /\ u.work = t.work
    BY <1>4, <2>1, ParkKeeps
  <2>3. /\ u.running \subseteq t.running \union {a}
        /\ t.parked \ {a} \subseteq u.parked
        /\ u.parked \subseteq t.parked \union {a}
        /\ a \in u.parked \intersect u.work
    BY <1>4, <2>2
  <2> QED
    BY <2>2, <2>3 DEF u
<1> QED
  BY <1>1, <1>2, <1>3, <1>4

-----------------------------------------------------------------------------
(***************************************************************************)
(* The pump.                                                               *)
(***************************************************************************)

LEMMA AheadFacts ==
  ASSUME NEW t, NEW X, Good(t, X), NEW a \in t.parked
  PROVE  /\ Ahead(t, t.before, a) \in SUBSET (t.parked \intersect t.live)
         /\ Ahead(t, t.before, a) \subseteq t.work
         /\ Ahead(t, t.before, a) \in SUBSET Child
         /\ Cardinality(Ahead(t, t.before, a)) \in Nat
<1>1. /\ Ahead(t, t.before, a) \in SUBSET (t.parked \intersect t.live)
      /\ Ahead(t, t.before, a) \subseteq t.work
  BY DEF Ahead, Good, WellFormed
<1>2. Ahead(t, t.before, a) \in SUBSET Child
  BY <1>1 DEF Good, Trees
<1> QED
  BY <1>1, <1>2, Counts

\* What is ahead of an agent has less ahead of it.
LEMMA AheadShrinks ==
  ASSUME NEW t, NEW X, Good(t, X), NEW a \in t.parked, NEW b \in t.parked,
         <<b, a>> \in t.before
  PROVE  /\ Ahead(t, t.before, b) \subseteq Ahead(t, t.before, a)
         /\ b \in Ahead(t, t.before, a) =>
              Cardinality(Ahead(t, t.before, b))
                < Cardinality(Ahead(t, t.before, a))
<1> DEFINE A == Ahead(t, t.before, a)
           B == Ahead(t, t.before, b)
<1>1. B \subseteq A
  BY DEF Ahead, Good, WellFormed, InLine
<1>2. b \notin B
  BY DEF Ahead, Good, WellFormed, InLine
<1>3. A \in SUBSET Child
  BY AheadFacts
<1> HIDE DEF A, B
<1>4. b \in A => Cardinality(B) < Cardinality(A)
  BY <1>1, <1>2, <1>3, Counts
<1> QED
  BY <1>1, <1>4 DEF A, B

\* Of the subagents that stay parked, one has only such ahead of it as start.
LEMMA FirstThatStays ==
  ASSUME NEW t, NEW X, Good(t, X), NEW S, S \subseteq t.parked \ {Root}, S # {}
  PROVE  \E a \in S : Ahead(t, t.before, a) \intersect S = {}
<1> DEFINE N == {Cardinality(Ahead(t, t.before, a)) : a \in S}
<1>1. N \in SUBSET Nat /\ N # {}
  BY AheadFacts
<1>2. PICK n \in N : \A k \in N : n <= k
  <2> HIDE DEF N
  <2> QED
    BY <1>1, LeastNumber
<1>3. PICK a \in S : n = Cardinality(Ahead(t, t.before, a))
  BY <1>2
<1>4. \A b \in S : Cardinality(Ahead(t, t.before, a))
                     <= Cardinality(Ahead(t, t.before, b))
  BY <1>2, <1>3
<1>5. ASSUME NEW b \in Ahead(t, t.before, a) \intersect S
      PROVE  FALSE
  <2>1. b \in Ahead(t, t.before, a) /\ <<b, a>> \in t.before /\ a \in t.parked
        /\ b \in t.parked
    BY <1>5 DEF Ahead
  <2>2. Cardinality(Ahead(t, t.before, b)) < Cardinality(Ahead(t, t.before, a))
    BY <2>1, AheadShrinks
  <2> QED
    BY <1>4, <2>1, <2>2, AheadFacts
<1> QED
  BY <1>5

LEMMA PumpKeeps ==
  ASSUME NEW t, NEW X, Good(t, X)
  PROVE  LET u == Pump(t)
         IN  /\ Good(u, X) /\ Same(t, u) /\ Fair(t, u) /\ NoneIdle(u)
             /\ u.parked \subseteq t.parked
             /\ t.parked \intersect t.work \subseteq u.parked \union u.running
<1> DEFINE P == Passing(t, t.before)
           u == Pump(t)
           H == Cardinality(Holding(t))
<1>0. t \in Trees /\ P \subseteq t.parked /\ H \in Nat /\ t.spent \in BOOLEAN
  BY HoldingFacts DEF Good, Passing, Trees
<1>1. /\ u \in Trees /\ u.parked = t.parked \ P
      /\ u.before = {w \in t.before : w[1] \notin P /\ w[2] \notin P}
      /\ u.running = t.running \union (P \intersect t.work)
      /\ u.work = t.work \ P /\ u.live = t.live
      /\ u.parent = t.parent /\ u.lent = t.lent /\ u.spent = t.spent
      /\ u.byStep = t.byStep /\ u.flows = t.flows
  <2> HIDE DEF P
  <2> QED
    BY <1>0, LetGoFields DEF Pump, P
<1>2. /\ Root \in t.parked => (Root \in P <=> ~t.spent)
      /\ \A a \in t.parked \ {Root} :
           a \in P <=> H + Cardinality(Ahead(t, t.before, a)) < MaxActive
  BY DEF Passing
<1> HIDE DEF P, u
<1>3. Lenders(u) = Lenders(t)
  BY <1>1 DEF Lenders
<1>4. WellFormed(u)
  <2>1. InLine(u)
    BY <1>1, LineShrinks DEF Good, WellFormed
  <2> QED
    BY <1>0, <1>1, <1>3, <2>1 DEF Good, WellFormed
<1>5. Served(u, X) /\ Busy(u)
  BY <1>0, <1>1 DEF Good, Served, Busy, Childless
<1>6. Same(t, u)
  <2>1. Root \in u.running \ t.running => Root \in P
    BY <1>1
  <2> QED
    BY <1>0, <1>1, <1>2, <2>1 DEF Same
<1>7. Fair(t, u)
  <2> SUFFICES ASSUME NEW a \in (t.parked \intersect u.parked) \ {Root},
                      NEW s \in (u.running \ t.running) \ {Root}
               PROVE  <<s, a>> \in t.before
    BY <1>1 DEF Fair
  <2>1. s \in P /\ s \in t.parked /\ s \in t.work /\ a \notin P /\ s # a
    BY <1>0, <1>1
  <2>2. CASE <<a, s>> \in t.before
    <3>1. Ahead(t, t.before, a) \subseteq Ahead(t, t.before, s)
      BY <2>1, <2>2, AheadShrinks
    <3>2. Cardinality(Ahead(t, t.before, a))
            <= Cardinality(Ahead(t, t.before, s))
      BY <2>1, <3>1, AheadFacts, Counts
    <3>3. /\ Cardinality(Ahead(t, t.before, a)) \in Nat
          /\ Cardinality(Ahead(t, t.before, s)) \in Nat
      BY <2>1, AheadFacts
    <3> QED
      BY <1>0, <1>2, <2>1, <3>2, <3>3, BudgetAssumption
  <2> QED
    BY <2>1, <2>2 DEF Good, WellFormed, InLine
<1>8. NoneIdle(u)
  <2>1. ASSUME NEW c \in u.parked \ {Root}
        PROVE  Cardinality(Holding(u)) >= MaxActive
    <3> DEFINE S == u.parked \ {Root}
    <3>1. PICK a \in S : Ahead(t, t.before, a) \intersect S = {}
      <4>1. S \subseteq t.parked \ {Root} /\ S # {}
        BY <1>1, <2>1
      <4> HIDE DEF S
      <4> QED
        BY <4>1, FirstThatStays
    <3> DEFINE A == Ahead(t, t.before, a)
    <3>2. /\ A \in SUBSET Child /\ A \subseteq t.parked \intersect t.live
          /\ A \subseteq t.work /\ Root \notin A /\ Cardinality(A) \in Nat
      <4>1. a \in t.parked
        BY <1>1
      <4> QED
        BY <4>1, AheadFacts, RootIsNoChild
    <3>3. H + Cardinality(A) >= MaxActive
      BY <1>0, <1>1, <1>2, <3>2, BudgetAssumption
    <3> HIDE DEF A
    <3>4. A \subseteq P
      BY <1>1, <3>1, <3>2 DEF A
    <3>5. Holding(t) \intersect A = {} /\ Holding(t) \in SUBSET Child
      BY <1>0, <3>2, HoldingFacts DEF Holding, Good, WellFormed
    <3>6. Holding(t) \union A \subseteq Holding(u)
      <4>1. A \intersect Lenders(t) = {}
        BY DEF A, Ahead
      <4> QED
        BY <1>1, <1>3, <3>2, <3>4, <4>1 DEF Holding, Good, WellFormed
    <3>7. Holding(u) \in SUBSET Child
      BY <1>1, HoldingFacts
    <3>8. /\ Cardinality(Holding(t) \union A) = H + Cardinality(A)
          /\ Cardinality(Holding(t) \union A) <= Cardinality(Holding(u))
          /\ Cardinality(Holding(u)) \in Nat
      BY <3>2, <3>5, <3>6, <3>7, Counts, CountsTogether
    <3> QED
      BY <1>0, <3>2, <3>3, <3>8, BudgetAssumption
  <2>2. Root \in u.parked => u.spent
    BY <1>0, <1>1, <1>2
  <2> QED
    BY <2>1, <2>2 DEF NoneIdle
<1>9. /\ Good(u, X) /\ Same(t, u) /\ Fair(t, u) /\ NoneIdle(u)
      /\ u.parked \subseteq t.parked
      /\ t.parked \intersect t.work \subseteq u.parked \union u.running
  BY <1>1, <1>4, <1>5, <1>6, <1>7, <1>8 DEF Good
<1> QED
  BY <1>9 DEF u

-----------------------------------------------------------------------------
(***************************************************************************)
(* Chains of them.                                                         *)
(***************************************************************************)

LEMMA SameTwice ==
  ASSUME NEW t, NEW u, NEW v, Same(t, u), Same(u, v)
  PROVE  Same(t, v)
BY DEF Same

\* Whoever is parked at both ends was parked in between.
LEMMA FairTwice ==
  ASSUME NEW t, NEW u, NEW v, Fair(t, u), Fair(u, v),
         (t.parked \intersect v.parked) \ {Root} \subseteq u.parked
  PROVE  Fair(t, v)
<1> SUFFICES ASSUME NEW a \in (t.parked \intersect v.parked) \ {Root}
             PROVE  /\ \A s \in (v.running \ t.running) \ {Root} :
                         <<s, a>> \in t.before
                    /\ \A s : <<s, a>> \in v.before => <<s, a>> \in t.before
  BY DEF Fair
<1>1. /\ a \in (t.parked \intersect u.parked) \ {Root}
      /\ a \in (u.parked \intersect v.parked) \ {Root}
  OBVIOUS
<1>2. \A s \in (v.running \ t.running) \ {Root} :
        s \in (v.running \ u.running) \ {Root}
          \/ s \in (u.running \ t.running) \ {Root}
  OBVIOUS
<1> QED
  BY <1>1, <1>2 DEF Fair

\* A subagent is told, and woken.
LEMMA ToldAndWoken ==
  ASSUME NEW t, NEW X, Good(t, X), NoneIdle(t), NEW a \in t.live \union {Root}
  PROVE  LET u == Wake(GiveWork(t, a), a)
         IN  /\ Good(u, X) /\ Same(t, u) /\ Fair(t, u) /\ NoneIdle(u)
             /\ u.running \subseteq t.running \union {a}
             /\ t.parked \ {a} \subseteq u.parked
             /\ u.parked \subseteq t.parked \union {a}
             /\ a \in u.running \/ a \in u.parked \intersect u.work
<1> DEFINE g == GiveWork(t, a)
           u == Wake(g, a)
<1>0. t \in Trees /\ a \in Agent
  BY RootIsNoChild DEF Good, Trees, Agent
<1>1. /\ Good(g, X) /\ Same(t, g) /\ Fair(t, g) /\ NoneIdle(g)
      /\ g.running = t.running /\ g.parked = t.parked
      /\ g.work = t.work \union {a}
  BY <1>0, GiveWorkKeeps
<1>2. a \in g.live \union {Root} /\ a \in g.work
  BY <1>1 DEF Same
<1> HIDE DEF g
<1>3. /\ Good(u, X) /\ Same(g, u) /\ Fair(g, u) /\ NoneIdle(u)
      /\ u.running \subseteq g.running \union {a}
      /\ g.parked \ {a} \subseteq u.parked
      /\ u.parked \subseteq g.parked \union {a}
      /\ a \in u.running \/ a \in u.parked \intersect u.work
  BY <1>1, <1>2, WakeKeeps
<1> HIDE DEF u
<1>4. Same(t, u) /\ Fair(t, u)
  BY <1>1, <1>3, SameTwice, FairTwice
<1> QED
  BY <1>1, <1>3, <1>4 DEF u, g

\* deliverToParent: the parent is steered, or woken.
LEMMA DeliverKeeps ==
  ASSUME NEW t, NEW X, Good(t, X), NoneIdle(t), NEW p \in t.live \union {Root}
  PROVE  LET u == Deliver(t, p)
         IN  /\ Good(u, X) /\ Same(t, u) /\ Fair(t, u) /\ NoneIdle(u)
             /\ u.running \subseteq t.running \union {p}
             /\ t.parked \ {p} \subseteq u.parked
             /\ u.parked \subseteq t.parked \union {p}
             /\ p \in u.parked \ t.parked => p \notin t.running
<1>1. CASE Wakes(t, p)
  BY <1>1, ToldAndWoken DEF Deliver, Wakes
<1>2. CASE ~Wakes(t, p)
  <2> DEFINE u == GiveWork(t, p)
  <2>1. p \in Agent
    BY RootIsNoChild DEF Good, Trees, Agent
  <2>2. /\ Good(u, X) /\ Same(t, u) /\ Fair(t, u) /\ NoneIdle(u)
        /\ u.running = t.running /\ u.parked = t.parked
    BY <2>1, GiveWorkKeeps
  <2>3. Deliver(t, p) = u
    BY <1>2 DEF Deliver
  <2> HIDE DEF u
  <2> QED
    BY <2>2, <2>3
<1> QED
  BY <1>1, <1>2

LEMMA PumpForKeeps ==
  ASSUME NEW t, NEW X, Good(t, X), NEW p, p = Root => NoneIdle(t)
  PROVE  LET u == PumpFor(t, p)
         IN  /\ Good(u, X) /\ Same(t, u) /\ Fair(t, u) /\ NoneIdle(u)
             /\ u.parked \subseteq t.parked
             /\ t.parked \intersect t.work \subseteq u.parked \union u.running
<1>1. CASE p = Root
  <2>1. PumpFor(t, p) = t /\ Same(t, t) /\ Fair(t, t)
    BY <1>1 DEF PumpFor, Same, Fair
  <2> QED
    BY <1>1, <2>1
<1>2. CASE p # Root
  BY <1>2, PumpKeeps DEF PumpFor
<1> QED
  BY <1>1, <1>2

-----------------------------------------------------------------------------
(***************************************************************************)
(* What a step may do to the tree; Fair and NoneIdle stand for the         *)
(* properties.                                                             *)
(***************************************************************************)

\* What SpentTaskStaysDown says of one step, besides.
StaysDown == tree.spent /\ tasks' = tasks /\ Root \notin tree.running =>
               Root \notin tree'.running

StepOfTree == /\ Good(tree', {}) /\ NoneIdle(tree')
              /\ Fair(tree, tree') /\ StaysDown

\* A step of operators that leave the members and the waits alone.
LEMMA SameSteps ==
  ASSUME Good(tree', {}), NoneIdle(tree'), Fair(tree, tree'),
         Same(tree, tree')
  PROVE  StepOfTree
BY DEF StepOfTree, StaysDown, Same

LEMMA InitGood == Init => IInv
<1> SUFFICES ASSUME Init PROVE IInv
  OBVIOUS
<1>1. /\ Root \in Agent /\ Child \subseteq Agent
      /\ \A a \in Agent : 0 \in 0..MaxWakes
      /\ 0 \in 0..MaxTotal /\ 0 \in 0..MaxTasks /\ 0 \in 0..MaxChildren
  BY BudgetAssumption, BoundsAssumption DEF Root, Agent, Child
<1>2. tree \in Trees
  BY <1>1 DEF Init, Trees
<1>3. TypeOK
  BY <1>1, <1>2 DEF Init, TypeOK
<1>4. WellFormed(tree) /\ Served(tree, {}) /\ Busy(tree) /\ NoneIdle(tree)
  BY DEF Init, WellFormed, InLine, Lenders, Served, Busy, NoneIdle
<1> QED
  BY <1>2, <1>3, <1>4 DEF Init, IInv, Good

LEMMA BeginTaskSteps ==
  ASSUME IInv, BeginTask
  PROVE  StepOfTree /\ tree'.live = tree.live /\ tree'.lent = tree.lent
         /\ tree.running \subseteq tree'.running
<1> DEFINE s == [tree EXCEPT !.spent = FALSE]
           u == Pump(s)
<1>1. /\ s \in Trees /\ s.live = tree.live /\ s.parent = tree.parent
      /\ s.running = tree.running /\ s.work = tree.work
      /\ s.parked = tree.parked /\ s.before = tree.before
      /\ s.lent = tree.lent
      /\ s.byStep = tree.byStep /\ s.flows = tree.flows
  BY DEF IInv, Good, Trees
<1> HIDE DEF s
<1>2. Good(s, {}) /\ Fair(tree, s)
  BY <1>1 DEF IInv, Good, WellFormed, InLine, Lenders, Served, Busy,
     Childless, Fair
<1>3. /\ Good(u, {}) /\ Same(s, u) /\ Fair(s, u) /\ NoneIdle(u)
      /\ u.parked \subseteq s.parked
  BY <1>2, PumpKeeps
<1>4. tree' = Wake(GiveWork(u, Root), Root)
  BY DEF BeginTask, s
<1> HIDE DEF u
<1>5. /\ Good(tree', {}) /\ Same(u, tree') /\ Fair(u, tree')
      /\ NoneIdle(tree') /\ tree'.parked \subseteq u.parked \union {Root}
  BY <1>3, <1>4, ToldAndWoken
<1>6. Fair(s, tree')
  BY <1>3, <1>5, FairTwice
<1>7. Fair(tree, tree')
  BY <1>1, <1>2, <1>6, FairTwice
<1>8. tasks' # tasks
  BY DEF BeginTask, IInv, TypeOK
<1> QED
  BY <1>1, <1>3, <1>5, <1>7, <1>8 DEF StepOfTree, StaysDown, Same

LEMMA ChargeSteps ==
  ASSUME IInv, Charge
  PROVE  StepOfTree /\ tree'.live = tree.live /\ tree'.lent = tree.lent
         /\ tree.running \subseteq tree'.running
<1>1. /\ tree' \in Trees /\ tree'.live = tree.live
      /\ tree'.parent = tree.parent /\ tree'.running = tree.running
      /\ tree'.work = tree.work /\ tree'.parked = tree.parked
      /\ tree'.before = tree.before /\ tree'.lent = tree.lent
      /\ tree'.byStep = tree.byStep /\ tree'.flows = tree.flows
      /\ tree'.spent = TRUE
  BY DEF Charge, IInv, Good, Trees
<1>2. Good(tree', {}) /\ Fair(tree, tree')
  BY <1>1 DEF IInv, Good, WellFormed, InLine, Lenders, Served, Busy,
     Childless, Fair
<1>3. NoneIdle(tree')
  BY <1>1 DEF IInv, NoneIdle, Holding, Lenders
<1> QED
  BY <1>1, <1>2, <1>3 DEF StepOfTree, StaysDown

LEMMA StartFlowSteps ==
  ASSUME IInv, NEW p \in Agent, StartFlow(p)
  PROVE  StepOfTree /\ tree'.live = tree.live /\ tree'.lent = tree.lent
         /\ tree.running \subseteq tree'.running
<1>0. Good(tree, {}) /\ NoneIdle(tree) /\ tree \in Trees
      /\ p \in tree.running
  BY DEF IInv, Good, StartFlow
<1>1. /\ tree' \in Trees /\ tree'.live = tree.live
      /\ tree'.parent = tree.parent /\ tree'.running = tree.running
      /\ tree'.work = tree.work /\ tree'.parked = tree.parked
      /\ tree'.before = tree.before /\ tree'.lent = tree.lent
      /\ tree'.byStep = tree.byStep /\ tree'.flows = tree.flows \union {p}
      /\ tree'.spent = tree.spent
  BY <1>0 DEF StartFlow, Trees
<1>2. WellFormed(tree') /\ Fair(tree, tree')
  BY <1>0, <1>1 DEF Good, WellFormed, InLine, Fair
<1>3. Served(tree', {}) /\ Busy(tree')
  <2>1. \A a : a # p /\ Childless(tree, a) => Childless(tree', a)
    BY <1>1 DEF Childless
  <2>2. p \notin tree.parked
    BY <1>0 DEF Good, WellFormed
  <2> QED
    BY <1>0, <1>1, <2>1, <2>2 DEF Good, Served, Busy
<1>4. NoneIdle(tree')
  BY <1>0, <1>1 DEF NoneIdle, Holding, Lenders
<1> QED
  BY <1>1, <1>2, <1>3, <1>4 DEF Good, StepOfTree, StaysDown

LEMMA NoticeSteps ==
  ASSUME IInv, NEW a \in Agent, Notice(a)
  PROVE  StepOfTree /\ Same(tree, tree')
<1>1. Good(tree, {}) /\ NoneIdle(tree) /\ a \in tree.live \union {Root}
  BY DEF IInv, Notice
<1>2. CASE tree' = GiveWork(tree, a)
  BY <1>1, <1>2, GiveWorkKeeps, SameSteps
<1>3. CASE tree' = Wake(GiveWork(tree, a), a)
  BY <1>1, <1>3, ToldAndWoken, SameSteps
<1> QED
  BY <1>2, <1>3 DEF Notice

LEMMA MessageSteps ==
  ASSUME IInv, NEW c \in Child, Message(c) \/ Report(c)
  PROVE  StepOfTree /\ Same(tree, tree')
<1>1. Good(tree, {}) /\ NoneIdle(tree)
  BY DEF IInv
<1>2. CASE Message(c)
  <2>1. c \in tree.live /\ tree' = Wake(GiveWork(tree, c), c)
    BY <1>2 DEF Message
  <2> QED
    BY <1>1, <2>1, ToldAndWoken, SameSteps
<1>3. CASE Report(c)
  <2>1. /\ tree.parent[c] \in tree.live \union {Root}
        /\ tree' = Deliver(tree, tree.parent[c])
    BY <1>1, <1>3 DEF Report, Good, WellFormed
  <2> QED
    BY <1>1, <2>1, DeliverKeeps, SameSteps
<1> QED
  BY <1>2, <1>3

LEMMA ContinueSteps ==
  ASSUME IInv, NEW a \in Agent, Continue(a)
  PROVE  StepOfTree /\ Same(tree, tree')
<1>1. /\ a \in tree.running
      /\ tree' \in Trees /\ tree'.live = tree.live
      /\ tree'.parent = tree.parent /\ tree'.running = tree.running
      /\ tree'.work = tree.work \ {a} /\ tree'.parked = tree.parked
      /\ tree'.before = tree.before /\ tree'.lent = tree.lent
      /\ tree'.byStep = tree.byStep /\ tree'.flows = tree.flows
      /\ tree'.spent = tree.spent
  BY DEF Continue, IInv, Good, Trees
<1>2. Lenders(tree') = Lenders(tree) /\ Holding(tree') = Holding(tree)
  BY <1>1 DEF Lenders, Holding
<1>3. Good(tree', {}) /\ Fair(tree, tree')
  BY <1>1, <1>2 DEF IInv, Good, WellFormed, InLine, Served, Busy,
     Childless, Fair
<1>4. NoneIdle(tree') /\ Same(tree, tree')
  BY <1>1, <1>2 DEF IInv, NoneIdle, Same
<1> QED
  BY <1>3, <1>4, SameSteps

LEMMA StartChildSteps ==
  ASSUME IInv, NEW p \in Agent, NEW c \in Child, NEW waits \in Waits,
         StartChild(p, c, waits)
  PROVE  /\ StepOfTree
         /\ tree'.live \union tree'.lent \subseteq 1..born'
         /\ tree'.lent \intersect tree'.live \subseteq foreground'
         /\ tree.running \subseteq tree'.running
<1> DEFINE g == [tree EXCEPT !.live = tree.live \union {c},
                             !.parent = [tree.parent EXCEPT ![c] = p]]
           t == Wake(GiveWork(g, c), c)
           w == [t EXCEPT !.lent = t.lent \union {c},
                          !.byStep = IF waits = "step"
                                     THEN t.byStep \union {c} ELSE t.byStep]
<1>0. /\ Good(tree, {}) /\ NoneIdle(tree) /\ tree \in Trees
      /\ tree.live \union tree.lent \subseteq 1..born
      /\ tree.lent \intersect tree.live \subseteq foreground
      /\ born \in Nat
  BY BoundsAssumption DEF IInv, Good, TypeOK
<1>1. /\ IF waits = "flow" THEN p \in tree.flows ELSE p \in tree.running
      /\ c = born + 1 /\ born' = c /\ ~tree.spent
      /\ foreground' = IF waits = "none" THEN foreground
                       ELSE foreground \union {c}
      /\ tree' = IF waits = "none" THEN t ELSE PumpFor(w, p)
  BY DEF StartChild
<1>2. /\ c \notin tree.live \union tree.lent /\ c # Root
      /\ p \in tree.live \union {Root} /\ p # c
  BY <1>0, <1>1, RootIsNoChild DEF Good, WellFormed
<1>3. /\ g \in Trees /\ g.live = tree.live \union {c}
      /\ g.parent = [tree.parent EXCEPT ![c] = p]
      /\ g.running = tree.running /\ g.work = tree.work
      /\ g.parked = tree.parked /\ g.before = tree.before
      /\ g.lent = tree.lent /\ g.spent = tree.spent
      /\ g.byStep = tree.byStep /\ g.flows = tree.flows
  BY <1>0 DEF Trees
<1>4. /\ g.parent[c] = p
      /\ \A d \in tree.live \union tree.lent : g.parent[d] = tree.parent[d]
  BY <1>0, <1>2, <1>3 DEF Trees
<1> HIDE DEF g
<1>5. Lenders(g) = Lenders(tree)
  BY <1>3, <1>4 DEF Lenders
<1>6. Holding(g) = Holding(tree)
  BY <1>0, <1>2, <1>3, <1>5 DEF Holding, Good, WellFormed
<1>7. \A a \in Agent : Childless(tree, a) /\ a # p => Childless(g, a)
  BY <1>3, <1>4 DEF Childless
<1>8. Good(g, {})
  <2>1. WellFormed(g)
    BY <1>0, <1>1, <1>2, <1>3, <1>4, <1>5 DEF Good, WellFormed, InLine
  <2>2. Busy(g) /\ Served(g, {})
    <3>1. \A a \in tree.parked : a \in Agent /\ (Childless(tree, a) => a # p)
      BY <1>0, <1>1 DEF Good, WellFormed, Trees, Childless
    <3> QED
      BY <1>0, <1>2, <1>3, <1>7, <3>1 DEF Good, Busy, Served
  <2> QED
    BY <1>3, <2>1, <2>2 DEF Good
<1>9. NoneIdle(g) /\ Fair(tree, g)
  BY <1>0, <1>3, <1>6 DEF NoneIdle, Fair
<1>10. /\ Good(t, {}) /\ Same(g, t) /\ Fair(g, t) /\ NoneIdle(t)
       /\ c \in t.running \/ c \in t.parked \intersect t.work
  BY <1>3, <1>8, <1>9, ToldAndWoken
<1> HIDE DEF t
<1>11. /\ t.live = tree.live \union {c} /\ t.lent = tree.lent
       /\ tree.running \subseteq t.running /\ Fair(tree, t)
       /\ t.parent = g.parent /\ t.flows = tree.flows /\ t \in Trees
  <2>1. Fair(tree, t)
    BY <1>3, <1>9, <1>10, FairTwice
  <2> QED
    BY <1>3, <1>10, <2>1 DEF Same, Good
<1>12. tree.live \union tree.lent \union {c} \subseteq 1..born'
  BY <1>0, <1>1
<1>13. CASE waits = "none"
  BY <1>0, <1>1, <1>2, <1>10, <1>11, <1>12, <1>13 DEF StepOfTree, StaysDown
<1>14. CASE waits # "none"
  <2>1. /\ w \in Trees /\ w.live = t.live /\ w.parent = t.parent
        /\ w.running = t.running /\ w.work = t.work /\ w.parked = t.parked
        /\ w.before = t.before /\ w.lent = t.lent \union {c}
        /\ w.byStep = IF waits = "step" THEN t.byStep \union {c}
                      ELSE t.byStep
        /\ w.spent = t.spent /\ w.flows = t.flows
    BY <1>11 DEF Trees
  <2> HIDE DEF w
  <2>2. Lenders(w) = Lenders(t) \union {p}
    BY <1>4, <1>11, <2>1 DEF Lenders
  <2>3. Childless(w, c)
    BY <1>0, <1>2, <1>4, <1>11, <2>1, RootIsNoChild
    DEF Childless, Good, WellFormed
  <2>4. Good(w, {})
    <3>1. WellFormed(w)
      <4>1. IF waits = "step" THEN p \in w.running ELSE p \in w.flows
        BY <1>1, <1>11, <1>14, <2>1 DEF Waits
      <4>2. w.parent[c] = p /\ c \in w.live
        BY <1>4, <1>11, <2>1
      <4>3. WellFormed(t) /\ InLine(w)
        BY <1>10, <2>1 DEF Good, WellFormed, InLine
      <4>4. /\ \A d \in w.byStep : w.parent[d] \in w.running
            /\ \A d \in w.lent \ w.byStep :
                 /\ w.parent[d] \in w.flows
                 /\ d \notin w.live => w.parent[d] = Root
        BY <2>1, <4>1, <4>2, <4>3 DEF WellFormed
      <4> QED
        BY <2>1, <4>2, <4>3, <4>4 DEF WellFormed
    <3>2. Served(w, {}) /\ Busy(w)
      BY <1>10, <2>1, <2>3 DEF Good, Served, Busy, Childless
    <3> QED
      BY <2>1, <3>1, <3>2 DEF Good
  <2>5. p = Root => NoneIdle(w)
    <3>1. p = Root => Holding(w) = Holding(t)
      BY <1>11, <2>1, <2>2, RootIsNoChild DEF Holding, Trees
    <3> QED
      BY <1>10, <2>1, <3>1 DEF NoneIdle
  <2>6. Fair(tree, w)
    BY <1>11, <2>1 DEF Fair
  <2>7. /\ Good(tree', {}) /\ Same(w, tree') /\ Fair(w, tree')
        /\ NoneIdle(tree') /\ tree'.parked \subseteq w.parked
    BY <1>1, <1>14, <2>4, <2>5, PumpForKeeps
  <2>8. Fair(tree, tree')
    BY <2>6, <2>7, FairTwice
  <2> QED
    BY <1>0, <1>1, <1>11, <1>12, <1>14, <2>1, <2>7, <2>8
    DEF StepOfTree, StaysDown, Same
<1> QED
  BY <1>13, <1>14

\* The run of a ends, and the tree is pumped.
LEMMA RunEnds ==
  ASSUME IInv, NEW a \in tree.running, ~Waiting(a), NEW t,
         t = PumpFor([tree EXCEPT !.running = @ \ {a}], a)
  PROVE  /\ Good(t, {a}) /\ Fair(tree, t) /\ NoneIdle(t)
         /\ t.live = tree.live /\ t.parent = tree.parent
         /\ t.lent = tree.lent /\ t.byStep = tree.byStep
         /\ t.flows = tree.flows /\ t.spent = tree.spent
         /\ t.parked \subseteq tree.parked
         /\ tree.parked \intersect tree.work
              \subseteq t.parked \union t.running
         /\ tree.running \ {a} \subseteq t.running
         /\ tree.work \subseteq t.work \union t.running
         /\ Root \in t.running \ tree.running => ~tree.spent
<1> DEFINE r == [tree EXCEPT !.running = tree.running \ {a}]
<1>0. Good(tree, {}) /\ NoneIdle(tree) /\ tree \in Trees
  BY DEF IInv, Good
<1>1. /\ r \in Trees /\ r.live = tree.live /\ r.parent = tree.parent
      /\ r.running = tree.running \ {a} /\ r.work = tree.work
      /\ r.parked = tree.parked /\ r.before = tree.before
      /\ r.lent = tree.lent /\ r.spent = tree.spent
      /\ r.byStep = tree.byStep /\ r.flows = tree.flows
  BY <1>0 DEF Trees
<1> HIDE DEF r
<1>2. Lenders(r) = Lenders(tree) /\ \A c \in tree.byStep : tree.parent[c] # a
  BY <1>1 DEF Lenders, Waiting
<1>3. Good(r, {a}) /\ Fair(tree, r)
  BY <1>0, <1>1, <1>2 DEF Good, WellFormed, InLine, Served, Busy,
     Childless, Fair
<1>4. a = Root => NoneIdle(r)
  <2>1. a = Root => Holding(r) = Holding(tree)
    BY <1>0, <1>1, <1>2, RootIsNoChild DEF Holding, Trees
  <2> QED
    BY <1>0, <1>1, <2>1 DEF NoneIdle
<1>5. /\ Good(t, {a}) /\ Same(r, t) /\ Fair(r, t) /\ NoneIdle(t)
      /\ t.parked \subseteq r.parked
      /\ r.parked \intersect r.work \subseteq t.parked \union t.running
  BY <1>3, <1>4, PumpForKeeps DEF r
<1>6. Fair(tree, t)
  BY <1>1, <1>3, <1>5, FairTwice
<1> QED
  BY <1>1, <1>5, <1>6 DEF Same

\* The same of the tree that a delivery leaves, by name.
LEMMA DeliveredTo ==
  ASSUME NEW t, NEW X, Good(t, X), NoneIdle(t), NEW p,
         p \in t.live \union {Root}, NEW s, s = Deliver(t, p)
  PROVE  /\ Good(s, X)
         /\ Same(t, s)
         /\ Fair(t, s)
         /\ NoneIdle(s)
         /\ s.parked \subseteq t.parked \union {p}
         /\ (p \in s.parked \ t.parked) => (p \notin t.running)
BY DeliverKeeps

\* settle: the waiter gets its slot back, or the parent is told.
LEMMA SettlementKeeps ==
  ASSUME IInv, NEW a \in tree.running \ {Root}, ~Waiting(a), NEW t,
         t = PumpFor([tree EXCEPT !.running = @ \ {a}], a), NEW s,
         s = Settled(t, a)
  PROVE  /\ Good(s, {}) /\ Fair(tree, s) /\ NoneIdle(s)
         /\ s.live = tree.live /\ s.lent = tree.lent \ {a}
         /\ tree.running \ {a} \subseteq s.running
         /\ tree.work \subseteq s.work \union s.running
         /\ tree.spent => s.spent
         /\ Root \in s.running \ tree.running => ~tree.spent
<1> DEFINE p == tree.parent[a]
<1>0. Good(tree, {}) /\ NoneIdle(tree) /\ tree \in Trees
      /\ tree.lent \intersect tree.live \subseteq foreground
  BY DEF IInv, Good
<1>1. a \in tree.live /\ p \in tree.live \union {Root}
  BY <1>0 DEF Good, WellFormed
<1>2. /\ Good(t, {a}) /\ Fair(tree, t) /\ NoneIdle(t)
      /\ t.live = tree.live /\ t.parent = tree.parent
      /\ t.lent = tree.lent /\ t.byStep = tree.byStep
      /\ t.flows = tree.flows /\ t.spent = tree.spent
      /\ t.parked \subseteq tree.parked
      /\ tree.parked \intersect tree.work \subseteq t.parked \union t.running
      /\ tree.running \ {a} \subseteq t.running
      /\ tree.work \subseteq t.work \union t.running
      /\ Root \in t.running \ tree.running => ~tree.spent
  BY RunEnds
<1>3. CASE a \notin foreground
  <2>1. s = Deliver(t, p) /\ a \notin tree.lent
    BY <1>0, <1>1, <1>3 DEF Settled
  <2>2. /\ Good(s, {a})
        /\ Same(t, s)
        /\ Fair(t, s)
        /\ NoneIdle(s)
        /\ s.parked \subseteq t.parked \union {p}
        /\ (p \in s.parked \ t.parked) => (p \notin t.running)
    <3>1. p \in t.live \union {Root}
      BY <1>1, <1>2
    <3> HIDE DEF p
    <3> QED
      BY <1>2, <2>1, <3>1, DeliveredTo
  <2>3. (tree.parked \intersect s.parked) \ {Root} \subseteq t.parked
    <3>1. ASSUME p \in tree.parked, p \in s.parked \ t.parked, p # Root
          PROVE  FALSE
      <4>1. p \notin tree.work
        BY <1>2, <2>2, <3>1
      <4>2. Childless(tree, p)
        BY <1>0, <3>1, <4>1 DEF Good, Busy
      <4> QED
        BY <1>1, <4>2 DEF Childless
    <3> QED
      BY <2>2, <3>1
  <2>4. Fair(tree, s)
    BY <1>2, <2>2, <2>3, FairTwice
  <2>5. s.lent = tree.lent \ {a} /\ Good(s, {})
    <3>1. s.lent = tree.lent \ {a}
      BY <1>2, <2>1, <2>2 DEF Same
    <3>2. s \in Trees /\ WellFormed(s) /\ Served(s, {a}) /\ Busy(s)
      BY <2>2 DEF Good
    <3>3. (s.lent \intersect s.live) \ {} = (s.lent \intersect s.live) \ {a}
      BY <3>1
    <3>4. Served(s, {})
      BY <3>2, <3>3 DEF Served
    <3> QED
      BY <3>1, <3>2, <3>4 DEF Good
  <2> QED
    BY <1>2, <2>2, <2>4, <2>5 DEF Same
<1>4. CASE a \in foreground /\ a \in t.lent
  <2> DEFINE l == [t EXCEPT !.lent = t.lent \ {a},
                            !.byStep = t.byStep \ {a}]
  <2>1. s = PumpFor(l, p)
    BY <1>4 DEF Settled
  <2>2. /\ l \in Trees /\ l.live = t.live /\ l.parent = t.parent
        /\ l.running = t.running /\ l.work = t.work
        /\ l.parked = t.parked /\ l.before = t.before
        /\ l.lent = t.lent \ {a} /\ l.spent = t.spent
        /\ l.byStep = t.byStep \ {a} /\ l.flows = t.flows
    BY <1>2 DEF Good, Trees
  <2> HIDE DEF l
  <2>3. Lenders(l) \subseteq Lenders(t)
    BY <2>2 DEF Lenders
  <2>4. Good(l, {}) /\ Fair(t, l)
    <3>1. WellFormed(l) /\ Fair(t, l)
      <4>1. InLine(l) /\ Fair(t, l)
        BY <1>2, <2>2 DEF Good, WellFormed, InLine, Fair
      <4>2. WellFormed(t)
        BY <1>2 DEF Good
      <4>3. l.lent \ l.byStep \subseteq t.lent \ t.byStep
        BY <2>2
      <4> QED
        BY <2>2, <4>1, <4>2, <4>3 DEF WellFormed
    <3>2. Served(l, {}) /\ Busy(l)
      <4>1. /\ Served(t, {a}) /\ Busy(t)
            /\ (l.lent \intersect l.live) \ {}
                 = (t.lent \intersect t.live) \ {a}
        BY <1>2, <2>2 DEF Good
      <4>2. \A c : Childless(l, c) <=> Childless(t, c)
        BY <2>2 DEF Childless
      <4> QED
        BY <2>2, <4>1, <4>2 DEF Served, Busy
    <3> QED
      BY <2>2, <3>1, <3>2 DEF Good
  <2>5. NoneIdle(l)
    <3>1. Holding(t) \subseteq Holding(l) /\ t \in Trees
      BY <1>2, <2>2, <2>3 DEF Holding, Good
    <3> QED
      BY <1>2, <2>2, <3>1, AdmissionKeeps
  <2>6. /\ Good(s, {}) /\ Same(l, s) /\ Fair(l, s) /\ NoneIdle(s)
        /\ s.parked \subseteq l.parked
    BY <2>1, <2>4, <2>5, PumpForKeeps
  <2>7. Fair(tree, s)
    <3>1. Fair(tree, l)
      BY <1>2, <2>2, <2>4, FairTwice
    <3> QED
      BY <2>2, <2>6, <3>1, FairTwice
  <2> QED
    BY <1>2, <2>2, <2>6, <2>7 DEF Same
<1>5. CASE a \in foreground /\ a \notin t.lent
  <2>1. s = t
    BY <1>5 DEF Settled
  <2> QED
    BY <1>2, <1>5, <2>1 DEF Good, Served
<1> QED
  BY <1>3, <1>4, <1>5

LEMMA EndRunSteps ==
  ASSUME IInv, NEW a \in Agent, NEW again \in BOOLEAN, EndRun(a, again)
  PROVE  /\ StepOfTree /\ tree'.live = tree.live
         /\ tree'.lent = tree.lent \ {a}
         /\ tree.running \ {a} \subseteq tree'.running
<1> DEFINE t == PumpFor([tree EXCEPT !.running = @ \ {a}], a)
           s == IF a = Root THEN t ELSE Settled(t, a)
<1>0. Good(tree, {}) /\ tree.lent \subseteq Child /\ tree.spent \in BOOLEAN
  BY DEF IInv, Good, Trees
<1>1. /\ a \in tree.running /\ ~Waiting(a)
      /\ again => a \in tree.work
      /\ tree' = IF again THEN Wake(s, a) ELSE s
  BY DEF EndRun
<1>2. /\ Good(s, {}) /\ Fair(tree, s) /\ NoneIdle(s)
      /\ s.live = tree.live /\ s.lent = tree.lent \ {a}
      /\ tree.running \ {a} \subseteq s.running
      /\ tree.work \subseteq s.work \union s.running
      /\ tree.spent => s.spent
      /\ Root \in s.running \ tree.running => ~tree.spent
  <2>1. CASE a = Root
    <3>1. /\ Good(t, {a}) /\ Fair(tree, t) /\ NoneIdle(t)
          /\ t.live = tree.live /\ t.lent = tree.lent /\ t.spent = tree.spent
          /\ tree.running \ {a} \subseteq t.running
          /\ tree.work \subseteq t.work \union t.running
          /\ Root \in t.running \ tree.running => ~tree.spent
      BY <1>1, RunEnds
    <3>2. s = t
      BY <2>1
    <3> HIDE DEF t, s
    <3>3. a \notin tree.lent
      BY <1>0, <2>1, RootIsNoChild
    <3> QED
      BY <3>1, <3>2, <3>3 DEF Good, Served
  <2>2. CASE a # Root
    <3>1. s = Settled(t, a)
      BY <2>2
    <3> HIDE DEF s
    <3> QED
      BY <1>1, <2>2, <3>1, SettlementKeeps
  <2> QED
    BY <2>1, <2>2
<1> HIDE DEF s
<1>3. CASE ~again
  BY <1>1, <1>2, <1>3 DEF StepOfTree, StaysDown
<1>4. CASE again
  <2>1. a \in s.live \union {Root} /\ a \in s.work \union s.running
    BY <1>0, <1>1, <1>2, <1>4 DEF Good, WellFormed
  <2>2. /\ Good(tree', {}) /\ Same(s, tree') /\ Fair(s, tree')
        /\ NoneIdle(tree') /\ tree'.parked \subseteq s.parked \union {a}
    BY <1>1, <1>2, <1>4, <2>1, WakeKeeps
  <2>3. a \notin tree.parked
    BY <1>0, <1>1 DEF Good, WellFormed
  <2>4. Fair(tree, tree')
    BY <1>2, <2>2, <2>3, FairTwice
  <2>5. StaysDown
    BY <1>2, <2>2 DEF StaysDown, Same
  <2> QED
    BY <1>2, <2>2, <2>4, <2>5 DEF StepOfTree, Same
<1> QED
  BY <1>3, <1>4

-----------------------------------------------------------------------------
(***************************************************************************)
(* Aborts and disposal.                                                    *)
(***************************************************************************)

\* Under a are a and agents of K, and with an agent all its children in K.
\* The recursion up the parents has a solution: membership in the least such
\* set.
LEMMA UnderFacts ==
  ASSUME NEW a \in Agent, NEW K \in SUBSET Child, tree \in Trees
  PROVE  /\ Under(a, K) \subseteq {a} \union K /\ a \in Under(a, K)
         /\ \A d \in K : tree.parent[d] \in Under(a, K) => d \in Under(a, K)
<1> DEFINE Is(f) == f = [b \in Agent |-> b = a \/ (b \in K /\ f[tree.parent[b]])]
           u == CHOOSE f : Is(f)
           Closed(S) == a \in S /\ \A d \in K : tree.parent[d] \in S => d \in S
           L == {b \in K \union {a} :
                   \A S \in SUBSET (K \union {a}) : Closed(S) => b \in S}
           e == [b \in Agent |-> b \in L]
<1>0. /\ \A d \in K : tree.parent[d] \in Agent
      /\ K \union {a} \subseteq Agent
  BY DEF Trees, Agent
<1>1. Closed(L)
  OBVIOUS
<1>2. \A b \in L : b = a \/ (b \in K /\ tree.parent[b] \in L)
  <2> SUFFICES ASSUME NEW b \in L, b # a, tree.parent[b] \notin L
               PROVE  FALSE
    OBVIOUS
  <2>1. Closed(L \ {b}) /\ L \ {b} \in SUBSET (K \union {a})
    BY <1>1
  <2> QED
    BY <2>1
<1> HIDE DEF L
<1>3. \A b \in Agent : b \in L <=> (b = a \/ (b \in K /\ e[tree.parent[b]]))
  BY <1>0, <1>1, <1>2
<1>4. Is(e)
  BY <1>3
<1>5. Is(u)
  BY <1>4
<1>6. Under(a, K) = {b \in K \union {a} : u[b]}
  BY DEF Under
<1> HIDE DEF u
<1>7. \A b \in K \union {a} : u[b] = (b = a \/ (b \in K /\ u[tree.parent[b]]))
  BY <1>0, <1>5
<1> QED
  BY <1>6, <1>7

LEMMA ReachedFacts ==
  ASSUME NEW a \in Agent, tree \in Trees
  PROVE  Reached(a) \subseteq {a} \union tree.byStep
<1>1. tree.byStep \in SUBSET Child
  BY DEF Trees
<1> QED
  BY <1>1, UnderFacts DEF Reached

\* The agents of S lose their inbox and are waited for no more: whoever of
\* them has not run has not started others.  A workflow that ends here waits
\* for none but those of S.
LEMMA CancelSteps ==
  ASSUME IInv, NEW S \in SUBSET tree.lent, NEW F \in SUBSET tree.flows,
         \A c \in tree.lent \ (tree.byStep \union S) : tree.parent[c] \in F,
         tree' = Cancelled([tree EXCEPT !.flows = F], S)
  PROVE  /\ StepOfTree /\ tree'.live = tree.live
         /\ tree'.lent \subseteq tree.lent
         /\ tree.running \subseteq tree'.running
<1> DEFINE f == [tree EXCEPT !.flows = F]
           l == [f EXCEPT !.lent = f.lent \ S, !.byStep = f.byStep \ S,
                          !.work = f.work \ S]
<1>0. Good(tree, {}) /\ NoneIdle(tree) /\ tree \in Trees
  BY DEF IInv, Good
<1>1. tree' = Pump(l)
  BY DEF Cancelled
<1>2. /\ f \in Trees /\ f.live = tree.live /\ f.parent = tree.parent
      /\ f.running = tree.running /\ f.work = tree.work
      /\ f.parked = tree.parked /\ f.before = tree.before
      /\ f.lent = tree.lent /\ f.byStep = tree.byStep
      /\ f.flows = F /\ f.spent = tree.spent
  BY <1>0 DEF Trees
<1> HIDE DEF f
<1>3. /\ l \in Trees /\ l.live = tree.live /\ l.parent = tree.parent
      /\ l.running = tree.running /\ l.work = tree.work \ S
      /\ l.parked = tree.parked /\ l.before = tree.before
      /\ l.lent = tree.lent \ S /\ l.byStep = tree.byStep \ S
      /\ l.flows = F /\ l.spent = tree.spent
  BY <1>2 DEF Trees
<1> HIDE DEF l
<1>4. WellFormed(l) /\ Fair(tree, l)
  BY <1>0, <1>3 DEF Good, WellFormed, InLine, Fair
<1>5. \A a : Childless(tree, a) => Childless(l, a)
  BY <1>3 DEF Childless
<1>6. Served(l, {})
  BY <1>0, <1>3, <1>5 DEF Good, Served
<1>7. Busy(l)
  <2> SUFFICES ASSUME NEW a \in l.parked \ (l.work \union {Root})
               PROVE  Childless(tree, a)
    BY <1>5 DEF Busy
  <2>1. CASE a \in S
    <3>1. a \notin tree.running /\ a \in tree.lent \intersect tree.live
      BY <1>0, <1>3, <2>1 DEF Good, WellFormed
    <3> QED
      BY <1>0, <3>1 DEF Good, Served
  <2>2. CASE a \notin S
    BY <1>0, <1>3, <2>2 DEF Good, Busy
  <2> QED
    BY <2>1, <2>2
<1>8. /\ Good(tree', {}) /\ Same(l, tree') /\ Fair(l, tree')
      /\ NoneIdle(tree') /\ tree'.parked \subseteq l.parked
  <2>1. Good(l, {})
    BY <1>3, <1>4, <1>6, <1>7 DEF Good
  <2> QED
    BY <1>1, <2>1, PumpKeeps
<1>9. Fair(tree, tree')
  BY <1>3, <1>4, <1>8, FairTwice
<1> QED
  BY <1>3, <1>8, <1>9 DEF StepOfTree, StaysDown, Same

\* An interrupt, a wait given up and the end of a workflow.
LEMMA AbortSteps ==
  ASSUME IInv, NEW a \in Agent,
         Interrupt(a) \/ AbandonWait(a) \/ EndFlow(a)
  PROVE  /\ StepOfTree /\ tree'.live = tree.live
         /\ tree'.lent \subseteq tree.lent
         /\ tree.running \subseteq tree'.running
<1>0. Good(tree, {}) /\ tree \in Trees
      /\ tree.byStep \subseteq tree.lent /\ tree.lent \subseteq Agent
      /\ \A c \in tree.lent \ tree.byStep : tree.parent[c] \in tree.flows
  BY DEF IInv, Good, WellFormed, Trees, Agent
<1>1. \A b \in Agent : Reached(b) \subseteq {b} \union tree.byStep
  BY <1>0, ReachedFacts
<1>2. tree = [tree EXCEPT !.flows = tree.flows]
  BY <1>0 DEF Trees
<1>3. CASE Interrupt(a)
  <2>1. tree' = Cancelled([tree EXCEPT !.flows = tree.flows],
                          Reached(a) \ {a})
    BY <1>2, <1>3 DEF Interrupt
  <2>2. Reached(a) \ {a} \in SUBSET tree.lent
    BY <1>0, <1>1
  <2> QED
    BY <1>0, <2>1, <2>2, CancelSteps
<1>4. CASE AbandonWait(a)
  <2>1. tree' = Cancelled([tree EXCEPT !.flows = tree.flows], Reached(a))
    BY <1>2, <1>4 DEF AbandonWait
  <2>2. Reached(a) \in SUBSET tree.lent
    BY <1>0, <1>1, <1>4 DEF AbandonWait
  <2> QED
    BY <1>0, <2>1, <2>2, CancelSteps
<1>5. CASE EndFlow(a)
  <2> DEFINE W == {d \in tree.lent \ tree.byStep : tree.parent[d] = a}
             R == UNION {Reached(c) : c \in W}
             F == tree.flows \ {a}
  <2>1. tree' = Cancelled([tree EXCEPT !.flows = F], R)
    BY <1>5 DEF EndFlow
  <2>2. R \in SUBSET tree.lent
    BY <1>0, <1>1
  <2>3. \A c \in tree.lent \ (tree.byStep \union R) : tree.parent[c] \in F
    <3>1. \A c \in W : c \in Reached(c)
      BY <1>0, UnderFacts DEF Reached, Trees
    <3> QED
      BY <1>0, <3>1
  <2> HIDE DEF R, F
  <2>4. F \in SUBSET tree.flows
    BY DEF F
  <2> QED
    BY <2>1, <2>2, <2>3, <2>4, CancelSteps
<1> QED
  BY <1>3, <1>4, <1>5

\* The agents of D leave, and all they started.
LEMMA LeaveKeeps ==
  ASSUME IInv, NEW D \in SUBSET Child, NEW v, v = Leave(D),
         \A d \in tree.live : tree.parent[d] \in D => d \in D
  PROVE  /\ Good(v, {}) /\ Fair(tree, v)
         /\ v.live = tree.live \ D /\ v.running = tree.running \ D
         /\ v.lent = tree.lent \ D /\ v.parked = tree.parked \ D
         /\ v.byStep = tree.byStep \ D /\ v.flows = tree.flows \ D
         /\ v.parent = tree.parent /\ v.before \subseteq tree.before
         /\ v.spent = tree.spent
<1> DEFINE b == Unparked(tree, D)
<1>0. Good(tree, {}) /\ tree \in Trees
  BY DEF IInv, Good
<1>1. /\ b \in Trees /\ b.parked = tree.parked \ D
      /\ b.before = {w \in tree.before : w[1] \notin D /\ w[2] \notin D}
      /\ b.running = tree.running /\ b.work = tree.work /\ b.live = tree.live
      /\ b.parent = tree.parent /\ b.lent = tree.lent /\ b.spent = tree.spent
      /\ b.byStep = tree.byStep /\ b.flows = tree.flows
  BY <1>0, UnparkedFields
<1>2. v = [b EXCEPT !.live = b.live \ D, !.running = b.running \ D,
                    !.work = b.work \ D, !.lent = b.lent \ D,
                    !.byStep = b.byStep \ D, !.flows = b.flows \ D]
  BY DEF Leave
<1> HIDE DEF b
<1>3. /\ v \in Trees /\ v.live = tree.live \ D /\ v.parent = tree.parent
      /\ v.running = tree.running \ D /\ v.work = tree.work \ D
      /\ v.parked = tree.parked \ D /\ v.lent = tree.lent \ D
      /\ v.before = {w \in tree.before : w[1] \notin D /\ w[2] \notin D}
      /\ v.byStep = tree.byStep \ D /\ v.flows = tree.flows \ D
      /\ v.spent = tree.spent
  <2>1. /\ v.live = b.live \ D /\ v.parent = b.parent
        /\ v.running = b.running \ D /\ v.work = b.work \ D
        /\ v.parked = b.parked /\ v.lent = b.lent \ D
        /\ v.byStep = b.byStep \ D /\ v.flows = b.flows \ D
        /\ v.before = b.before /\ v.spent = b.spent
    BY <1>1, <1>2 DEF Trees
  <2>2. v \in Trees
    <3>1. /\ b.live \ D \subseteq Child /\ b.running \ D \subseteq Agent
          /\ b.work \ D \subseteq Agent /\ b.lent \ D \subseteq Child
          /\ b.byStep \ D \subseteq Child /\ b.flows \ D \subseteq Agent
      BY <1>1 DEF Trees
    <3> DEFINE m == [b EXCEPT !.live = b.live \ D, !.running = b.running \ D,
                              !.work = b.work \ D]
               n == [m EXCEPT !.lent = b.lent \ D, !.byStep = b.byStep \ D,
                              !.flows = b.flows \ D]
    <3>2. m \in Trees
      BY <1>1, <3>1 DEF Trees
    <3>3. v = n
      BY <1>2
    <3> HIDE DEF m
    <3>4. n \in Trees
      BY <3>1, <3>2 DEF Trees
    <3> QED
      BY <3>3, <3>4
  <2> QED
    BY <1>1, <2>1, <2>2
<1>4. InLine(v)
  BY <1>0, <1>3, LineShrinks DEF Good, WellFormed
<1>5. /\ \A d \in v.byStep : v.parent[d] \in v.running
      /\ \A d \in v.lent \ v.byStep : v.parent[d] \in v.flows
  <2>1. \A d \in v.byStep : d \in tree.live /\ d \notin D
    BY <1>0, <1>3 DEF Good, WellFormed
  <2>2. \A d \in v.lent \ v.byStep : tree.parent[d] \notin D
    BY <1>0, <1>3, RootIsNoChild DEF Good, WellFormed
  <2> QED
    BY <1>0, <1>3, <2>1, <2>2 DEF Good, WellFormed
<1>6. \A d \in v.live : v.parent[d] \in v.live \union {Root}
  BY <1>0, <1>3 DEF Good, WellFormed
<1>7. WellFormed(v)
  BY <1>0, <1>3, <1>4, <1>5, <1>6, RootIsNoChild DEF Good, WellFormed
<1>8. Served(v, {}) /\ Busy(v)
  BY <1>0, <1>3 DEF Good, Served, Busy, Childless
<1>9. Fair(tree, v)
  BY <1>3 DEF Fair
<1> QED
  BY <1>3, <1>7, <1>8, <1>9 DEF Good

LEMMA DisposeSteps ==
  ASSUME IInv, NEW c \in Child, DisposeChild(c), NEW D,
         D = Under(c, tree.live)
  PROVE  /\ StepOfTree /\ tree'.live \subseteq tree.live \ D
         /\ tree'.lent \subseteq tree.lent
         /\ tree.running \ D \subseteq tree'.running
<1> DEFINE v == Leave(D)
<1>0. tree \in Trees
  BY DEF IInv, Good
<1>1. tree' = Pump(v)
  BY DEF DisposeChild
<1>2. /\ D \in SUBSET Child
      /\ \A d \in tree.live : tree.parent[d] \in D => d \in D
  <2>1. tree.live \in SUBSET Child /\ c \in Agent
    BY <1>0 DEF Trees, Agent
  <2> QED
    BY <1>0, <2>1, UnderFacts
<1> HIDE DEF v
<1>3. /\ Good(v, {}) /\ Fair(tree, v)
      /\ v.live = tree.live \ D /\ v.running = tree.running \ D
      /\ v.lent = tree.lent \ D /\ v.parked = tree.parked \ D
      /\ v.spent = tree.spent
  BY <1>2, LeaveKeeps DEF v
<1>4. /\ Good(tree', {}) /\ Same(v, tree') /\ Fair(v, tree')
      /\ NoneIdle(tree') /\ tree'.parked \subseteq v.parked
  BY <1>1, <1>3, PumpKeeps
<1>5. Fair(tree, tree')
  BY <1>3, <1>4, FairTwice
<1> QED
  BY <1>2, <1>3, <1>4, <1>5, RootIsNoChild DEF StepOfTree, StaysDown, Same

LEMMA StopSteps ==
  ASSUME IInv, Stop
  PROVE  /\ StepOfTree /\ tree'.live = {} /\ tree'.lent \subseteq tree.lent
         /\ tree.running \intersect {Root} \subseteq tree'.running
<1> DEFINE u == Leave(Child)
           L == {c \in tree.lent \ tree.byStep : tree.parent[c] = Root}
           v == [u EXCEPT !.work = {}, !.lent = L]
<1>0. Good(tree, {}) /\ tree \in Trees /\ tree.live \subseteq Child
  BY DEF IInv, Good, Trees
<1>1. tree' = Pump(v)
  BY DEF Stop
<1>2. /\ Good(u, {}) /\ Fair(tree, u)
      /\ u.live = tree.live \ Child /\ u.running = tree.running \ Child
      /\ u.parked = tree.parked \ Child
      /\ u.byStep = tree.byStep \ Child /\ u.flows = tree.flows \ Child
      /\ u.parent = tree.parent /\ u.spent = tree.spent
  <2> HIDE DEF u
  <2> QED
    BY <1>0, LeaveKeeps DEF u
<1> HIDE DEF u
<1>3. /\ u.live = {} /\ u.byStep = {}
      /\ u.running = tree.running \intersect {Root}
      /\ u.parked \subseteq {Root}
  BY <1>0, <1>2, RootIsNoChild DEF Good, WellFormed, Trees
<1>4. /\ v \in Trees /\ v.live = {} /\ v.lent = L /\ v.byStep = {}
      /\ v.running = u.running /\ v.parked = u.parked
      /\ v.before = u.before /\ v.spent = u.spent
      /\ v.parent = tree.parent /\ v.flows = tree.flows \ Child
  BY <1>0, <1>2, <1>3 DEF Good, Trees
<1> HIDE DEF v
<1>5. Good(v, {}) /\ Fair(tree, v)
  <2>1. \A c \in L : v.parent[c] \in v.flows /\ v.parent[c] = Root
    BY <1>0, <1>4, RootIsNoChild DEF Good, WellFormed
  <2>2. v.running \union v.parked \union v.flows \subseteq {Root}
    BY <1>0, <1>3, <1>4 DEF Good, WellFormed
  <2>3. WellFormed(v)
    BY <1>2, <1>4, <2>1, <2>2 DEF Good, WellFormed, InLine
  <2> QED
    BY <1>2, <1>4, <2>2, <2>3 DEF Good, Served, Busy, Fair
<1>6. /\ Good(tree', {}) /\ Same(v, tree') /\ Fair(v, tree')
      /\ NoneIdle(tree') /\ tree'.parked \subseteq v.parked
  BY <1>1, <1>5, PumpKeeps
<1>7. Fair(tree, tree')
  BY <1>2, <1>4, <1>5, <1>6, FairTwice
<1> QED
  BY <1>2, <1>3, <1>4, <1>6, <1>7 DEF StepOfTree, StaysDown, Same

-----------------------------------------------------------------------------
(***************************************************************************)
(* The theorems.                                                           *)
(***************************************************************************)

\* The counters of the budget.
LEMMA WindowKept ==
  ASSUME IInv, Next
  PROVE  /\ started' \in 0..MaxTotal /\ wakes' \in [Agent -> 0..MaxWakes]
         /\ tasks' \in 0..MaxTasks /\ born' \in 0..MaxChildren
<1>0. /\ started \in 0..MaxTotal /\ wakes \in [Agent -> 0..MaxWakes]
      /\ tasks \in 0..MaxTasks /\ born \in 0..MaxChildren
      /\ MaxTotal \in Nat /\ MaxWakes \in Nat /\ MaxTasks \in Nat
      /\ MaxChildren \in Nat
  BY BudgetAssumption, BoundsAssumption DEF IInv, TypeOK
<1>1. ASSUME NEW t, NEW p, Spend(t, p)
      PROVE  wakes' \in [Agent -> 0..MaxWakes]
  <2>1. CASE Wakes(t, p)
    <3>1. wakes' = [wakes EXCEPT ![p] = wakes[p] + 1]
      BY <1>1, <2>1 DEF Spend
    <3>2. p \in Agent => wakes[p] + 1 \in 0..MaxWakes
      BY <1>0, <2>1 DEF Wakes
    <3> QED
      BY <1>0, <3>1, <3>2
  <2>2. CASE ~Wakes(t, p)
    BY <1>0, <1>1, <2>2 DEF Spend
  <2> QED
    BY <2>1, <2>2
<1>2. wakes' \in [Agent -> 0..MaxWakes]
  <2>1. \/ wakes' = wakes
        \/ wakes' = [a \in Agent |-> 0]
        \/ \E t, p : Spend(t, p)
    BY DEF Next, BeginTask, Charge, StartFlow, StartChild, Message, Notice,
       Continue, Report, Settle, EndRun, Interrupt, AbandonWait, EndFlow,
       Abort, DisposeChild, Stop
  <2>2. 0 \in 0..MaxWakes
    BY <1>0
  <2> QED
    BY <1>0, <1>1, <2>1, <2>2
<1>3. /\ \/ started' \in {started, 0}
         \/ started < MaxTotal /\ started' = started + 1
      /\ tasks' = tasks \/ (tasks < MaxTasks /\ tasks' = tasks + 1)
      /\ born' = born \/ (born' \in Child)
  BY DEF Next, BeginTask, Charge, StartFlow, StartChild, Message, Notice,
     Continue, Report, Settle, EndRun, Interrupt, AbandonWait, EndFlow,
     Abort, DisposeChild, Stop
<1> QED
  BY <1>0, <1>2, <1>3 DEF Child

\* And what is kept of each agent beside the tree.
WholeStep ==
  /\ StepOfTree /\ tree'.live \union tree'.lent \subseteq 1..born'
  /\ tree'.lent \intersect tree'.live \subseteq foreground'
  /\ aborting' \subseteq tree'.running
  /\ foreground' \subseteq Child

LEMMA NextSteps ==
  ASSUME IInv, Next
  PROVE  IInv' /\ StepOfTree
<1>0. /\ tree.live \union tree.lent \subseteq 1..born
      /\ tree.lent \intersect tree.live \subseteq foreground
      /\ aborting \subseteq tree.running /\ foreground \subseteq Child
      /\ tree \in Trees
  BY DEF IInv, TypeOK, Good
<1>1. WholeStep
  <2>1. CASE BeginTask \/ Charge \/ \E p \in Agent : StartFlow(p)
    <3>1. /\ StepOfTree /\ tree'.live = tree.live /\ tree'.lent = tree.lent
          /\ tree.running \subseteq tree'.running
      BY <2>1, BeginTaskSteps, ChargeSteps, StartFlowSteps
    <3>2. UNCHANGED <<foreground, aborting, born>>
      BY <2>1 DEF BeginTask, Charge, StartFlow
    <3> QED
      BY <1>0, <3>1, <3>2 DEF WholeStep
  <2>2. CASE Stop
    <3>1. /\ StepOfTree /\ tree'.live = {} /\ tree'.lent \subseteq tree.lent
          /\ tree.running \intersect {Root} \subseteq tree'.running
      BY <2>2, StopSteps
    <3>2. /\ foreground' = {} /\ aborting' = {Root} \intersect tree.running
          /\ born' = born
      BY <2>2 DEF Stop
    <3> QED
      BY <1>0, <3>1, <3>2 DEF WholeStep
  <2>3. ASSUME NEW p \in Agent, NEW c \in Child, NEW waits \in Waits,
               StartChild(p, c, waits)
        PROVE  WholeStep
    <3>1. /\ StepOfTree
          /\ tree'.live \union tree'.lent \subseteq 1..born'
          /\ tree'.lent \intersect tree'.live \subseteq foreground'
          /\ tree.running \subseteq tree'.running
      BY <2>3, StartChildSteps
    <3>2. /\ foreground' \subseteq foreground \union {c}
          /\ aborting' = aborting
      BY <2>3 DEF StartChild
    <3> QED
      BY <1>0, <3>1, <3>2 DEF WholeStep
  <2>4. CASE \/ \E c \in Child : Message(c) \/ Report(c)
             \/ \E a \in Agent : Notice(a) \/ Continue(a)
    <3>1. StepOfTree /\ Same(tree, tree')
      BY <2>4, MessageSteps, NoticeSteps, ContinueSteps
    <3>2. UNCHANGED <<foreground, aborting, born>>
      BY <2>4 DEF Message, Report, Notice, Continue
    <3> QED
      BY <1>0, <3>1, <3>2 DEF WholeStep, Same
  <2>5. ASSUME NEW a \in Agent, Interrupt(a) \/ AbandonWait(a) \/ EndFlow(a)
        PROVE  WholeStep
    <3>1. /\ StepOfTree /\ tree'.live = tree.live
          /\ tree'.lent \subseteq tree.lent
          /\ tree.running \subseteq tree'.running
      BY <2>5, AbortSteps
    <3>2. /\ UNCHANGED <<foreground, born>>
          /\ aborting' \subseteq aborting \union tree.running
      BY <2>5 DEF Interrupt, AbandonWait, EndFlow, Abort
    <3> QED
      BY <1>0, <3>1, <3>2 DEF WholeStep
  <2>6. ASSUME NEW c \in Child, DisposeChild(c)
        PROVE  WholeStep
    <3> DEFINE D == Under(c, tree.live)
    <3>1. /\ foreground' = foreground \ D /\ born' = born
          /\ aborting' = aborting \ D
      BY <2>6 DEF DisposeChild
    <3> HIDE DEF D
    <3>2. /\ StepOfTree /\ tree'.live \subseteq tree.live \ D
          /\ tree'.lent \subseteq tree.lent
          /\ tree.running \ D \subseteq tree'.running
      BY <2>6, DisposeSteps DEF D
    <3> QED
      BY <1>0, <3>1, <3>2 DEF WholeStep
  <2>7. ASSUME NEW a \in Agent, NEW again \in BOOLEAN, EndRun(a, again)
        PROVE  WholeStep
    <3>1. /\ StepOfTree /\ tree'.live = tree.live
          /\ tree'.lent = tree.lent \ {a}
          /\ tree.running \ {a} \subseteq tree'.running
      BY <2>7, EndRunSteps
    <3>2. /\ foreground' = foreground \/ foreground' = foreground \ {a}
          /\ aborting' = aborting \ {a} /\ born' = born
      BY <2>7 DEF EndRun, Settle
    <3> QED
      BY <1>0, <3>1, <3>2 DEF WholeStep
  <2> QED
    <3>1. \A c \in Child : c \in Agent
      BY DEF Agent
    <3> QED
      BY <2>1, <2>2, <2>3, <2>4, <2>5, <2>6, <2>7, <3>1 DEF Next
<1>2. TypeOK'
  BY <1>1, WindowKept DEF WholeStep, TypeOK, StepOfTree, Good
<1> QED
  BY <1>1, <1>2 DEF WholeStep, IInv, StepOfTree

LEMMA StutterKeeps ==
  ASSUME IInv, UNCHANGED vars
  PROVE  IInv' /\ StepOfTree
<1>1. UNCHANGED <<tree, foreground, aborting, started, wakes, tasks, born>>
  BY DEF vars
<1>2. IInv'
  BY <1>1 DEF IInv, TypeOK
<1> QED
  BY <1>1, <1>2 DEF IInv, StepOfTree, StaysDown, Fair

\* After every step of the tree and the subagent manager the pool, the line
\* of the parked and the waits agree.
THEOREM InvariantHolds == Spec => []IInv
<1>1. IInv /\ [Next]_vars => IInv'
  BY NextSteps, StutterKeeps
<1> QED
  BY InitGood, <1>1, PTL DEF Spec

\* task-tree.ts:428: no slot is free while an agent is parked for one, and
\* the root is parked only by the cost cap.
THEOREM NobodyParkedInVain == Spec => []NoIdleSlot
<1>1. IInv => NoIdleSlot
  <2> SUFFICES ASSUME IInv PROVE NoIdleSlot
    OBVIOUS
  <2>1. tree \in Trees /\ NoneIdle(tree)
    BY DEF IInv, Good
  <2>2. {c \in Child : Holds(c)} = Holding(tree)
    BY <2>1 DEF Holds, Waiting, Holding, Lenders, Trees
  <2> QED
    BY <2>1, <2>2 DEF NoIdleSlot, NoneIdle
<1> QED
  BY InvariantHolds, <1>1, PTL

\* manager.ts:464: a child somebody waits for runs, or has its task still to
\* claim when its turn comes, and its waiter is there, be it a step or a
\* workflow; only the workflow of a root that was stopped waits for none.
THEOREM NobodyWaitsForever == Spec => []NoForgottenWait
<1>1. IInv => NoForgottenWait
  <2> SUFFICES ASSUME IInv PROVE NoForgottenWait
    OBVIOUS
  <2>1. /\ TypeOK /\ tree.lent \intersect tree.live \subseteq foreground
        /\ WellFormed(tree) /\ Served(tree, {})
    BY DEF IInv, Good
  <2>2. ASSUME NEW c \in tree.lent \intersect tree.live
        PROVE  /\ c \in tree.live \intersect foreground
               /\ c \in tree.running \/ (c \in tree.parked /\ c \in tree.work)
               /\ IF c \in tree.byStep THEN tree.parent[c] \in tree.running
                  ELSE tree.parent[c]
                         \in tree.flows \intersect (tree.live \union {Root})
    BY <2>1 DEF WellFormed, Served
  <2>3. ASSUME NEW c \in tree.lent \ tree.live
        PROVE  /\ c \notin tree.live \union tree.byStep
               /\ tree.parent[c] = Root /\ Root \in tree.flows
    BY <2>1 DEF WellFormed
  <2> QED
    BY <2>1, <2>2, <2>3 DEF NoForgottenWait
<1> QED
  BY InvariantHolds, <1>1, PTL

\* task-tree.ts:428: the pump and whatever comes after it in the same
\* synchronous chain start no subagent before an older one.
THEOREM OldestGoFirst == Spec => OldestFirst
<1>1. IInv /\ [Next]_vars =>
        [\A c \in Child \intersect (tree'.running \ tree.running) :
           \A a \in (tree.parked \intersect tree'.parked) \ {Root, c} :
             <<c, a>> \in tree.before]_vars
  <2> SUFFICES ASSUME IInv, [Next]_vars,
                      NEW c \in Child
                                  \intersect (tree'.running \ tree.running),
                      NEW a \in (tree.parked \intersect tree'.parked)
                                  \ {Root, c}
               PROVE  <<c, a>> \in tree.before
    OBVIOUS
  <2>1. Fair(tree, tree')
    BY NextSteps, StutterKeeps DEF StepOfTree
  <2> QED
    BY <2>1, RootIsNoChild DEF Fair
<1> QED
  BY InvariantHolds, <1>1, PTL DEF Spec, OldestFirst

\* task-tree.ts:18: nothing that happens among the subagents wakes the root
\* of a task whose cost cap is reached.
THEOREM SpentTasksStayDown == Spec => SpentTaskStaysDown
<1>1. IInv /\ [Next]_vars =>
        [tree.spent /\ tasks' = tasks /\ Root \notin tree.running =>
           Root \notin tree'.running]_vars
  BY NextSteps, StutterKeeps DEF StepOfTree, StaysDown
<1> QED
  BY InvariantHolds, <1>1, PTL DEF Spec, SpentTaskStaysDown
=============================================================================
