---------------------------- MODULE InboxSplices ----------------------------
(***************************************************************************)
(* The inbox line by line: its two arrays, the index splices that change   *)
(* them (Inbox.mutate, removeRuns, promote) and the other log lines an     *)
(* operation writes.  One step is one line of the session log, so every    *)
(* state is what a replay of some prefix of the log rebuilds, and the      *)
(* states with work left are the ones only a log cut inside an operation   *)
(* could show.  `box' is the inbox as the rest of the model sees it        *)
(* (Inbox): the two agree whenever no operation is under way.              *)
(***************************************************************************)
EXTENDS Inbox, Naturals, Sequences, SequencesExt

VARIABLES
  lists,     \* inbox.state
  todo,      \* the log lines the operation under way has left to write
  cursor,    \* removeRuns: the list it is at, and the indexes up to end
  sent, entered, discarded,   \* what the log lines written so far say
  box,       \* the inbox after the operations begun so far
  before     \* history: the lists when the operation began

vars == <<lists, todo, cursor, sent, entered, discarded, box, before>>

NoCursor == [target |-> "none", left |-> {}]

Pend(l) == ToSet(lists[l])

Init == /\ lists = [l \in Lists |-> <<>>]
        /\ todo = <<>> /\ cursor = NoCursor
        /\ sent = {} /\ entered = {} /\ discarded = {}
        /\ box = EmptyBox /\ before = lists

-----------------------------------------------------------------------------
(* The lines of an operation. *)

InsertLine(l, m) == [op |-> "insert", list |-> l, ids |-> {m}]
RemoveRuns(S)    == [op |-> "remove", list |-> "none", ids |-> S]
Discarded(S)     == [op |-> "discarded", list |-> "none", ids |-> S]
UserMessages(S)  == [op |-> "user/message", list |-> "none", ids |-> S]

\* discardMessages writes nothing for no message.
DiscardLines(S) == IF S = {} THEN <<>> ELSE <<RemoveRuns(S), Discarded(S)>>

Begin(lines, b) ==
  /\ todo = <<>>
  /\ todo' = lines
  /\ box' = b
  /\ before' = lists
  /\ UNCHANGED <<lists, cursor, sent, entered, discarded>>

Insert(l, m) == /\ m \notin sent
                /\ Begin(<<InsertLine(l, m)>>, AppendTo(box, l, m))

\* Mutant of Promote: it inserts before it removes.
PromoteByCopy(m) == /\ m \in Pend("next-turn")
                    /\ Begin(<<InsertLine("next-step", m), RemoveRuns({m})>>,
                             AppendTo(box, "next-step", m))

Promote(m) == /\ m \in Pend("next-turn")
              /\ Begin(<<RemoveRuns({m}), InsertLine("next-step", m)>>,
                       AppendTo(box, "next-step", m))

DiscardSome(S) == /\ S # {} /\ S \subseteq Pend("next-turn") \union Pend("next-step")
                  /\ Begin(DiscardLines(S), Discard(box, S))

\* A step enters with E of the messages S it claimed, and drops the others.
Enter(S, E) ==
  /\ S # {} /\ S \subseteq Pend("next-turn") \union Pend("next-step")
  /\ E \subseteq S
  /\ Begin(<<RemoveRuns(E)>> \o DiscardLines(S \ E) \o
             (IF E = {} THEN <<>> ELSE <<UserMessages(E)>>),
           Commit([box EXCEPT !.reserved = S], E))

-----------------------------------------------------------------------------
(* Writing one line. *)

\* Mutant of Splice: it removes one element too many.
SpliceOneMore(s, i, removed, inserted) ==
  SubSeq(s, 1, i - 1) \o inserted \o SubSeq(s, i + removed + 1, Len(s))

\* Array.prototype.splice; i counts from 1.
Splice(s, i, removed, inserted) ==
  SubSeq(s, 1, i - 1) \o inserted \o SubSeq(s, i + removed, Len(s))

\* validate: a splice that would make a message pending twice is refused.
Valid(l, i, removed, inserted) ==
  LET s == Splice(lists[l], i, removed, inserted)
  IN  /\ i \in 1..(Len(lists[l]) + 1) /\ i + removed <= Len(lists[l]) + 1
      /\ IsInjective(s)
      /\ \A k \in Lists \ {l} : ToSet(s) \intersect ToSet(lists[k]) = {}

Mutate(l, i, removed, inserted) ==
  /\ Valid(l, i, removed, inserted)
  /\ lists' = [lists EXCEPT ![l] = Splice(@, i, removed, inserted)]

\* The positions of the messages of S.
IndexesOf(l, S) == {i \in 1..Len(lists[l]) : lists[l][i] \in S}

At(l) == [target |-> l, left |-> IndexesOf(l, Head(todo).ids)]

\* indexes[end].
RunEnd(ix) == CHOOSE e \in ix : \A i \in ix : i <= e

\* Mutant of RunStart: the indexes are taken for one run.
FirstIndex(ix) == CHOOSE s \in ix : \A i \in ix : s <= i

\* Where the run of neighbours that ends at indexes[end] begins.
RunStart(ix) == CHOOSE s \in ix : s..RunEnd(ix) \subseteq ix /\ s - 1 \notin ix

RunLength(ix) == RunEnd(ix) - RunStart(ix) + 1

OpenList == /\ cursor = NoCursor
            /\ cursor' = At("next-step")
            /\ UNCHANGED <<lists, todo>>

NextList == /\ cursor # NoCursor /\ cursor.left = {}
            /\ IF cursor.target = "next-step"
               THEN cursor' = At("next-turn") /\ UNCHANGED todo
               ELSE cursor' = NoCursor /\ todo' = Tail(todo)
            /\ UNCHANGED lists

RemoveRun == LET s == RunStart(cursor.left)
             IN  /\ cursor.left # {}
                 /\ Mutate(cursor.target, s, RunLength(cursor.left), <<>>)
                 /\ cursor' = [cursor EXCEPT !.left = {i \in @ : i < s}]
                 /\ UNCHANGED todo

WriteRemove == /\ todo # <<>> /\ Head(todo).op = "remove"
               /\ OpenList \/ NextList \/ RemoveRun
               /\ UNCHANGED <<sent, entered, discarded, box, before>>

WriteInsert ==
  /\ todo # <<>> /\ Head(todo).op = "insert"
  /\ LET l == Head(todo).list
     IN  \E m \in Head(todo).ids : Mutate(l, Len(lists[l]) + 1, 0, <<m>>)
  /\ sent' = sent \union Head(todo).ids
  /\ todo' = Tail(todo)
  /\ UNCHANGED <<cursor, entered, discarded, box, before>>

WriteDiscarded ==
  /\ todo # <<>> /\ Head(todo).op = "discarded"
  /\ discarded' = discarded \union Head(todo).ids
  /\ todo' = Tail(todo)
  /\ UNCHANGED <<lists, cursor, sent, entered, box, before>>

\* One line for each message that enters.
WriteUserMessage ==
  /\ todo # <<>> /\ Head(todo).op = "user/message"
  /\ \E m \in Head(todo).ids :
       /\ entered' = entered \union {m}
       /\ todo' = IF Head(todo).ids = {m} THEN Tail(todo)
                  ELSE <<UserMessages(Head(todo).ids \ {m})>> \o Tail(todo)
  /\ UNCHANGED <<lists, cursor, sent, discarded, box, before>>

WriteLine == WriteRemove \/ WriteInsert \/ WriteDiscarded \/ WriteUserMessage

Next == \/ \E m \in Msg : Promote(m) \/ \E l \in Lists : Insert(l, m)
        \/ \E S \in SUBSET Msg : DiscardSome(S) \/ \E E \in SUBSET S : Enter(S, E)
        \/ WriteLine

Spec == Init /\ [][Next]_vars

-----------------------------------------------------------------------------
\* What a line says.
Line == [op : {"insert", "remove", "discarded", "user/message"},
         list : Lists \union {"none"}, ids : SUBSET Msg]

TypeOK == /\ lists \in [Lists -> Seq(Msg)] /\ before \in [Lists -> Seq(Msg)]
          /\ todo \in Seq(Line)
          /\ cursor \in [target : Lists \union {"none"}, left : SUBSET Nat]
          /\ sent \subseteq Msg /\ entered \subseteq Msg /\ discarded \subseteq Msg
          /\ box \in Box

-----------------------------------------------------------------------------
(***************************************************************************)
(* Properties.                                                             *)
(***************************************************************************)
Located == Pend("next-turn") \union Pend("next-step")

AccountedNow == /\ sent = Located \union entered \union discarded
                /\ Located \intersect (entered \union discarded) = {}
                /\ entered \intersect discarded = {}

\* Which messages of W are on a list, and which stands before which.
Standing(s, W) ==
  [on    |-> ToSet(s) \intersect W,
   order |-> {p \in W \X W : \E i, j \in 1..Len(s) :
                                i < j /\ s[i] = p[1] /\ s[j] = p[2]}]

\* Whenever no operation is under way, every message is in one place
\* (inbox.ts:25), and the arrays hold what the model's inbox holds, in its
\* order: the index arithmetic of the runs is right.
ArraysAgree ==
  todo = <<>> =>
    /\ AccountedNow
    /\ \A l \in Lists :
         /\ Pend(l) = On(box, l)
         /\ \A i, j \in 1..Len(lists[l]) :
              i < j <=> <<lists[l][i], lists[l][j]>> \in box.ahead

\* A removal under way never takes, doubles or reorders a message the
\* operation leaves in the inbox, whichever of its lines are written
\* (inbox.ts:345).
OthersKeepTheirPlace ==
  todo # <<>> /\ Head(todo).op = "remove" =>
    LET others == Pending(box) \ Head(todo).ids
    IN  \A l \in Lists :
          Standing(lists[l], others) = Standing(before[l], others)

\* No operation throws half-way: validate() never refuses the splice of the
\* next line, neither the removal of a run nor an insertion.
NothingIsRefused ==
  todo # <<>> =>
    CASE Head(todo).op = "remove" ->
           cursor.left # {} => Valid(cursor.target, RunStart(cursor.left),
                                     RunLength(cursor.left), <<>>)
      [] Head(todo).op = "insert" ->
           \E m \in Head(todo).ids :
             Valid(Head(todo).list, Len(lists[Head(todo).list]) + 1, 0, <<m>>)
      [] OTHER -> Head(todo).ids # {}
=============================================================================
