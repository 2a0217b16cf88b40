------------------------- MODULE InboxSplicesProofs -------------------------
(***************************************************************************)
(* Proofs about InboxSplices, for every set of messages: the arrays hold   *)
(* what the box holds whenever no operation is under way, a removal leaves *)
(* the other messages where they stand, whichever of its lines are         *)
(* written, and no splice an operation makes is refused half-way.          *)
(*                                                                         *)
(* Lemmas come first: what sequences of log lines speak of, what a splice  *)
(* of one list does, what the operations do to a box.  Then one lemma per  *)
(* action, the operations that begin and the lines that are written.       *)
(***************************************************************************)
EXTENDS InboxSplices, WellFoundedInduction, TLAPS

(***************************************************************************)
(* The invariant: what the lists and the log are short of is in the lines  *)
(* still to write.                                                         *)
(***************************************************************************)
Kind(op) == {op} \X (Lists \union {"none"})

\* What the lines of these kinds in s speak of.
IdsOf(kinds, s) ==
  UNION {s[i].ids : i \in {k \in 1..Len(s) : <<s[k].op, s[k].list>> \in kinds}}

Doomed      == IdsOf(Kind("remove"), todo)
Coming      == IdsOf(Kind("insert"), todo)
Arriving(l) == IdsOf({<<"insert", l>>}, todo)
Naming      == IdsOf(Kind("discarded"), todo)
Entering    == IdsOf(Kind("user/message"), todo)

\* The removals come first, and an insertion last: of one message, which the
\* removals before it take from its list.
LinesSound(s) ==
  \A i \in 1..Len(s) :
    /\ s[i].op = "remove" => \A k \in 1..i : s[k].op = "remove"
    /\ s[i].op = "remove" => IdsOf(Kind("insert"), s) \subseteq s[i].ids
    /\ s[i].op = "insert" =>
         i = Len(s) /\ s[i].list \in Lists /\ \E m \in Msg : s[i].ids = {m}
    /\ s[i].op \in {"discarded", "user/message"} => s[i].ids # {}

\* The lists hold nothing twice, and hold what the box holds, in its order, but
\* for what the lines still remove and insert.
ListsSound ==
  /\ \A l \in Lists : IsInjective(lists[l])
  /\ Pend("next-turn") \intersect Pend("next-step") = {}
  /\ Coming \intersect (Pend("next-turn") \union Pend("next-step")) \subseteq Doomed
  /\ \A l \in Lists :
       /\ On(box, l) = (Pend(l) \ Doomed) \union Arriving(l)
       /\ \A i, j \in 1..Len(lists[l]) :
            lists[l][i] \notin Doomed /\ lists[l][j] \notin Doomed =>
              (i < j <=> <<lists[l][i], lists[l][j]>> \in box.ahead)
       /\ \A a \in Pend(l) \ Doomed, m \in Arriving(l) :
            <<a, m>> \in box.ahead /\ <<m, a>> \notin box.ahead
       /\ \A m \in Arriving(l) : <<m, m>> \notin box.ahead

\* A message sent is in one place, in the end.
LogSound ==
  /\ sent \union Coming =
       Pending(box) \union entered \union Entering \union discarded \union Naming
  /\ Pending(box) \intersect (entered \union Entering \union discarded
                               \union Naming) = {}
  /\ (entered \union Entering) \intersect (discarded \union Naming) = {}

\* removeRuns is at the messages of its line that are still on the lists.
CursorSound ==
  cursor # NoCursor =>
    /\ todo # <<>> /\ Head(todo).op = "remove" /\ cursor.target \in Lists
    /\ cursor.left = IndexesOf(cursor.target, Head(todo).ids)
    /\ cursor.target = "next-turn" =>
         Pend("next-step") \intersect Head(todo).ids = {}

\* A removal leaves the messages that no line of the operation speaks of.
OthersKept ==
  todo # <<>> /\ Head(todo).op = "remove" =>
    LET others == Pending(box) \ Coming
    IN  \A l \in Lists :
          Standing(lists[l], others) = Standing(before[l], others)

IInv == TypeOK /\ LinesSound(todo) /\ ListsSound /\ LogSound /\ CursorSound
        /\ OthersKept

-----------------------------------------------------------------------------
(***************************************************************************)
(* Lines.                                                                  *)
(***************************************************************************)

\* What the lines of some kinds speak of, line by line.
LEMMA InIdsOf ==
  ASSUME NEW kinds, NEW s, NEW m
  PROVE  m \in IdsOf(kinds, s) <=>
           \E i \in 1..Len(s) : <<s[i].op, s[i].list>> \in kinds /\ m \in s[i].ids
BY DEF IdsOf

\* The first line and the others.
LEMMA IdsOfTail ==
  ASSUME NEW kinds, NEW s \in Seq(Line), s # <<>>
  PROVE  IdsOf(kinds, s) =
           (IF <<Head(s).op, Head(s).list>> \in kinds THEN Head(s).ids ELSE {})
             \union IdsOf(kinds, Tail(s))
<1> DEFINE t == Tail(s)
           h == IF <<Head(s).op, Head(s).list>> \in kinds THEN Head(s).ids ELSE {}
<1>1. /\ Len(t) = Len(s) - 1 /\ Head(s) = s[1] /\ Len(s) \in Nat \ {0}
      /\ \A i \in 1..Len(t) : t[i] = s[i + 1]
  OBVIOUS
<1> HIDE DEF t
<1>2. ASSUME NEW m \in IdsOf(kinds, s)
      PROVE  m \in h \union IdsOf(kinds, t)
  <2>1. PICK i \in 1..Len(s) :
          <<s[i].op, s[i].list>> \in kinds /\ m \in s[i].ids
    BY InIdsOf
  <2>2. CASE i = 1
    BY <1>1, <2>1, <2>2
  <2>3. CASE i # 1
    <3>1. i - 1 \in 1..Len(t) /\ t[i - 1] = s[i]
      BY <1>1, <2>3
    <3> QED
      BY <2>1, <3>1, InIdsOf
  <2> QED
    BY <2>2, <2>3
<1>3. ASSUME NEW m \in IdsOf(kinds, t)
      PROVE  m \in IdsOf(kinds, s)
  <2>1. PICK i \in 1..Len(t) :
          <<t[i].op, t[i].list>> \in kinds /\ m \in t[i].ids
    BY <1>3, InIdsOf
  <2>2. i + 1 \in 1..Len(s) /\ s[i + 1] = t[i]
    BY <1>1
  <2> QED
    BY <2>1, <2>2, InIdsOf
<1>4. ASSUME NEW m \in h
      PROVE  m \in IdsOf(kinds, s)
  <2>2. <<Head(s).op, Head(s).list>> \in kinds /\ m \in Head(s).ids
    BY <1>4, Zenon
  <2>1. 1 \in 1..Len(s) /\ <<s[1].op, s[1].list>> \in kinds /\ m \in s[1].ids
    <3>1. Head(s) = s[1] /\ 1 \in 1..Len(s)
      BY <1>1
    <3> QED
      BY <2>2, <3>1, Zenon
  <2> QED
    BY <2>1, InIdsOf
<1>5. IdsOf(kinds, s) = h \union IdsOf(kinds, t)
  BY <1>2, <1>3, <1>4
<1> QED
  BY <1>5 DEF t

\* A line before others.
LEMMA IdsOfCons ==
  ASSUME NEW kinds, NEW x \in Line, NEW s \in Seq(Line)
  PROVE  IdsOf(kinds, <<x>> \o s) =
           (IF <<x.op, x.list>> \in kinds THEN x.ids ELSE {})
             \union IdsOf(kinds, s)
<1> DEFINE y == <<x>> \o s
<1>1. y \in Seq(Line) /\ y # <<>> /\ Head(y) = x /\ Tail(y) = s
  OBVIOUS
<1> HIDE DEF y
<1>2. IdsOf(kinds, y) =
        (IF <<Head(y).op, Head(y).list>> \in kinds THEN Head(y).ids ELSE {})
          \union IdsOf(kinds, Tail(y))
  BY <1>1, IdsOfTail
<1> QED
  BY <1>1, <1>2 DEF y

\* No line speaks of nothing.
LEMMA IdsOfNothing ==
  ASSUME NEW kinds
  PROVE  IdsOf(kinds, <<>>) = {}
BY DEF IdsOf

\* A line is of the kind its op says.
LEMMA LineKinds ==
  ASSUME NEW x \in Line, NEW op
  PROVE  <<x.op, x.list>> \in Kind(op) <=> x.op = op
BY DEF Line, Kind

\* The lines of an operation are lines.
LEMMA LineFacts ==
  ASSUME NEW S \in SUBSET Msg, NEW m \in Msg, NEW l \in Lists
  PROVE  /\ InsertLine(l, m) \in Line /\ RemoveRuns(S) \in Line
         /\ Discarded(S) \in Line /\ UserMessages(S) \in Line
         /\ InsertLine(l, m).op = "insert" /\ InsertLine(l, m).list = l
         /\ InsertLine(l, m).ids = {m}
         /\ RemoveRuns(S).op = "remove" /\ RemoveRuns(S).ids = S
         /\ Discarded(S).op = "discarded" /\ Discarded(S).ids = S
         /\ UserMessages(S).op = "user/message" /\ UserMessages(S).ids = S
BY DEF InsertLine, RemoveRuns, Discarded, UserMessages, Line

\* Behind the first line the lines are in order too.
LEMMA TailSound ==
  ASSUME NEW s \in Seq(Line), s # <<>>, LinesSound(s)
  PROVE  /\ Tail(s) \in Seq(Line) /\ LinesSound(Tail(s))
         /\ Head(s) \in Line
<1> DEFINE t == Tail(s)
<1>1. /\ Len(t) = Len(s) - 1 /\ Head(s) = s[1] /\ Len(s) \in Nat \ {0}
      /\ \A i \in 1..Len(t) : t[i] = s[i + 1]
      /\ t \in Seq(Line) /\ Head(s) \in Line
  OBVIOUS
<1>2. IdsOf(Kind("insert"), t) \subseteq IdsOf(Kind("insert"), s)
  <2> DEFINE K == Kind("insert")
             h == IF <<Head(s).op, Head(s).list>> \in K THEN Head(s).ids ELSE {}
  <2>1. IdsOf(K, s) = h \union IdsOf(K, t)
    BY IdsOfTail
  <2> HIDE DEF h, K, t
  <2>2. IdsOf(K, t) \subseteq IdsOf(K, s)
    BY <2>1
  <2> QED
    BY <2>2 DEF K
<1> HIDE DEF t
<1>3. ASSUME NEW i \in 1..Len(t)
      PROVE  /\ t[i].op = "remove" => \A k \in 1..i : t[k].op = "remove"
             /\ t[i].op = "remove" => IdsOf(Kind("insert"), t) \subseteq t[i].ids
             /\ t[i].op = "insert" =>
                  i = Len(t) /\ t[i].list \in Lists /\ \E m \in Msg : t[i].ids = {m}
             /\ t[i].op \in {"discarded", "user/message"} => t[i].ids # {}
  <2>1. i + 1 \in 1..Len(s) /\ t[i] = s[i + 1]
    BY <1>1
  <2>2. \A k \in 1..i : k + 1 \in 1..(i + 1) /\ t[k] = s[k + 1]
    BY <1>1
  <2>3. /\ s[i + 1].op = "remove" => \A k \in 1..(i + 1) : s[k].op = "remove"
        /\ s[i + 1].op = "remove" =>
             IdsOf(Kind("insert"), s) \subseteq s[i + 1].ids
        /\ s[i + 1].op = "insert" =>
             /\ i + 1 = Len(s) /\ s[i + 1].list \in Lists
             /\ \E m \in Msg : s[i + 1].ids = {m}
        /\ s[i + 1].op \in {"discarded", "user/message"} => s[i + 1].ids # {}
    BY <2>1 DEF LinesSound
  <2>4. \A k \in 1..i : t[k] = s[k + 1] /\ k \in Int
    BY <1>1
  <2>5. t[i].op = "remove" => \A k \in 1..i : t[k].op = "remove"
    BY <2>1, <2>2, <2>3, <2>4
  <2>6. t[i].op = "insert" => i = Len(t)
    BY <1>1, <2>1, <2>3
  <2> QED
    BY <1>2, <2>1, <2>3, <2>5, <2>6
<1>4. LinesSound(t)
  BY <1>3 DEF LinesSound
<1> QED
  BY <1>1, <1>4 DEF t

\* A line that removes nothing, before lines that are none of removals.
LEMMA NoRemovalBehind ==
  ASSUME NEW s \in Seq(Line), s # <<>>, LinesSound(s), Head(s).op # "remove"
  PROVE  IdsOf(Kind("remove"), s) = {}
<1>1. s[1].op # "remove" /\ \A i \in 1..Len(s) : s[i] \in Line /\ 1 \in 1..i
  OBVIOUS
<1>2. \A i \in 1..Len(s) : s[i].op # "remove"
  BY <1>1 DEF LinesSound
<1> QED
  <2>1. \A i \in 1..Len(s) : <<s[i].op, s[i].list>> \notin Kind("remove")
    BY <1>1, <1>2, LineKinds
  <2> QED
    BY <2>1 DEF IdsOf

-----------------------------------------------------------------------------
(***************************************************************************)
(* Splices of one list.                                                    *)
(***************************************************************************)

\* Where an element stood before k of them were cut out at i.
Stood(i, k, p) == IF p < i THEN p ELSE p + k

\* r is s without the k elements from i on.
CutAt(s, r, i, k) ==
  /\ r \in Seq(Msg) /\ Len(r) = Len(s) - k
  /\ \A p \in 1..Len(r) :
       /\ Stood(i, k, p) \in 1..Len(s) /\ Stood(i, k, p) \notin i..(i + k - 1)
       /\ r[p] = s[Stood(i, k, p)]
  /\ \A p, q \in 1..Len(r) : p < q <=> Stood(i, k, p) < Stood(i, k, q)
  /\ \A x \in 1..Len(s) : x \notin i..(i + k - 1) =>
       \E p \in 1..Len(r) : Stood(i, k, p) = x

\* Cutting k elements out of a list.
LEMMA CutFacts ==
  ASSUME NEW s \in Seq(Msg), NEW i \in Nat \ {0}, NEW k \in Nat,
         i + k <= Len(s) + 1,
         NEW r, r = Splice(s, i, k, <<>>)
  PROVE  CutAt(s, r, i, k)
<1> DEFINE a == SubSeq(s, 1, i - 1)
           b == SubSeq(s, i + k, Len(s))
<1>1. /\ a \in Seq(Msg) /\ Len(a) = i - 1
      /\ \A p \in 1..(i - 1) : a[p] = s[p]
  OBVIOUS
<1>2. /\ b \in Seq(Msg) /\ Len(b) = Len(s) - (i + k) + 1
      /\ \A p \in 1..(Len(s) - (i + k) + 1) : b[p] = s[p + i + k - 1]
  OBVIOUS
<1>3. r = a \o b
  <2>1. a \o <<>> = a
    BY <1>1
  <2> QED
    BY <2>1 DEF Splice
<1> HIDE DEF a, b
<1>4. /\ r \in Seq(Msg) /\ Len(r) = Len(s) - k
      /\ \A p \in 1..Len(r) :
           r[p] = IF p <= i - 1 THEN a[p] ELSE b[p - (i - 1)]
  <2>1. /\ r \in Seq(Msg) /\ Len(r) = Len(a) + Len(b)
        /\ \A p \in 1..(Len(a) + Len(b)) :
             r[p] = IF p <= Len(a) THEN a[p] ELSE b[p - Len(a)]
    <3>1. a \in Seq(Msg) /\ b \in Seq(Msg)
      BY <1>1, <1>2
    <3>2. /\ a \o b \in Seq(Msg) /\ Len(a \o b) = Len(a) + Len(b)
          /\ \A p \in 1..(Len(a) + Len(b)) :
               (a \o b)[p] = IF p <= Len(a) THEN a[p] ELSE b[p - Len(a)]
      BY <3>1
    <3> QED
      BY <1>3, <3>2, Zenon
  <2>2. Len(a) = i - 1 /\ Len(a) + Len(b) = Len(s) - k
    BY <1>1, <1>2
  <2> QED
    BY <2>1, <2>2
<1>5. ASSUME NEW p \in 1..Len(r)
      PROVE  /\ Stood(i, k, p) \in 1..Len(s) /\ Stood(i, k, p) \notin i..(i + k - 1)
             /\ r[p] = s[Stood(i, k, p)]
  <2>1. CASE p < i
    BY <1>1, <1>4, <2>1 DEF Stood
  <2>2. CASE ~(p < i)
    <3>1. /\ p - (i - 1) \in 1..(Len(s) - (i + k) + 1)
          /\ p - (i - 1) + i + k - 1 = p + k
          /\ Stood(i, k, p) = p + k
      BY <1>4, <2>2 DEF Stood
    <3>2. b[p - (i - 1)] = s[p + k]
      BY <1>2, <3>1
    <3>3. r[p] = b[p - (i - 1)]
      BY <1>4, <2>2
    <3> QED
      BY <1>4, <2>2, <3>1, <3>2, <3>3
  <2> QED
    BY <2>1, <2>2
<1>6. \A p, q \in 1..Len(r) : p < q <=> Stood(i, k, p) < Stood(i, k, q)
  BY <1>4 DEF Stood
<1>7. ASSUME NEW x \in 1..Len(s), x \notin i..(i + k - 1)
      PROVE  \E p \in 1..Len(r) : Stood(i, k, p) = x
  <2>1. CASE x < i
    BY <1>4, <2>1 DEF Stood
  <2>2. CASE ~(x < i)
    <3>1. x - k \in 1..Len(r) /\ Stood(i, k, x - k) = x
      BY <1>4, <1>7, <2>2 DEF Stood
    <3> QED
      BY <3>1
  <2> QED
    BY <2>1, <2>2
<1> QED
  BY <1>4, <1>5, <1>6, <1>7 DEF CutAt

\* r is s and m after it.
PutLast(s, r, m) ==
  /\ r \in Seq(Msg) /\ Len(r) = Len(s) + 1 /\ r[Len(s) + 1] = m
  /\ \A p \in 1..Len(s) : r[p] = s[p]

\* Putting a message behind a list.
LEMMA PutFacts ==
  ASSUME NEW s \in Seq(Msg), NEW m \in Msg,
         NEW r, r = Splice(s, Len(s) + 1, 0, <<m>>)
  PROVE  PutLast(s, r, m)
<1> DEFINE a == SubSeq(s, 1, Len(s))
           b == SubSeq(s, Len(s) + 1, Len(s))
<1>1. a = s
  OBVIOUS
<1>2. b = <<>>
  OBVIOUS
<1>3. Splice(s, Len(s) + 1, 0, <<m>>) = (s \o <<m>>) \o <<>>
  <2>1. SubSeq(s, 1, Len(s) + 1 - 1) = s /\ Len(s) + 1 + 0 = Len(s) + 1
    OBVIOUS
  <2>2. Splice(s, Len(s) + 1, 0, <<m>>) =
          (SubSeq(s, 1, Len(s) + 1 - 1) \o <<m>>) \o SubSeq(s, Len(s) + 1 + 0, Len(s))
    BY DEF Splice
  <2> QED
    BY <1>2, <2>1, <2>2, Zenon
<1>4. (s \o <<m>>) \o <<>> = s \o <<m>>
  OBVIOUS
<1>5. PutLast(s, s \o <<m>>, m)
  BY DEF PutLast
<1> QED
  BY <1>3, <1>4, <1>5, Zenon

\* The least number of a set (by the induction over the naturals).
LEMMA LeastIs ==
  ASSUME NEW S \in SUBSET Nat, S # {}
  PROVE  \E k \in S : \A j \in S : k <= j
<1>1. PICK k \in S : \A j \in S : ~(<<j, k>> \in OpToRel(<, Nat))
  BY WFMin, NatLessThanWellFounded, Zenon
<1>2. \A j \in S : ~(j < k)
  BY <1>1, Zenon DEF OpToRel
<1> QED
  BY <1>2

\* A run of neighbours among some positions, the last one.
LEMMA RunFacts ==
  ASSUME NEW n \in Nat, NEW ix \in SUBSET (1..n), ix # {}
  PROVE  /\ RunStart(ix) \in ix /\ RunEnd(ix) \in ix
         /\ RunStart(ix) <= RunEnd(ix)
         /\ \A x \in RunStart(ix)..RunEnd(ix) : x \in ix
         /\ \A x \in ix : x <= RunEnd(ix)
<1> DEFINE e == RunEnd(ix)
<1>1. e \in ix /\ \A x \in ix : x <= e
  <2> DEFINE D == {d \in Nat : n - d \in ix}
  <2>1. D # {}
    <3>1. PICK x \in ix : TRUE
      OBVIOUS
    <3>2. n - x \in Nat /\ n - (n - x) = x
      OBVIOUS
    <3> QED
      BY <3>2
  <2>2. PICK d \in D : \A c \in D : d <= c
    BY <2>1, LeastIs
  <2>3. ASSUME NEW x \in ix
        PROVE  x <= n - d
    <3>1. n - x \in Nat /\ n - (n - x) = x
      OBVIOUS
    <3>2. n - x \in D
      BY <3>1
    <3> QED
      BY <2>2, <3>2
  <2>4. n - d \in ix
    BY <2>2
  <2>5. \E x \in ix : \A y \in ix : y <= x
    BY <2>3, <2>4
  <2> QED
    BY <2>5 DEF RunEnd
<1> HIDE DEF e
<1>2. \E s \in ix : s..e \subseteq ix /\ s - 1 \notin ix
  <2> DEFINE D == {d \in ix : d..e \subseteq ix}
  <2>1. e \in D
    <3>1. e..e = {e}
      BY <1>1
    <3> QED
      BY <1>1, <3>1
  <2>2. PICK s \in D : \A c \in D : s <= c
    <3>1. D \in SUBSET Nat /\ D # {}
      <4>1. D \subseteq ix /\ ix \subseteq Nat
        OBVIOUS
      <4> HIDE DEF D
      <4> QED
        BY <2>1, <4>1
    <3> QED
      BY <3>1, LeastIs
  <2>3. s - 1 \notin ix
    <3>1. SUFFICES ASSUME s - 1 \in ix PROVE FALSE
      OBVIOUS
    <3>2. \A x \in (s - 1)..e : x = s - 1 \/ x \in s..e
      BY <1>1
    <3>3. s - 1 \in D
      BY <3>1, <3>2
    <3> QED
      BY <2>2, <3>3
  <2> QED
    BY <2>2, <2>3
<1>3. RunStart(ix) \in ix /\ RunStart(ix)..e \subseteq ix
  BY <1>2 DEF RunStart, e
<1> QED
  BY <1>1, <1>3 DEF e

-----------------------------------------------------------------------------
(***************************************************************************)
(* Boxes: who is on which list, and who stands before whom.                *)
(***************************************************************************)

\* A pending message is on one of the lists.
LEMMA PendingOn ==
  ASSUME NEW b \in Box
  PROVE  Pending(b) = On(b, "next-turn") \union On(b, "next-step")
BY DEF Pending, On, Box, Lists

\* AppendTo: m is the last of l.
LEMMA AppendToPlaces ==
  ASSUME NEW b \in Box, NEW l \in Lists, NEW m \in Msg,
         NEW c, c = AppendTo(b, l, m)
  PROVE  /\ c \in Box
         /\ On(c, l) = On(b, l) \union {m}
         /\ \A k \in Lists : k # l => On(c, k) = On(b, k) \ {m}
         /\ \A x, y \in Msg : <<x, y>> \in c.ahead <=>
              \/ <<x, y>> \in b.ahead /\ x # m /\ y # m
              \/ y = m /\ x \in On(b, l) /\ x # m
<1> DEFINE w == [b.where EXCEPT ![m] = l]
           a == AheadWithout(b, {m}) \union ((On(b, l) \ {m}) \X {m})
<1>1. w \in [Msg -> Lists \union {"none"}] /\ a \in SUBSET (Msg \X Msg)
  BY DEF Box, AheadWithout, On
<1>2. c = [b EXCEPT !.where = w, !.ahead = a]
  BY DEF AppendTo, Box
<1>3. \A x, y \in Msg : <<x, y>> \in a <=>
        \/ <<x, y>> \in b.ahead /\ x # m /\ y # m
        \/ y = m /\ x \in On(b, l) /\ x # m
  BY DEF AheadWithout
<1>4. \A n \in Msg : w[n] = IF n = m THEN l ELSE b.where[n]
  BY DEF Box
<1> HIDE DEF w, a
<1>5. c \in Box /\ c.where = w /\ c.ahead = a
  BY <1>1, <1>2 DEF Box
<1> QED
  BY <1>3, <1>4, <1>5 DEF On

\* c is b without the messages of S, as far as the lists go.
Cleared(b, c, S) ==
  /\ c \in Box
  /\ \A l \in Lists : On(c, l) = On(b, l) \ S
  /\ \A x, y \in Msg : <<x, y>> \in c.ahead <=>
       <<x, y>> \in b.ahead /\ x \notin S /\ y \notin S

\* Without takes the messages of S off the lists.
LEMMA WithoutPlaces ==
  ASSUME NEW b \in Box, NEW S, NEW c, c = Without(b, S)
  PROVE  Cleared(b, c, S)
<1> DEFINE w == [m \in Msg |-> IF m \in S THEN "none" ELSE b.where[m]]
           a == AheadWithout(b, S)
<1>1. w \in [Msg -> Lists \union {"none"}] /\ a \in SUBSET (Msg \X Msg)
  BY DEF Box, AheadWithout
<1>2. c = [b EXCEPT !.where = w, !.ahead = a]
  BY DEF Without, Box
<1>3. \A x, y \in Msg : <<x, y>> \in a <=>
        <<x, y>> \in b.ahead /\ x \notin S /\ y \notin S
  BY DEF AheadWithout
<1>4. \A m \in Msg : w[m] = IF m \in S THEN "none" ELSE b.where[m]
  OBVIOUS
<1> HIDE DEF w, a
<1>5. c \in Box /\ c.where = w /\ c.ahead = a
  BY <1>1, <1>2 DEF Box
<1>6. "none" \notin Lists
  BY DEF Lists
<1> QED
  BY <1>3, <1>4, <1>5, <1>6 DEF On, Cleared

\* So does Discard.
LEMMA DiscardPlaces ==
  ASSUME NEW b \in Box, NEW S \in SUBSET Msg, NEW c, c = Discard(b, S)
  PROVE  Cleared(b, c, S)
<1> DEFINE w == Without(b, S)
<1>1. Cleared(b, w, S)
  BY WithoutPlaces
<1>2. c = [w EXCEPT !.held = w.held \ S, !.discarded = w.discarded \union S]
  BY DEF Discard
<1> HIDE DEF w
<1>3. c \in Box /\ c.where = w.where /\ c.ahead = w.ahead
  BY <1>1, <1>2 DEF Cleared, Box
<1> QED
  BY <1>1, <1>3 DEF Cleared, On

\* So does a commit of a claim of S, whatever enters.
LEMMA CommitPlaces ==
  ASSUME NEW b \in Box, NEW S \in SUBSET Pending(b), NEW E \in SUBSET S,
         NEW c, c = Commit([b EXCEPT !.reserved = S], E)
  PROVE  Cleared(b, c, S)
<1> DEFINE r == [b EXCEPT !.reserved = S]
           s == Settled(r)
           w == Without(s, E)
<1>1. S \subseteq Msg
  BY DEF Pending
<1>2. /\ r \in Box /\ r.where = b.where /\ r.ahead = b.ahead /\ r.reserved = S
  BY <1>1 DEF Box
<1>3. /\ s \in Box /\ s.where = b.where /\ s.ahead = b.ahead
  BY <1>2 DEF Settled, Box
<1>4. Pending(r) = Pending(b)
  BY <1>2 DEF Pending
<1> HIDE DEF r
<1>5. r.reserved \intersect Pending(r) = S
  BY <1>2, <1>4
<1>6. c = Discard(w, S \ E)
  <2>1. Commit(r, E) = Discard(Without(Settled(r), S \intersect E), S \ E)
    BY <1>5 DEF Commit
  <2>2. S \intersect E = E
    OBVIOUS
  <2> QED
    BY <2>1, <2>2 DEF r
<1> HIDE DEF s
<1>7. Cleared(s, w, E)
  BY <1>3, WithoutPlaces
<1> HIDE DEF w
<1>8. Cleared(w, c, S \ E)
  <2>1. w \in Box /\ S \ E \in SUBSET Msg
    BY <1>1, <1>7 DEF Cleared
  <2> QED
    BY <1>6, <2>1, DiscardPlaces
<1> QED
  BY <1>3, <1>7, <1>8 DEF Cleared, On

-----------------------------------------------------------------------------
(***************************************************************************)
(* The invariant: an operation begins.                                     *)
(***************************************************************************)

\* Between operations the box is what the lists and the log say.
LEMMA AtRest ==
  ASSUME IInv, todo = <<>>
  PROVE  /\ cursor = NoCursor
         /\ \A kinds : IdsOf(kinds, todo) = {}
         /\ \A l \in Lists : On(box, l) = Pend(l)
         /\ sent = Pending(box) \union entered \union discarded
         /\ Pending(box) \intersect (entered \union discarded) = {}
         /\ entered \intersect discarded = {}
<1>1. \A kinds : IdsOf(kinds, todo) = {}
  BY IdsOfNothing
<1>2. cursor = NoCursor
  BY DEF IInv, CursorSound
<1>3. /\ Doomed = {} /\ Coming = {} /\ Naming = {} /\ Entering = {}
      /\ \A l : Arriving(l) = {}
  BY <1>1 DEF Doomed, Coming, Arriving, Naming, Entering
<1>4. ASSUME NEW l \in Lists
      PROVE  On(box, l) = Pend(l)
  <2>1. On(box, l) = (Pend(l) \ Doomed) \union Arriving(l)
    BY DEF IInv, ListsSound
  <2>2. Doomed = {} /\ Arriving(l) = {}
    BY <1>3
  <2> QED
    BY <2>1, <2>2
<1> QED
  BY <1>1, <1>2, <1>3, <1>4 DEF IInv, LogSound

\* What an operation's lines and its box must have to do with each other: on a
\* list, of which it removes D and to which it brings A, and in the log, where
\* it sends C, enters E and discards N.
OpensOn(l, D, A, b) ==
  /\ On(b, l) = (On(box, l) \ D) \union A
  /\ \A x, y \in On(box, l) \ D : <<x, y>> \in b.ahead <=> <<x, y>> \in box.ahead
  /\ \A x \in On(box, l) \ D, m \in A :
       <<x, m>> \in b.ahead /\ <<m, x>> \notin b.ahead
  /\ \A m \in A : <<m, m>> \notin b.ahead

OpensLog(C, N, E, b) ==
  /\ sent \union C = Pending(b) \union entered \union E \union discarded \union N
  /\ Pending(b) \intersect (entered \union E \union discarded \union N) = {}
  /\ (entered \union E) \intersect (discarded \union N) = {}

Opens(lines, b) ==
  LET D == IdsOf(Kind("remove"), lines)
      C == IdsOf(Kind("insert"), lines)
  IN  /\ lines \in Seq(Line) /\ LinesSound(lines) /\ b \in Box
      /\ C \intersect Pending(box) \subseteq D
      /\ \A l \in Lists : OpensOn(l, D, IdsOf({<<"insert", l>>}, lines), b)
      /\ OpensLog(C, IdsOf(Kind("discarded"), lines),
                  IdsOf(Kind("user/message"), lines), b)

\* An operation that opens so keeps the invariant.
LEMMA BeginKeeps ==
  ASSUME IInv, NEW lines, NEW b, Begin(lines, b), Opens(lines, b)
  PROVE  IInv'
<1> DEFINE D == IdsOf(Kind("remove"), lines)
           C == IdsOf(Kind("insert"), lines)
           N == IdsOf(Kind("discarded"), lines)
           E == IdsOf(Kind("user/message"), lines)
<1>9. /\ lines \in Seq(Line) /\ LinesSound(lines) /\ b \in Box
      /\ C \intersect Pending(box) \subseteq D
      /\ \A l \in Lists : OpensOn(l, D, IdsOf({<<"insert", l>>}, lines), b)
      /\ OpensLog(C, N, E, b)
  BY DEF Opens
<1>1. /\ todo = <<>> /\ todo' = lines /\ box' = b /\ before' = lists
      /\ UNCHANGED <<lists, cursor, sent, entered, discarded>>
  BY DEF Begin
<1>2. /\ Doomed' = D /\ Coming' = C /\ Naming' = N /\ Entering' = E
      /\ \A l : Arriving(l)' = IdsOf({<<"insert", l>>}, lines)
      /\ \A l : Pend(l)' = Pend(l)
  BY <1>1 DEF Doomed, Coming, Naming, Entering, Arriving, Pend
<1> HIDE DEF D, C, N, E
<1>3. /\ cursor = NoCursor /\ \A l \in Lists : On(box, l) = Pend(l)
      /\ Doomed = {}
  BY <1>1, AtRest DEF Doomed
<1>4. TypeOK'
  BY <1>1, <1>9 DEF IInv, TypeOK
<1>5. LinesSound(todo)'
  BY <1>1, <1>9 DEF LinesSound
<1>6. ListsSound'
  <2>1. Pending(box) = Pend("next-turn") \union Pend("next-step")
    BY <1>3, PendingOn DEF IInv, TypeOK, Lists
  <2>2. /\ \A l \in Lists : IsInjective(lists[l])
        /\ Pend("next-turn") \intersect Pend("next-step") = {}
    BY DEF IInv, ListsSound
  <2>3. ASSUME NEW l \in Lists, NEW i \in 1..Len(lists[l]), NEW j \in 1..Len(lists[l]),
               lists[l][i] \notin D, lists[l][j] \notin D
        PROVE  i < j <=> <<lists[l][i], lists[l][j]>> \in b.ahead
    <3>1. lists[l][i] \in Pend(l) /\ lists[l][j] \in Pend(l)
      BY DEF IInv, TypeOK, Pend, ToSet
    <3>2. i < j <=> <<lists[l][i], lists[l][j]>> \in box.ahead
      BY <1>3 DEF IInv, ListsSound
    <3>3. lists[l][i] \in On(box, l) \ D /\ lists[l][j] \in On(box, l) \ D
      BY <1>3, <2>3, <3>1
    <3>4. \A x, y \in On(box, l) \ D :
            <<x, y>> \in b.ahead <=> <<x, y>> \in box.ahead
      BY <1>9 DEF OpensOn
    <3> QED
      BY <3>2, <3>3, <3>4
  <2>4. \A l \in Lists :
          /\ On(b, l) = (Pend(l) \ D) \union IdsOf({<<"insert", l>>}, lines)
          /\ \A a \in Pend(l) \ D, m \in IdsOf({<<"insert", l>>}, lines) :
               <<a, m>> \in b.ahead /\ <<m, a>> \notin b.ahead
          /\ \A m \in IdsOf({<<"insert", l>>}, lines) : <<m, m>> \notin b.ahead
    BY <1>3, <1>9, Zenon DEF OpensOn
  <2> QED
    BY <1>1, <1>2, <1>9, <2>1, <2>2, <2>3, <2>4 DEF ListsSound
<1>7. LogSound'
  BY <1>1, <1>2, <1>9 DEF LogSound, OpensLog
<1>8. CursorSound' /\ OthersKept'
  BY <1>1, <1>3 DEF CursorSound, OthersKept
<1> QED
  BY <1>4, <1>5, <1>6, <1>7, <1>8 DEF IInv

\* What a line adds to what the lines speak of.
Adds(kinds, x) == IF <<x.op, x.list>> \in kinds THEN x.ids ELSE {}

\* An operation of one line.
LEMMA OneLine ==
  ASSUME NEW kinds, NEW x \in Line
  PROVE  <<x>> \in Seq(Line) /\ IdsOf(kinds, <<x>>) = Adds(kinds, x)
<1>1. <<x>> \o <<>> = <<x>> /\ <<>> \in Seq(Line) /\ <<x>> \in Seq(Line)
  OBVIOUS
<1>2. IdsOf(kinds, <<x>> \o <<>>) = Adds(kinds, x) \union IdsOf(kinds, <<>>)
  BY <1>1, IdsOfCons DEF Adds
<1> QED
  BY <1>1, <1>2, IdsOfNothing

\* A line before others, in terms of what it adds.
LEMMA MoreLines ==
  ASSUME NEW kinds, NEW x \in Line, NEW s \in Seq(Line)
  PROVE  /\ <<x>> \o s \in Seq(Line)
         /\ IdsOf(kinds, <<x>> \o s) = Adds(kinds, x) \union IdsOf(kinds, s)
<1>1. <<x>> \o s \in Seq(Line)
  OBVIOUS
<1>2. IdsOf(kinds, <<x>> \o s) = Adds(kinds, x) \union IdsOf(kinds, s)
  BY IdsOfCons, Zenon DEF Adds
<1> QED
  BY <1>1, <1>2

\* A removal before lines that are in order.
LEMMA RemovalFirst ==
  ASSUME NEW x \in Line, x.op = "remove", NEW s \in Seq(Line), LinesSound(s),
         IdsOf(Kind("insert"), s) \subseteq x.ids
  PROVE  LinesSound(<<x>> \o s)
<1> DEFINE t == <<x>> \o s
<1>1. /\ t \in Seq(Line) /\ Len(t) = Len(s) + 1 /\ t[1] = x
      /\ \A i \in 2..Len(t) : i - 1 \in 1..Len(s) /\ t[i] = s[i - 1]
  OBVIOUS
<1>2. IdsOf(Kind("insert"), t) = IdsOf(Kind("insert"), s)
  <2>1. IdsOf(Kind("insert"), t) =
          Adds(Kind("insert"), x) \union IdsOf(Kind("insert"), s)
    BY MoreLines, Zenon
  <2>2. Adds(Kind("insert"), x) = {}
    BY LineKinds DEF Adds
  <2> HIDE DEF t
  <2> QED
    BY <2>1, <2>2
<1> HIDE DEF t
<1>3. ASSUME NEW i \in 1..Len(t)
      PROVE  /\ t[i].op = "remove" => \A k \in 1..i : t[k].op = "remove"
             /\ t[i].op = "remove" => IdsOf(Kind("insert"), t) \subseteq t[i].ids
             /\ t[i].op = "insert" =>
                  i = Len(t) /\ t[i].list \in Lists /\ \E m \in Msg : t[i].ids = {m}
             /\ t[i].op \in {"discarded", "user/message"} => t[i].ids # {}
  <2>1. CASE i = 1
    BY <1>1, <1>2, <2>1
  <2>2. CASE i # 1
    <3>1. /\ i \in 2..Len(t) /\ i - 1 \in 1..Len(s) /\ t[i] = s[i - 1]
      BY <1>1, <2>2
    <3>2. /\ s[i - 1].op = "remove" => \A k \in 1..(i - 1) : s[k].op = "remove"
          /\ s[i - 1].op = "remove" =>
               IdsOf(Kind("insert"), s) \subseteq s[i - 1].ids
          /\ s[i - 1].op = "insert" =>
               /\ i - 1 = Len(s) /\ s[i - 1].list \in Lists
               /\ \E m \in Msg : s[i - 1].ids = {m}
          /\ s[i - 1].op \in {"discarded", "user/message"} => s[i - 1].ids # {}
      BY <3>1 DEF LinesSound
    <3>3. ASSUME t[i].op = "remove", NEW k \in 1..i
          PROVE  t[k].op = "remove"
      <4>1. CASE k = 1
        BY <1>1, <4>1
      <4>2. CASE k # 1
        <5>1. k \in 2..Len(t) /\ k - 1 \in 1..(i - 1) /\ t[k] = s[k - 1]
          BY <1>1, <3>1, <4>2
        <5> QED
          BY <3>1, <3>2, <3>3, <5>1
      <4> QED
        BY <4>1, <4>2
    <3>4. t[i].op = "insert" => i = Len(t)
      BY <1>1, <3>1, <3>2
    <3> QED
      BY <1>2, <3>1, <3>2, <3>3, <3>4
  <2> QED
    BY <2>1, <2>2
<1> QED
  BY <1>3 DEF LinesSound, t

\* A record of a discard or of what enters, before lines of that sort.
LEMMA RecordFirst ==
  ASSUME NEW x \in Line, x.op \in {"discarded", "user/message"}, x.ids # {},
         NEW s \in Seq(Line), LinesSound(s),
         \A i \in 1..Len(s) : s[i].op # "remove"
  PROVE  LinesSound(<<x>> \o s)
<1> DEFINE t == <<x>> \o s
<1>1. /\ t \in Seq(Line) /\ Len(t) = Len(s) + 1 /\ t[1] = x
      /\ \A i \in 2..Len(t) : i - 1 \in 1..Len(s) /\ t[i] = s[i - 1]
  OBVIOUS
<1> HIDE DEF t
<1>2. \A i \in 1..Len(t) : t[i].op # "remove"
  <2>1. \A i \in 1..Len(t) : i = 1 \/ i \in 2..Len(t)
    BY <1>1
  <2> QED
    BY <1>1, <2>1
<1>3. ASSUME NEW i \in 1..Len(t)
      PROVE  /\ t[i].op = "insert" =>
                  i = Len(t) /\ t[i].list \in Lists /\ \E m \in Msg : t[i].ids = {m}
             /\ t[i].op \in {"discarded", "user/message"} => t[i].ids # {}
  <2>1. CASE i = 1
    BY <1>1, <2>1
  <2>2. CASE i # 1
    <3>1. i \in 2..Len(t) /\ i - 1 \in 1..Len(s) /\ t[i] = s[i - 1]
      BY <1>1, <2>2
    <3>2. /\ s[i - 1].op = "insert" =>
               /\ i - 1 = Len(s) /\ s[i - 1].list \in Lists
               /\ \E m \in Msg : s[i - 1].ids = {m}
          /\ s[i - 1].op \in {"discarded", "user/message"} => s[i - 1].ids # {}
      BY <3>1 DEF LinesSound
    <3> QED
      BY <1>1, <3>1, <3>2
  <2> QED
    BY <2>1, <2>2
<1> QED
  BY <1>2, <1>3 DEF LinesSound, t

\* No lines at all are in order.
LEMMA NoLines ==
  ASSUME NEW s, s = <<>>
  PROVE  /\ s \in Seq(Line) /\ LinesSound(s) /\ \A i \in 1..Len(s) : FALSE
         /\ \A kinds : IdsOf(kinds, s) = {}
BY DEF LinesSound, IdsOf

\* Two lines before others are one line before another before others.
LEMMA LinesAssociate ==
  ASSUME NEW x \in Line, NEW y \in Line, NEW u \in Seq(Line)
  PROVE  <<x, y>> \o u = <<x>> \o (<<y>> \o u)
<1> DEFINE v == <<y>> \o u
           p == <<x, y>> \o u
           q == <<x>> \o v
<1>1. /\ v \in Seq(Line) /\ Len(v) = Len(u) + 1 /\ v[1] = y
      /\ \A i \in 2..(Len(u) + 1) : v[i] = u[i - 1]
  OBVIOUS
<1>2. /\ p \in Seq(Line) /\ Len(p) = Len(u) + 2 /\ p[1] = x /\ p[2] = y
      /\ \A i \in 3..(Len(u) + 2) : p[i] = u[i - 2]
  OBVIOUS
<1> HIDE DEF v, p
<1>3. /\ q \in Seq(Line) /\ Len(q) = Len(v) + 1 /\ q[1] = x
      /\ \A i \in 2..(Len(v) + 1) : q[i] = v[i - 1]
  BY <1>1
<1> HIDE DEF q
<1>4. ASSUME NEW i \in 1..(Len(u) + 2)
      PROVE  p[i] = q[i]
  <2>1. CASE i = 1
    BY <1>2, <1>3, <2>1
  <2>2. CASE i = 2
    BY <1>1, <1>2, <1>3, <2>2
  <2>3. CASE i \in 3..(Len(u) + 2)
    <3>1. i - 1 \in 2..(Len(u) + 1) /\ i \in 2..(Len(v) + 1) /\ (i - 1) - 1 = i - 2
      BY <1>1, <2>3
    <3>2. q[i] = v[i - 1] /\ v[i - 1] = u[i - 2]
      BY <1>1, <1>3, <3>1
    <3> QED
      BY <1>2, <2>3, <3>2
  <2> QED
    BY <2>1, <2>2, <2>3
<1>5. p = q
  <2>1. Len(p) = Len(q) /\ Len(p) = Len(u) + 2
    BY <1>1, <1>2, <1>3
  <2>2. /\ DOMAIN p = 1..(Len(u) + 2) /\ DOMAIN q = 1..(Len(u) + 2)
        /\ p = [i \in DOMAIN p |-> p[i]] /\ q = [i \in DOMAIN q |-> q[i]]
    BY <1>2, <1>3, <2>1
  <2> QED
    BY <1>4, <2>2
<1> QED
  BY <1>5 DEF p, q, v

\* One insertion is in order.
LEMMA InsertLineSound ==
  ASSUME NEW l \in Lists, NEW m \in Msg
  PROVE  LinesSound(<<InsertLine(l, m)>>)
<1> DEFINE x == InsertLine(l, m)
           s == <<x>>
<1>1. x \in Line /\ x.op = "insert" /\ x.list = l /\ x.ids = {m}
  BY LineFacts
<1> HIDE DEF x
<1>2. Len(s) = 1 /\ s[1] = x
  OBVIOUS
<1> HIDE DEF s
<1> QED
  BY <1>1, <1>2 DEF LinesSound, s, x

\* What each kind of line adds.
LEMMA WhatAdds ==
  ASSUME NEW x \in Line, NEW op
  PROVE  /\ Adds(Kind(op), x) = IF x.op = op THEN x.ids ELSE {}
         /\ \A l : x.op # "insert" => Adds({<<"insert", l>>}, x) = {}
         /\ \A l : x.op = "insert" =>
              Adds({<<"insert", l>>}, x) = IF x.list = l THEN x.ids ELSE {}
BY LineKinds DEF Adds

\* Insert, the splice of append and prepend.
LEMMA InsertKeeps ==
  ASSUME IInv, NEW l \in Lists, NEW m \in Msg, Insert(l, m)
  PROVE  IInv'
<1> DEFINE x == InsertLine(l, m)
           lines == <<x>>
           b == AppendTo(box, l, m)
<1>1. /\ m \notin sent /\ Begin(lines, b) /\ todo = <<>> /\ box \in Box
  BY DEF Insert, Begin, IInv, TypeOK
<1>2. /\ x \in Line /\ x.op = "insert" /\ x.list = l /\ x.ids = {m}
      /\ LinesSound(lines)
  BY LineFacts, InsertLineSound
<1>3. /\ lines \in Seq(Line)
      /\ IdsOf(Kind("remove"), lines) = {} /\ IdsOf(Kind("insert"), lines) = {m}
      /\ IdsOf(Kind("discarded"), lines) = {}
      /\ IdsOf(Kind("user/message"), lines) = {}
      /\ IdsOf({<<"insert", l>>}, lines) = {m}
      /\ \A k \in Lists : k # l => IdsOf({<<"insert", k>>}, lines) = {}
  <2> HIDE DEF x
  <2>1. lines \in Seq(Line) /\ \A kinds : IdsOf(kinds, lines) = Adds(kinds, x)
    BY <1>2, OneLine, Zenon
  <2>2. /\ Adds(Kind("remove"), x) = {} /\ Adds(Kind("insert"), x) = {m}
        /\ Adds(Kind("discarded"), x) = {} /\ Adds(Kind("user/message"), x) = {}
        /\ Adds({<<"insert", l>>}, x) = {m}
        /\ \A k \in Lists : k # l => Adds({<<"insert", k>>}, x) = {}
    BY <1>2, WhatAdds
  <2> HIDE DEF lines
  <2> QED
    BY <2>1, <2>2
<1>4. /\ b \in Box /\ On(b, l) = On(box, l) \union {m}
      /\ \A k \in Lists : k # l => On(b, k) = On(box, k) \ {m}
      /\ \A y, z \in Msg : <<y, z>> \in b.ahead <=>
           \/ <<y, z>> \in box.ahead /\ y # m /\ z # m
           \/ z = m /\ y \in On(box, l) /\ y # m
  BY <1>1, AppendToPlaces
<1>5. /\ sent = Pending(box) \union entered \union discarded
      /\ Pending(box) \intersect (entered \union discarded) = {}
      /\ entered \intersect discarded = {}
  BY <1>1, AtRest
<1>6. Pending(b) = Pending(box) \union {m}
  BY <1>1, <1>4, PendingOn DEF Lists
<1>7. m \notin Pending(box) /\ \A k \in Lists : m \notin On(box, k) /\ On(box, k) \subseteq Msg
  BY <1>1, <1>5, PendingOn DEF Lists, On
<1> HIDE DEF lines, b
<1>8. ASSUME NEW k \in Lists
      PROVE  OpensOn(k, {}, IdsOf({<<"insert", k>>}, lines), b)
  <2>1. \A y, z \in On(box, k) : <<y, z>> \in b.ahead <=> <<y, z>> \in box.ahead
    BY <1>4, <1>7
  <2>2. CASE k = l
    <3>1. IdsOf({<<"insert", k>>}, lines) = {m}
      BY <1>3, <2>2
    <3>2. On(b, k) = On(box, k) \union {m}
      BY <1>4, <2>2
    <3>3. \A y \in On(box, k) : <<y, m>> \in b.ahead /\ <<m, y>> \notin b.ahead
      BY <1>4, <1>7, <2>2
    <3>4. <<m, m>> \notin b.ahead
      BY <1>4
    <3> QED
      BY <2>1, <3>1, <3>2, <3>3, <3>4 DEF OpensOn
  <2>3. CASE k # l
    BY <1>3, <1>4, <1>7, <2>1, <2>3 DEF OpensOn
  <2> QED
    BY <2>2, <2>3
<1>9. OpensLog({m}, {}, {}, b)
  BY <1>1, <1>5, <1>6, <1>7 DEF OpensLog
<1>10. b \in Box /\ lines \in Seq(Line) /\ Begin(lines, b) /\ LinesSound(lines)
  BY <1>1, <1>2, <1>3, <1>4 DEF lines, b
<1>11. Opens(lines, b)
  BY <1>3, <1>7, <1>8, <1>9, <1>10 DEF Opens
<1> QED
  BY <1>10, <1>11, BeginKeeps

\* Promote: a removal from next-turn, then an insertion into next-step.
LEMMA PromoteKeeps ==
  ASSUME IInv, NEW m \in Msg, Promote(m)
  PROVE  IInv'
<1> DEFINE l == "next-step"
           x == RemoveRuns({m})
           y == InsertLine(l, m)
           lines == <<x, y>>
           b == AppendTo(box, l, m)
<1>1. /\ m \in Pend("next-turn") /\ Begin(lines, b) /\ todo = <<>> /\ box \in Box
      /\ l \in Lists
  BY DEF Promote, Begin, IInv, TypeOK, Lists
<1>2. /\ x \in Line /\ x.op = "remove" /\ x.ids = {m}
      /\ y \in Line /\ y.op = "insert" /\ y.list = l /\ y.ids = {m}
      /\ LinesSound(<<y>>)
  BY <1>1, LineFacts, InsertLineSound
<1> HIDE DEF x, y
<1>3. /\ lines \in Seq(Line) /\ lines = <<x>> \o <<y>>
      /\ \A kinds : IdsOf(kinds, lines) = Adds(kinds, x) \union Adds(kinds, y)
      /\ \A kinds : IdsOf(kinds, <<y>>) = Adds(kinds, y)
  <2>1. lines = <<x>> \o <<y>> /\ <<y>> \in Seq(Line)
    <3> DEFINE n == <<>>
    <3>1. <<x, y>> = <<x>> \o <<y>>
      <4>1. n \in Seq(Line)
        OBVIOUS
      <4>2. <<x, y>> \o n = <<x, y>> /\ <<y>> \o n = <<y>>
        BY <1>2
      <4> HIDE DEF n
      <4>3. <<x, y>> \o n = <<x>> \o (<<y>> \o n)
        BY <1>2, <4>1, LinesAssociate
      <4> QED
        BY <4>2, <4>3
    <3>2. <<y>> \in Seq(Line)
      BY <1>2
    <3> QED
      BY <3>1, <3>2
  <2>2. \A kinds : IdsOf(kinds, <<y>>) = Adds(kinds, y)
    BY <1>2, OneLine, Zenon
  <2>3. \A kinds : /\ <<x>> \o <<y>> \in Seq(Line)
                   /\ IdsOf(kinds, <<x>> \o <<y>>) =
                        Adds(kinds, x) \union IdsOf(kinds, <<y>>)
    BY <1>2, <2>1, MoreLines, Zenon
  <2> HIDE DEF lines
  <2> QED
    BY <2>1, <2>2, <2>3, Zenon
<1>4. /\ Adds(Kind("remove"), x) = {m} /\ Adds(Kind("remove"), y) = {}
      /\ Adds(Kind("insert"), x) = {} /\ Adds(Kind("insert"), y) = {m}
      /\ Adds(Kind("discarded"), x) = {} /\ Adds(Kind("discarded"), y) = {}
      /\ Adds(Kind("user/message"), x) = {} /\ Adds(Kind("user/message"), y) = {}
      /\ \A k : Adds({<<"insert", k>>}, x) = {}
      /\ Adds({<<"insert", l>>}, y) = {m}
      /\ \A k : k # l => Adds({<<"insert", k>>}, y) = {}
  BY <1>2, WhatAdds
<1>5. LinesSound(lines)
  BY <1>2, <1>3, <1>4, RemovalFirst
<1>6. /\ b \in Box /\ On(b, l) = On(box, l) \union {m}
      /\ \A k \in Lists : k # l => On(b, k) = On(box, k) \ {m}
      /\ \A u, v \in Msg : <<u, v>> \in b.ahead <=>
           \/ <<u, v>> \in box.ahead /\ u # m /\ v # m
           \/ v = m /\ u \in On(box, l) /\ u # m
  BY <1>1, AppendToPlaces
<1>7. /\ sent = Pending(box) \union entered \union discarded
      /\ Pending(box) \intersect (entered \union discarded) = {}
      /\ entered \intersect discarded = {}
      /\ On(box, "next-turn") = Pend("next-turn")
  BY <1>1, AtRest DEF Lists
<1>8. /\ m \in On(box, "next-turn") /\ m \in Pending(box)
      /\ m \notin On(box, l) /\ \A k \in Lists : On(box, k) \subseteq Msg
  BY <1>1, <1>7, PendingOn DEF On
<1>9. Pending(b) = Pending(box)
  <2>1. On(b, "next-turn") = On(box, "next-turn") \ {m}
    BY <1>6 DEF Lists
  <2>2. /\ Pending(b) = On(b, "next-turn") \union On(b, "next-step")
        /\ Pending(box) = On(box, "next-turn") \union On(box, "next-step")
    BY <1>1, <1>6, PendingOn
  <2>3. On(b, "next-step") = On(box, "next-step") \union {m}
    BY <1>6
  <2> HIDE DEF b
  <2> QED
    BY <1>8, <2>1, <2>2, <2>3
<1>10. /\ IdsOf(Kind("remove"), lines) = {m} /\ IdsOf(Kind("insert"), lines) = {m}
       /\ IdsOf(Kind("discarded"), lines) = {}
       /\ IdsOf(Kind("user/message"), lines) = {}
       /\ IdsOf({<<"insert", l>>}, lines) = {m}
       /\ \A k \in Lists : k # l => IdsOf({<<"insert", k>>}, lines) = {}
  BY <1>3, <1>4
<1> HIDE DEF lines, b
<1>11. ASSUME NEW k \in Lists
       PROVE  OpensOn(k, {m}, IdsOf({<<"insert", k>>}, lines), b)
  <2>1. \A u, v \in On(box, k) \ {m} : <<u, v>> \in b.ahead <=> <<u, v>> \in box.ahead
    BY <1>6, <1>8
  <2>2. CASE k = l
    <3>1. IdsOf({<<"insert", k>>}, lines) = {m}
      BY <1>10, <2>2
    <3>2. On(b, k) = (On(box, k) \ {m}) \union {m}
      BY <1>6, <1>8, <2>2
    <3>3. \A u \in On(box, k) \ {m} : <<u, m>> \in b.ahead /\ <<m, u>> \notin b.ahead
      BY <1>6, <1>8, <2>2
    <3>4. <<m, m>> \notin b.ahead
      BY <1>6
    <3> QED
      BY <2>1, <3>1, <3>2, <3>3, <3>4 DEF OpensOn
  <2>3. CASE k # l
    BY <1>6, <1>10, <2>1, <2>3 DEF OpensOn
  <2> QED
    BY <2>2, <2>3
<1>12. OpensLog({m}, {}, {}, b)
  BY <1>7, <1>8, <1>9 DEF OpensLog
<1>13. Opens(lines, b)
  BY <1>3, <1>5, <1>6, <1>10, <1>11, <1>12 DEF Opens
<1> QED
  BY <1>1, <1>13, BeginKeeps DEF lines, b

\* An operation that takes the messages of S off the lists, E into the log and
\* N away.
LEMMA TakeKeeps ==
  ASSUME IInv, NEW lines \in Seq(Line), NEW b, Begin(lines, b), LinesSound(lines),
         NEW S \in SUBSET Pending(box), Cleared(box, b, S),
         NEW N, NEW E, S = N \union E, N \intersect E = {},
         IdsOf(Kind("remove"), lines) = S,
         \A l : IdsOf({<<"insert", l>>}, lines) = {},
         IdsOf(Kind("insert"), lines) = {},
         IdsOf(Kind("discarded"), lines) = N,
         IdsOf(Kind("user/message"), lines) = E
  PROVE  IInv'
<1>1. todo = <<>> /\ box \in Box /\ b \in Box
  BY DEF Begin, IInv, TypeOK, Cleared
<1>2. /\ sent = Pending(box) \union entered \union discarded
      /\ Pending(box) \intersect (entered \union discarded) = {}
      /\ entered \intersect discarded = {}
  BY <1>1, AtRest
<1>3. Pending(b) = Pending(box) \ S
  BY <1>1, PendingOn DEF Cleared, Lists
<1>4. ASSUME NEW l \in Lists
      PROVE  OpensOn(l, S, {}, b)
  <2>1. On(box, l) \subseteq Msg
    BY DEF On
  <2>2. On(b, l) = On(box, l) \ S
    BY DEF Cleared
  <2>3. \A x, y \in On(box, l) \ S : <<x, y>> \in b.ahead <=> <<x, y>> \in box.ahead
    BY <2>1 DEF Cleared
  <2> QED
    BY <2>2, <2>3 DEF OpensOn
<1>5. OpensLog({}, N, E, b)
  BY <1>2, <1>3 DEF OpensLog
<1>6. Opens(lines, b)
  BY <1>1, <1>4, <1>5 DEF Opens
<1> QED
  BY <1>6, BeginKeeps

\* Between operations the lists hold the pending messages.
LEMMA AllPending ==
  ASSUME IInv, todo = <<>>
  PROVE  Pend("next-turn") \union Pend("next-step") = Pending(box)
BY AtRest, PendingOn DEF IInv, TypeOK, Lists

\* The lines of a removal that takes nothing else along, before other lines.
DiscardsBefore(S, u, t) ==
  /\ t \in Seq(Line) /\ LinesSound(t)
  /\ IdsOf(Kind("remove"), t) = S \union IdsOf(Kind("remove"), u)
  /\ \A l : IdsOf({<<"insert", l>>}, t) = IdsOf({<<"insert", l>>}, u)
  /\ IdsOf(Kind("insert"), t) = IdsOf(Kind("insert"), u)
  /\ IdsOf(Kind("discarded"), t) = S \union IdsOf(Kind("discarded"), u)
  /\ IdsOf(Kind("user/message"), t) = IdsOf(Kind("user/message"), u)

\* The lines of discardMessages, before lines of what enters.
LEMMA DiscardLinesFacts ==
  ASSUME NEW S \in SUBSET Msg, NEW u \in Seq(Line), LinesSound(u),
         \A i \in 1..Len(u) : u[i].op = "user/message",
         NEW t, t = DiscardLines(S) \o u
  PROVE  DiscardsBefore(S, u, t)
<1>1. CASE S = {}
  <2>1. t = u
    BY <1>1 DEF DiscardLines
  <2> QED
    BY <1>1, <2>1 DEF DiscardsBefore
<1>2. CASE S # {}
  <2> DEFINE x == RemoveRuns(S)
             y == Discarded(S)
             v == <<y>> \o u
  <2>1. /\ x \in Line /\ x.op = "remove" /\ x.ids = S
        /\ y \in Line /\ y.op = "discarded" /\ y.ids = S
    <3>1. Msg # {}
      BY <1>2
    <3>2. PICK m \in Msg : TRUE
      BY <3>1
    <3> QED
      BY LineFacts DEF Lists
  <2>2. DiscardLines(S) = <<x, y>>
    BY <1>2 DEF DiscardLines
  <2> HIDE DEF x, y
  <2>3. t = <<x>> \o v /\ v \in Seq(Line)
    <3>1. v \in Seq(Line)
      BY <2>1
    <3> QED
      BY <2>1, <2>2, <3>1, LinesAssociate
  <2>4. LinesSound(v)
    BY <1>2, <2>1, RecordFirst
  <2>5. \A kinds : IdsOf(kinds, v) = Adds(kinds, y) \union IdsOf(kinds, u)
    BY <2>1, MoreLines, Zenon
  <2>6. \A kinds : /\ <<x>> \o v \in Seq(Line)
                   /\ IdsOf(kinds, <<x>> \o v) = Adds(kinds, x) \union IdsOf(kinds, v)
    BY <2>1, <2>3, MoreLines, Zenon
  <2>7. /\ Adds(Kind("remove"), x) = S /\ Adds(Kind("remove"), y) = {}
        /\ Adds(Kind("insert"), x) = {} /\ Adds(Kind("insert"), y) = {}
        /\ Adds(Kind("discarded"), x) = {} /\ Adds(Kind("discarded"), y) = S
        /\ Adds(Kind("user/message"), x) = {} /\ Adds(Kind("user/message"), y) = {}
        /\ \A k : Adds({<<"insert", k>>}, x) = {}
        /\ \A k : Adds({<<"insert", k>>}, y) = {}
    BY <2>1, WhatAdds
  <2>8. IdsOf(Kind("insert"), u) = {}
    <3>1. \A i \in 1..Len(u) : u[i] \in Line
      OBVIOUS
    <3>2. \A i \in 1..Len(u) : <<u[i].op, u[i].list>> \notin Kind("insert")
      BY <3>1, LineKinds
    <3> QED
      BY <3>2 DEF IdsOf
  <2> HIDE DEF v
  <2>9. LinesSound(<<x>> \o v)
    BY <2>1, <2>3, <2>4, <2>5, <2>7, <2>8, RemovalFirst
  <2> QED
    BY <2>3, <2>5, <2>6, <2>7, <2>9 DEF DiscardsBefore
<1> QED
  BY <1>1, <1>2

\* DiscardSome, the lines of discardMessages.
LEMMA DiscardSomeKeeps ==
  ASSUME IInv, NEW S \in SUBSET Msg, DiscardSome(S)
  PROVE  IInv'
<1> DEFINE lines == DiscardLines(S)
           b == Discard(box, S)
<1>1. /\ Begin(lines, b) /\ todo = <<>> /\ box \in Box /\ S \in SUBSET Pending(box)
  <2>1. todo = <<>> /\ S \subseteq Pend("next-turn") \union Pend("next-step")
    BY DEF DiscardSome, Begin
  <2> QED
    BY <2>1, AllPending DEF DiscardSome, IInv, TypeOK
<1>2. Cleared(box, b, S)
  BY <1>1, DiscardPlaces
<1> DEFINE u == <<>>
<1>3. /\ u \in Seq(Line) /\ LinesSound(u) /\ \A kinds : IdsOf(kinds, u) = {}
      /\ \A i \in 1..Len(u) : FALSE
  BY NoLines
<1>4. lines \o u = lines
  BY DEF DiscardLines
<1> HIDE DEF lines, b, u
<1>5. /\ lines \in Seq(Line) /\ LinesSound(lines)
      /\ IdsOf(Kind("remove"), lines) = S
      /\ \A l : IdsOf({<<"insert", l>>}, lines) = {}
      /\ IdsOf(Kind("insert"), lines) = {}
      /\ IdsOf(Kind("discarded"), lines) = S
      /\ IdsOf(Kind("user/message"), lines) = {}
  <2>1. lines = DiscardLines(S) \o u
    BY <1>4 DEF lines
  <2>2. \A i \in 1..Len(u) : u[i].op = "user/message"
    BY <1>3
  <2>3. DiscardsBefore(S, u, lines)
    BY <1>3, <2>1, <2>2, DiscardLinesFacts
  <2> QED
    BY <1>3, <2>3 DEF DiscardsBefore
<1>6. S = S \union {} /\ S \intersect {} = {}
  OBVIOUS
<1> QED
  BY <1>1, <1>2, <1>5, <1>6, TakeKeeps

\* Enter: the removal, the drops and the user/message lines of a step.
LEMMA EnterKeeps ==
  ASSUME IInv, NEW S \in SUBSET Msg, NEW E \in SUBSET S, Enter(S, E)
  PROVE  IInv'
<1> DEFINE x == RemoveRuns(E)
           z == UserMessages(E)
           u == IF E = {} THEN <<>> ELSE <<z>>
           t == DiscardLines(S \ E) \o u
           lines == <<x>> \o DiscardLines(S \ E) \o u
           b == Commit([box EXCEPT !.reserved = S], E)
<1>1. /\ Begin(lines, b) /\ todo = <<>> /\ box \in Box /\ S \in SUBSET Pending(box)
  <2>1. todo = <<>> /\ S \subseteq Pend("next-turn") \union Pend("next-step")
    BY DEF Enter, Begin
  <2> QED
    BY <2>1, AllPending DEF Enter, IInv, TypeOK
<1>2. Cleared(box, b, S)
  BY <1>1, CommitPlaces
<1>3. /\ x \in Line /\ x.op = "remove" /\ x.ids = E
      /\ z \in Line /\ z.op = "user/message" /\ z.ids = E
  <2>1. PICK m \in Msg : TRUE
    BY DEF Enter
  <2> QED
    BY LineFacts DEF Lists
<1> HIDE DEF x, z, b
<1>4. /\ u \in Seq(Line) /\ LinesSound(u)
      /\ \A i \in 1..Len(u) : u[i].op = "user/message"
      /\ IdsOf(Kind("remove"), u) = {} /\ IdsOf(Kind("insert"), u) = {}
      /\ \A l : IdsOf({<<"insert", l>>}, u) = {}
      /\ IdsOf(Kind("discarded"), u) = {} /\ IdsOf(Kind("user/message"), u) = E
  <2>1. CASE E = {}
    <3>1. u = <<>>
      BY <2>1
    <3> QED
      BY <2>1, <3>1, NoLines
  <2>2. CASE E # {}
    <3> DEFINE n == <<>>
    <3>1. u = <<z>> /\ <<z>> = <<z>> \o n /\ Len(<<z>>) = 1 /\ <<z>>[1] = z
      BY <2>2
    <3>2. LinesSound(<<z>>)
      <4>1. n \in Seq(Line) /\ LinesSound(n) /\ \A i \in 1..Len(n) : FALSE
        BY NoLines
      <4> HIDE DEF n
      <4>2. LinesSound(<<z>> \o n)
        BY <1>3, <2>2, <4>1, RecordFirst
      <4> QED
        BY <3>1, <4>2
    <3>3. <<z>> \in Seq(Line) /\ \A kinds : IdsOf(kinds, <<z>>) = Adds(kinds, z)
      BY <1>3, OneLine, Zenon
    <3>4. /\ Adds(Kind("remove"), z) = {} /\ Adds(Kind("insert"), z) = {}
          /\ \A l : Adds({<<"insert", l>>}, z) = {}
          /\ Adds(Kind("discarded"), z) = {} /\ Adds(Kind("user/message"), z) = E
      BY <1>3, WhatAdds
    <3>5. u = <<z>>
      BY <3>1
    <3> HIDE DEF u
    <3>6. \A i \in 1..Len(u) : u[i].op = "user/message"
      BY <1>3, <3>1, <3>5
    <3> QED
      BY <3>2, <3>3, <3>4, <3>5, <3>6
  <2> QED
    BY <2>1, <2>2
<1> HIDE DEF u
<1>5. /\ t \in Seq(Line) /\ LinesSound(t)
      /\ IdsOf(Kind("remove"), t) = S \ E
      /\ \A l : IdsOf({<<"insert", l>>}, t) = {}
      /\ IdsOf(Kind("insert"), t) = {}
      /\ IdsOf(Kind("discarded"), t) = S \ E
      /\ IdsOf(Kind("user/message"), t) = E
  <2>1. S \ E \in SUBSET Msg
    OBVIOUS
  <2>2. t = DiscardLines(S \ E) \o u
    OBVIOUS
  <2> HIDE DEF t
  <2>3. DiscardsBefore(S \ E, u, t)
    <3> DEFINE R == S \ E
    <3>1. R \in SUBSET Msg /\ t = DiscardLines(R) \o u
      BY <2>1, <2>2
    <3> HIDE DEF R
    <3>2. DiscardsBefore(R, u, t)
      BY <1>4, <3>1, DiscardLinesFacts
    <3> QED
      BY <3>2 DEF R
  <2> QED
    BY <1>4, <2>3 DEF DiscardsBefore
<1>6. lines = <<x>> \o t
  <2>1. DiscardLines(S \ E) \in Seq(Line)
    <3> DEFINE n == <<>>
               D == DiscardLines(S \ E)
    <3>1. n \in Seq(Line) /\ LinesSound(n) /\ \A i \in 1..Len(n) : FALSE
      BY NoLines
    <3>2. D \o n = D
      BY DEF DiscardLines
    <3>3. S \ E \in SUBSET Msg /\ D = DiscardLines(S \ E)
      OBVIOUS
    <3> HIDE DEF n, D
    <3>4. DiscardsBefore(S \ E, n, D)
      <4> DEFINE R == S \ E
      <4>1. R \in SUBSET Msg /\ D = DiscardLines(R) \o n
        BY <3>2, <3>3
      <4>2. \A i \in 1..Len(n) : n[i].op = "user/message"
        BY <3>1
      <4> HIDE DEF R
      <4>3. DiscardsBefore(R, n, D)
        BY <3>1, <4>1, <4>2, DiscardLinesFacts
      <4> QED
        BY <4>3 DEF R
    <3> QED
      BY <3>3, <3>4 DEF DiscardsBefore
  <2> QED
    BY <1>3, <1>4, <2>1
<1> HIDE DEF t
<1>7. \A kinds : /\ <<x>> \o t \in Seq(Line)
                 /\ IdsOf(kinds, <<x>> \o t) = Adds(kinds, x) \union IdsOf(kinds, t)
  BY <1>3, <1>5, MoreLines, Zenon
<1>8. /\ Adds(Kind("remove"), x) = E /\ Adds(Kind("insert"), x) = {}
      /\ \A l : Adds({<<"insert", l>>}, x) = {}
      /\ Adds(Kind("discarded"), x) = {} /\ Adds(Kind("user/message"), x) = {}
  BY <1>3, WhatAdds
<1>9. LinesSound(<<x>> \o t)
  BY <1>3, <1>5, RemovalFirst
<1>10. /\ lines \in Seq(Line) /\ LinesSound(lines)
       /\ IdsOf(Kind("remove"), lines) = S
       /\ \A l : IdsOf({<<"insert", l>>}, lines) = {}
       /\ IdsOf(Kind("insert"), lines) = {}
       /\ IdsOf(Kind("discarded"), lines) = S \ E
       /\ IdsOf(Kind("user/message"), lines) = E
  <2> HIDE DEF lines
  <2> QED
    BY <1>5, <1>6, <1>7, <1>8, <1>9
<1>11. S = (S \ E) \union E /\ (S \ E) \intersect E = {}
  OBVIOUS
<1> HIDE DEF lines
<1> QED
  BY <1>1, <1>2, <1>10, <1>11, TakeKeeps

-----------------------------------------------------------------------------
(***************************************************************************)
(* The invariant: a line is written.                                       *)
(***************************************************************************)

\* Only the cursor moves.
LEMMA CursorMoves ==
  ASSUME IInv, UNCHANGED <<lists, todo, sent, entered, discarded, box, before>>,
         cursor' \in [target : Lists \union {"none"}, left : SUBSET Nat],
         CursorSound'
  PROVE  IInv'
<1>1. TypeOK'
  BY DEF IInv, TypeOK
<1>3. /\ Doomed' = Doomed /\ Coming' = Coming /\ Naming' = Naming
      /\ Entering' = Entering /\ \A l : Arriving(l)' = Arriving(l)
      /\ \A l : Pend(l)' = Pend(l)
  BY DEF Doomed, Coming, Naming, Entering, Arriving, Pend
<1>2. LinesSound(todo)' /\ OthersKept'
  BY <1>3 DEF IInv, LinesSound, OthersKept
<1>4. ListsSound'
  BY <1>3 DEF IInv, ListsSound
<1>5. LogSound'
  BY <1>3 DEF IInv, LogSound
<1> QED
  BY <1>1, <1>2, <1>4, <1>5 DEF IInv

\* Where the cursor goes when it comes to a list.
LEMMA AtIs ==
  ASSUME IInv, todo # <<>>, NEW l \in Lists
  PROVE  /\ At(l) \in [target : Lists \union {"none"}, left : SUBSET Nat]
         /\ At(l).target = l /\ At(l).left = IndexesOf(l, Head(todo).ids)
         /\ IndexesOf(l, Head(todo).ids) \subseteq 1..Len(lists[l])
         /\ Len(lists[l]) \in Nat
<1>1. Len(lists[l]) \in Nat
  BY DEF IInv, TypeOK
<1>2. IndexesOf(l, Head(todo).ids) \in SUBSET Nat
  BY <1>1 DEF IndexesOf
<1> QED
  BY <1>1, <1>2 DEF At, IndexesOf

\* removeRuns comes to next-step.
LEMMA OpenListKeeps ==
  ASSUME IInv, WriteRemove, OpenList
  PROVE  IInv'
<1>1. /\ cursor' = At("next-step") /\ todo # <<>> /\ Head(todo).op = "remove"
      /\ UNCHANGED <<lists, todo, sent, entered, discarded, box, before>>
  BY DEF WriteRemove, OpenList
<1>2. "next-step" \in Lists /\ "next-step" # "next-turn"
  BY DEF Lists
<1>3. /\ cursor' \in [target : Lists \union {"none"}, left : SUBSET Nat]
      /\ cursor'.target = "next-step"
      /\ cursor'.left = IndexesOf("next-step", Head(todo).ids)
  BY <1>1, <1>2, AtIs
<1>4. IndexesOf("next-step", Head(todo).ids)' = IndexesOf("next-step", Head(todo).ids)
  BY <1>1 DEF IndexesOf
<1>5. CursorSound'
  BY <1>1, <1>2, <1>3, <1>4 DEF CursorSound
<1> QED
  BY <1>1, <1>3, <1>5, CursorMoves

\* The list the cursor has passed holds nothing of its line.
LEMMA NothingLeft ==
  ASSUME IInv, cursor # NoCursor, cursor.left = {}
  PROVE  Pend(cursor.target) \intersect Head(todo).ids = {}
<1>1. /\ todo # <<>> /\ cursor.target \in Lists
      /\ IndexesOf(cursor.target, Head(todo).ids) = {}
  BY DEF IInv, CursorSound
<1>2. lists[cursor.target] \in Seq(Msg)
  BY <1>1 DEF IInv, TypeOK
<1> QED
  BY <1>1, <1>2 DEF IndexesOf, Pend, ToSet

\* What the first line speaks of, and the others.
LEMMA FirstLine ==
  ASSUME IInv, todo # <<>>
  PROVE  /\ Head(todo) \in Line /\ Tail(todo) \in Seq(Line) /\ LinesSound(Tail(todo))
         /\ \A kinds : IdsOf(kinds, todo) =
                         Adds(kinds, Head(todo)) \union IdsOf(kinds, Tail(todo))
         /\ \A l : Arriving(l) \subseteq Coming
<1>1. todo \in Seq(Line) /\ LinesSound(todo)
  BY DEF IInv, TypeOK
<1>2. Head(todo) \in Line /\ Tail(todo) \in Seq(Line) /\ LinesSound(Tail(todo))
  BY <1>1, TailSound
<1>3. \A kinds : IdsOf(kinds, todo) =
                   Adds(kinds, Head(todo)) \union IdsOf(kinds, Tail(todo))
  BY <1>1, IdsOfTail, Zenon DEF Adds
<1>4. ASSUME NEW l, NEW m \in Arriving(l)
      PROVE  m \in Coming
  <2>1. PICK i \in 1..Len(todo) :
          <<todo[i].op, todo[i].list>> \in {<<"insert", l>>} /\ m \in todo[i].ids
    BY <1>4, InIdsOf DEF Arriving
  <2>2. todo[i] \in Line /\ todo[i].op = "insert"
    BY <1>1, <2>1
  <2>3. <<todo[i].op, todo[i].list>> \in Kind("insert")
    BY <2>2, LineKinds
  <2> QED
    BY <2>1, <2>3, InIdsOf DEF Coming
<1> QED
  BY <1>2, <1>3, <1>4

\* removeRuns is done with a list: to next-turn, or to the next line.
LEMMA NextListKeeps ==
  ASSUME IInv, WriteRemove, NextList
  PROVE  IInv'
<1>1. /\ cursor # NoCursor /\ cursor.left = {} /\ lists' = lists
      /\ todo # <<>> /\ Head(todo).op = "remove"
      /\ UNCHANGED <<sent, entered, discarded, box, before>>
  BY DEF WriteRemove, NextList
<1>2. Pend(cursor.target) \intersect Head(todo).ids = {}
  BY <1>1, NothingLeft
<1>3. CASE cursor.target = "next-step"
  <2>1. cursor' = At("next-turn") /\ todo' = todo /\ "next-turn" \in Lists
    BY <1>3 DEF NextList, Lists
  <2>2. /\ cursor' \in [target : Lists \union {"none"}, left : SUBSET Nat]
        /\ cursor'.target = "next-turn"
        /\ cursor'.left = IndexesOf("next-turn", Head(todo).ids)
    BY <1>1, <2>1, AtIs
  <2>3. IndexesOf("next-turn", Head(todo).ids)' = IndexesOf("next-turn", Head(todo).ids)
    BY <1>1, <2>1 DEF IndexesOf
  <2>4. Pend("next-step")' = Pend("next-step")
    BY <1>1 DEF Pend
  <2>5. CursorSound'
    BY <1>1, <1>2, <1>3, <2>1, <2>2, <2>3, <2>4 DEF CursorSound
  <2> QED
    BY <1>1, <2>1, <2>2, <2>5, CursorMoves
<1>4. CASE cursor.target # "next-step"
  <2> DEFINE h == Head(todo)
             t == Tail(todo)
  <2>1. /\ cursor.target = "next-turn" /\ cursor' = NoCursor /\ todo' = t
        /\ Pend("next-step") \intersect h.ids = {}
        /\ Pend("next-turn") \intersect h.ids = {}
    BY <1>1, <1>2, <1>4 DEF NextList, IInv, CursorSound, Lists
  <2>2. /\ h \in Line /\ t \in Seq(Line) /\ LinesSound(t)
        /\ \A kinds : IdsOf(kinds, todo) = Adds(kinds, h) \union IdsOf(kinds, t)
    BY <1>1, FirstLine
  <2>3. /\ Adds(Kind("remove"), h) = h.ids /\ Adds(Kind("insert"), h) = {}
        /\ Adds(Kind("discarded"), h) = {} /\ Adds(Kind("user/message"), h) = {}
        /\ \A l : Adds({<<"insert", l>>}, h) = {}
    BY <1>1, <2>2, WhatAdds
  <2>4. h.op = "remove"
    BY <1>1
  <2> HIDE DEF h, t
  <2>5. /\ Doomed = h.ids \union Doomed' /\ Coming' = Coming /\ Naming' = Naming
        /\ Entering' = Entering /\ \A l : Arriving(l)' = Arriving(l)
        /\ \A l : Pend(l)' = Pend(l)
    BY <1>1, <2>1, <2>2, <2>3 DEF Doomed, Coming, Naming, Entering, Arriving, Pend
  <2>6. TypeOK' /\ LinesSound(todo)' /\ CursorSound'
    <3>1. cursor' \in [target : Lists \union {"none"}, left : SUBSET Nat]
      BY <2>1 DEF NoCursor
    <3> QED
      BY <1>1, <2>1, <2>2, <3>1 DEF IInv, TypeOK, LinesSound, CursorSound
  <2>7. ListsSound'
    <3>1. \A l \in Lists : Pend(l) \ Doomed = Pend(l) \ Doomed'
      BY <2>1, <2>5 DEF Lists
    <3>2. Coming \intersect (Pend("next-turn") \union Pend("next-step"))
            \subseteq Doomed'
      BY <2>1, <2>5 DEF IInv, ListsSound
    <3>3. ASSUME NEW l \in Lists, NEW i \in 1..Len(lists[l]),
                 NEW j \in 1..Len(lists[l]),
                 lists[l][i] \notin Doomed', lists[l][j] \notin Doomed'
          PROVE  i < j <=> <<lists[l][i], lists[l][j]>> \in box.ahead
      <4>1. lists[l][i] \in Pend(l) /\ lists[l][j] \in Pend(l)
        BY DEF IInv, TypeOK, Pend, ToSet
      <4>2. lists[l][i] \notin Doomed /\ lists[l][j] \notin Doomed
        BY <3>1, <3>3, <4>1
      <4> QED
        BY <4>2 DEF IInv, ListsSound
    <3>4. /\ \A l \in Lists : IsInjective(lists[l])
          /\ Pend("next-turn") \intersect Pend("next-step") = {}
      BY DEF IInv, ListsSound
    <3>5. ASSUME NEW l \in Lists
          PROVE  /\ On(box, l) = (Pend(l) \ Doomed') \union Arriving(l)
                 /\ \A a \in Pend(l) \ Doomed', m \in Arriving(l) :
                      <<a, m>> \in box.ahead /\ <<m, a>> \notin box.ahead
                 /\ \A m \in Arriving(l) : <<m, m>> \notin box.ahead
      BY <3>1 DEF IInv, ListsSound
    <3> QED
      BY <1>1, <2>5, <3>2, <3>3, <3>4, <3>5 DEF ListsSound
  <2>8. LogSound'
    BY <1>1, <2>5 DEF IInv, LogSound
  <2>9. OthersKept'
    BY <1>1, <2>5 DEF IInv, OthersKept
  <2> QED
    BY <2>6, <2>7, <2>8, <2>9 DEF IInv
<1> QED
  BY <1>3, <1>4

\* r is the list s without some elements of D, in the order they stood.
Thinned(s, r, D) ==
  /\ ToSet(r) \subseteq ToSet(s) /\ ToSet(s) \ D \subseteq ToSet(r)
  /\ IsInjective(s) => IsInjective(r)
  /\ \A W : W \intersect D = {} => Standing(r, W) = Standing(s, W)

\* What a cut leaves, when it cuts elements of D only.
LEMMA CutKeeps ==
  ASSUME NEW s \in Seq(Msg), NEW i \in Nat \ {0}, NEW k \in Nat,
         i + k <= Len(s) + 1, NEW r, r = Splice(s, i, k, <<>>),
         NEW D, \A x \in i..(i + k - 1) : s[x] \in D
  PROVE  Thinned(s, r, D)
<1>1. /\ r \in Seq(Msg) /\ Len(r) = Len(s) - k
      /\ \A p \in 1..Len(r) :
           /\ Stood(i, k, p) \in 1..Len(s) /\ Stood(i, k, p) \notin i..(i + k - 1)
           /\ r[p] = s[Stood(i, k, p)]
      /\ \A p, q \in 1..Len(r) : p < q <=> Stood(i, k, p) < Stood(i, k, q)
      /\ \A x \in 1..Len(s) : x \notin i..(i + k - 1) =>
           \E p \in 1..Len(r) : Stood(i, k, p) = x
  BY CutFacts DEF CutAt
<1> DEFINE f(p) == Stood(i, k, p)
<1>2. /\ \A p \in 1..Len(r) : f(p) \in 1..Len(s) /\ r[p] = s[f(p)]
      /\ \A p, q \in 1..Len(r) : p < q <=> f(p) < f(q)
      /\ \A x \in 1..Len(s) : s[x] \notin D => \E p \in 1..Len(r) : f(p) = x
  BY <1>1
<1> HIDE DEF f
<1>3. ToSet(r) \subseteq ToSet(s) /\ ToSet(s) \ D \subseteq ToSet(r)
  <2>1. DOMAIN r = 1..Len(r) /\ DOMAIN s = 1..Len(s)
    BY <1>1
  <2>2. ToSet(r) = {r[p] : p \in 1..Len(r)} /\ ToSet(s) = {s[p] : p \in 1..Len(s)}
    BY <2>1 DEF ToSet
  <2> QED
    BY <1>2, <2>2
<1>4. ASSUME IsInjective(s)
      PROVE  IsInjective(r)
  <2>1. ASSUME NEW p \in 1..Len(r), NEW q \in 1..Len(r), r[p] = r[q]
        PROVE  p = q
    <3>1. f(p) = f(q)
      <4>1. f(p) \in 1..Len(s) /\ f(q) \in 1..Len(s) /\ s[f(p)] = s[f(q)]
        BY <1>2, <2>1
      <4>2. \A x, y \in 1..Len(s) : s[x] = s[y] => x = y
        BY <1>4 DEF IsInjective
      <4> QED
        BY <4>1, <4>2
    <3>2. f(p) \in Int /\ f(q) \in Int
      BY <1>2
    <3>3. ~(p < q) /\ ~(q < p)
      BY <1>2, <3>1, <3>2
    <3> QED
      BY <3>3
  <2>2. DOMAIN r = 1..Len(r)
    BY <1>1
  <2> QED
    BY <2>1, <2>2 DEF IsInjective
<1>5. ASSUME NEW W, W \intersect D = {}
      PROVE  Standing(r, W) = Standing(s, W)
  <2>1. ToSet(r) \intersect W = ToSet(s) \intersect W
    BY <1>3, <1>5
  <2>2. ASSUME NEW x \in W, NEW y \in W
        PROVE  (\E p, q \in 1..Len(r) : p < q /\ r[p] = x /\ r[q] = y) <=>
                 (\E p, q \in 1..Len(s) : p < q /\ s[p] = x /\ s[q] = y)
    <3>1. ASSUME NEW p \in 1..Len(r), NEW q \in 1..Len(r), p < q, r[p] = x, r[q] = y
          PROVE  \E u, v \in 1..Len(s) : u < v /\ s[u] = x /\ s[v] = y
      <4>1. /\ f(p) \in 1..Len(s) /\ f(q) \in 1..Len(s) /\ f(p) < f(q)
            /\ s[f(p)] = x /\ s[f(q)] = y
        BY <1>2, <3>1
      <4> QED
        BY <4>1
    <3>2. ASSUME NEW u \in 1..Len(s), NEW v \in 1..Len(s), u < v, s[u] = x, s[v] = y
          PROVE  \E p, q \in 1..Len(r) : p < q /\ r[p] = x /\ r[q] = y
      <4>1. s[u] \notin D /\ s[v] \notin D
        BY <1>5, <3>2
      <4>2. PICK p \in 1..Len(r) : f(p) = u
        BY <1>2, <4>1
      <4>3. PICK q \in 1..Len(r) : f(q) = v
        BY <1>2, <4>1
      <4>4. p < q /\ r[p] = x /\ r[q] = y
        BY <1>2, <3>2, <4>2, <4>3
      <4> QED
        BY <4>4
    <3> QED
      BY <3>1, <3>2
  <2>3. {p \in W \X W : \E u, v \in 1..Len(r) : u < v /\ r[u] = p[1] /\ r[v] = p[2]} =
          {p \in W \X W : \E u, v \in 1..Len(s) : u < v /\ s[u] = p[1] /\ s[v] = p[2]}
    <3>1. ASSUME NEW p \in W \X W
          PROVE  (\E u, v \in 1..Len(r) : u < v /\ r[u] = p[1] /\ r[v] = p[2]) <=>
                   (\E u, v \in 1..Len(s) : u < v /\ s[u] = p[1] /\ s[v] = p[2])
      <4>1. p[1] \in W /\ p[2] \in W
        OBVIOUS
      <4> QED
        BY <2>2, <4>1
    <3> QED
      BY <3>1, Zenon
  <2> QED
    BY <2>1, <2>3, Zenon DEF Standing
<1> QED
  BY <1>3, <1>4, <1>5 DEF Thinned

\* The messages an operation leaves in the inbox are none of its removals'.
LEMMA OthersAreSafe ==
  ASSUME IInv
  PROVE  (Pending(box) \ Coming) \intersect Doomed = {}
<1>1. Pending(box) = On(box, "next-turn") \union On(box, "next-step")
  BY PendingOn DEF IInv, TypeOK
<1>2. \A l \in Lists : On(box, l) \subseteq (Pend(l) \ Doomed) \union Coming
  <2>1. \A l : Arriving(l) \subseteq Coming
    <3>1. CASE todo = <<>>
      BY <3>1, IdsOfNothing DEF Arriving
    <3>2. CASE todo # <<>>
      BY <3>2, FirstLine
    <3> QED
      BY <3>1, <3>2
  <2> QED
    BY <2>1 DEF IInv, ListsSound
<1> QED
  BY <1>1, <1>2 DEF Lists

\* The run removeRuns is at, on its list.
LEMMA RunIsThere ==
  ASSUME IInv, cursor.left # {}, todo # <<>>
  PROVE  LET s == RunStart(cursor.left)
             k == RunLength(cursor.left)
             q == lists[cursor.target]
         IN  /\ cursor # NoCursor /\ cursor.target \in Lists
             /\ Head(todo).op = "remove" /\ q \in Seq(Msg)
             /\ cursor.left = IndexesOf(cursor.target, Head(todo).ids)
             /\ s \in 1..Len(q) /\ k \in Nat \ {0} /\ s + k <= Len(q) + 1
             /\ s + k - 1 = RunEnd(cursor.left)
             /\ \A x \in cursor.left : x <= s + k - 1
             /\ \A x \in s..(s + k - 1) : x \in cursor.left
<1> DEFINE ix == cursor.left
           q == lists[cursor.target]
<1>1. cursor # NoCursor
  BY DEF NoCursor
<1>2. /\ cursor.target \in Lists /\ Head(todo).op = "remove"
      /\ ix = IndexesOf(cursor.target, Head(todo).ids)
  BY <1>1 DEF IInv, CursorSound
<1>3. q \in Seq(Msg) /\ ix \in SUBSET (1..Len(q)) /\ ix # {} /\ Len(q) \in Nat
  <2>1. q \in Seq(Msg)
    BY <1>2 DEF IInv, TypeOK
  <2>2. ix \subseteq 1..Len(q)
    BY <1>2 DEF IndexesOf
  <2> QED
    BY <2>1, <2>2
<1> HIDE DEF q, ix
<1>4. /\ RunStart(ix) \in ix /\ RunEnd(ix) \in ix
      /\ RunStart(ix) <= RunEnd(ix)
      /\ \A x \in RunStart(ix)..RunEnd(ix) : x \in ix
      /\ \A x \in ix : x <= RunEnd(ix)
  BY <1>3, RunFacts
<1>5. RunStart(ix) \in 1..Len(q) /\ RunEnd(ix) \in 1..Len(q)
  BY <1>3, <1>4
<1>6. /\ RunLength(ix) \in Nat \ {0}
      /\ RunStart(ix) + RunLength(ix) - 1 = RunEnd(ix)
      /\ RunStart(ix) + RunLength(ix) <= Len(q) + 1
  BY <1>3, <1>4, <1>5 DEF RunLength
<1> QED
  BY <1>1, <1>2, <1>3, <1>4, <1>5, <1>6 DEF q, ix

\* A run's removal is never refused.
LEMMA RunIsValid ==
  ASSUME IInv, todo # <<>>, cursor.left # {}
  PROVE  Valid(cursor.target, RunStart(cursor.left), RunLength(cursor.left), <<>>)
<1> DEFINE l == cursor.target
           q == lists[l]
           i == RunStart(cursor.left)
           k == RunLength(cursor.left)
           r == Splice(q, i, k, <<>>)
<1>1. /\ l \in Lists /\ q \in Seq(Msg) /\ i \in 1..Len(q) /\ k \in Nat \ {0}
      /\ i + k <= Len(q) + 1
  BY RunIsThere
<1>2. /\ \A n \in Lists : IsInjective(lists[n])
      /\ Pend("next-turn") \intersect Pend("next-step") = {}
  BY DEF IInv, ListsSound
<1> HIDE DEF l, i, k
<1>3. i \in Nat \ {0} /\ Len(q) \in Nat
  BY <1>1
<1>4. ToSet(r) \subseteq ToSet(q) /\ (IsInjective(q) => IsInjective(r))
  <2> DEFINE D == {q[x] : x \in i..(i + k - 1)}
  <2>1. \A x \in i..(i + k - 1) : q[x] \in D
    OBVIOUS
  <2> HIDE DEF D, r, q
  <2>2. r = Splice(q, i, k, <<>>)
    BY DEF r
  <2>3. Thinned(q, r, D)
    BY <1>1, <1>3, <2>1, <2>2, CutKeeps
  <2> QED
    BY <2>3 DEF Thinned
<1>5. \A n \in Lists \ {l} : ToSet(r) \intersect ToSet(lists[n]) = {}
  <2>1. \A n \in Lists \ {l} : ToSet(lists[l]) \intersect ToSet(lists[n]) = {}
    BY <1>1, <1>2 DEF Lists, Pend
  <2> QED
    BY <1>4, <2>1
<1>6. i \in 1..(Len(q) + 1)
  BY <1>1, <1>3
<1> QED
  BY <1>1, <1>2, <1>4, <1>5, <1>6 DEF Valid, l, i, k

\* removeRuns cuts one run out of its list.
LEMMA RemoveRunKeeps ==
  ASSUME IInv, WriteRemove, RemoveRun
  PROVE  IInv'
<1> DEFINE l == cursor.target
           q == lists[l]
           s == RunStart(cursor.left)
           k == RunLength(cursor.left)
           r == Splice(q, s, k, <<>>)
           ids == Head(todo).ids
<1>1. /\ cursor.left # {} /\ todo # <<>> /\ Head(todo).op = "remove"
      /\ lists' = [lists EXCEPT ![l] = r]
      /\ cursor' = [cursor EXCEPT !.left = {i \in @ : i < s}]
      /\ UNCHANGED <<todo, sent, entered, discarded, box, before>>
  BY DEF WriteRemove, RemoveRun, Mutate
<1>2. /\ cursor # NoCursor /\ l \in Lists /\ q \in Seq(Msg)
      /\ cursor.left = IndexesOf(l, ids)
      /\ s \in 1..Len(q) /\ k \in Nat \ {0} /\ s + k <= Len(q) + 1
      /\ \A x \in cursor.left : x <= s + k - 1
      /\ \A x \in s..(s + k - 1) : x \in cursor.left
  BY <1>1, RunIsThere
<1>3. /\ l = "next-turn" => Pend("next-step") \intersect ids = {}
      /\ cursor \in [target : Lists \union {"none"}, left : SUBSET Nat]
      /\ lists \in [Lists -> Seq(Msg)]
  BY <1>1, <1>2 DEF IInv, CursorSound, TypeOK
<1>4. ids \subseteq Doomed
  <2>1. Head(todo) \in Line /\ IdsOf(Kind("remove"), todo) =
          Adds(Kind("remove"), Head(todo)) \union IdsOf(Kind("remove"), Tail(todo))
    BY <1>1, FirstLine
  <2>2. Adds(Kind("remove"), Head(todo)) = ids
    BY <1>1, <2>1, WhatAdds
  <2> QED
    BY <2>1, <2>2 DEF Doomed
<1>5. \A x \in 1..Len(q) : x \in cursor.left <=> q[x] \in ids
  BY <1>2 DEF IndexesOf
<1>6. /\ cursor'.target = l /\ cursor'.left = {i \in cursor.left : i < s}
      /\ cursor' \in [target : Lists \union {"none"}, left : SUBSET Nat]
  BY <1>1, <1>3
<1> HIDE DEF l, s, k, ids
<1>7. /\ lists' \in [Lists -> Seq(Msg)] /\ r \in Seq(Msg) /\ Len(r) = Len(q) - k
      /\ lists'[l] = r /\ \A n \in Lists : n # l => lists'[n] = lists[n]
      /\ s \in Nat \ {0} /\ Len(q) \in Nat
  <2>1. s \in Nat \ {0} /\ Len(q) \in Nat
    BY <1>2
  <2>2. r \in Seq(Msg) /\ Len(r) = Len(q) - k
    <3> HIDE DEF q
    <3> DEFINE rr == Splice(q, s, k, <<>>)
    <3>1. rr = Splice(q, s, k, <<>>)
      OBVIOUS
    <3> HIDE DEF rr
    <3>2. CutAt(q, rr, s, k)
      BY <1>2, <2>1, <3>1, CutFacts
    <3> QED
      BY <3>2 DEF rr, CutAt
  <2> HIDE DEF r
  <2> QED
    BY <1>1, <1>2, <1>3, <2>1, <2>2
<1>8. /\ ToSet(r) \subseteq ToSet(q) /\ ToSet(q) \ ids \subseteq ToSet(r)
      /\ IsInjective(q) => IsInjective(r)
      /\ \A W : W \intersect ids = {} => Standing(r, W) = Standing(q, W)
  <2>1. \A x \in s..(s + k - 1) : q[x] \in ids
    <3>1. \A x \in s..(s + k - 1) : x \in 1..Len(q)
      BY <1>2, <1>7
    <3> QED
      BY <1>2, <1>5, <3>1
  <2>2. r = Splice(q, s, k, <<>>)
    OBVIOUS
  <2> HIDE DEF r, q
  <2>3. Thinned(q, r, ids)
    BY <1>2, <1>7, <2>1, <2>2, CutKeeps
  <2> QED
    BY <2>3 DEF Thinned
<1>9. /\ \A p \in 1..Len(r) : /\ Stood(s, k, p) \in 1..Len(q)
                              /\ r[p] = q[Stood(s, k, p)]
      /\ \A p, n \in 1..Len(r) : p < n <=> Stood(s, k, p) < Stood(s, k, n)
  <2>1. r = Splice(q, s, k, <<>>)
    OBVIOUS
  <2> HIDE DEF r, q
  <2>2. CutAt(q, r, s, k)
    BY <1>2, <1>7, <2>1, CutFacts
  <2> QED
    BY <2>2 DEF CutAt
<1> HIDE DEF r, q
<1>10. q = lists[l]
  BY DEF q
<1>11. /\ Doomed' = Doomed /\ Coming' = Coming /\ Naming' = Naming
       /\ Entering' = Entering /\ \A n : Arriving(n)' = Arriving(n)
  BY <1>1 DEF Doomed, Coming, Naming, Entering, Arriving
<1>12. \A n \in Lists : /\ Pend(n)' \subseteq Pend(n)
                        /\ Pend(n)' \ Doomed = Pend(n) \ Doomed
                        /\ n # l => Pend(n)' = Pend(n)
  <2>1. ASSUME NEW n \in Lists
        PROVE  Pend(n)' = ToSet(lists'[n]) /\ Pend(n) = ToSet(lists[n])
    BY DEF Pend
  <2> QED
    BY <1>4, <1>7, <1>8, <1>10, <2>1
<1>13. TypeOK' /\ LinesSound(todo)' /\ LogSound'
  BY <1>1, <1>6, <1>7, <1>11 DEF IInv, TypeOK, LinesSound, LogSound
<1>14. CursorSound'
  <2>2. {i \in 1..Len(r) : r[i] \in ids} = {i \in cursor.left : i < s}
    <3>1. ASSUME NEW i \in 1..Len(r), r[i] \in ids
          PROVE  i \in cursor.left /\ i < s
      <4>1. Stood(s, k, i) \in cursor.left
        BY <1>5, <1>9, <3>1
      <4>2. i < s
        <5>1. SUFFICES ASSUME ~(i < s) PROVE FALSE
          OBVIOUS
        <5>2. Stood(s, k, i) = i + k
          BY <5>1 DEF Stood
        <5>3. i + k <= s + k - 1
          BY <1>2, <4>1, <5>2
        <5> QED
          BY <1>2, <1>7, <5>1, <5>3
      <4> QED
        BY <4>1, <4>2 DEF Stood
    <3>2. ASSUME NEW i \in cursor.left, i < s
          PROVE  i \in 1..Len(r) /\ r[i] \in ids
      <4>1. i \in 1..Len(q)
        BY <1>2, <1>10 DEF IndexesOf
      <4>2. i \in 1..Len(r) /\ Stood(s, k, i) = i
        BY <1>2, <1>7, <3>2, <4>1 DEF Stood
      <4> QED
        BY <1>5, <1>9, <4>1, <4>2
    <3> QED
      BY <3>1, <3>2
  <2>3. ids' = ids /\ Head(todo)' = Head(todo)
    BY <1>1 DEF ids
  <2>4. cursor'.left = {i \in 1..Len(lists'[l]) : lists'[l][i] \in ids'}
    BY <1>6, <1>7, <2>2, <2>3
  <2>5. l = "next-turn" => Pend("next-step")' \intersect ids' = {}
    BY <1>3, <1>12, <2>3 DEF Lists
  <2>6. /\ todo' # <<>> /\ Head(todo').op = "remove" /\ cursor'.target \in Lists
        /\ ids' = Head(todo').ids /\ cursor'.target = l
    BY <1>1, <1>2, <1>6 DEF ids
  <2> QED
    BY <2>4, <2>5, <2>6 DEF CursorSound, IndexesOf
<1>15. ListsSound'
  <2>1. \A n \in Lists : IsInjective(lists'[n])
    <3>1. \A n \in Lists : IsInjective(lists[n])
      BY DEF IInv, ListsSound
    <3>2. IsInjective(lists'[l])
      BY <1>2, <1>7, <1>8, <1>10, <3>1
    <3> QED
      BY <1>7, <3>1, <3>2
  <2>2. /\ Pend("next-turn")' \intersect Pend("next-step")' = {}
        /\ Coming' \intersect (Pend("next-turn")' \union Pend("next-step")')
              \subseteq Doomed'
    <3>1. /\ Pend("next-turn") \intersect Pend("next-step") = {}
          /\ Coming \intersect (Pend("next-turn") \union Pend("next-step"))
               \subseteq Doomed
      BY DEF IInv, ListsSound
    <3> QED
      BY <1>11, <1>12, <3>1 DEF Lists
  <2>3. ASSUME NEW n \in Lists
        PROVE  /\ On(box, n) = (Pend(n)' \ Doomed) \union Arriving(n)
               /\ \A a \in Pend(n)' \ Doomed, m \in Arriving(n) :
                    <<a, m>> \in box.ahead /\ <<m, a>> \notin box.ahead
               /\ \A m \in Arriving(n) : <<m, m>> \notin box.ahead
    BY <1>12 DEF IInv, ListsSound
  <2>4. ASSUME NEW n \in Lists,
               NEW i \in 1..Len(lists'[n]), NEW j \in 1..Len(lists'[n]),
               lists'[n][i] \notin Doomed, lists'[n][j] \notin Doomed
        PROVE  i < j <=> <<lists'[n][i], lists'[n][j]>> \in box.ahead
    <3>1. \A x, y \in 1..Len(lists[n]) :
            lists[n][x] \notin Doomed /\ lists[n][y] \notin Doomed =>
              (x < y <=> <<lists[n][x], lists[n][y]>> \in box.ahead)
      BY DEF IInv, ListsSound
    <3>2. CASE n # l
      BY <1>7, <2>4, <3>1, <3>2
    <3>3. CASE n = l
      <4>1. /\ lists'[n] = r /\ lists[n] = q
            /\ i \in 1..Len(r) /\ j \in 1..Len(r)
        BY <1>7, <1>10, <3>3
      <4>2. /\ Stood(s, k, i) \in 1..Len(q) /\ r[i] = q[Stood(s, k, i)]
            /\ Stood(s, k, j) \in 1..Len(q) /\ r[j] = q[Stood(s, k, j)]
            /\ i < j <=> Stood(s, k, i) < Stood(s, k, j)
        BY <1>9, <4>1
      <4> QED
        BY <2>4, <3>1, <4>1, <4>2
    <3> QED
      BY <3>2, <3>3
  <2>5. ASSUME NEW n \in Lists
        PROVE  /\ On(box', n) = (Pend(n)' \ Doomed') \union Arriving(n)'
               /\ \A i, j \in 1..Len(lists'[n]) :
                    lists'[n][i] \notin Doomed' /\ lists'[n][j] \notin Doomed' =>
                      (i < j <=> <<lists'[n][i], lists'[n][j]>> \in box'.ahead)
               /\ \A a \in Pend(n)' \ Doomed', m \in Arriving(n)' :
                    <<a, m>> \in box'.ahead /\ <<m, a>> \notin box'.ahead
               /\ \A m \in Arriving(n)' : <<m, m>> \notin box'.ahead
    BY <1>1, <1>11, <2>3, <2>4
  <2> QED
    BY <2>1, <2>2, <2>5, Zenon DEF ListsSound
<1>16. OthersKept'
  <2>1. (Pending(box) \ Coming) \intersect ids = {}
    BY <1>4, OthersAreSafe
  <2>2. \A n \in Lists : Standing(lists[n], Pending(box) \ Coming) =
                           Standing(before[n], Pending(box) \ Coming)
    BY <1>1 DEF IInv, OthersKept
  <2>3. \A n \in Lists : Standing(lists'[n], Pending(box) \ Coming) =
                           Standing(lists[n], Pending(box) \ Coming)
    BY <1>7, <1>8, <1>10, <2>1
  <2> QED
    BY <1>1, <1>11, <2>2, <2>3 DEF OthersKept
<1> QED
  BY <1>13, <1>14, <1>15, <1>16 DEF IInv

\* A line of an insertion is the last one, of a message on no list.
LEMMA InsertionIs ==
  ASSUME IInv, todo # <<>>, Head(todo).op = "insert"
  PROVE  /\ Tail(todo) = <<>> /\ Head(todo).list \in Lists
         /\ Doomed = {} /\ Naming = {} /\ Entering = {} /\ cursor = NoCursor
         /\ \E m \in Msg :
              /\ Head(todo).ids = {m} /\ Coming = {m}
              /\ \A l : Arriving(l) = IF l = Head(todo).list THEN {m} ELSE {}
              /\ \A l \in Lists : m \notin Pend(l)
<1> DEFINE h == Head(todo)
           t == Tail(todo)
<1>1. /\ todo \in Seq(Line) /\ LinesSound(todo) /\ h = todo[1] /\ 1 \in 1..Len(todo)
  BY DEF IInv, TypeOK
<1>2. 1 = Len(todo) /\ h.list \in Lists /\ \E m \in Msg : h.ids = {m}
  BY <1>1 DEF LinesSound
<1>3. t = <<>>
  <2>1. t \in Seq(Line) /\ Len(t) = 0
    BY <1>1, <1>2
  <2> HIDE DEF t
  <2> QED
    BY <2>1
<1>4. PICK m \in Msg : h.ids = {m}
  BY <1>2
<1>5. /\ h \in Line
      /\ \A kinds : IdsOf(kinds, todo) = Adds(kinds, h) \union IdsOf(kinds, t)
  BY FirstLine
<1> HIDE DEF t
<1>6. \A kinds : IdsOf(kinds, t) = {}
  BY <1>3, IdsOfNothing
<1>7. /\ Adds(Kind("remove"), h) = {} /\ Adds(Kind("insert"), h) = {m}
      /\ Adds(Kind("discarded"), h) = {} /\ Adds(Kind("user/message"), h) = {}
      /\ \A l : Adds({<<"insert", l>>}, h) = IF h.list = l THEN {m} ELSE {}
  BY <1>4, <1>5, WhatAdds
<1>8. h.op = "insert"
  OBVIOUS
<1> HIDE DEF h
<1>9. /\ Doomed = {} /\ Naming = {} /\ Entering = {} /\ Coming = {m}
      /\ \A l : Arriving(l) = IF l = h.list THEN {m} ELSE {}
  BY <1>5, <1>6, <1>7 DEF Doomed, Naming, Entering, Coming, Arriving
<1>10. cursor = NoCursor
  BY <1>8 DEF IInv, CursorSound, h
<1>11. \A l \in Lists : m \notin Pend(l)
  <2>1. Coming \intersect (Pend("next-turn") \union Pend("next-step")) \subseteq Doomed
    BY DEF IInv, ListsSound
  <2> QED
    BY <1>9, <2>1 DEF Lists
<1> QED
  BY <1>2, <1>3, <1>4, <1>9, <1>10, <1>11 DEF h, t

\* A list with one message more, which was not on it.
LEMMA PutKeeps ==
  ASSUME NEW s \in Seq(Msg), NEW m \in Msg, m \notin ToSet(s),
         NEW r, r = Splice(s, Len(s) + 1, 0, <<m>>)
  PROVE  /\ ToSet(r) = ToSet(s) \union {m}
         /\ IsInjective(s) => IsInjective(r)
<1>1. /\ r \in Seq(Msg) /\ Len(r) = Len(s) + 1 /\ r[Len(s) + 1] = m
      /\ \A p \in 1..Len(s) : r[p] = s[p]
      /\ Len(s) \in Nat
  BY PutFacts DEF PutLast
<1>2. /\ DOMAIN r = 1..(Len(s) + 1) /\ DOMAIN s = 1..Len(s)
      /\ \A p \in 1..(Len(s) + 1) : p \in 1..Len(s) \/ p = Len(s) + 1
      /\ \A p \in 1..Len(s) : p \in 1..(Len(s) + 1) /\ s[p] \in ToSet(s)
      /\ Len(s) + 1 \in 1..(Len(s) + 1)
  BY <1>1 DEF ToSet
<1>3. ToSet(r) = {r[p] : p \in 1..(Len(s) + 1)} /\ ToSet(s) = {s[p] : p \in 1..Len(s)}
  BY <1>2 DEF ToSet
<1>4. ToSet(r) = ToSet(s) \union {m}
  BY <1>1, <1>2, <1>3
<1>5. ASSUME IsInjective(s)
      PROVE  IsInjective(r)
  <2>1. \A p, q \in 1..Len(s) : s[p] = s[q] => p = q
    BY <1>2, <1>5 DEF IsInjective
  <2>2. \A p, q \in 1..(Len(s) + 1) : r[p] = r[q] => p = q
    BY <1>1, <1>2, <2>1
  <2> QED
    BY <1>2, <2>2 DEF IsInjective
<1> QED
  BY <1>4, <1>5

\* An insertion is never refused.
LEMMA InsertionIsValid ==
  ASSUME IInv, todo # <<>>, Head(todo).op = "insert"
  PROVE  \E m \in Head(todo).ids :
           Valid(Head(todo).list, Len(lists[Head(todo).list]) + 1, 0, <<m>>)
<1> DEFINE l == Head(todo).list
           q == lists[l]
<1>1. PICK m \in Msg : /\ l \in Lists /\ Head(todo).ids = {m}
                       /\ \A n \in Lists : m \notin Pend(n)
  BY InsertionIs
<1> DEFINE r == Splice(q, Len(q) + 1, 0, <<m>>)
<1>2. /\ \A n \in Lists : IsInjective(lists[n])
      /\ \A n \in Lists \ {l} : ToSet(lists[l]) \intersect ToSet(lists[n]) = {}
      /\ \A n \in Lists : m \notin ToSet(lists[n])
      /\ q \in Seq(Msg)
  BY <1>1 DEF IInv, ListsSound, TypeOK, Pend, Lists
<1> HIDE DEF l
<1>3. ToSet(r) = ToSet(q) \union {m} /\ IsInjective(r)
  <2>1. r = Splice(q, Len(q) + 1, 0, <<m>>) /\ m \notin ToSet(q) /\ IsInjective(q)
    BY <1>1, <1>2
  <2> HIDE DEF r, q
  <2> QED
    BY <1>2, <2>1, PutKeeps
<1>4. \A n \in Lists \ {l} : ToSet(r) \intersect ToSet(lists[n]) = {}
  BY <1>2, <1>3
<1>5. Len(q) \in Nat /\ Len(q) + 1 \in 1..(Len(q) + 1) /\ Len(q) + 1 + 0 <= Len(q) + 1
  BY <1>2
<1>6. Valid(l, Len(q) + 1, 0, <<m>>)
  BY <1>3, <1>4, <1>5 DEF Valid
<1> QED
  BY <1>1, <1>6 DEF l

\* The splice of an insertion.
LEMMA WriteInsertKeeps ==
  ASSUME IInv, WriteInsert
  PROVE  IInv'
<1>1. /\ todo # <<>> /\ Head(todo).op = "insert" /\ todo' = Tail(todo)
      /\ sent' = sent \union Head(todo).ids
      /\ UNCHANGED <<cursor, entered, discarded, box, before>>
  BY DEF WriteInsert
<1>0. PICK l \in Lists : l = Head(todo).list
  BY <1>1, InsertionIs
<1> DEFINE q == lists[l]
<1>2. PICK m \in Msg :
        /\ Head(todo).ids = {m} /\ Coming = {m}
        /\ \A n : Arriving(n) = IF n = l THEN {m} ELSE {}
        /\ \A n \in Lists : m \notin Pend(n)
  BY <1>0, <1>1, InsertionIs
<1>3. /\ Tail(todo) = <<>>
      /\ Doomed = {} /\ Naming = {} /\ Entering = {} /\ cursor = NoCursor
  BY <1>1, InsertionIs
<1> DEFINE r == Splice(q, Len(q) + 1, 0, <<m>>)
<1>4. lists' = [lists EXCEPT ![l] = r]
  BY <1>0, <1>2 DEF WriteInsert, Mutate
<1>5. lists \in [Lists -> Seq(Msg)] /\ q \in Seq(Msg)
  BY <1>3 DEF IInv, TypeOK
<1>6. /\ r \in Seq(Msg) /\ Len(r) = Len(q) + 1 /\ r[Len(q) + 1] = m
      /\ \A p \in 1..Len(q) : r[p] = q[p]
      /\ Len(q) \in Nat
  <2>1. r = Splice(q, Len(q) + 1, 0, <<m>>)
    OBVIOUS
  <2> HIDE DEF r, q
  <2>2. PutLast(q, r, m)
    BY <1>5, <2>1, PutFacts
  <2> QED
    BY <1>5, <2>2 DEF PutLast
<1>7. ToSet(r) = ToSet(q) \union {m} /\ IsInjective(r)
  <2>1. /\ r = Splice(q, Len(q) + 1, 0, <<m>>) /\ m \notin ToSet(q)
        /\ IsInjective(q)
    BY <1>2, <1>3 DEF IInv, ListsSound, Pend
  <2> HIDE DEF r, q
  <2> QED
    BY <1>5, <2>1, PutKeeps
<1>8. q = lists[l]
  OBVIOUS
<1> HIDE DEF r, q
<1>9. /\ lists' \in [Lists -> Seq(Msg)] /\ lists'[l] = r
      /\ \A n \in Lists : n # l => lists'[n] = lists[n]
  BY <1>3, <1>4, <1>5, <1>6
<1>10. /\ Pend(l)' = Pend(l) \union {m}
       /\ \A n \in Lists : n # l => Pend(n)' = Pend(n)
  <2>1. \A n \in Lists : Pend(n) = ToSet(lists[n]) /\ ToSet(lists'[n]) = Pend(n)'
    BY DEF Pend
  <2> QED
    BY <1>3, <1>7, <1>8, <1>9, <2>1
<1>11. todo' = <<>>
  BY <1>1, <1>3
<1>12. /\ Doomed' = {} /\ Naming' = {} /\ Entering' = {} /\ Coming' = {}
       /\ \A n : Arriving(n)' = {}
  <2>1. \A kinds : IdsOf(kinds, <<>>) = {}
    BY IdsOfNothing
  <2> QED
    BY <1>11, <2>1 DEF Doomed, Naming, Entering, Coming, Arriving
<1>13. TypeOK'
  <2>1. todo' \in Seq(Line)
    BY <1>11
  <2> QED
    BY <1>1, <1>2, <1>9, <2>1 DEF IInv, TypeOK
<1>14. LinesSound(todo)' /\ CursorSound' /\ OthersKept'
  <2>1. cursor' = NoCursor
    BY <1>1, <1>3
  <2> QED
    BY <1>11, <2>1 DEF LinesSound, CursorSound, OthersKept
<1>15. LogSound'
  BY <1>1, <1>2, <1>3, <1>12 DEF IInv, LogSound
<1>16. ListsSound'
  <2>1. \A n \in Lists : IsInjective(lists'[n])
    BY <1>7, <1>9 DEF IInv, ListsSound
  <2>2. Pend("next-turn")' \intersect Pend("next-step")' = {}
    <3>1. Pend("next-turn") \intersect Pend("next-step") = {}
      BY DEF IInv, ListsSound
    <3> QED
      BY <1>2, <1>3, <1>10, <3>1 DEF Lists
  <2>3. \A n \in Lists : On(box, n) = Pend(n)'
    <3>1. \A n \in Lists : On(box, n) = Pend(n) \union Arriving(n)
      BY <1>3 DEF IInv, ListsSound
    <3>2. Arriving(l) = {m} /\ \A n \in Lists : n # l => Arriving(n) = {}
      BY <1>2
    <3>3. On(box, l) = Pend(l)'
      BY <1>10, <3>1, <3>2
    <3>4. \A n \in Lists : n # l => On(box, n) = Pend(n)'
      BY <1>10, <3>1, <3>2
    <3> QED
      BY <3>3, <3>4
  <2>4. ASSUME NEW n \in Lists,
               NEW i \in 1..Len(lists'[n]), NEW j \in 1..Len(lists'[n])
        PROVE  i < j <=> <<lists'[n][i], lists'[n][j]>> \in box.ahead
    <3>1. \A x, y \in 1..Len(lists[n]) :
            x < y <=> <<lists[n][x], lists[n][y]>> \in box.ahead
      BY <1>3 DEF IInv, ListsSound
    <3>2. CASE n # l
      BY <1>9, <3>1, <3>2
    <3>3. CASE n = l
      <4>1. /\ lists'[n] = r /\ lists[n] = q /\ i \in 1..(Len(q) + 1)
            /\ j \in 1..(Len(q) + 1)
        BY <1>6, <1>8, <1>9, <3>3
      <4>2. /\ \A a \in Pend(l), x \in Arriving(l) :
                 <<a, x>> \in box.ahead /\ <<x, a>> \notin box.ahead
            /\ \A x \in Arriving(l) : <<x, x>> \notin box.ahead
        BY <1>3 DEF IInv, ListsSound
      <4>3. /\ \A p \in 1..Len(q) : /\ <<q[p], m>> \in box.ahead
                                    /\ <<m, q[p]>> \notin box.ahead
            /\ <<m, m>> \notin box.ahead
        <5>1. \A p \in 1..Len(q) : q[p] \in Pend(l)
          BY <1>5, <1>8 DEF Pend, ToSet
        <5>2. m \in Arriving(l)
          BY <1>2
        <5> QED
          BY <4>2, <5>1, <5>2
      <4>4. CASE i \in 1..Len(q) /\ j \in 1..Len(q)
        BY <1>6, <3>1, <4>1, <4>4
      <4>5. CASE i \in 1..Len(q) /\ j = Len(q) + 1
        <5>1. lists'[n][i] = q[i] /\ lists'[n][j] = m /\ i < j
          BY <1>6, <4>1, <4>5
        <5> QED
          BY <4>3, <4>5, <5>1
      <4>6. CASE i = Len(q) + 1 /\ j \in 1..Len(q)
        <5>1. lists'[n][i] = m /\ lists'[n][j] = q[j] /\ ~(i < j)
          BY <1>6, <4>1, <4>6
        <5> QED
          BY <4>3, <4>6, <5>1
      <4>7. CASE i = Len(q) + 1 /\ j = Len(q) + 1
        BY <1>6, <4>1, <4>3, <4>7
      <4> QED
        BY <1>6, <4>1, <4>4, <4>5, <4>6, <4>7
    <3> QED
      BY <3>2, <3>3
  <2> QED
    BY <1>1, <1>12, <2>1, <2>2, <2>3, <2>4 DEF ListsSound
<1> QED
  BY <1>13, <1>14, <1>15, <1>16 DEF IInv

\* Lines without a removal: nothing stands on the cursor or behind it.
LEMMA RecordKeeps ==
  ASSUME IInv, todo # <<>>, Head(todo).op # "remove",
         UNCHANGED <<lists, cursor, sent, box, before>>,
         todo' \in Seq(Line), LinesSound(todo)',
         \A i \in 1..Len(todo') : todo'[i].op # "remove",
         entered' \subseteq Msg, discarded' \subseteq Msg,
         Coming' = Coming, \A l : Arriving(l)' = Arriving(l),
         entered' \union Entering' = entered \union Entering,
         discarded' \union Naming' = discarded \union Naming
  PROVE  IInv'
<1>1. cursor = NoCursor /\ Doomed = {}
  <2>1. todo \in Seq(Line) /\ LinesSound(todo)
    BY DEF IInv, TypeOK
  <2> QED
    BY <2>1, NoRemovalBehind DEF IInv, CursorSound, Doomed
<1>2. Doomed' = {}
  <2>1. \A i \in 1..Len(todo') : todo'[i] \in Line
    OBVIOUS
  <2>2. \A i \in 1..Len(todo') : <<todo'[i].op, todo'[i].list>> \notin Kind("remove")
    BY <2>1, LineKinds
  <2> QED
    BY <2>2 DEF Doomed, IdsOf
<1>3. \A l : Pend(l)' = Pend(l)
  BY DEF Pend
<1>4. TypeOK'
  BY DEF IInv, TypeOK
<1>5. CursorSound'
  BY <1>1 DEF CursorSound
<1>6. OthersKept'
  <2>1. todo' # <<>> => Head(todo').op # "remove"
    OBVIOUS
  <2> QED
    BY <2>1 DEF OthersKept
<1>7. ListsSound'
  BY <1>1, <1>2, <1>3 DEF IInv, ListsSound
<1>8. LogSound'
  <2>1. sent \union Coming =
          Pending(box) \union (entered \union Entering) \union (discarded \union Naming)
    BY DEF IInv, LogSound
  <2>2. /\ Pending(box) \intersect ((entered \union Entering)
                                      \union (discarded \union Naming)) = {}
        /\ (entered \union Entering) \intersect (discarded \union Naming) = {}
    BY DEF IInv, LogSound
  <2>3. /\ sent' \union Coming' = Pending(box') \union (entered' \union Entering')
                                    \union (discarded' \union Naming')
        /\ Pending(box') \intersect ((entered' \union Entering')
                                       \union (discarded' \union Naming')) = {}
        /\ (entered' \union Entering') \intersect (discarded' \union Naming') = {}
    BY <2>1, <2>2
  <2> QED
    BY <2>3 DEF LogSound
<1> QED
  BY <1>4, <1>5, <1>6, <1>7, <1>8 DEF IInv

\* The lines behind one that removes nothing remove nothing.
LEMMA RecordsBehind ==
  ASSUME IInv, todo # <<>>, Head(todo).op # "remove"
  PROVE  \A i \in 1..Len(Tail(todo)) : Tail(todo)[i].op # "remove"
<1>1. todo \in Seq(Line) /\ LinesSound(todo)
  BY DEF IInv, TypeOK
<1>2. todo[1].op # "remove" /\ \A i \in 1..Len(todo) : 1 \in 1..i
  BY <1>1
<1>3. \A i \in 1..Len(todo) : todo[i].op # "remove"
  BY <1>1, <1>2 DEF LinesSound
<1>4. \A i \in 1..Len(Tail(todo)) : i + 1 \in 1..Len(todo) /\ Tail(todo)[i] = todo[i + 1]
  BY <1>1
<1> QED
  BY <1>3, <1>4

\* The line agent/inbox/discarded.
LEMMA WriteDiscardedKeeps ==
  ASSUME IInv, WriteDiscarded
  PROVE  IInv'
<1> DEFINE h == Head(todo)
           t == Tail(todo)
<1>1. /\ todo # <<>> /\ h.op = "discarded" /\ todo' = t
      /\ discarded' = discarded \union h.ids
      /\ UNCHANGED <<lists, cursor, sent, entered, box, before>>
  BY DEF WriteDiscarded
<1>2. /\ h \in Line /\ t \in Seq(Line) /\ LinesSound(t)
      /\ \A kinds : IdsOf(kinds, todo) = Adds(kinds, h) \union IdsOf(kinds, t)
      /\ \A i \in 1..Len(t) : t[i].op # "remove"
  BY <1>1, FirstLine, RecordsBehind
<1>3. /\ Adds(Kind("insert"), h) = {} /\ Adds(Kind("discarded"), h) = h.ids
      /\ Adds(Kind("user/message"), h) = {}
      /\ \A l : Adds({<<"insert", l>>}, h) = {}
  BY <1>1, <1>2, WhatAdds
<1>4. /\ entered \subseteq Msg /\ discarded \subseteq Msg /\ h.ids \subseteq Msg
      /\ Head(todo).op # "remove"
  BY <1>1, <1>2 DEF IInv, TypeOK, Line
<1> HIDE DEF h, t
<1>5. /\ Coming' = Coming /\ \A l : Arriving(l)' = Arriving(l)
      /\ Entering' = Entering /\ Naming = h.ids \union Naming'
  BY <1>1, <1>2, <1>3 DEF Coming, Arriving, Entering, Naming
<1>6. LinesSound(todo)'
  BY <1>1, <1>2 DEF LinesSound
<1>7. /\ discarded' \union Naming' = discarded \union Naming
      /\ entered' \union Entering' = entered \union Entering
  BY <1>1, <1>5
<1> QED
  BY <1>1, <1>2, <1>4, <1>5, <1>6, <1>7, RecordKeeps

\* One line user/message of those that enter.
LEMMA WriteUserMessageKeeps ==
  ASSUME IInv, WriteUserMessage
  PROVE  IInv'
<1> DEFINE h == Head(todo)
           t == Tail(todo)
<1>1. /\ todo # <<>> /\ h.op = "user/message"
      /\ UNCHANGED <<lists, cursor, sent, discarded, box, before>>
  BY DEF WriteUserMessage
<1>2. PICK m \in h.ids :
        /\ entered' = entered \union {m}
        /\ todo' = IF h.ids = {m} THEN t ELSE <<UserMessages(h.ids \ {m})>> \o t
  BY DEF WriteUserMessage
<1>3. /\ h \in Line /\ t \in Seq(Line) /\ LinesSound(t)
      /\ \A kinds : IdsOf(kinds, todo) = Adds(kinds, h) \union IdsOf(kinds, t)
      /\ \A i \in 1..Len(t) : t[i].op # "remove"
  BY <1>1, FirstLine, RecordsBehind
<1>4. /\ Adds(Kind("insert"), h) = {} /\ Adds(Kind("user/message"), h) = h.ids
      /\ Adds(Kind("discarded"), h) = {}
      /\ \A l : Adds({<<"insert", l>>}, h) = {}
  BY <1>1, <1>3, WhatAdds
<1>5. /\ entered \subseteq Msg /\ discarded \subseteq Msg /\ h.ids \subseteq Msg
      /\ Head(todo).op # "remove"
  BY <1>1, <1>3 DEF IInv, TypeOK, Line
<1> HIDE DEF h, t
<1>6. /\ todo' \in Seq(Line) /\ LinesSound(todo')
      /\ \A i \in 1..Len(todo') : todo'[i].op # "remove"
      /\ IdsOf(Kind("insert"), todo') = IdsOf(Kind("insert"), t)
      /\ IdsOf(Kind("discarded"), todo') = IdsOf(Kind("discarded"), t)
      /\ \A l : IdsOf({<<"insert", l>>}, todo') = IdsOf({<<"insert", l>>}, t)
      /\ IdsOf(Kind("user/message"), todo') =
           (h.ids \ {m}) \union IdsOf(Kind("user/message"), t)
  <2>1. CASE h.ids = {m}
    BY <1>2, <1>3, <2>1
  <2>2. CASE h.ids # {m}
    <3> DEFINE x == UserMessages(h.ids \ {m})
               s == <<x>> \o t
    <3>1. x \in Line /\ x.op = "user/message" /\ x.ids = h.ids \ {m}
      BY <1>2, <1>5, LineFacts DEF Lists
    <3>2. todo' = s /\ x.ids # {}
      BY <1>2, <2>2, <3>1
    <3> HIDE DEF x
    <3>3. LinesSound(s)
      BY <1>3, <3>1, <3>2, RecordFirst
    <3>4. \A kinds : s \in Seq(Line) /\
                     IdsOf(kinds, s) = Adds(kinds, x) \union IdsOf(kinds, t)
      BY <1>3, <3>1, MoreLines, Zenon
    <3>5. /\ Adds(Kind("insert"), x) = {} /\ Adds(Kind("user/message"), x) = x.ids
          /\ Adds(Kind("discarded"), x) = {}
          /\ \A l : Adds({<<"insert", l>>}, x) = {}
      BY <3>1, WhatAdds
    <3>6. \A i \in 1..Len(s) : s[i].op # "remove"
      <4>1. s[1] = x /\ \A i \in 1..Len(s) : i = 1 \/ (i - 1 \in 1..Len(t) /\ s[i] = t[i - 1])
        BY <1>3, <3>1
      <4> QED
        BY <1>3, <3>1, <4>1
    <3> HIDE DEF s
    <3> QED
      BY <3>1, <3>2, <3>3, <3>4, <3>5, <3>6
  <2> QED
    BY <2>1, <2>2
<1>7. /\ Coming' = Coming /\ \A l : Arriving(l)' = Arriving(l) /\ Naming' = Naming
      /\ Entering = h.ids \union IdsOf(Kind("user/message"), t)
      /\ Entering' = (h.ids \ {m}) \union IdsOf(Kind("user/message"), t)
  BY <1>3, <1>4, <1>6 DEF Coming, Arriving, Entering, Naming
<1>8. LinesSound(todo)'
  BY <1>6 DEF LinesSound
<1>9. /\ discarded' \union Naming' = discarded \union Naming
      /\ entered' \union Entering' = entered \union Entering
      /\ entered' \subseteq Msg /\ discarded' \subseteq Msg
  BY <1>1, <1>2, <1>5, <1>7
<1> QED
  BY <1>1, <1>5, <1>6, <1>7, <1>8, <1>9, RecordKeeps

\* A fresh inbox.
LEMMA InitKeeps ==
  ASSUME Init
  PROVE  IInv
<1> DEFINE none == <<>>
<1>1. /\ todo = none /\ cursor = NoCursor /\ sent = {} /\ entered = {}
      /\ discarded = {} /\ box = EmptyBox /\ before = lists
      /\ lists = [l \in Lists |-> none]
  BY DEF Init
<1>2. none \in Seq(Msg) /\ none \in Seq(Line) /\ Len(none) = 0 /\ ToSet(none) = {}
  BY DEF ToSet
<1>3. \A kinds : IdsOf(kinds, none) = {}
  BY IdsOfNothing
<1>4. IsInjective(none)
  BY DEF IsInjective
<1>5. LinesSound(none)
  BY NoLines
<1> HIDE DEF none
<1>6. /\ Doomed = {} /\ Coming = {} /\ Naming = {} /\ Entering = {}
      /\ \A l : Arriving(l) = {}
      /\ \A n \in Lists : Pend(n) = {}
  BY <1>1, <1>2, <1>3 DEF Doomed, Coming, Naming, Entering, Arriving, Pend
<1>7. TypeOK
  <2>1. EmptyBox \in Box
    BY DEF EmptyBox, Box
  <2>2. cursor \in [target : Lists \union {"none"}, left : SUBSET Nat]
    BY <1>1 DEF NoCursor
  <2> QED
    BY <1>1, <1>2, <2>1, <2>2 DEF TypeOK
<1>8. /\ \A l \in Lists : On(box, l) = {}
      /\ Pending(box) = {}
  BY <1>1 DEF On, Pending, EmptyBox, Lists
<1>9. ListsSound
  <2>1. \A l \in Lists : IsInjective(lists[l]) /\ Len(lists[l]) = 0
    BY <1>1, <1>2, <1>4
  <2> QED
    BY <1>6, <1>8, <2>1 DEF ListsSound, Lists
<1>10. LogSound
  BY <1>1, <1>6, <1>8 DEF LogSound
<1>11. CursorSound /\ OthersKept
  BY <1>1 DEF CursorSound, OthersKept, none
<1> QED
  BY <1>1, <1>5, <1>7, <1>9, <1>10, <1>11 DEF IInv

\* Nothing happens.
LEMMA StutterKeeps ==
  ASSUME IInv, UNCHANGED vars
  PROVE  IInv'
<1>1. UNCHANGED <<lists, todo, cursor, sent, entered, discarded, box, before>>
  BY DEF vars
<1>2. /\ cursor' \in [target : Lists \union {"none"}, left : SUBSET Nat]
      /\ CursorSound'
  BY <1>1 DEF IInv, TypeOK, CursorSound, IndexesOf, Pend
<1> QED
  BY <1>1, <1>2, CursorMoves

\* Every step keeps the invariant.
LEMMA NextKeeps ==
  ASSUME IInv, [Next]_vars
  PROVE  IInv'
<1>1. CASE \E m \in Msg : Promote(m) \/ \E l \in Lists : Insert(l, m)
  BY <1>1, PromoteKeeps, InsertKeeps
<1>2. CASE \E S \in SUBSET Msg : DiscardSome(S) \/ \E E \in SUBSET S : Enter(S, E)
  BY <1>2, DiscardSomeKeeps, EnterKeeps
<1>3. CASE WriteRemove
  <2>1. OpenList \/ NextList \/ RemoveRun
    BY <1>3 DEF WriteRemove
  <2> QED
    BY <1>3, <2>1, OpenListKeeps, NextListKeeps, RemoveRunKeeps
<1>4. CASE WriteInsert
  BY <1>4, WriteInsertKeeps
<1>5. CASE WriteDiscarded
  BY <1>5, WriteDiscardedKeeps
<1>6. CASE WriteUserMessage
  BY <1>6, WriteUserMessageKeeps
<1>7. CASE UNCHANGED vars
  BY <1>7, StutterKeeps
<1> QED
  BY <1>1, <1>2, <1>3, <1>4, <1>5, <1>6, <1>7 DEF Next, WriteLine

-----------------------------------------------------------------------------
(***************************************************************************)
(* Theorems.                                                               *)
(***************************************************************************)

\* IInv holds in every reachable state (inbox.ts:346-407).
THEOREM SplicesInvariant == Spec => []IInv
<1>1. Init => IInv
  BY InitKeeps
<1>2. IInv /\ [Next]_vars => IInv'
  BY NextKeeps
<1> QED
  BY <1>1, <1>2, PTL DEF Spec

\* Between operations every message is in one place and the arrays hold what the
\* box holds, in its order: removeRuns and mutate do what the operators of Inbox
\* say they do.
THEOREM SplicesAgree == Spec => []ArraysAgree
<1>1. ASSUME IInv PROVE ArraysAgree
  <2>1. ASSUME todo = <<>>
        PROVE  AccountedNow
    <3>1. Located = Pending(box)
      BY <1>1, <2>1, AllPending DEF Located
    <3> QED
      BY <1>1, <2>1, <3>1, AtRest DEF AccountedNow
  <2>2. ASSUME todo = <<>>, NEW l \in Lists
        PROVE  /\ Pend(l) = On(box, l)
               /\ \A i, j \in 1..Len(lists[l]) :
                    i < j <=> <<lists[l][i], lists[l][j]>> \in box.ahead
    <3>1. Pend(l) = On(box, l) /\ Doomed = {}
      BY <1>1, <2>2, AtRest DEF Doomed
    <3> QED
      BY <1>1, <3>1 DEF IInv, ListsSound
  <2> QED
    BY <2>1, <2>2 DEF ArraysAgree
<1> QED
  BY <1>1, SplicesInvariant, PTL

\* What holds of the messages of W holds of fewer of them.
LEMMA StandingOfFewer ==
  ASSUME NEW s, NEW t, NEW W, NEW V, V \subseteq W, Standing(s, W) = Standing(t, W)
  PROVE  Standing(s, V) = Standing(t, V)
<1>1. /\ ToSet(s) \intersect W = ToSet(t) \intersect W
      /\ {p \in W \X W : \E i, j \in 1..Len(s) : i < j /\ s[i] = p[1] /\ s[j] = p[2]} =
         {p \in W \X W : \E i, j \in 1..Len(t) : i < j /\ t[i] = p[1] /\ t[j] = p[2]}
  BY DEF Standing
<1>2. V \X V \subseteq W \X W
  OBVIOUS
<1>3. {p \in V \X V : \E i, j \in 1..Len(s) : i < j /\ s[i] = p[1] /\ s[j] = p[2]} =
      {p \in V \X V : \E i, j \in 1..Len(t) : i < j /\ t[i] = p[1] /\ t[j] = p[2]}
  BY <1>1, <1>2, Zenon
<1>4. ToSet(s) \intersect V = ToSet(t) \intersect V
  BY <1>1
<1> QED
  BY <1>3, <1>4, Zenon DEF Standing

\* A removal under way leaves every other message on its list, in its order
\* (inbox.ts:346).
THEOREM SplicesKeepOthers == Spec => []OthersKeepTheirPlace
<1>1. ASSUME IInv, todo # <<>>, Head(todo).op = "remove", NEW l \in Lists
      PROVE  Standing(lists[l], Pending(box) \ Head(todo).ids) =
               Standing(before[l], Pending(box) \ Head(todo).ids)
  <2>1. todo \in Seq(Line) /\ LinesSound(todo) /\ Head(todo) = todo[1] /\ 1 \in 1..Len(todo)
    BY <1>1 DEF IInv, TypeOK
  <2>2. Coming \subseteq Head(todo).ids
    BY <1>1, <2>1 DEF LinesSound, Coming
  <2>3. Standing(lists[l], Pending(box) \ Coming) =
          Standing(before[l], Pending(box) \ Coming)
    BY <1>1 DEF IInv, OthersKept
  <2>4. Pending(box) \ Head(todo).ids \subseteq Pending(box) \ Coming
    BY <2>2
  <2> QED
    BY <2>3, <2>4, StandingOfFewer
<1>2. IInv => OthersKeepTheirPlace
  BY <1>1 DEF OthersKeepTheirPlace
<1> QED
  BY <1>2, SplicesInvariant, PTL

\* validate() refuses no splice an operation makes (inbox.ts:418).
THEOREM SplicesAreValid == Spec => []NothingIsRefused
<1>1. ASSUME IInv, todo # <<>>
      PROVE  CASE Head(todo).op = "remove" ->
                    cursor.left # {} => Valid(cursor.target, RunStart(cursor.left),
                                              RunLength(cursor.left), <<>>)
               [] Head(todo).op = "insert" ->
                    \E m \in Head(todo).ids :
                      Valid(Head(todo).list, Len(lists[Head(todo).list]) + 1, 0, <<m>>)
               [] OTHER -> Head(todo).ids # {}
  <2>1. CASE Head(todo).op = "remove"
    <3>1. cursor.left # {} => Valid(cursor.target, RunStart(cursor.left),
                                    RunLength(cursor.left), <<>>)
      BY <1>1, RunIsValid
    <3> QED
      BY <2>1, <3>1, Zenon
  <2>2. CASE Head(todo).op = "insert"
    <3>1. \E m \in Head(todo).ids :
            Valid(Head(todo).list, Len(lists[Head(todo).list]) + 1, 0, <<m>>)
      BY <1>1, <2>2, InsertionIsValid
    <3>2. Head(todo).op # "remove"
      BY <2>2
    <3> QED
      BY <2>2, <3>1, <3>2, Zenon
  <2>3. CASE Head(todo).op \notin {"remove", "insert"}
    <3>1. /\ todo \in Seq(Line) /\ LinesSound(todo) /\ Head(todo) = todo[1]
          /\ 1 \in 1..Len(todo) /\ Head(todo) \in Line
      BY <1>1 DEF IInv, TypeOK
    <3>2. Head(todo).op \in {"discarded", "user/message"}
      BY <2>3, <3>1 DEF Line
    <3>3. Head(todo).ids # {}
      BY <3>1, <3>2 DEF LinesSound
    <3> QED
      BY <2>3, <3>3
  <2> QED
    BY <2>1, <2>2, <2>3
<1>2. IInv => NothingIsRefused
  BY <1>1, Zenon DEF NothingIsRefused
<1> QED
  BY <1>2, SplicesInvariant, PTL
=============================================================================
