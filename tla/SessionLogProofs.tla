------------------------- MODULE SessionLogProofs -------------------------
(***************************************************************************)
(* Proofs about SessionLog, for every bound: nothing is forgotten on its   *)
(* way from memory to the file, and the log implements what DurableLog     *)
(* promises of it.                                                         *)
(***************************************************************************)
EXTENDS SessionLog, WellFoundedInduction, TLAPS

FileLine == [event : Events, state : States]

\* A file is written in order: only its last line can be unfinished.
Tidy(f) ==
  \A i \in 1..Len(f) : i < Len(f) => f[i].state \in {"whole", "damaged"}

\* What a write of m, or the end of a process in it, leaves of it: lines of
\* m from its start, all but the last whole.
PieceOf(f, m) ==
  /\ Len(f) <= Len(m)
  /\ \A i \in 1..Len(f) :
       /\ f[i].event = m[i]
       /\ f[i].state \in {"whole", "no-newline", "cut"}
       /\ i < Len(f) => f[i].state = "whole"

\* The file starts with the first n events of m, in whole lines.
Starts(f, m, n) ==
  n <= Len(f) /\ n <= Len(m) /\ \A i \in 1..n : f[i] = Line(m[i])

Whole(f) == \A i \in 1..Len(f) : f[i].state = "whole"

\* While a log is open: the file holds the batches that were written, and
\* perhaps a piece of the next, which waits to be written again.
OpenSound ==
  /\ PieceOf(file, mem) /\ Starts(file, mem, bytes)
  /\ Len(file) > bytes => paused
  /\ Len(mem) > bytes => timer
  /\ TurnEndsOwed
  /\ recovered <= Len(mem)
  /\ promised <= bytes /\ promised <= platter

\* What was promised survives in a file nobody has open.
ClosedSound == Tidy(file) /\ promised <= Good(file) /\ promised <= platter

\* The prefix that is about to replace a damaged log.
RenamedSound == Whole(temp) /\ promised <= Len(temp)

\* No more events anywhere than were appended.
Bounded ==
  /\ appended \in 0..MaxEvents
  /\ Len(mem) <= appended /\ Len(file) <= appended /\ Len(temp) <= appended
  /\ bytes <= appended /\ recovered <= appended /\ promised <= appended

IInv == /\ TypeOK /\ Bounded
        /\ Attached => OpenSound
        /\ stage = "closed" => ClosedSound
        /\ stage = "renamed" => RenamedSound

-----------------------------------------------------------------------------
(***************************************************************************)
(* Files and what can be read of them.                                     *)
(***************************************************************************)

LEMMA LeastNumber ==
  ASSUME NEW S \in SUBSET Nat, S # {}
  PROVE  \E n \in S : \A k \in S : n <= k
<1>1. PICK n \in S : \A k \in S : ~(<<k, n>> \in OpToRel(<, Nat))
  BY WFMin, NatLessThanWellFounded, Zenon
<1>2. \A k \in S : ~(k < n)
  BY <1>1, Zenon DEF OpToRel
<1> QED
  BY <1>2

\* Reading stops in front of the first line that cannot be decoded.
LEMMA GoodFacts ==
  ASSUME NEW f \in Seq(FileLine)
  PROVE  /\ Good(f) \in 0..Len(f)
         /\ \A i \in 1..Good(f) : f[i].state \notin {"cut", "damaged"}
         /\ Good(f) < Len(f) =>
              f[Good(f) + 1].state \in {"cut", "damaged"}
<1> DEFINE bad   == {i \in 1..Len(f) : f[i].state \in {"cut", "damaged"}}
           first == CHOOSE i \in bad : \A j \in bad : i <= j
<1>1. Len(f) \in Nat
  OBVIOUS
<1>2. CASE bad = {}
  <2>1. Good(f) = Len(f)
    BY <1>2 DEF Good
  <2> QED
    BY <1>1, <1>2, <2>1
<1>3. CASE bad # {}
  <2>1. bad \in SUBSET Nat
    BY <1>1
  <2>2. \E i \in bad : \A j \in bad : i <= j
    BY <1>3, <2>1, LeastNumber
  <2>3. first \in bad /\ \A j \in bad : first <= j
    BY <2>2
  <2>4. Good(f) = first - 1
    BY <1>3 DEF Good
  <2> HIDE DEF first
  <2>5. first \in 1..Len(f) /\ first - 1 + 1 = first
    BY <2>3
  <2>6. \A i \in 1..(first - 1) : i \in 1..Len(f) /\ i \notin bad
    BY <1>1, <2>3, <2>5
  <2> QED
    BY <2>3, <2>4, <2>5, <2>6
<1> QED
  BY <1>2, <1>3

\* These facts say which number it is.
LEMMA GoodIs ==
  ASSUME NEW f \in Seq(FileLine), NEW n \in 0..Len(f),
         \A i \in 1..n : f[i].state \notin {"cut", "damaged"},
         n < Len(f) => f[n + 1].state \in {"cut", "damaged"}
  PROVE  Good(f) = n
<1>1. Good(f) \in 0..Len(f)
  BY GoodFacts
<1>2. CASE Good(f) < n
  <2>1. Good(f) + 1 \in 1..n /\ Good(f) < Len(f)
    BY <1>1, <1>2
  <2> QED
    BY <2>1, GoodFacts
<1>3. CASE Good(f) > n
  <2>1. n + 1 \in 1..Good(f) /\ n < Len(f)
    BY <1>1, <1>3
  <2> QED
    BY <2>1, GoodFacts
<1> QED
  BY <1>1, <1>2, <1>3

LEMMA ReadableFacts ==
  ASSUME NEW f \in Seq(FileLine)
  PROVE  /\ Readable(f) \in Seq(Events) /\ Len(Readable(f)) = Good(f)
         /\ \A i \in 1..Good(f) : Readable(f)[i] = f[i].event
<1>1. Good(f) \in 0..Len(f) /\ Good(f) \in Nat
  BY GoodFacts
<1>2. \A i \in 1..Good(f) : f[i] \in FileLine
  BY <1>1
<1>3. \A i \in 1..Good(f) : f[i].event \in Events
  BY <1>2 DEF FileLine
<1> QED
  BY <1>1, <1>3 DEF Readable

\* A file of whole lines is read to its end.
LEMMA WholeReads ==
  ASSUME NEW f \in Seq(FileLine), Whole(f)
  PROVE  Good(f) = Len(f)
<1>1. Len(f) \in 0..Len(f)
  OBVIOUS
<1> QED
  BY <1>1, GoodIs DEF Whole

\* Of a piece of m, all but perhaps the last line is read.
LEMMA PieceReads ==
  ASSUME NEW m \in Seq(Events), NEW f \in Seq(FileLine), PieceOf(f, m),
         NEW n \in 0..Len(m), Starts(f, m, n)
  PROVE  /\ Good(f) \in n..Len(m) /\ Tidy(f)
         /\ Readable(f) = Prefix(m, Good(f))
<1>1. /\ Good(f) \in 0..Len(f) /\ Len(f) \in Nat /\ Len(m) \in Nat
      /\ \A i \in 1..Good(f) : Readable(f)[i] = f[i].event
      /\ Readable(f) \in Seq(Events) /\ Len(Readable(f)) = Good(f)
  BY GoodFacts, ReadableFacts
<1>2. n <= Good(f)
  <2> SUFFICES ASSUME Good(f) < n PROVE FALSE
    BY <1>1
  <2>1. Good(f) + 1 \in 1..n /\ Good(f) < Len(f)
    BY <1>1 DEF Starts
  <2>2. f[Good(f) + 1] = Line(m[Good(f) + 1])
    BY <2>1 DEF Starts
  <2>3. f[Good(f) + 1].state = "whole"
    BY <2>2 DEF Line
  <2> QED
    BY <2>1, <2>3, GoodFacts
<1>3. Readable(f) = Prefix(m, Good(f))
  <2>1. /\ Prefix(m, Good(f)) \in Seq(Events)
        /\ Len(Prefix(m, Good(f))) = Good(f)
        /\ \A i \in 1..Good(f) : Prefix(m, Good(f))[i] = m[i]
    BY <1>1 DEF PieceOf, Prefix
  <2>2. \A i \in 1..Good(f) : i \in 1..Len(f)
    BY <1>1
  <2>3. \A i \in 1..Good(f) : Readable(f)[i] = Prefix(m, Good(f))[i]
    BY <1>1, <2>1, <2>2 DEF PieceOf
  <2> QED
    BY <1>1, <2>1, <2>3
<1> QED
  BY <1>1, <1>2, <1>3 DEF PieceOf, Tidy

LEMMA LinesFacts ==
  ASSUME NEW m \in Seq(Events)
  PROVE  /\ Lines(m) \in Seq(FileLine) /\ Len(Lines(m)) = Len(m)
         /\ \A i \in 1..Len(m) : /\ Lines(m)[i] = Line(m[i])
                                 /\ Lines(m)[i].event = m[i]
                                 /\ Lines(m)[i].state = "whole"
         /\ PieceOf(Lines(m), m) /\ Starts(Lines(m), m, Len(m))
<1>1. /\ Len(m) \in Nat /\ \A i \in 1..Len(m) : m[i] \in Events
  OBVIOUS
<1>2. \A e \in Events : /\ Line(e) \in FileLine /\ Line(e).event = e
                         /\ Line(e).state = "whole"
  BY DEF Line, FileLine, States
<1>3. /\ Lines(m) \in Seq(FileLine) /\ Len(Lines(m)) = Len(m)
      /\ \A i \in 1..Len(m) : Lines(m)[i] = Line(m[i])
  BY <1>1, <1>2 DEF Lines
<1>4. \A i \in 1..Len(m) : /\ Lines(m)[i].event = m[i]
                           /\ Lines(m)[i].state = "whole"
  BY <1>1, <1>2, <1>3
<1> QED
  BY <1>1, <1>3, <1>4 DEF PieceOf, Starts

\* A file that ends inside line n + 1.
LEMMA CutFacts ==
  ASSUME NEW f \in Seq(FileLine), NEW n \in 0..Len(f), NEW g \in CutAfter(f, n)
  PROVE  /\ g \in Seq(FileLine) /\ n <= Len(g) /\ Len(g) <= Len(f)
         /\ \A i \in 1..n : g[i] = f[i]
         /\ \A i \in 1..Len(g) : i > n =>
              /\ i = n + 1 /\ i = Len(g)
              /\ g[i].event = f[i].event /\ g[i].state \in CutShort(f[i])
<1>1. /\ Len(f) \in Nat /\ n \in Nat
      /\ \A i \in 1..Len(f) : f[i] \in FileLine
  OBVIOUS
<1>2. /\ Prefix(f, n) \in Seq(FileLine) /\ Len(Prefix(f, n)) = n
      /\ \A i \in 1..n : Prefix(f, n)[i] = f[i]
  BY <1>1 DEF Prefix
<1>3. CASE g = Prefix(f, n)
  BY <1>1, <1>2, <1>3
<1>4. CASE g # Prefix(f, n)
  <2>1. n < Len(f)
    BY <1>1, <1>4 DEF CutAfter
  <2>2. PICK st \in CutShort(f[n + 1]) :
          g = Append(Prefix(f, n), [f[n + 1] EXCEPT !.state = st])
    BY <1>4, <2>1 DEF CutAfter
  <2> DEFINE e == [f[n + 1] EXCEPT !.state = st]
  <2>3. f[n + 1] \in FileLine /\ st \in {"cut", "no-newline"}
    BY <1>1, <2>1 DEF CutShort
  <2>4. e \in FileLine /\ e.event = f[n + 1].event /\ e.state = st
    BY <2>3 DEF FileLine, States
  <2> HIDE DEF e
  <2>5. /\ g \in Seq(FileLine) /\ Len(g) = n + 1 /\ g[n + 1] = e
        /\ \A i \in 1..n : g[i] = f[i]
    BY <1>1, <1>2, <2>2, <2>4 DEF e
  <2> QED
    BY <1>1, <2>1, <2>4, <2>5
<1> QED
  BY <1>3, <1>4

LEMMA CutOfPiece ==
  ASSUME NEW m \in Seq(Events), NEW n \in 0..Len(m),
         NEW f \in CutAfter(Lines(m), n)
  PROVE  f \in Seq(FileLine) /\ PieceOf(f, m) /\ Starts(f, m, n)
<1> DEFINE l == Lines(m)
<1>1. /\ l \in Seq(FileLine) /\ Len(l) = Len(m) /\ Len(m) \in Nat /\ n \in Nat
      /\ \A i \in 1..Len(m) : l[i] = Line(m[i])
      /\ \A i \in 1..Len(m) : l[i].event = m[i] /\ l[i].state = "whole"
  BY LinesFacts
<1> HIDE DEF l
<1>2. /\ f \in Seq(FileLine) /\ n <= Len(f) /\ Len(f) <= Len(l)
      /\ \A i \in 1..n : f[i] = l[i]
      /\ \A i \in 1..Len(f) : i > n =>
           /\ i = n + 1 /\ i = Len(f)
           /\ f[i].event = l[i].event /\ f[i].state \in CutShort(l[i])
  BY <1>1, CutFacts DEF l
<1>3. Starts(f, m, n)
  BY <1>1, <1>2 DEF Starts
<1>4. ASSUME NEW i \in 1..Len(f)
      PROVE  /\ f[i].event = m[i]
             /\ f[i].state \in {"whole", "no-newline", "cut"}
             /\ i < Len(f) => f[i].state = "whole"
  <2>1. i \in 1..Len(m) /\ Len(f) \in Nat
    BY <1>1, <1>2
  <2>2. CASE i <= n
    BY <1>1, <1>2, <2>1, <2>2
  <2>3. CASE i > n
    BY <1>1, <1>2, <2>1, <2>3 DEF CutShort
  <2> QED
    BY <1>1, <2>1, <2>2, <2>3
<1> QED
  BY <1>1, <1>2, <1>3, <1>4 DEF PieceOf

\* Whatever a power loss takes, a prefix of what could be read remains.
LEMMA CutReads ==
  ASSUME NEW f \in Seq(FileLine), Tidy(f), NEW n \in 0..Len(f),
         NEW g \in CutAfter(f, n)
  PROVE  /\ Tidy(g) /\ Good(g) \in 0..Good(f)
         /\ n <= Good(f) => n <= Good(g)
         /\ n > Good(f) => Good(g) = Good(f)
         /\ Readable(g) = Prefix(Readable(f), Good(g))
<1>1. /\ Len(f) \in Nat /\ Len(g) \in Nat /\ n \in Nat
      /\ Good(f) \in 0..Len(f) /\ Good(g) \in 0..Len(g)
      /\ g \in Seq(FileLine) /\ n <= Len(g) /\ Len(g) <= Len(f)
      /\ \A i \in 1..n : g[i] = f[i]
      /\ \A i \in 1..Len(g) : i > n =>
           /\ i = n + 1 /\ i = Len(g)
           /\ g[i].event = f[i].event /\ g[i].state \in CutShort(f[i])
  BY CutFacts, GoodFacts
<1>2. Good(g) <= Good(f)
  <2> SUFFICES ASSUME Good(f) < Good(g) PROVE FALSE
    BY <1>1
  <2> DEFINE i == Good(f) + 1
  <2>1. i \in 1..Good(g) /\ i \in 1..Len(g) /\ Good(f) < Len(f)
    BY <1>1
  <2>2. /\ f[i].state \in {"cut", "damaged"}
        /\ g[i].state \notin {"cut", "damaged"}
    BY <1>1, <2>1, GoodFacts
  <2> HIDE DEF i
  <2>3. CASE i <= n
    BY <1>1, <2>1, <2>2, <2>3
  <2>4. CASE i > n
    BY <1>1, <2>1, <2>2, <2>4 DEF CutShort
  <2> QED
    BY <1>1, <2>1, <2>3, <2>4
<1>3. ASSUME Good(g) < n, Good(g) < Good(f)
      PROVE  FALSE
  <2>1. Good(g) + 1 \in 1..n /\ Good(g) + 1 \in 1..Good(f)
        /\ Good(g) < Len(g)
    BY <1>1, <1>3
  <2> QED
    BY <1>1, <2>1, GoodFacts
<1>4. Tidy(g)
  BY <1>1 DEF Tidy
<1>5. Readable(g) = Prefix(Readable(f), Good(g))
  <2>1. /\ Readable(f) \in Seq(Events) /\ Len(Readable(f)) = Good(f)
        /\ \A i \in 1..Good(f) : Readable(f)[i] = f[i].event
        /\ Readable(g) \in Seq(Events) /\ Len(Readable(g)) = Good(g)
        /\ \A i \in 1..Good(g) : Readable(g)[i] = g[i].event
    BY <1>1, ReadableFacts
  <2>2. /\ Prefix(Readable(f), Good(g)) \in Seq(Events)
        /\ Len(Prefix(Readable(f), Good(g))) = Good(g)
        /\ \A i \in 1..Good(g) :
             Prefix(Readable(f), Good(g))[i] = Readable(f)[i]
    BY <1>1, <1>2, <2>1 DEF Prefix
  <2>3. ASSUME NEW i \in 1..Good(g)
        PROVE  Readable(g)[i] = Prefix(Readable(f), Good(g))[i]
    <3>1. i \in 1..Len(g) /\ i \in 1..Good(f)
      BY <1>1, <1>2
    <3>2. g[i].event = f[i].event
      BY <1>1, <3>1
    <3> QED
      BY <2>1, <2>2, <3>1, <3>2
  <2> QED
    BY <2>1, <2>2, <2>3
<1> QED
  BY <1>1, <1>2, <1>3, <1>4, <1>5

-----------------------------------------------------------------------------
(***************************************************************************)
(* Writing.                                                                *)
(***************************************************************************)

\* The events in memory, and perhaps one that is being appended.
Grown(m) == /\ m \in Seq(Events) /\ Len(mem) <= Len(m)
            /\ \A i \in 1..Len(mem) : m[i] = mem[i]

LEMMA MemFacts ==
  ASSUME IInv
  PROVE  /\ mem \in Seq(Events) /\ Len(mem) \in Nat
         /\ file \in Seq(FileLine) /\ Len(file) \in Nat
         /\ temp \in Seq(FileLine) /\ Len(temp) \in Nat
         /\ bytes \in Nat /\ platter \in 0..Len(file)
         /\ promised \in Nat /\ recovered \in Nat
         /\ appended \in 0..MaxEvents /\ MaxEvents \in Nat
BY BoundsAssumption DEF IInv, TypeOK, Bounded, FileLine

LEMMA GrownFile ==
  ASSUME IInv, Attached, NEW m, Grown(m)
  PROVE  /\ PieceOf(file, m) /\ Starts(file, m, bytes)
         /\ bytes \in 0..Len(m) /\ bytes <= Len(file) /\ bytes <= Len(mem)
         /\ Len(m) \in Nat
<1>1. PieceOf(file, mem) /\ Starts(file, mem, bytes)
  BY DEF IInv, OpenSound
<1>2. m \in Seq(Events) /\ Len(m) \in Nat
  BY DEF Grown
<1>3. Len(file) <= Len(mem) /\ bytes <= Len(file) /\ bytes <= Len(mem)
  BY <1>1 DEF PieceOf, Starts
<1>4. \A i \in 1..Len(file) : i \in 1..Len(mem)
  BY <1>3, MemFacts
<1>5. \A i \in 1..bytes : i \in 1..Len(mem)
  BY <1>3, MemFacts
<1> QED
  BY <1>1, <1>2, <1>3, <1>4, <1>5, MemFacts DEF PieceOf, Starts, Grown

\* What a failed write leaves is a piece of what it wrote, behind the batches
\* of before.
LEMMA LeftoversFacts ==
  ASSUME IInv, Attached, NEW m, Grown(m), NEW f \in Leftovers(m)
  PROVE  f \in Seq(FileLine) /\ PieceOf(f, m) /\ Starts(f, m, bytes)
<1>1. /\ PieceOf(file, m) /\ Starts(file, m, bytes)
      /\ bytes \in 0..Len(m) /\ bytes <= Len(file) /\ Len(m) \in Nat
      /\ file \in Seq(FileLine) /\ m \in Seq(Events) /\ bytes \in Nat
      /\ Len(file) \in Nat
  BY GrownFile, MemFacts DEF Grown
<1>2. CASE f = file
  BY <1>1, <1>2
<1>3. CASE f = StrayCut
  <2>1. /\ f \in Seq(FileLine) /\ Len(f) = bytes
        /\ \A i \in 1..bytes : f[i] = file[i] /\ i \in 1..Len(file)
    BY <1>1, <1>3 DEF StrayCut, Prefix
  <2>2. ASSUME NEW i \in 1..bytes
        PROVE  /\ f[i] = Line(m[i]) /\ f[i].event = m[i]
               /\ f[i].state \in {"whole", "no-newline", "cut"}
               /\ i < bytes => f[i].state = "whole"
    <3>1. i < bytes => i < Len(file)
      BY <1>1, <2>1
    <3> QED
      BY <1>1, <2>1, <3>1 DEF PieceOf, Starts
  <2> QED
    BY <1>1, <2>1, <2>2 DEF PieceOf, Starts
<1>4. CASE \E n \in bytes..Len(m) : f \in CutAfter(Target(m), n)
  <2>1. PICK n \in bytes..Len(m) : f \in CutAfter(Lines(m), n)
    BY <1>4 DEF Target
  <2>2. n \in 0..Len(m) /\ bytes <= n
    BY <1>1, <2>1
  <2>3. f \in Seq(FileLine) /\ PieceOf(f, m) /\ Starts(f, m, n)
    BY <1>1, <2>1, <2>2, CutOfPiece
  <2>4. bytes <= Len(f) /\ \A i \in 1..bytes : i \in 1..n
    BY <1>1, <2>2, <2>3 DEF Starts
  <2> QED
    BY <1>1, <2>3, <2>4 DEF Starts
<1> QED
  BY <1>2, <1>3, <1>4 DEF Leftovers

\* The file, the writer's flags and what is promised after a flush of m.
FlushedFile(m) ==
  /\ file' \in Seq(FileLine) /\ PieceOf(file', m) /\ Starts(file', m, bytes')
  /\ bytes' \in {bytes, Len(m)}
  /\ platter' \in 0..Len(file')
  /\ promised' \in {promised, Len(m)} /\ promised <= promised'
  /\ promised' <= bytes' /\ promised' <= platter'

FlushedFlags(m, sync) ==
  /\ Len(file') > bytes' => paused'
  /\ Len(m) > bytes' => timer'
  /\ sync \/ wantSync =>
       \/ promised' = Len(m)
       \/ paused' /\ wantSync'
       \/ paused' = paused /\ wantSync' = wantSync /\ Len(m) = Len(mem)
  /\ paused' \in BOOLEAN /\ wantSync' \in BOOLEAN
  /\ unsynced' \in BOOLEAN /\ timer' \in BOOLEAN
  /\ faults' \in 0..MaxFaults /\ damage' = damage /\ crashes' = crashes

LEMMA FlushFacts ==
  ASSUME IInv, Attached, NEW m, Grown(m), NEW sync \in BOOLEAN,
         FlushEntry(m, sync)
  PROVE  FlushedFile(m) /\ FlushedFlags(m, sync)
<1> DEFINE s == sync \/ wantSync
<1>1. /\ PieceOf(file, m) /\ Starts(file, m, bytes)
      /\ bytes \in 0..Len(m) /\ bytes <= Len(file) /\ Len(m) \in Nat
      /\ file \in Seq(FileLine) /\ m \in Seq(Events) /\ bytes \in Nat
      /\ Len(file) \in Nat /\ platter \in 0..Len(file) /\ promised \in Nat
      /\ Len(mem) \in Nat /\ Len(mem) <= Len(m) /\ bytes <= Len(mem)
  BY GrownFile, MemFacts DEF Grown
<1>2. /\ promised <= bytes /\ promised <= platter
      /\ Len(file) > bytes => paused
      /\ faults \in 0..MaxFaults /\ MaxFaults \in Nat
      /\ paused \in BOOLEAN /\ wantSync \in BOOLEAN /\ unsynced \in BOOLEAN
      /\ s \in BOOLEAN
  BY BoundsAssumption DEF IInv, OpenSound, TypeOK
<1>3. CASE WriteSucceeds(m, s)
  <2>1. /\ file' = Lines(m) /\ file' \in Seq(FileLine) /\ Len(file') = Len(m)
        /\ PieceOf(file', m) /\ Starts(file', m, Len(m))
    BY <1>1, <1>3, LinesFacts DEF WriteSucceeds, Target
  <2>2. /\ platter' \in 0..Len(m)
        /\ promised' <= platter' /\ promised <= promised'
        /\ promised' <= Len(m) /\ promised' \in {promised, Len(m)}
        /\ s => promised' = Len(m)
    BY <1>1, <1>2, <1>3 DEF WriteSucceeds, Least
  <2>3. /\ bytes' = Len(m) /\ unsynced' = ~s /\ ~paused' /\ ~wantSync'
        /\ paused' \in BOOLEAN /\ wantSync' \in BOOLEAN
        /\ timer' \in BOOLEAN /\ ~timer'
        /\ UNCHANGED <<faults, damage, crashes>>
    BY <1>3 DEF WriteSucceeds
  <2>4. FlushedFile(m)
    BY <1>1, <2>1, <2>2, <2>3 DEF FlushedFile
  <2>5. FlushedFlags(m, sync)
    BY <1>1, <1>2, <2>1, <2>2, <2>3 DEF FlushedFlags
  <2> QED
    BY <2>4, <2>5
<1>4. CASE WriteFails(m, s)
  <2>1. file' \in Seq(FileLine) /\ PieceOf(file', m) /\ Starts(file', m, bytes)
    BY <1>4, LeftoversFacts DEF WriteFails
  <2>2. Len(file') \in Nat /\ bytes <= Len(file')
    BY <2>1 DEF Starts
  <2>3. /\ platter' \in 0..Len(file') /\ promised <= platter'
        /\ bytes' = bytes /\ promised' = promised
    BY <1>1, <1>2, <1>4, <2>2 DEF WriteFails, Least
  <2>4. FlushedFile(m)
    BY <1>1, <1>2, <2>1, <2>2, <2>3 DEF FlushedFile
  <2>5. /\ paused' = TRUE /\ timer' = TRUE /\ wantSync' = s
        /\ faults' = faults + 1 /\ faults < MaxFaults
        /\ UNCHANGED <<unsynced, damage, crashes>>
    BY <1>4 DEF WriteFails
  <2>6. faults' \in 0..MaxFaults /\ damage' = damage /\ crashes' = crashes
    BY <1>2, <2>5
  <2>7. /\ paused' /\ timer' /\ (s => wantSync') /\ unsynced' = unsynced
        /\ paused' \in BOOLEAN /\ wantSync' \in BOOLEAN /\ timer' \in BOOLEAN
    BY <1>2, <2>5, Zenon
  <2>8. FlushedFlags(m, sync)
    BY <1>2, <2>6, <2>7, Zenon DEF FlushedFlags
  <2> QED
    BY <2>4, <2>8
<1>5. CASE Len(m) = bytes /\ SyncOnly(s)
  <2>1. /\ file' = file /\ bytes' = bytes /\ Len(m) = Len(mem)
        /\ paused' = paused /\ wantSync' = wantSync /\ timer' = FALSE
        /\ damage' = damage /\ crashes' = crashes
    BY <1>1, <1>5 DEF SyncOnly
  <2>2. /\ platter' \in {platter, Len(file)}
        /\ \/ promised' = promised
           \/ promised' = Len(mem) /\ platter' = Len(file)
        /\ platter' = platter \/ promised' = Len(mem)
        /\ unsynced' \in {unsynced, FALSE}
        /\ faults' = faults \/ (faults' = faults + 1 /\ faults < MaxFaults)
    <3>1. \/ /\ platter' = Len(file) /\ unsynced' = FALSE
             /\ promised' = Len(mem) /\ faults' = faults
          \/ /\ faults < MaxFaults /\ faults' = faults + 1
             /\ UNCHANGED <<platter, unsynced, promised>>
          \/ UNCHANGED <<platter, unsynced, promised, faults>>
      BY <1>5, Zenon DEF SyncOnly
    <3> QED
      BY <3>1
  <2>3. FlushedFile(m)
    BY <1>1, <1>2, <1>5, <2>1, <2>2 DEF FlushedFile
  <2>4. faults' \in 0..MaxFaults
    BY <1>2, <2>2
  <2>5. Len(file') > bytes' => paused'
    BY <1>2, <2>1, Zenon
  <2>6. ~(Len(m) > bytes')
    BY <1>1, <1>5, <2>1
  <2>7. /\ paused' \in BOOLEAN /\ wantSync' \in BOOLEAN
        /\ unsynced' \in BOOLEAN /\ timer' \in BOOLEAN
    BY <1>2, <2>1, <2>2, Zenon
  <2>8. FlushedFlags(m, sync)
    BY <2>1, <2>4, <2>5, <2>6, <2>7, Zenon DEF FlushedFlags
  <2> QED
    BY <2>3, <2>8
<1> QED
  BY <1>3, <1>4, <1>5 DEF FlushEntry

\* A turn end among the events of m that no completed sync covers.
Owed(m) == \E i \in (recovered + 1)..Len(m) :
             i > promised /\ m[i].kind = "turn/end"

\* A flush that leaves the log open.
LEMMA FlushKeeps ==
  ASSUME IInv, Attached, Grown(mem'), NEW sync \in BOOLEAN,
         FlushedFile(mem'), FlushedFlags(mem', sync),
         Owed(mem') => sync \/ wantSync,
         appended' \in appended..MaxEvents, Len(mem') <= appended',
         stage' \in {"live", "repair"}, temp' = temp, recovered' = recovered
  PROVE  IInv'
<1>1. /\ mem' \in Seq(Events) /\ Len(mem') \in Nat /\ Len(mem) <= Len(mem')
      /\ \A i \in 1..Len(mem) : mem'[i] = mem[i]
      /\ file' \in Seq(FileLine) /\ Len(file') \in Nat
      /\ PieceOf(file', mem') /\ Starts(file', mem', bytes')
      /\ platter' \in 0..Len(file') /\ promised <= promised'
      /\ promised' <= bytes' /\ promised' <= platter'
  BY DEF Grown, FlushedFile
<1>2. /\ bytes' \in {bytes, Len(mem')} /\ promised' \in {promised, Len(mem')}
      /\ Len(file') <= Len(mem') /\ bytes' <= Len(mem')
  BY <1>1 DEF FlushedFile, PieceOf, Starts
<1>3. /\ bytes' \in Nat /\ promised' \in Nat /\ appended' \in 0..MaxEvents
      /\ bytes' <= appended' /\ promised' <= appended'
      /\ Len(file') <= appended' /\ MaxEvents \in Nat /\ recovered \in Nat
      /\ appended \in Nat /\ appended <= appended'
  BY <1>1, <1>2, MemFacts
<1>4. TypeOK'
  <2>1. /\ paused' \in BOOLEAN /\ wantSync' \in BOOLEAN
        /\ unsynced' \in BOOLEAN /\ timer' \in BOOLEAN
        /\ faults' \in 0..MaxFaults /\ damage' \in 0..MaxDamage
        /\ crashes' \in 0..MaxCrashes
        /\ temp' \in Seq([event : Events, state : States])
        /\ recovered' \in 0..MaxEvents
    BY DEF FlushedFlags, IInv, TypeOK
  <2>2. bytes' \in 0..MaxEvents /\ promised' \in 0..MaxEvents
    BY <1>3
  <2> QED
    BY <1>1, <1>3, <2>1, <2>2 DEF TypeOK, FileLine
<1>5. Bounded'
  <2>1. Len(temp) <= appended /\ recovered <= appended /\ Len(temp) \in Nat
    BY MemFacts DEF IInv, Bounded
  <2> QED
    BY <1>3, <2>1 DEF Bounded
<1>6. TurnEndsOwed'
  <2> SUFFICES ASSUME NEW i \in (recovered + 1)..Len(mem'), i > promised',
                      mem'[i].kind = "turn/end"
               PROVE  paused' /\ wantSync'
    BY DEF TurnEndsOwed
  <2>1. Owed(mem')
    BY <1>1, <1>3, MemFacts DEF Owed
  <2>2. \/ promised' = Len(mem')
        \/ paused' /\ wantSync'
        \/ paused' = paused /\ wantSync' = wantSync /\ Len(mem') = Len(mem)
    BY <2>1 DEF FlushedFlags
  <2>3. promised' # Len(mem')
    BY <1>1, <1>3
  <2>4. CASE /\ paused' = paused /\ wantSync' = wantSync
             /\ Len(mem') = Len(mem)
    <3>1. /\ i \in (recovered + 1)..Len(mem) /\ i \in 1..Len(mem)
          /\ i > promised
      BY <1>1, <1>3, <2>4, MemFacts
    <3>2. mem[i].kind = "turn/end"
      BY <1>1, <3>1
    <3>3. TurnEndsOwed
      BY DEF IInv, OpenSound
    <3>4. paused /\ wantSync
      BY <3>1, <3>2, <3>3 DEF TurnEndsOwed
    <3> QED
      BY <2>4, <3>4, Zenon
  <2> QED
    BY <2>2, <2>3, <2>4
<1>7. OpenSound'
  <2>1. Len(file') > bytes' => paused'
    BY DEF FlushedFlags
  <2>2. Len(mem') > bytes' => timer'
    BY DEF FlushedFlags
  <2>3. recovered' <= Len(mem')
    BY <1>1, MemFacts DEF IInv, OpenSound
  <2> QED
    BY <1>1, <1>6, <2>1, <2>2, <2>3 DEF OpenSound
<1>8. Attached' /\ stage' # "closed" /\ stage' # "renamed"
  BY DEF Attached
<1> QED
  BY <1>4, <1>5, <1>7, <1>8 DEF IInv

\* What is written when the log is closed.
LEMMA CloseKeeps ==
  ASSUME IInv, Close
  PROVE  IInv'
<1>1. Attached /\ Grown(mem)
  BY MemFacts DEF Close, Attached, Grown
<1>2. FlushedFile(mem) /\ FlushedFlags(mem, TRUE)
  BY <1>1, FlushFacts DEF Close
<1>3. /\ stage' = "closed" /\ mem' = <<>>
      /\ UNCHANGED <<temp, recovered, appended>>
  BY DEF Close
<1>4. /\ file' \in Seq(FileLine) /\ Len(file') \in Nat
      /\ PieceOf(file', mem) /\ Starts(file', mem, bytes')
      /\ platter' \in 0..Len(file') /\ bytes' \in {bytes, Len(mem)}
      /\ promised' \in {promised, Len(mem)}
      /\ promised' <= bytes' /\ promised' <= platter'
  BY <1>2 DEF FlushedFile
<1>5. /\ bytes' \in 0..Len(mem) /\ Len(file') <= Len(mem)
      /\ promised' \in 0..Len(mem)
  BY <1>1, <1>4, MemFacts, GrownFile DEF PieceOf
<1>6. Good(file') \in bytes'..Len(mem) /\ Tidy(file')
  BY <1>4, <1>5, MemFacts, PieceReads
<1>7. ClosedSound'
  BY <1>4, <1>5, <1>6, MemFacts DEF ClosedSound
<1>8. Len(mem) <= appended /\ Len(temp) <= appended /\ recovered <= appended
  BY DEF IInv, Bounded
<1>9. TypeOK'
  <2>1. /\ paused' \in BOOLEAN /\ wantSync' \in BOOLEAN
        /\ unsynced' \in BOOLEAN /\ timer' \in BOOLEAN
        /\ faults' \in 0..MaxFaults /\ damage' \in 0..MaxDamage
        /\ crashes' \in 0..MaxCrashes
        /\ temp' \in Seq([event : Events, state : States])
        /\ recovered' \in 0..MaxEvents /\ appended' \in 0..MaxEvents
    BY <1>2, <1>3 DEF FlushedFlags, IInv, TypeOK
  <2>2. bytes' \in 0..MaxEvents /\ promised' \in 0..MaxEvents
    BY <1>5, <1>8, MemFacts
  <2>3. mem' \in Seq(Events)
    BY <1>3
  <2> QED
    BY <1>3, <1>4, <2>1, <2>2, <2>3 DEF TypeOK, FileLine
<1>10. Bounded'
  BY <1>3, <1>4, <1>5, <1>8, MemFacts DEF Bounded
<1> QED
  BY <1>3, <1>7, <1>9, <1>10 DEF IInv, Attached

\* An event is appended, and written at once or left to the timer.
LEMMA AppendKeeps ==
  ASSUME IInv, Attached, NEW kind \in Kinds, AppendEvent(kind),
         stage' \in {"live", "repair"}, temp' = temp, recovered' = recovered
  PROVE  IInv'
<1> DEFINE e == NewEvent(kind)
<1>1. /\ appended < MaxEvents /\ appended' = appended + 1
      /\ mem' = Append(mem, e)
  BY DEF AppendEvent
<1>2. e \in Events /\ e.kind = kind
  BY <1>1, MemFacts DEF NewEvent, Events
<1> HIDE DEF e
<1>3. /\ mem' \in Seq(Events) /\ Len(mem') = Len(mem) + 1
      /\ mem'[Len(mem) + 1] = e /\ \A i \in 1..Len(mem) : mem'[i] = mem[i]
  BY <1>1, <1>2, MemFacts
<1>4. /\ Grown(mem') /\ Len(mem') <= appended'
      /\ appended' \in appended..MaxEvents
  BY <1>1, <1>3, MemFacts DEF Grown, IInv, Bounded
<1>5. CASE kind = "turn/end" /\ ~paused
  <2>1. FlushEntry(mem', TRUE)
    BY <1>1, <1>5 DEF AppendEvent, e
  <2>2. FlushedFile(mem') /\ FlushedFlags(mem', TRUE)
    BY <1>4, <2>1, FlushFacts
  <2> QED
    BY <1>4, <2>2, FlushKeeps
<1>6. CASE ~(kind = "turn/end" /\ ~paused)
  <2>1. /\ wantSync' = (wantSync \/ kind = "turn/end") /\ timer' = TRUE
        /\ UNCHANGED <<bytes, paused, unsynced, disk, promised, faults,
                       damage, crashes>>
    BY <1>6, Zenon DEF AppendEvent
  <2>2. TypeOK'
    <3>1. wantSync' \in BOOLEAN /\ timer' \in BOOLEAN
      BY <2>1
    <3> QED
      BY <1>3, <1>4, <2>1, <3>1, MemFacts DEF IInv, TypeOK, disk
  <2>3. Bounded'
    BY <1>3, <1>4, <2>1, MemFacts DEF IInv, Bounded, disk
  <2>4. PieceOf(file', mem') /\ Starts(file', mem', bytes')
    BY <1>4, <2>1, GrownFile DEF disk
  <2>5. TurnEndsOwed'
    <3> SUFFICES ASSUME NEW i \in (recovered + 1)..Len(mem'), i > promised,
                        mem'[i].kind = "turn/end"
                 PROVE  paused /\ wantSync'
      BY <2>1 DEF TurnEndsOwed
    <3>1. CASE i = Len(mem) + 1
      <4>1. kind = "turn/end"
        BY <1>2, <1>3, <3>1
      <4> QED
        BY <1>6, <2>1, <4>1, Zenon
    <3>2. CASE i # Len(mem) + 1
      <4>1. i \in (recovered + 1)..Len(mem) /\ i \in 1..Len(mem)
        BY <1>3, <3>2, MemFacts
      <4>2. mem[i].kind = "turn/end"
        BY <1>3, <4>1
      <4>3. TurnEndsOwed
        BY DEF IInv, OpenSound
      <4>4. paused /\ wantSync
        BY <4>1, <4>2, <4>3 DEF TurnEndsOwed
      <4> QED
        BY <2>1, <4>4, Zenon
    <3> QED
      BY <3>1, <3>2
  <2>6. OpenSound'
    <3>1. /\ Len(file') > bytes' => paused'
          /\ promised' <= bytes' /\ promised' <= platter'
      BY <2>1 DEF IInv, OpenSound, disk
    <3>2. timer' /\ recovered' <= Len(mem')
      BY <1>3, <2>1, MemFacts DEF IInv, OpenSound
    <3> QED
      BY <2>4, <2>5, <3>1, <3>2 DEF OpenSound
  <2>7. stage' # "closed" /\ stage' # "renamed"
    OBVIOUS
  <2> QED
    BY <2>2, <2>3, <2>6, <2>7 DEF IInv
<1> QED
  BY <1>5, <1>6

\* The timer, and a flush somebody asks for.
LEMMA WritingKeeps ==
  ASSUME IInv, TimerFires \/ \E sync \in BOOLEAN : FlushNow(sync)
  PROVE  IInv'
<1>1. PICK sync \in BOOLEAN : FlushEntry(mem, sync)
  BY DEF TimerFires, FlushNow
<1>2. /\ stage = "live" /\ UNCHANGED <<stage, mem, temp, recovered, appended>>
  BY DEF TimerFires, FlushNow
<1>3. Attached /\ Grown(mem) /\ appended \in appended..MaxEvents
  BY <1>2, MemFacts DEF Attached, Grown
<1>4. FlushedFile(mem) /\ FlushedFlags(mem, sync)
  BY <1>1, <1>3, FlushFacts
<1>5. FlushedFile(mem') /\ FlushedFlags(mem', sync) /\ Grown(mem')
  BY <1>2, <1>3, <1>4 DEF FlushedFile, FlushedFlags, Grown
<1>6. Owed(mem') => sync \/ wantSync
  BY <1>2, <1>3 DEF Owed, IInv, OpenSound, TurnEndsOwed
<1>7. Len(mem') <= appended'
  BY <1>2 DEF IInv, Bounded
<1> QED
  BY <1>2, <1>3, <1>5, <1>6, <1>7, FlushKeeps

-----------------------------------------------------------------------------
(***************************************************************************)
(* The ends of a process, damage, and opening again.                       *)
(***************************************************************************)

\* What a reader of the file would find.
LEMMA FileReads ==
  ASSUME IInv, stage \in {"live", "repair", "closed"}
  PROVE  /\ Tidy(file) /\ promised <= Good(file) /\ promised <= platter
         /\ Good(file) \in 0..Len(file)
         /\ Attached => /\ Good(file) \in bytes..Len(mem)
                        /\ Readable(file) = Prefix(mem, Good(file))
<1>1. Good(file) \in 0..Len(file) /\ Good(file) \in Nat
  BY MemFacts, GoodFacts
<1>2. CASE stage = "closed"
  BY <1>1, <1>2 DEF IInv, ClosedSound, Attached
<1>3. CASE Attached
  <2>1. /\ PieceOf(file, mem) /\ Starts(file, mem, bytes)
        /\ promised <= bytes /\ promised <= platter
    BY <1>3 DEF IInv, OpenSound
  <2>2. bytes \in 0..Len(mem)
    BY <2>1, MemFacts DEF Starts
  <2>3. /\ Good(file) \in bytes..Len(mem) /\ Tidy(file)
        /\ Readable(file) = Prefix(mem, Good(file))
    BY <2>1, <2>2, MemFacts, PieceReads
  <2> QED
    BY <1>1, <2>1, <2>3, MemFacts
<1> QED
  BY <1>2, <1>3 DEF Attached

\* What the process had in memory is gone.
LEMMA ForgetKeeps ==
  ASSUME IInv, Forget, file' \in Seq(FileLine), Len(file') <= appended,
         platter' \in 0..Len(file'),
         stage # "renamed" => /\ Tidy(file') /\ promised <= Good(file')
                              /\ promised <= platter'
  PROVE  IInv'
<1>1. /\ stage' = IF stage = "renamed" THEN "lost" ELSE "closed"
      /\ mem' = <<>> /\ temp' = <<>> /\ bytes' = 0
      /\ paused' = FALSE /\ wantSync' = FALSE /\ unsynced' = FALSE
      /\ timer' = FALSE
      /\ crashes < MaxCrashes /\ crashes' = crashes + 1
      /\ UNCHANGED <<recovered, promised, appended, faults, damage>>
  BY DEF Forget
<1>2. mem' \in Seq(Events) /\ temp' \in Seq(FileLine)
      /\ Len(mem') = 0 /\ Len(temp') = 0
  BY <1>1
<1>3. TypeOK'
  <2>1. /\ paused' \in BOOLEAN /\ wantSync' \in BOOLEAN
        /\ unsynced' \in BOOLEAN /\ timer' \in BOOLEAN
        /\ stage' \in {"closed", "lost"}
    BY <1>1
  <2>2. crashes' \in 0..MaxCrashes /\ bytes' \in 0..MaxEvents
    BY <1>1, MemFacts, BoundsAssumption DEF IInv, TypeOK
  <2>3. /\ recovered' \in 0..MaxEvents /\ promised' \in 0..MaxEvents
        /\ appended' \in 0..MaxEvents /\ faults' \in 0..MaxFaults
        /\ damage' \in 0..MaxDamage
    BY <1>1 DEF IInv, TypeOK
  <2> QED
    BY <1>2, <2>1, <2>2, <2>3 DEF TypeOK, FileLine
<1>4. Bounded'
  BY <1>1, <1>2, MemFacts DEF IInv, Bounded
<1>5. stage' = "closed" => ClosedSound'
  BY <1>1 DEF ClosedSound
<1> QED
  BY <1>1, <1>3, <1>4, <1>5 DEF IInv, Attached

\* The file a killed process leaves, and what can be read of it.
LEMMA KilledFile ==
  ASSUME IInv, Killed
  PROVE  /\ file' \in Seq(FileLine) /\ Len(file') <= appended
         /\ platter' \in 0..Len(file')
         /\ Attached =>
              /\ Tidy(file') /\ promised <= Good(file') /\ promised <= platter'
              /\ Good(file') \in 0..Len(mem)
              /\ Readable(file') = Prefix(mem, Good(file'))
<1>1. CASE file' = file
  <2>1. platter' = Least(platter, Len(file))
    BY <1>1 DEF Killed
  <2> QED
    BY <1>1, <2>1, MemFacts, FileReads DEF Least, Attached, IInv, Bounded
<1>2. CASE Attached /\ file' \in Leftovers(mem)
  <2>1. Grown(mem)
    BY MemFacts DEF Grown
  <2>2. /\ file' \in Seq(FileLine) /\ PieceOf(file', mem)
        /\ Starts(file', mem, bytes)
    BY <1>2, <2>1, LeftoversFacts
  <2>3. /\ bytes \in 0..Len(mem) /\ promised <= bytes /\ promised <= platter
        /\ Len(mem) <= appended
    BY <1>2, <2>1, GrownFile DEF IInv, OpenSound, Bounded
  <2>4. /\ Good(file') \in bytes..Len(mem) /\ Tidy(file')
        /\ Readable(file') = Prefix(mem, Good(file'))
    BY <2>2, <2>3, MemFacts, PieceReads
  <2>5. platter' = Least(platter, Len(file')) /\ Len(file') \in Nat
        /\ Len(file') <= Len(mem) /\ bytes <= Len(file')
    BY <2>2 DEF Killed, PieceOf, Starts
  <2> QED
    BY <2>2, <2>3, <2>4, <2>5, MemFacts DEF Least
<1> QED
  BY <1>1, <1>2 DEF Killed

LEMMA KilledKeeps ==
  ASSUME IInv, Killed
  PROVE  IInv'
<1>1. Forget /\ stage \in {"live", "repair", "renamed"}
  BY DEF Killed
<1> QED
  BY <1>1, KilledFile, ForgetKeeps DEF Attached

\* The same for a power loss.
LEMMA PowerLostFile ==
  ASSUME IInv, PowerLost
  PROVE  /\ file' \in Seq(FileLine) /\ Len(file') <= appended
         /\ platter' \in 0..Len(file') /\ promised <= platter'
         /\ Tidy(file') /\ promised <= Good(file')
         /\ Good(file') \in 0..Good(file)
         /\ Readable(file') = Prefix(Readable(file), Good(file'))
<1>1. PICK n \in platter..Len(file) : file' \in CutAfter(file, n)
  BY DEF PowerLost
<1>2. /\ n \in 0..Len(file) /\ platter <= n /\ platter' = platter
  BY <1>1, MemFacts DEF PowerLost
<1>3. /\ Tidy(file) /\ promised <= Good(file) /\ promised <= platter
      /\ Good(file) \in 0..Len(file)
  BY FileReads DEF PowerLost
<1>4. /\ file' \in Seq(FileLine) /\ n <= Len(file') /\ Len(file') <= Len(file)
      /\ Len(file') \in Nat
  BY <1>1, <1>2, MemFacts, CutFacts
<1>5. /\ Tidy(file') /\ Good(file') \in 0..Good(file)
      /\ n <= Good(file) => n <= Good(file')
      /\ n > Good(file) => Good(file') = Good(file)
      /\ Readable(file') = Prefix(Readable(file), Good(file'))
  BY <1>1, <1>2, <1>3, MemFacts, CutReads
<1>6. promised <= Good(file')
  BY <1>2, <1>3, <1>5, MemFacts
<1>7. Len(file') <= appended /\ platter' \in 0..Len(file')
  BY <1>2, <1>4, MemFacts DEF IInv, Bounded
<1> QED
  BY <1>2, <1>3, <1>4, <1>5, <1>6, <1>7

LEMMA PowerLostKeeps ==
  ASSUME IInv, PowerLost
  PROVE  IInv'
<1>1. Forget
  BY DEF PowerLost
<1> QED
  BY <1>1, PowerLostFile, ForgetKeeps

\* Damage takes nothing in front of it.
LEMMA DamagedFile ==
  ASSUME IInv, Damaged
  PROVE  /\ file' \in Seq(FileLine) /\ Len(file') = Len(file) /\ Tidy(file')
         /\ Good(file') \in 0..Good(file)
         /\ Readable(file') = Prefix(Readable(file), Good(file'))
         /\ promised' = Least(promised, Good(file'))
<1>1. PICK i \in 1..Len(file) :
        /\ file[i].state = "whole"
        /\ file' = [file EXCEPT ![i].state = "damaged"]
        /\ promised' = Least(promised, i - 1)
  BY DEF Damaged
<1>2. /\ Tidy(file) /\ promised <= Good(file) /\ Good(file) \in 0..Len(file)
      /\ file \in Seq(FileLine) /\ Len(file) \in Nat /\ promised \in Nat
  BY FileReads, MemFacts DEF Damaged
<1>3. /\ file' \in Seq(FileLine) /\ Len(file') = Len(file)
      /\ \A j \in 1..Len(file) : j # i => file'[j] = file[j]
      /\ file'[i].state = "damaged" /\ file'[i].event = file[i].event
  <2>1. file[i] \in FileLine
    BY <1>2
  <2>2. [file[i] EXCEPT !.state = "damaged"] \in FileLine
    BY <2>1 DEF FileLine, States
  <2>3. file' = [file EXCEPT ![i] = [file[i] EXCEPT !.state = "damaged"]]
    BY <1>1
  <2> DEFINE e == [file[i] EXCEPT !.state = "damaged"]
  <2>4. e \in FileLine /\ e.state = "damaged" /\ e.event = file[i].event
    BY <2>1, <2>2 DEF FileLine
  <2> HIDE DEF e
  <2>5. file' = [file EXCEPT ![i] = e]
    BY <2>3 DEF e
  <2> QED
    BY <1>2, <2>4, <2>5
<1>4. Tidy(file')
  BY <1>2, <1>3 DEF Tidy
<1> DEFINE n == Least(Good(file), i - 1)
<1>5. /\ n \in 0..Len(file) /\ n <= Good(file) /\ n <= i - 1
      /\ n = Good(file) \/ n = i - 1
  BY <1>1, <1>2 DEF Least
<1> HIDE DEF n
<1>6. Good(file') = n
  <2>1. \A j \in 1..n : file'[j].state \notin {"cut", "damaged"}
    <3> TAKE j \in 1..n
    <3>1. j \in 1..Good(file) /\ j \in 1..Len(file) /\ j # i
      BY <1>1, <1>2, <1>5
    <3> QED
      BY <1>2, <1>3, <3>1, GoodFacts
  <2>2. n < Len(file') => file'[n + 1].state \in {"cut", "damaged"}
    <3>1. CASE n = i - 1
      BY <1>1, <1>3, <3>1
    <3>2. CASE n = Good(file) /\ n + 1 # i
      <4>1. n < Len(file) =>
              /\ n + 1 \in 1..Len(file)
              /\ file[n + 1].state \in {"cut", "damaged"}
        BY <1>2, <3>2, GoodFacts
      <4> QED
        BY <1>3, <3>2, <4>1
    <3> QED
      BY <1>1, <1>5, <3>1, <3>2
  <2> QED
    BY <1>3, <1>5, <2>1, <2>2, GoodIs
<1>7. Readable(file') = Prefix(Readable(file), Good(file'))
  <2>1. /\ Readable(file) \in Seq(Events) /\ Len(Readable(file)) = Good(file)
        /\ \A j \in 1..Good(file) : Readable(file)[j] = file[j].event
        /\ Readable(file') \in Seq(Events) /\ Len(Readable(file')) = n
        /\ \A j \in 1..n : Readable(file')[j] = file'[j].event
    BY <1>2, <1>3, <1>6, ReadableFacts
  <2>2. /\ Prefix(Readable(file), n) \in Seq(Events)
        /\ Len(Prefix(Readable(file), n)) = n
        /\ \A j \in 1..n : Prefix(Readable(file), n)[j] = Readable(file)[j]
    BY <1>2, <1>5, <2>1 DEF Prefix
  <2>3. ASSUME NEW j \in 1..n
        PROVE  Readable(file')[j] = Prefix(Readable(file), n)[j]
    <3>1. j \in 1..Good(file) /\ j \in 1..Len(file)
      BY <1>2, <1>5
    <3>2. file'[j].event = file[j].event
      BY <1>3, <3>1
    <3> QED
      BY <2>1, <2>2, <3>1, <3>2
  <2> QED
    BY <1>6, <2>1, <2>2, <2>3
<1>8. promised' = Least(promised, n)
  BY <1>1, <1>2, <1>5 DEF Least
<1> QED
  BY <1>3, <1>4, <1>5, <1>6, <1>7, <1>8, <1>2

LEMMA DamagedKeeps ==
  ASSUME IInv, Damaged
  PROVE  IInv'
<1>1. /\ stage = "closed" /\ damage < MaxDamage /\ damage' = damage + 1
      /\ UNCHANGED <<stage, mem, entry, temp, platter, recovered, appended,
                     faults, crashes>>
  BY DEF Damaged
<1>2. /\ file' \in Seq(FileLine) /\ Len(file') = Len(file) /\ Tidy(file')
      /\ Good(file') \in 0..Good(file)
      /\ promised' = Least(promised, Good(file'))
  BY DamagedFile
<1>3. /\ Good(file) \in 0..Len(file) /\ promised <= Good(file)
      /\ promised <= platter
  BY <1>1, FileReads
<1>4. /\ promised' \in Nat /\ promised' <= promised
      /\ promised' <= Good(file') /\ promised' <= platter
  BY <1>2, <1>3, MemFacts DEF Least
<1>5. TypeOK'
  <2>1. damage' \in 0..MaxDamage /\ promised' \in 0..MaxEvents
    BY <1>1, <1>4, MemFacts, BoundsAssumption DEF IInv, TypeOK
  <2> QED
    BY <1>1, <1>2, <2>1 DEF IInv, TypeOK, FileLine, entry
<1>6. Bounded'
  BY <1>1, <1>2, <1>4, MemFacts DEF IInv, Bounded, entry
<1>7. ClosedSound'
  BY <1>1, <1>2, <1>4 DEF ClosedSound
<1> QED
  BY <1>1, <1>5, <1>6, <1>7 DEF IInv, Attached

\* A log of whole lines is attached.
LEMMA AttachKeeps ==
  ASSUME IInv, Attach(file'), file' \in Seq(FileLine), Whole(file'),
         Len(file') <= appended, platter' \in 0..Len(file'),
         promised <= Len(file'), promised <= platter',
         temp' \in Seq(FileLine), Len(temp') <= appended,
         UNCHANGED <<promised, counts>>
  PROVE  IInv'
<1>1. /\ Good(file') = Len(file') /\ Len(file') \in Nat
      /\ Readable(file') \in Seq(Events) /\ Len(Readable(file')) = Good(file')
      /\ \A i \in 1..Good(file') : Readable(file')[i] = file'[i].event
  BY WholeReads, ReadableFacts
<1>2. /\ mem' = Readable(file') /\ recovered' = Len(file')
      /\ bytes' = Len(file') /\ stage' \in {"live", "repair"}
      /\ paused' = FALSE /\ wantSync' = FALSE /\ unsynced' = FALSE
      /\ timer' = FALSE
  BY <1>1 DEF Attach
<1>3. /\ PieceOf(file', mem') /\ Starts(file', mem', bytes')
  <2>1. ASSUME NEW i \in 1..Len(file')
        PROVE  /\ file'[i] = Line(mem'[i]) /\ file'[i].event = mem'[i]
               /\ file'[i].state = "whole"
    <3>1. file'[i] \in FileLine /\ file'[i].state = "whole"
      BY <1>1 DEF Whole
    <3>2. file'[i] = Line(file'[i].event)
      BY <3>1 DEF FileLine, Line
    <3> QED
      BY <1>1, <1>2, <3>1, <3>2
  <2> QED
    BY <1>1, <1>2, <2>1 DEF PieceOf, Starts
<1>4. TypeOK'
  <2>1. /\ paused' \in BOOLEAN /\ wantSync' \in BOOLEAN
        /\ unsynced' \in BOOLEAN /\ timer' \in BOOLEAN
    BY <1>2
  <2>2. bytes' \in 0..MaxEvents /\ recovered' \in 0..MaxEvents
    BY <1>1, <1>2, MemFacts
  <2> QED
    BY <1>1, <1>2, <2>1, <2>2 DEF IInv, TypeOK, FileLine, counts
<1>5. Bounded'
  BY <1>1, <1>2, MemFacts DEF IInv, Bounded, counts
<1>6. TurnEndsOwed'
  <2>1. (recovered' + 1)..Len(mem') = {}
    BY <1>1, <1>2
  <2> QED
    BY <2>1 DEF TurnEndsOwed
<1>7. OpenSound'
  BY <1>1, <1>2, <1>3, <1>6 DEF OpenSound
<1> QED
  BY <1>2, <1>4, <1>5, <1>7 DEF IInv

LEMMA OpenCleanKeeps ==
  ASSUME IInv, OpenClean
  PROVE  IInv' /\ Whole(file) /\ file' = file
<1>1. /\ stage = "closed" /\ Whole(file) /\ file' = file /\ Attach(file')
      /\ UNCHANGED <<disk, temp, promised, counts>>
  BY DEF OpenClean, Whole, disk
<1>2. Good(file) = Len(file)
  BY <1>1, MemFacts, WholeReads
<1>3. promised <= Len(file) /\ promised <= platter
  BY <1>1, <1>2, FileReads
<1> QED
  BY <1>1, <1>3, MemFacts, AttachKeeps DEF IInv, Bounded, disk

\* Finishing the last line, or cutting it off, changes nothing for a reader.
LEMMA OpenTailKeeps ==
  ASSUME IInv, OpenTail
  PROVE  /\ IInv' /\ file' \in Seq(FileLine) /\ Whole(file')
         /\ Readable(file') = Readable(file)
<1> DEFINE n == Len(file)
<1>1. /\ stage = "closed" /\ file # <<>> /\ file[n].state # "whole"
      /\ \A i \in 1..n : file[i].state # "damaged"
      /\ file' = IF file[n].state = "no-newline"
                 THEN Append(SubSeq(file, 1, n - 1), Line(file[n].event))
                 ELSE SubSeq(file, 1, n - 1)
      /\ platter' = Len(file') /\ Attach(file')
      /\ UNCHANGED <<temp, promised, counts>>
  BY DEF OpenTail, Last, Front
<1>2. /\ Tidy(file) /\ promised <= Good(file) /\ Good(file) \in 0..n
      /\ n \in Nat \ {0} /\ \A i \in 1..n : file[i] \in FileLine
      /\ n \in 1..n
  BY <1>1, FileReads, MemFacts
<1> HIDE DEF n
<1>3. \A i \in 1..(n - 1) : i \in 1..n /\ file[i].state = "whole"
  BY <1>1, <1>2 DEF Tidy, n
<1>4. /\ SubSeq(file, 1, n - 1) \in Seq(FileLine)
      /\ Len(SubSeq(file, 1, n - 1)) = n - 1
      /\ \A i \in 1..(n - 1) : SubSeq(file, 1, n - 1)[i] = file[i]
  <2>1. n - 1 \in 0..Len(file) /\ file \in Seq(FileLine)
    BY <1>2, MemFacts DEF n
  <2> QED
    BY <2>1
<1>5. /\ file' \in Seq(FileLine) /\ Whole(file') /\ Len(file') = Good(file)
      /\ \A i \in 1..Good(file) : file'[i].event = file[i].event
  <2>1. CASE file[n].state = "no-newline"
    <3>1. Line(file[n].event) \in FileLine
      BY <1>2 DEF Line, FileLine, States
    <3>2. /\ Line(file[n].event).event = file[n].event
          /\ Line(file[n].event).state = "whole"
      BY DEF Line
    <3>3. /\ file' \in Seq(FileLine) /\ Len(file') = n
          /\ file'[n] = Line(file[n].event)
          /\ \A i \in 1..(n - 1) : file'[i] = file[i]
      BY <1>1, <1>2, <1>4, <2>1, <3>1
    <3>4. Good(file) = n
      <4>1. \A i \in 1..n : file[i].state \notin {"cut", "damaged"}
        BY <1>2, <1>3, <2>1
      <4> QED
        BY <1>2, <4>1, MemFacts, GoodIs DEF n
    <3>5. \A i \in 1..n : i = n \/ i \in 1..(n - 1)
      BY <1>2
    <3> QED
      BY <1>3, <3>2, <3>3, <3>4, <3>5 DEF Whole
  <2>2. CASE file[n].state # "no-newline"
    <3>1. file[n].state = "cut"
      BY <1>1, <1>2, <2>2 DEF FileLine, States
    <3>2. /\ file' \in Seq(FileLine) /\ Len(file') = n - 1
          /\ \A i \in 1..(n - 1) : file'[i] = file[i]
      BY <1>1, <1>4, <2>2
    <3>3. Good(file) = n - 1
      <4>1. \A i \in 1..(n - 1) : file[i].state \notin {"cut", "damaged"}
        BY <1>3
      <4>2. n - 1 \in 0..Len(file) /\ n - 1 + 1 = n
        BY <1>2 DEF n
      <4> QED
        BY <3>1, <4>1, <4>2, MemFacts, GoodIs
    <3> QED
      BY <1>3, <3>2, <3>3 DEF Whole
  <2> QED
    BY <2>1, <2>2
<1>6. Readable(file') = Readable(file)
  <2>1. Good(file') = Len(file')
    BY <1>5, WholeReads
  <2>2. /\ Readable(file') \in Seq(Events) /\ Len(Readable(file')) = Good(file)
        /\ Readable(file) \in Seq(Events) /\ Len(Readable(file)) = Good(file)
        /\ \A i \in 1..Good(file) :
             /\ Readable(file')[i] = file'[i].event
             /\ Readable(file)[i] = file[i].event
    BY <1>5, <2>1, MemFacts, ReadableFacts
  <2> QED
    BY <1>5, <2>2
<1>7. /\ Len(file') \in Nat /\ Len(file') <= appended
      /\ platter' \in 0..Len(file') /\ promised <= Len(file')
      /\ promised <= platter'
  BY <1>1, <1>2, <1>5, MemFacts DEF IInv, Bounded, n
<1>8. temp' \in Seq(FileLine) /\ Len(temp') <= appended
  BY <1>1, MemFacts DEF IInv, Bounded
<1>9. IInv'
  BY <1>1, <1>5, <1>7, <1>8, AttachKeeps
<1> QED
  BY <1>5, <1>6, <1>9

\* What is readable of a damaged log is put beside it.
LEMMA RenameKeeps ==
  ASSUME IInv, OpenDamagedRename
  PROVE  IInv' /\ Readable(temp') = Readable(file)
<1>1. /\ stage = "closed" /\ temp' = Prefix(file, Good(file))
      /\ stage' = "renamed"
      /\ UNCHANGED <<mem, entry, disk, recovered, promised, counts>>
  BY DEF OpenDamagedRename
<1>2. PICK i \in 1..Len(file) : file[i].state = "damaged"
  BY DEF OpenDamagedRename
<1>3. /\ Tidy(file) /\ promised <= Good(file) /\ Good(file) \in 0..Len(file)
      /\ file \in Seq(FileLine) /\ Len(file) \in Nat
  BY <1>1, FileReads, MemFacts
<1>4. \A j \in 1..Good(file) : file[j].state \notin {"cut", "damaged"}
  BY <1>3, GoodFacts
<1>5. Good(file) < i
  BY <1>2, <1>3, <1>4
<1>6. /\ temp' \in Seq(FileLine) /\ Len(temp') = Good(file)
      /\ \A j \in 1..Good(file) : temp'[j] = file[j]
  BY <1>1, <1>3 DEF Prefix
<1>7. Whole(temp')
  <2>1. \A j \in 1..Good(file) : j \in 1..Len(file) /\ j < Len(file)
    BY <1>2, <1>3, <1>5
  <2> QED
    BY <1>3, <1>4, <1>6, <2>1 DEF Whole, Tidy
<1>8. Readable(temp') = Readable(file)
  <2>1. Good(temp') = Len(temp')
    BY <1>6, <1>7, WholeReads
  <2>2. /\ Readable(file) \in Seq(Events) /\ Len(Readable(file)) = Good(file)
        /\ \A j \in 1..Good(file) : Readable(file)[j] = file[j].event
        /\ Readable(temp') \in Seq(Events)
        /\ Len(Readable(temp')) = Good(file)
        /\ \A j \in 1..Good(file) : Readable(temp')[j] = temp'[j].event
    BY <1>3, <1>6, <2>1, ReadableFacts
  <2> QED
    BY <1>6, <2>2
<1>9. TypeOK'
  BY <1>1, <1>6 DEF IInv, TypeOK, FileLine, entry, disk, counts
<1>10. Bounded' /\ RenamedSound'
  BY <1>1, <1>3, <1>6, <1>7, MemFacts
  DEF IInv, Bounded, RenamedSound, entry, disk, counts
<1> QED
  BY <1>1, <1>8, <1>9, <1>10 DEF IInv, Attached

LEMMA InstallKeeps ==
  ASSUME IInv, OpenDamagedInstall
  PROVE  IInv' /\ file' = temp /\ Whole(temp)
<1>1. /\ stage = "renamed" /\ file' = temp /\ platter' = Len(temp)
      /\ temp' = <<>> /\ Attach(file') /\ UNCHANGED <<promised, counts>>
  BY DEF OpenDamagedInstall
<1>2. Whole(temp) /\ promised <= Len(temp)
  BY <1>1 DEF IInv, RenamedSound
<1>3. temp' \in Seq(FileLine) /\ Len(temp') = 0
  BY <1>1
<1> QED
  BY <1>1, <1>2, <1>3, MemFacts, AttachKeeps DEF IInv, Bounded

-----------------------------------------------------------------------------
(***************************************************************************)
(* The invariant, and what it gives.                                       *)
(***************************************************************************)

LEMMA InitEstablishes == Init => IInv
<1> SUFFICES ASSUME Init
             PROVE  IInv
  OBVIOUS
<1>1. TypeOK
  <2>1. /\ mem \in Seq(Events) /\ file \in Seq(FileLine)
        /\ temp \in Seq(FileLine) /\ Len(file) = 0
    BY DEF Init
  <2>2. /\ paused \in BOOLEAN /\ wantSync \in BOOLEAN
        /\ unsynced \in BOOLEAN /\ timer \in BOOLEAN
    BY DEF Init
  <2>3. /\ stage \in {"closed", "live", "repair", "renamed", "lost"}
        /\ bytes = 0 /\ platter = 0 /\ recovered = 0 /\ promised = 0
        /\ appended = 0 /\ faults = 0 /\ damage = 0 /\ crashes = 0
    BY DEF Init
  <2> QED
    BY BoundsAssumption, <2>1, <2>2, <2>3 DEF TypeOK, FileLine
<1>2. Bounded
  BY BoundsAssumption DEF Init, Bounded
<1>3. OpenSound
  <2>1. 1..Len(mem) = {} /\ (recovered + 1)..Len(mem) = {}
    BY DEF Init
  <2> QED
    BY <2>1 DEF Init, OpenSound, PieceOf, Starts, TurnEndsOwed
<1>4. stage = "live"
  BY DEF Init
<1> QED
  BY <1>1, <1>2, <1>3, <1>4 DEF IInv

LEMMA NextPreserves == IInv /\ [Next]_vars => IInv'
<1> SUFFICES ASSUME IInv, [Next]_vars
             PROVE  IInv'
  OBVIOUS
<1>1. ASSUME NEW kind \in Kinds, SessionAppends(kind)
      PROVE  IInv'
  BY <1>1, AppendKeeps DEF SessionAppends, Attached
<1>2. CASE CloseInterruptedTurn
  <2>1. "turn/end" \in Kinds
    BY DEF Kinds
  <2> QED
    BY <1>2, <2>1, AppendKeeps DEF CloseInterruptedTurn, Attached
<1>3. CASE UNCHANGED vars
  BY <1>3 DEF vars, entry, disk, counts, IInv, TypeOK, Bounded, OpenSound,
     ClosedSound, RenamedSound, Attached, PieceOf, Starts, TurnEndsOwed, Tidy,
     Good, Whole
<1> QED
  BY <1>1, <1>2, <1>3, WritingKeeps, CloseKeeps, KilledKeeps, PowerLostKeeps,
     DamagedKeeps, OpenCleanKeeps, OpenTailKeeps, RenameKeeps, InstallKeeps
  DEF Next, Writing, Ending, Opening

\* In every state the file is what the writer and the reader take it for.
THEOREM InvariantHolds == Spec => []IInv
<1>1. Init => IInv
  BY InitEstablishes
<1>2. IInv /\ [Next]_vars => IInv'
  BY NextPreserves
<1> QED
  BY <1>1, <1>2, PTL DEF Spec

\* The batches that count as written are in the file, once and in order; what
\* is not written has a timer, and a turn end nobody could sync is owed.
THEOREM NothingIsForgotten == Spec => []NothingForgotten
<1>1. IInv => NothingForgotten
  <2> SUFFICES ASSUME IInv, Attached
               PROVE  /\ FileHoldsWrittenBatches /\ TurnEndsOwed
                      /\ Len(mem) > bytes => timer
    BY DEF NothingForgotten, IInv
  <2>1. OpenSound
    BY DEF IInv
  <2>2. Starts(file, mem, bytes) /\ bytes \in 0..Len(mem)
        /\ bytes \in 0..Len(file)
    BY <2>1, MemFacts DEF OpenSound, Starts
  <2>3. Prefix(file, bytes) = Lines(Prefix(mem, bytes))
    <3>1. /\ Prefix(mem, bytes) \in Seq(Events)
          /\ Len(Prefix(mem, bytes)) = bytes
          /\ \A i \in 1..bytes : Prefix(mem, bytes)[i] = mem[i]
      BY <2>2, MemFacts DEF Prefix
    <3>2. /\ Prefix(file, bytes) \in Seq(FileLine)
          /\ Len(Prefix(file, bytes)) = bytes
          /\ \A i \in 1..bytes : Prefix(file, bytes)[i] = file[i]
      BY <2>2, MemFacts DEF Prefix
    <3> DEFINE l == Lines(Prefix(mem, bytes))
    <3>3. l \in Seq(FileLine) /\ Len(l) = bytes
      BY <3>1, LinesFacts
    <3>4. \A i \in 1..bytes : l[i] = Line(mem[i])
      BY <3>1 DEF Lines
    <3> HIDE DEF l
    <3>5. Prefix(file, bytes) = l
      BY <2>2, <3>2, <3>3, <3>4 DEF Starts
    <3> QED
      BY <3>5 DEF l
  <2> QED
    BY <2>1, <2>2, <2>3 DEF FileHoldsWrittenBatches, OpenSound
<1> QED
  BY <1>1, InvariantHolds, PTL

-----------------------------------------------------------------------------
(***************************************************************************)
(* Refinement: what a reader sees goes through the steps of DurableLog.    *)
(***************************************************************************)
Safe == IF stage = "lost" THEN 0 ELSE promised
Harm == IF stage = "lost" THEN damage + 1 ELSE damage

Unseen == UNCHANGED <<Visible, Safe, Harm>>

Extends ==
  /\ Len(Visible') >= Len(Visible) /\ Visible = Prefix(Visible', Len(Visible))
  /\ Safe' \in Safe..Len(Visible') /\ Harm' = Harm

LosesTail ==
  /\ \E n \in Safe..Len(Visible) : Visible' = Prefix(Visible, n)
  /\ UNCHANGED <<Safe, Harm>>

Spoils ==
  /\ \E n \in 0..Len(Visible) :
       /\ Visible' = Prefix(Visible, n)
       /\ Safe' = IF Safe < n THEN Safe ELSE n
  /\ Harm' = Harm + 1

LEMMA PrefixFacts ==
  ASSUME NEW s \in Seq(Events), NEW a \in 0..Len(s), NEW b \in 0..a
  PROVE  /\ Prefix(s, a) \in Seq(Events) /\ Len(Prefix(s, a)) = a
         /\ Prefix(Prefix(s, a), b) = Prefix(s, b)
         /\ Prefix(s, Len(s)) = s
<1>1. /\ Prefix(s, a) \in Seq(Events) /\ Len(Prefix(s, a)) = a
      /\ \A i \in 1..a : Prefix(s, a)[i] = s[i]
  BY DEF Prefix
<1>2. b \in 0..Len(s) /\ \A i \in 1..b : i \in 1..a
  OBVIOUS
<1>3. /\ Prefix(s, b) \in Seq(Events) /\ Len(Prefix(s, b)) = b
      /\ \A i \in 1..b : Prefix(s, b)[i] = s[i]
  BY <1>2 DEF Prefix
<1> DEFINE p == Prefix(s, a)
<1> HIDE DEF p
<1>4. /\ Prefix(p, b) \in Seq(Events) /\ Len(Prefix(p, b)) = b
      /\ \A i \in 1..b : Prefix(p, b)[i] = p[i]
  BY <1>1 DEF Prefix, p
<1>5. Prefix(p, b) = Prefix(s, b)
  BY <1>1, <1>2, <1>3, <1>4 DEF p
<1>6. Prefix(s, Len(s)) = s
  <2>1. /\ Prefix(s, Len(s)) \in Seq(Events) /\ Len(Prefix(s, Len(s))) = Len(s)
        /\ \A i \in 1..Len(s) : Prefix(s, Len(s))[i] = s[i]
    BY DEF Prefix
  <2> QED
    BY <2>1
<1> QED
  BY <1>1, <1>5, <1>6 DEF p

\* While the log stays open, events are added and a prefix becomes safe.
LEMMA OpenExtends ==
  ASSUME IInv, Attached, Attached', Grown(mem'),
         promised' \in promised..Len(mem'), damage' = damage
  PROVE  Extends
<1>1. /\ mem \in Seq(Events) /\ mem' \in Seq(Events)
      /\ Len(mem) \in Nat /\ Len(mem') \in Nat /\ Len(mem) <= Len(mem')
      /\ \A i \in 1..Len(mem) : mem'[i] = mem[i]
  BY MemFacts DEF Grown
<1>2. /\ Visible = mem /\ Visible' = mem'
      /\ Safe = promised /\ Safe' = promised'
      /\ Harm = damage /\ Harm' = damage'
  BY DEF Visible, Safe, Harm, Attached
<1>3. mem = Prefix(mem', Len(mem))
  <2>1. /\ Prefix(mem', Len(mem)) \in Seq(Events)
        /\ Len(Prefix(mem', Len(mem))) = Len(mem)
        /\ \A i \in 1..Len(mem) : Prefix(mem', Len(mem))[i] = mem'[i]
    BY <1>1 DEF Prefix
  <2> QED
    BY <1>1, <2>1
<1> QED
  BY <1>1, <1>2, <1>3 DEF Extends

LEMMA AppendExtends ==
  ASSUME IInv, Attached, Attached', NEW kind \in Kinds, AppendEvent(kind)
  PROVE  Extends
<1>1. /\ mem' = Append(mem, NewEvent(kind)) /\ appended < MaxEvents
  BY DEF AppendEvent
<1>2. NewEvent(kind) \in Events
  BY <1>1, MemFacts DEF NewEvent, Events
<1>3. Grown(mem') /\ Len(mem') = Len(mem) + 1
  BY <1>1, <1>2, MemFacts DEF Grown
<1>4. promised <= Len(mem) /\ Len(mem) \in Nat /\ promised \in Nat
  BY MemFacts, GrownFile, <1>3 DEF IInv, OpenSound, Starts
<1>5. promised' \in promised..Len(mem') /\ damage' = damage
  <2>1. CASE FlushEntry(mem', TRUE)
    <3>1. FlushedFile(mem') /\ FlushedFlags(mem', TRUE)
      BY <1>3, <2>1, FlushFacts
    <3> QED
      BY <1>3, <1>4, <3>1 DEF FlushedFile, FlushedFlags
  <2>2. CASE promised' = promised /\ damage' = damage
    BY <1>3, <1>4, <2>2
  <2> QED
    BY <1>1, <2>1, <2>2 DEF AppendEvent
<1> QED
  BY <1>3, <1>5, OpenExtends

LEMMA WritingExtends ==
  ASSUME IInv, TimerFires \/ \E sync \in BOOLEAN : FlushNow(sync)
  PROVE  Extends
<1>1. PICK sync \in BOOLEAN : FlushEntry(mem, sync)
  BY DEF TimerFires, FlushNow
<1>2. Attached /\ Attached' /\ mem' = mem
  BY DEF TimerFires, FlushNow, Attached
<1>3. Grown(mem) /\ Grown(mem')
  BY <1>2, MemFacts DEF Grown
<1>4. FlushedFile(mem) /\ FlushedFlags(mem, sync)
  BY <1>1, <1>2, <1>3, FlushFacts
<1>5. promised <= Len(mem) /\ Len(mem) \in Nat /\ promised \in Nat
  BY <1>2, MemFacts DEF IInv, OpenSound, Starts
<1>6. promised' \in promised..Len(mem') /\ damage' = damage
  BY <1>2, <1>4, <1>5 DEF FlushedFile, FlushedFlags
<1> QED
  BY <1>2, <1>3, <1>6, OpenExtends

\* Closing gives up what could not be written.
LEMMA CloseEnds ==
  ASSUME IInv, Close
  PROVE  Extends \/ LosesTail
<1>1. /\ Attached /\ Grown(mem) /\ stage = "live" /\ stage' = "closed"
      /\ FlushEntry(mem, TRUE)
  <2>1. stage = "live" /\ stage' = "closed" /\ FlushEntry(mem, TRUE)
    BY DEF Close
  <2>2. Attached /\ Grown(mem)
    BY <2>1, MemFacts DEF Attached, Grown
  <2> QED
    BY <2>1, <2>2, Zenon
<1>2. FlushedFile(mem) /\ FlushedFlags(mem, TRUE)
  BY <1>1, FlushFacts
<1>3. /\ file' \in Seq(FileLine) /\ PieceOf(file', mem)
      /\ Starts(file', mem, bytes') /\ bytes' \in {bytes, Len(mem)}
      /\ promised' \in {promised, Len(mem)} /\ promised <= promised'
      /\ promised' <= bytes' /\ damage' = damage
  BY <1>2 DEF FlushedFile, FlushedFlags
<1>4. /\ bytes' \in 0..Len(mem) /\ mem \in Seq(Events) /\ Len(mem) \in Nat
      /\ promised \in Nat
  BY <1>1, <1>3, MemFacts, GrownFile
<1>5. /\ Good(file') \in bytes'..Len(mem)
      /\ Readable(file') = Prefix(mem, Good(file'))
  BY <1>3, <1>4, PieceReads
<1>6. /\ Visible = mem /\ Visible' = Prefix(mem, Good(file'))
      /\ Safe = promised /\ Safe' = promised'
      /\ Harm = damage /\ Harm' = damage'
  BY <1>1, <1>5 DEF Visible, Safe, Harm, Attached
<1>7. CASE promised' = promised
  <2>1. Good(file') \in promised..Len(mem)
    BY <1>3, <1>4, <1>5, <1>7
  <2> QED
    BY <1>3, <1>6, <1>7, <2>1 DEF LosesTail
<1>8. CASE promised' = Len(mem)
  <2>1. Good(file') = Len(mem)
    BY <1>3, <1>4, <1>5, <1>8
  <2>2. Visible' = mem
    BY <1>4, <1>6, <2>1, PrefixFacts
  <2> QED
    BY <1>3, <1>4, <1>6, <1>8, <2>2, PrefixFacts DEF Extends
<1> QED
  BY <1>3, <1>7, <1>8

LEMMA KilledLoses ==
  ASSUME IInv, Killed
  PROVE  LosesTail \/ Spoils
<1>1. /\ stage' = IF stage = "renamed" THEN "lost" ELSE "closed"
      /\ stage \in {"live", "repair", "renamed"}
      /\ promised' = promised /\ damage' = damage
  BY DEF Killed, Forget
<1>2. CASE Attached
  <2>1. /\ promised <= Good(file') /\ Good(file') \in 0..Len(mem)
        /\ Readable(file') = Prefix(mem, Good(file'))
    BY <1>2, KilledFile
  <2>2. /\ Visible = mem /\ Visible' = Prefix(mem, Good(file'))
        /\ Safe = promised /\ Safe' = promised
        /\ Harm = damage /\ Harm' = damage
    BY <1>1, <1>2, <2>1 DEF Visible, Safe, Harm, Attached
  <2>3. Good(file') \in promised..Len(mem)
    BY <2>1, MemFacts
  <2> QED
    BY <2>2, <2>3 DEF LosesTail
<1>3. CASE stage = "renamed"
  <2>1. /\ Visible = Readable(temp) /\ Visible' = <<>>
        /\ Safe = promised /\ Safe' = 0
        /\ Harm = damage /\ Harm' = damage + 1
    BY <1>1, <1>3 DEF Visible, Safe, Harm, Attached
  <2>2. Readable(temp) \in Seq(Events) /\ promised \in Nat
    BY MemFacts, ReadableFacts
  <2>3. Prefix(Readable(temp), 0) = <<>> /\ 0 \in 0..Len(Readable(temp))
    BY <2>2 DEF Prefix
  <2> QED
    BY <2>1, <2>2, <2>3 DEF Spoils
<1> QED
  BY <1>1, <1>2, <1>3 DEF Attached

LEMMA PowerLostLoses ==
  ASSUME IInv, PowerLost
  PROVE  LosesTail
<1>1. /\ stage \in {"live", "repair", "closed"} /\ stage' = "closed"
      /\ promised' = promised /\ damage' = damage
  BY DEF PowerLost, Forget
<1>2. /\ promised <= Good(file') /\ Good(file') \in 0..Good(file)
      /\ Readable(file') = Prefix(Readable(file), Good(file'))
  BY PowerLostFile
<1>3. /\ Good(file) \in Nat /\ Good(file') \in Nat
      /\ Readable(file) \in Seq(Events) /\ Len(Readable(file)) = Good(file)
  BY <1>1, <1>2, FileReads, MemFacts, ReadableFacts
<1>4. /\ Visible' = Readable(file')
      /\ Safe = promised /\ Safe' = promised
      /\ Harm = damage /\ Harm' = damage
  BY <1>1 DEF Visible, Safe, Harm, Attached
<1>5. CASE stage = "closed"
  <2>1. Visible = Readable(file)
    BY <1>5 DEF Visible, Attached
  <2>2. Good(file') \in promised..Len(Readable(file))
    BY <1>2, <1>3, MemFacts
  <2> QED
    BY <1>2, <1>4, <2>1, <2>2 DEF LosesTail
<1>6. CASE Attached
  <2>1. Visible = mem
    BY <1>6 DEF Visible, Attached
  <2>2. /\ Good(file) \in 0..Len(mem)
        /\ Readable(file) = Prefix(mem, Good(file))
    BY <1>1, <1>3, <1>6, FileReads, MemFacts
  <2>3. Readable(file') = Prefix(mem, Good(file'))
    BY <1>2, <2>2, MemFacts, PrefixFacts
  <2>4. Good(file') \in promised..Len(mem)
    BY <1>2, <1>3, <2>2, MemFacts
  <2> QED
    BY <1>4, <2>1, <2>3, <2>4 DEF LosesTail
<1> QED
  BY <1>1, <1>5, <1>6 DEF Attached

LEMMA DamagedSpoils ==
  ASSUME IInv, Damaged
  PROVE  Spoils
<1>1. stage = "closed" /\ stage' = "closed" /\ damage' = damage + 1
  BY DEF Damaged
<1>2. /\ Good(file') \in 0..Good(file)
      /\ Readable(file') = Prefix(Readable(file), Good(file'))
      /\ promised' = Least(promised, Good(file'))
  BY DamagedFile
<1>3. Len(Readable(file)) = Good(file)
  BY MemFacts, ReadableFacts
<1>4. /\ Visible = Readable(file) /\ Visible' = Readable(file')
      /\ Safe = promised /\ Safe' = promised'
      /\ Harm = damage /\ Harm' = damage'
  BY <1>1 DEF Visible, Safe, Harm, Attached
<1> QED
  BY <1>1, <1>2, <1>3, <1>4 DEF Spoils, Least

\* A log is opened with the events a reader of its file would find.
LEMMA AttachUnseen ==
  ASSUME Attach(file'), Readable(file') = Visible, stage # "lost",
         UNCHANGED <<promised, counts>>
  PROVE  Unseen
<1>1. mem' = Readable(file') /\ stage' \in {"live", "repair"}
  BY DEF Attach
<1> QED
  BY <1>1 DEF Unseen, Visible, Safe, Harm, Attached, counts

LEMMA OpeningUnseen ==
  ASSUME IInv,
         OpenClean \/ OpenTail \/ OpenDamagedRename \/ OpenDamagedInstall
  PROVE  Unseen
<1>1. CASE OpenClean
  BY <1>1, OpenCleanKeeps, AttachUnseen
  DEF OpenClean, Visible, Attached
<1>2. CASE OpenTail
  <2>1. Attach(file') /\ stage = "closed" /\ UNCHANGED <<promised, counts>>
    BY <1>2 DEF OpenTail
  <2>2. Readable(file') = Readable(file)
    BY <1>2, OpenTailKeeps
  <2> QED
    BY <2>1, <2>2, AttachUnseen DEF Visible, Attached
<1>3. CASE OpenDamagedRename
  <2>1. Readable(temp') = Readable(file)
    BY <1>3, RenameKeeps
  <2> QED
    BY <1>3, <2>1
    DEF OpenDamagedRename, Unseen, Visible, Safe, Harm, Attached, counts
<1>4. CASE OpenDamagedInstall
  BY <1>4, AttachUnseen DEF OpenDamagedInstall, Visible, Attached
<1> QED
  BY <1>1, <1>2, <1>3, <1>4

LEMMA StepsRefine ==
  ASSUME IInv, [Next]_vars
  PROVE  Extends \/ LosesTail \/ Spoils \/ Unseen
<1>1. ASSUME NEW kind \in Kinds, SessionAppends(kind)
      PROVE  Extends
  BY <1>1, AppendExtends DEF SessionAppends, Attached
<1>2. CASE CloseInterruptedTurn
  <2>1. "turn/end" \in Kinds
    BY DEF Kinds
  <2> QED
    BY <1>2, <2>1, AppendExtends DEF CloseInterruptedTurn, Attached
<1>3. CASE UNCHANGED vars
  BY <1>3 DEF vars, disk, counts, Unseen, Visible, Safe, Harm, Attached,
     Readable, Good
<1> QED
  BY <1>1, <1>2, <1>3, WritingExtends, CloseEnds, KilledLoses, PowerLostLoses,
     DamagedSpoils, OpeningUnseen DEF Next, Writing, Ending, Opening

\* A session log keeps what it promises: events stay in order, a crash keeps
\* a prefix with everything a completed durable write covers, and only damage
\* to the stored file takes more.
THEOREM LogIsDurable == Spec => DurableImplemented
<1>1. Init => Durable!Init
  BY DEF Init, Durable!Init, Visible, Attached
<1>2. IInv /\ [Next]_vars =>
        [Durable!Next]_<<Visible, IF stage = "lost" THEN 0 ELSE promised,
                         IF stage = "lost" THEN damage + 1 ELSE damage>>
  <2> SUFFICES ASSUME IInv, [Next]_vars
               PROVE  [Durable!Next]_<<Visible,
                         IF stage = "lost" THEN 0 ELSE promised,
                         IF stage = "lost" THEN damage + 1 ELSE damage>>
    OBVIOUS
  <2>1. Extends \/ LosesTail \/ Spoils \/ Unseen
    BY StepsRefine
  <2> QED
    BY <2>1 DEF Extends, LosesTail, Spoils, Unseen, Safe, Harm, Prefix,
       Durable!Next, Durable!Extend, Durable!Crash, Durable!Damage,
       Durable!Prefix
<1> QED
  BY <1>1, <1>2, InvariantHolds, PTL DEF Spec, DurableImplemented, Durable!Spec
=============================================================================
