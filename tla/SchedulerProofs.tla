-------------------------- MODULE SchedulerProofs --------------------------
(***************************************************************************)
(* Proofs about Scheduler, for every set of jobs, every policy and owner,  *)
(* every limit, interval and sleep: the limits of the pool, that nothing   *)
(* queued waits beside room, that no job is stranded, that only a start    *)
(* forgets a run under way, and that an occurrence begins once.            *)
(*                                                                         *)
(* Sound says of one job what its record, its run in memory and the last   *)
(* occurrence that began owe to each other; Inv adds the claims, the pool  *)
(* and the timer.  The loops of a tick and of a start are folds in an      *)
(* order that depends on the times: FoldRule shows what every step of a    *)
(* fold keeps, and Looped is what every turn of such a loop keeps.  For    *)
(* every action A there is a lemma AKeeps: Inv is kept, and the step is    *)
(* Steady, which is what the action properties say of it.                  *)
(***************************************************************************)
EXTENDS Scheduler, FiniteSetTheorems, WellFoundedInduction, TLAPS

\* The types, looser than Moments: that times stay in it is part of Ranged.
Triggers == {"timer", "manual", "misfire"}
Act == [trigger : Triggers \union {"none"}, sched : Int, resume : Int,
        phase : {"none", "queued", "running"}]
Rec == [life : {"none", "live", "gone"}, on : BOOLEAN, at : Int, next : Int,
        active : Act, pending : Int]
Mem == [state : States, trigger : Triggers \union {"none"}, sched : Int,
        aborted : BOOLEAN]
Worlds == [job : [Jobs -> Rec], run : [Jobs -> Mem], flight : SUBSET Jobs]

\* A run, or the record of one, that nobody asked for.
Unasked(x) == x.trigger \in {"timer", "misfire"}

\* What the record of a job may call its run.
ActiveOK(a) ==
  \/ a = NoRun
  \/ a.phase \in {"queued", "running"} /\ a.trigger \in {"timer", "manual", "misfire"}

\* r, m: the record and the run in memory of a job.
Kept(r, m) ==
  /\ ActiveOK(r.active)
  /\ r.life # "live" =>
       ~r.on /\ r.active = NoRun /\ r.next = NoTime /\ r.pending = NoTime
  /\ r.active # NoRun => r.next = NoTime /\ r.pending = NoTime
  /\ m.state = "none" => m = NotRunning
  /\ m.state # "none" => m.trigger \in {"timer", "manual", "misfire"}
  /\ m.state # "none" /\ r.active # NoRun => Names(r.active, m)
  /\ m.state \in {"starting", "executing"} /\ r.active # NoRun =>
       r.active.phase = "running"

\* How the times of a job compare with b, the last occurrence that began by
\* itself: all that may still run is after it, and what a run resumes or leaves
\* pending is after the occurrence of the run.
Timed(r, m, b) ==
  /\ b <= now
  /\ r.next # NoTime => r.next > b
  /\ r.pending # NoTime =>
       r.pending > b /\ r.pending <= now /\ (r.next # NoTime => r.next > r.pending)
  /\ r.active.resume # NoTime => r.active.resume > b
  /\ Unasked(r.active) =>
       /\ r.active.sched <= now
       /\ r.active.resume # NoTime => r.active.resume > r.active.sched
       /\ r.active.phase = "queued" => r.active.sched > b
  /\ m.state \in {"queued", "starting"} /\ Unasked(m) =>
       /\ m.sched > b /\ m.sched <= now
       /\ r.next # NoTime => r.next > m.sched
       /\ r.pending # NoTime => r.pending > m.sched
       /\ r.active.resume # NoTime => r.active.resume > m.sched

\* A job that wants to run has a time, or its run carries one; a job that runs
\* once has no time but its own.
Planned(r) ==
  /\ r.life = "live" /\ r.on /\ (Recurs(r) \/ r.at > now) =>
       IF r.active = NoRun THEN r.next # NoTime ELSE r.active.resume # NoTime
  /\ ~Recurs(r) =>
       /\ r.next # NoTime => r.next = r.at
       /\ r.active.resume # NoTime => r.active.resume = r.at

\* The times a record may hold.
Span == NoTime..(now + Interval)

\* All times that record, run and history hold are in Span.
Ranged(r, m, b) ==
  /\ r.at \in Span /\ r.next \in Span /\ r.pending \in Span
  /\ r.active.sched \in Span /\ r.active.resume \in Span
  /\ m.sched \in Span /\ b \in Span

\* All of it, for job k; X stands for swapped.
Sound(r, m, b, k, X) ==
  Ranged(r, m, b) /\ Kept(r, m) /\ Timed(r, m, b) /\ (k \notin X => Planned(r))

-----------------------------------------------------------------------------
\* Facts about numbers and finite sets, and the rule for the loops of the model.
\* The library's induction rules take an operator; a least counterexample does
\* for them here.
LEMMA LeastNat ==
  ASSUME NEW S \in SUBSET Nat, S # {}
  PROVE  \E n \in S : \A k \in S : n <= k
<1>1. PICK n \in S : \A k \in S : ~(<<k, n>> \in OpToRel(<, Nat))
  BY WFMin, NatLessThanWellFounded, Zenon
<1>2. \A k \in S : ~(k < n)
  BY <1>1, Zenon DEF OpToRel
<1> QED
  BY <1>2

\* Induction over the numbers of a set D.
LEMMA Upward ==
  ASSUME NEW D, 0 \in D, \A n \in Nat : n \in D => n + 1 \in D
  PROVE  \A n \in Nat : n \in D
<1> SUFFICES ASSUME NEW n0 \in Nat, n0 \notin D
             PROVE  FALSE
  OBVIOUS
<1>1. Nat \ D # {} /\ Nat \ D \in SUBSET Nat
  OBVIOUS
<1>2. PICK n \in Nat \ D : \A k \in Nat \ D : n <= k
  BY <1>1, LeastNat
<1>3. n \in Nat /\ n # 0
  BY <1>2
<1>4. n - 1 \in Nat /\ n - 1 \in D
  BY <1>2, <1>3
<1>5. (n - 1) + 1 \in D
  BY <1>4
<1> QED
  BY <1>2, <1>3, <1>5

\* What holds of the empty set, and of a set when it holds of the set without
\* one of its members, holds of every finite set.
LEMMA TakeAway ==
  ASSUME NEW S, IsFiniteSet(S), NEW P, {} \in P,
         \A s \in (SUBSET S) \ {{}} : \E j \in s : s \ {j} \in P => s \in P
  PROVE  \A s \in SUBSET S : s \in P
<1> DEFINE bad == {n \in Nat : \E s \in SUBSET S : s \notin P /\ Cardinality(s) = n}
<1> SUFFICES ASSUME NEW s0 \in SUBSET S, s0 \notin P
             PROVE  FALSE
  OBVIOUS
<1>0. \A s \in SUBSET S : IsFiniteSet(s) /\ Cardinality(s) \in Nat
  BY FS_Subset, FS_CardinalityType
<1>1. bad # {}
  BY <1>0
<1>2. PICK n \in bad : \A k \in bad : n <= k
  BY <1>1, LeastNat
<1>3. PICK s \in SUBSET S : s \notin P /\ Cardinality(s) = n
  BY <1>2
<1>4. PICK j \in s : s \ {j} \in P => s \in P
  BY <1>3
<1>5. Cardinality(s \ {j}) = n - 1
  BY <1>0, <1>3, <1>4, FS_RemoveElement
<1>6. s \ {j} \in SUBSET S /\ n - 1 \in Nat
  BY <1>0, <1>5
<1>7. s \ {j} \notin P
  BY <1>3, <1>4
<1>8. n - 1 \in bad
  BY <1>5, <1>6, <1>7
<1> QED
  BY <1>2, <1>8

\* A finite set has a last member, by key and then by number.
LEMMA LastExists ==
  ASSUME NEW S \in SUBSET Int, IsFiniteSet(S), S # {}, NEW k \in [S -> Int]
  PROVE  \E j \in S : \A i \in S \ {j} : k[i] < k[j] \/ (k[i] = k[j] /\ i < j)
<1> DEFINE Has(s) == \E j \in s : \A i \in s \ {j} : k[i] < k[j] \/ (k[i] = k[j] /\ i < j)
           P == {s \in SUBSET S : s # {} => Has(s)}
<1>1. {} \in P
  OBVIOUS
<1>2. ASSUME NEW s \in (SUBSET S) \ {{}}, NEW j \in s, s \ {j} \in P
      PROVE  Has(s)
  <2>1. CASE s \ {j} = {}
    <3>1. \A i \in s \ {j} : k[i] < k[j] \/ (k[i] = k[j] /\ i < j)
      BY <2>1
    <3> QED
      BY <3>1
  <2>2. CASE s \ {j} # {}
    <3>1. PICK h \in s \ {j} :
            \A i \in (s \ {j}) \ {h} : k[i] < k[h] \/ (k[i] = k[h] /\ i < h)
      BY <1>2, <2>2
    <3>2. \A i \in s : i \in Int /\ k[i] \in Int
      OBVIOUS
    <3>3. CASE k[h] < k[j] \/ (k[h] = k[j] /\ h < j)
      <4>1. \A i \in s \ {j} : k[i] < k[j] \/ (k[i] = k[j] /\ i < j)
        BY <3>1, <3>2, <3>3
      <4> QED
        BY <4>1
    <3>4. CASE ~(k[h] < k[j] \/ (k[h] = k[j] /\ h < j))
      <4>1. h # j /\ h \in s
        BY <3>1
      <4>2. \A i \in s \ {h} : k[i] < k[h] \/ (k[i] = k[h] /\ i < h)
        BY <3>1, <3>2, <3>4, <4>1
      <4> QED
        BY <4>1, <4>2
    <3> QED
      BY <3>3, <3>4
  <2> QED
    BY <2>1, <2>2
<1>3. ASSUME NEW s \in (SUBSET S) \ {{}}
      PROVE  \E j \in s : s \ {j} \in P => s \in P
  <2>1. PICK j \in s : TRUE
    OBVIOUS
  <2>2. s \ {j} \in P => Has(s)
    BY <1>2, Zenon
  <2>3. s \ {j} \in P => s \in P
    <3> HIDE DEF Has
    <3> QED
      BY <2>2
  <2> QED
    BY <2>1, <2>3
<1>4. S \in P
  <2> HIDE DEF P
  <2> QED
    BY <1>1, <1>3, TakeAway
<1> QED
  BY <1>4, Zenon

\* The recursion of a fold over S from w, which takes last[s] from a set s.
Folding(f, S, W, w, last, st) ==
  /\ f \in [SUBSET S -> W]
  /\ \A s \in SUBSET S :
       f[s] = IF s = {} THEN w ELSE st[last[s]][f[s \ {last[s]}]]

\* It has a solution.
LEMMA FoldExists ==
  ASSUME NEW S, IsFiniteSet(S), NEW W, NEW w \in W,
         NEW last \in [(SUBSET S) \ {{}} -> S],
         \A s \in (SUBSET S) \ {{}} : last[s] \in s,
         NEW st \in [S -> [W -> W]]
  PROVE  \E f : Folding(f, S, W, w, last, st)
<1> DEFINE Step(f, s) == IF s = {} THEN w ELSE st[last[s]][f[s \ {last[s]}]]
           Good(f, n) == \A s \in SUBSET S : Cardinality(s) <= n => f[s] = Step(f, s)
           done == {n \in Nat : \E f \in [SUBSET S -> W] : Good(f, n)}
<1>0. \A s \in SUBSET S : IsFiniteSet(s) /\ Cardinality(s) \in Nat
                          /\ (Cardinality(s) = 0 <=> s = {})
  BY FS_Subset, FS_CardinalityType, FS_EmptySet
<1>1. \A s \in (SUBSET S) \ {{}} :
        s \ {last[s]} \in SUBSET S /\ Cardinality(s \ {last[s]}) = Cardinality(s) - 1
  BY <1>0, FS_RemoveElement
<1>2. ASSUME NEW f \in [SUBSET S -> W], NEW s \in SUBSET S
      PROVE  Step(f, s) \in W
  <2>1. CASE s = {}
    BY <2>1
  <2>2. CASE s # {}
    <3>1. f[s \ {last[s]}] \in W /\ last[s] \in S
      BY <1>1, <2>2
    <3> QED
      BY <2>2, <3>1
  <2> QED
    BY <2>1, <2>2
<1>3. 0 \in done
  <2> DEFINE f == [s \in SUBSET S |-> w]
  <2>1. f \in [SUBSET S -> W]
    OBVIOUS
  <2>2. \A s \in SUBSET S : Cardinality(s) <= 0 => f[s] = Step(f, s)
    BY <1>0
  <2>3. Good(f, 0)
    BY <2>2
  <2> QED
    BY <2>1, <2>3
<1>4. ASSUME NEW n \in Nat, NEW f \in [SUBSET S -> W], Good(f, n)
      PROVE  \E g \in [SUBSET S -> W] : Good(g, n + 1)
  <2> DEFINE g == [s \in SUBSET S |->
                     IF Cardinality(s) <= n THEN f[s] ELSE Step(f, s)]
  <2>1. g \in [SUBSET S -> W]
    BY <1>2
  <2>2. ASSUME NEW s \in SUBSET S, Cardinality(s) <= n + 1
        PROVE  g[s] = Step(g, s)
    <3>1. g[s] = Step(f, s)
      BY <1>4, <2>2
    <3>2. CASE s = {}
      BY <3>1, <3>2
    <3>3. CASE s # {}
      <4>1. Cardinality(s \ {last[s]}) <= n /\ s \ {last[s]} \in SUBSET S
        BY <1>0, <1>1, <2>2, <3>3
      <4>2. g[s \ {last[s]}] = f[s \ {last[s]}]
        BY <4>1
      <4> QED
        BY <3>1, <3>3, <4>2
    <3> QED
      BY <3>2, <3>3
  <2> QED
    BY <2>1, <2>2
<1>5. \A n \in Nat : n \in done => n + 1 \in done
  <2> SUFFICES ASSUME NEW n \in Nat, n \in done
               PROVE  n + 1 \in done
    BY Zenon
  <2>1. \E f \in [SUBSET S -> W] : Good(f, n)
    BY Zenon
  <2>2. \E g \in [SUBSET S -> W] : Good(g, n + 1)
    <3> HIDE DEF Good
    <3> QED
      BY <1>4, <2>1
  <2>3. n + 1 \in Nat
    BY SMT
  <2> QED
    BY <2>2, <2>3, Zenon
<1>6. Cardinality(S) \in Nat /\ \A s \in SUBSET S : Cardinality(s) <= Cardinality(S)
  BY FS_CardinalityType, FS_Subset
<1>7. Cardinality(S) \in done
  <2> HIDE DEF done
  <2> QED
    BY <1>3, <1>5, <1>6, Upward
<1>8. PICK f \in [SUBSET S -> W] : Good(f, Cardinality(S))
  BY <1>7, Zenon
<1>9. \A s \in SUBSET S : f[s] = Step(f, s)
  BY <1>6, <1>8
<1> QED
  BY <1>9, Zenon DEF Folding

-----------------------------------------------------------------------------
\* A pump takes worlds to worlds.
LEMMA BeginType ==
  ASSUME NEW w \in Worlds, NEW j \in Jobs, NEW F
  PROVE  BeginIfRoom(w, j, F) \in Worlds
<1> DEFINE jb == [w.job EXCEPT ![j].active.phase = "running"]
           r1 == [w.run EXCEPT ![j].state = "starting"]
           r2 == [w.run EXCEPT ![j].state = "refused"]
<1>1. /\ w.job \in [Jobs -> Rec] /\ w.run \in [Jobs -> Mem] /\ w.flight \in SUBSET Jobs
      /\ w = [job |-> w.job, run |-> w.run, flight |-> w.flight]
  BY DEF Worlds
<1>2. jb \in [Jobs -> Rec]
  BY <1>1 DEF Rec, Act
<1>3. r1 \in [Jobs -> Mem] /\ r2 \in [Jobs -> Mem]
  BY <1>1 DEF Mem, States, InPool
<1>4. /\ [w EXCEPT !.job[j].active.phase = "running", !.run[j].state = "starting"]
          = [job |-> jb, run |-> r1, flight |-> w.flight]
      /\ [w EXCEPT !.run[j].state = "refused"]
          = [job |-> w.job, run |-> r2, flight |-> w.flight]
  <2>1. [w EXCEPT !.job[j].active.phase = "running", !.run[j].state = "starting"]
        = [w EXCEPT !.job = jb, !.run = r1]
    BY DEF Worlds
  <2>2. [w EXCEPT !.run[j].state = "refused"] = [w EXCEPT !.run = r2]
    BY DEF Worlds
  <2>3. \A a, b : [w EXCEPT !.job = a, !.run = b]
                 = [job |-> a, run |-> b, flight |-> w.flight]
    <3> TAKE a, b
    <3>1. [w EXCEPT !.job = a] = [job |-> a, run |-> w.run, flight |-> w.flight]
      BY DEF Worlds
    <3>2. [w EXCEPT !.job = a, !.run = b] = [[w EXCEPT !.job = a] EXCEPT !.run = b]
      OBVIOUS
    <3>3. [[job |-> a, run |-> w.run, flight |-> w.flight] EXCEPT !.run = b]
          = [job |-> a, run |-> b, flight |-> w.flight]
      OBVIOUS
    <3> QED
      BY <3>1, <3>2, <3>3, Zenon
  <2>4. \A b : [w EXCEPT !.run = b] = [job |-> w.job, run |-> b, flight |-> w.flight]
    BY DEF Worlds
  <2> HIDE DEF jb, r1, r2
  <2> QED
    BY <2>1, <2>2, <2>3, <2>4, Zenon
<1> HIDE DEF jb, r1, r2
<1>5. /\ [job |-> jb, run |-> r1, flight |-> w.flight] \in Worlds
      /\ [job |-> w.job, run |-> r2, flight |-> w.flight] \in Worlds
  BY <1>1, <1>2, <1>3 DEF Worlds
<1> QED
  BY <1>4, <1>5 DEF BeginIfRoom, Begin

\* c folds over S, and every step keeps G, a relation between the members
\* taken so far and the result.
Keeps(c, S, W, w, last, st, G) ==
  /\ IsFiniteSet(S) /\ w \in W /\ <<{}, w>> \in G /\ c[{}] = w
  /\ \A s \in (SUBSET S) \ {{}} : last[s] \in s
  /\ \A j \in S, u \in W : st[j][u] \in W
  /\ \A s \in SUBSET S, u \in W : \A j \in s :
       <<s \ {j}, u>> \in G => <<s, st[j][u]>> \in G
  /\ \A s \in (SUBSET S) \ {{}} :
       c[s \ {last[s]}] \in W => c[s] = st[last[s]][c[s \ {last[s]}]]

\* What every step of a loop keeps holds when the loop is over.
LEMMA FoldRule ==
  ASSUME NEW S, NEW W, NEW w, NEW last, NEW st, NEW G, NEW c,
         Keeps(c, S, W, w, last, st, G)
  PROVE  c[S] \in W /\ <<S, c[S]>> \in G
<1> DEFINE P == {s \in SUBSET S : c[s] \in W /\ <<s, c[s]>> \in G}
<1>1. {} \in P
  BY DEF Keeps
<1>2. ASSUME NEW s \in (SUBSET S) \ {{}}
      PROVE  \E j \in s : s \ {j} \in P => s \in P
  <2>1. last[s] \in s
    BY DEF Keeps
  <2>2. ASSUME s \ {last[s]} \in P
        PROVE  s \in P
    <3>1. /\ c[s \ {last[s]}] \in W /\ <<s \ {last[s]}, c[s \ {last[s]}]>> \in G
          /\ c[s] = st[last[s]][c[s \ {last[s]}]]
      BY <2>2 DEF Keeps
    <3>2. last[s] \in S
      BY <2>1
    <3>3. c[s] \in W
      BY <3>1, <3>2 DEF Keeps
    <3>4. <<s, c[s]>> \in G
      BY <3>1, <2>1 DEF Keeps
    <3> QED
      BY <3>3, <3>4
  <2> QED
    BY <2>1, <2>2, Zenon
<1>3. S \in P
  <2>1. \A s \in (SUBSET S) \ {{}} : \E j \in s : s \ {j} \in P => s \in P
    BY <1>2, Zenon
  <2>2. S \in SUBSET S
    OBVIOUS
  <2> HIDE DEF P
  <2> QED
    BY <1>1, <2>1, <2>2, TakeAway, Zenon DEF Keeps
<1> QED
  BY <1>3

\* The rule for Pump.
LEMMA PumpRule ==
  ASSUME NEW w \in Worlds, NEW F, NEW G, <<{}, w>> \in G,
         \A s \in SUBSET InState(w, {"queued"}), u \in Worlds : \A j \in s :
           <<s \ {j}, u>> \in G => <<s, BeginIfRoom(u, j, F)>> \in G
  PROVE  Pump(w, F) \in Worlds /\ <<InState(w, {"queued"}), Pump(w, F)>> \in G
<1> DEFINE S == InState(w, {"queued"})
           x(s) == CHOOSE j \in s : \A i \in s \ {j} : Before(w, i, j)
           last == [s \in (SUBSET S) \ {{}} |-> x(s)]
           st == [j \in S |-> [u \in Worlds |-> BeginIfRoom(u, j, F)]]
           Is(f) == f = [s \in SUBSET S |->
                          IF s = {} THEN w ELSE BeginIfRoom(f[s \ {x(s)}], x(s), F)]
           c == CHOOSE f : Is(f)
<1>1. Pump(w, F) = c[S]
  BY DEF Pump, InTurn, MapThenFoldSet, Last
<1>2. S \in SUBSET Jobs /\ IsFiniteSet(S) /\ Jobs \in SUBSET Int
  BY JobsAssumption, FS_Subset DEF InState
<1>3. ASSUME NEW s \in (SUBSET S) \ {{}}
      PROVE  x(s) \in s
  <2> DEFINE k == [i \in s |-> w.run[i].sched]
  <2>1. k \in [s -> Int] /\ s \in SUBSET Int /\ IsFiniteSet(s) /\ s # {}
    BY <1>2, FS_Subset DEF Worlds, Mem
  <2>2. \E j \in s : \A i \in s \ {j} : k[i] < k[j] \/ (k[i] = k[j] /\ i < j)
    <3> HIDE DEF k
    <3> QED
      BY <2>1, LastExists
  <2>3. \E j \in s : \A i \in s \ {j} : Before(w, i, j)
    BY <2>2 DEF Before
  <2> QED
    BY <2>3
<1>4. last \in [(SUBSET S) \ {{}} -> S] /\ \A s \in (SUBSET S) \ {{}} : last[s] \in s
  <2> HIDE DEF x
  <2> QED
    BY <1>3
<1>5. st \in [S -> [Worlds -> Worlds]]
  BY <1>2, BeginType
<1>6. ASSUME NEW f, NEW s \in (SUBSET S) \ {{}}, f[s \ {last[s]}] \in Worlds
      PROVE  st[last[s]][f[s \ {last[s]}]] = BeginIfRoom(f[s \ {x(s)}], x(s), F)
  <2>1. last[s] = x(s) /\ x(s) \in S
    <3> HIDE DEF x, S
    <3> QED
      BY <1>3
  <2> HIDE DEF x, S, last
  <2> QED
    BY <1>6, <2>1
<1>7. Is(c)
  <2>1. PICK f : Folding(f, S, Worlds, w, last, st)
    <3> HIDE DEF st, last, S, x
    <3>1. IsFiniteSet(S) /\ w \in Worlds
      BY <1>2
    <3>2. last \in [(SUBSET S) \ {{}} -> S]
      BY <1>4
    <3>3. \A s \in (SUBSET S) \ {{}} : last[s] \in s
      BY <1>4
    <3> QED
      BY <3>1, <3>2, <3>3, <1>5, FoldExists, Zenon
  <2>2. Is(f)
    <3>1. \A s \in (SUBSET S) \ {{}} : f[s \ {last[s]}] \in Worlds
      <4> HIDE DEF st, last, S, x
      <4> QED
        BY <2>1 DEF Folding
    <3> HIDE DEF st, last, S, x
    <3> QED
      BY <1>6, <2>1, <3>1 DEF Folding
  <2> QED
    BY <2>2
<1> HIDE DEF c
<1>8. /\ c[{}] = w
      /\ \A s \in (SUBSET S) \ {{}} : c[s] = BeginIfRoom(c[s \ {x(s)}], x(s), F)
  BY <1>7
<1>9. \A s \in (SUBSET S) \ {{}} :
        c[s \ {last[s]}] \in Worlds => c[s] = st[last[s]][c[s \ {last[s]}]]
  <2> HIDE DEF st, last, S, x
  <2> QED
    BY <1>6, <1>8
<1>10. \A s \in SUBSET S, u \in Worlds : \A j \in s :
         <<s \ {j}, u>> \in G => <<s, st[j][u]>> \in G
  BY <1>2
<1>11. c[S] \in Worlds /\ <<S, c[S]>> \in G
  <2> HIDE DEF st, last, S, x
  <2> QED
    <3>1. IsFiniteSet(S) /\ w \in Worlds /\ <<{}, w>> \in G /\ c[{}] = w
      BY <1>2, <1>8
    <3>2. \A s \in (SUBSET S) \ {{}} : last[s] \in s
      BY <1>4
    <3>3. \A j \in S, u \in Worlds : st[j][u] \in Worlds
      BY <1>5
    <3>4. Keeps(c, S, Worlds, w, last, st, G)
      BY <3>1, <3>2, <3>3, <1>9, <1>10, Zenon DEF Keeps
    <3> QED
      BY <3>4, FoldRule, Zenon
<1> QED
  BY <1>1, <1>11

-----------------------------------------------------------------------------
\* The pool, as the limits see it.
Active(w) == InState(w, InPool)
Peers(w, i) == {j \in Active(w) : Owner[j] = Owner[i]}

\* The limits on what runs, in all and of each owner.
Limits(w) ==
  /\ Cardinality(Active(w)) <= MaxConcurrent
  /\ \A i \in Active(w) : Cardinality(Peers(w, i)) <= MaxPerOwner

Waiting(w) == InState(w, {"queued"})

\* No queued run waits beside room for it.
Served(w) == \A j \in Waiting(w) : ~HasRoom(w, j)

\* What a pump may do to a job.
Same(w, u, i) == u.job[i] = w.job[i] /\ u.run[i] = w.run[i]

\* Job i was taken from the queue: it starts, or it is refused.
Begun(w, u, i) ==
  \/ /\ Names(w.job[i].active, w.run[i])
     /\ w.job[i].on \/ w.job[i].active.trigger = "manual"
     /\ u.job[i] = [w.job[i] EXCEPT !.active.phase = "running"]
     /\ u.run[i] = [w.run[i] EXCEPT !.state = "starting"]
  \/ u.job[i] = w.job[i] /\ u.run[i] = [w.run[i] EXCEPT !.state = "refused"]

\* All that a pump may do to job i.
Pumped(w, u, i) == Same(w, u, i) \/ (w.run[i].state = "queued" /\ Begun(w, u, i))

\* The assumptions, one by one.
LEMMA LimitTypes ==
  /\ MaxConcurrent \in Nat /\ MaxConcurrent > 0
  /\ MaxPerOwner \in Nat /\ MaxPerOwner > 0
  /\ MaxQueued \in Nat /\ MaxQueued > 0
  /\ Interval \in Nat /\ Interval > 0
  /\ Grace \in Nat /\ MaxSleep \in Nat /\ MaxTime \in Nat
  /\ MaxCalls \in Nat /\ MaxFaults \in Nat /\ MaxEnds \in Nat
BY LimitsAssumption

LEMMA PoolFinite ==
  ASSUME NEW w, NEW S
  PROVE  /\ InState(w, S) \in SUBSET Jobs /\ IsFiniteSet(InState(w, S))
         /\ Cardinality(InState(w, S)) \in Nat
<1>1. InState(w, S) \in SUBSET Jobs
  BY DEF InState
<1> QED
  BY <1>1, JobsAssumption, FS_Subset, FS_CardinalityType

LEMMA PeersFinite ==
  ASSUME NEW w, NEW i
  PROVE  Peers(w, i) \in SUBSET Jobs /\ IsFiniteSet(Peers(w, i))
         /\ Cardinality(Peers(w, i)) \in Nat
<1>1. Peers(w, i) \in SUBSET Jobs
  BY PoolFinite DEF Peers, Active
<1> QED
  BY <1>1, JobsAssumption, FS_Subset, FS_CardinalityType

\* HasRoom in these words.
LEMMA RoomIs ==
  ASSUME NEW w, NEW j
  PROVE  HasRoom(w, j) <=> /\ Cardinality(Active(w)) < MaxConcurrent
                           /\ Cardinality(Peers(w, j)) < MaxPerOwner
BY DEF HasRoom, Peers, Active

\* A pool that lost no run has no more room than before.
LEMMA RoomShrinks ==
  ASSUME NEW w, NEW u, Active(w) \subseteq Active(u), NEW j, HasRoom(u, j)
  PROVE  HasRoom(w, j)
<1>1. Peers(w, j) \subseteq Peers(u, j)
  BY DEF Peers
<1>2. /\ Cardinality(Active(w)) <= Cardinality(Active(u))
      /\ Cardinality(Peers(w, j)) <= Cardinality(Peers(u, j))
  <2>1. IsFiniteSet(Active(u)) /\ IsFiniteSet(Peers(u, j))
    BY PoolFinite, PeersFinite DEF Active
  <2> QED
    BY <1>1, <2>1, FS_Subset
<1> QED
  BY <1>2, RoomIs, PoolFinite, PeersFinite, LimitTypes DEF Active

\* A set with one member more is larger by one at most.
LEMMA OneMore ==
  ASSUME NEW S, NEW x, IsFiniteSet(S)
  PROVE  Cardinality(S \union {x}) <= Cardinality(S) + 1
<1>1. Cardinality(S) \in Nat
  BY FS_CardinalityType
<1>2. Cardinality(S \union {x}) = IF x \in S THEN Cardinality(S) ELSE Cardinality(S) + 1
  BY FS_AddElement
<1> QED
  BY <1>1, <1>2

\* One more run keeps to the limits if there was room for it.
LEMMA LimitsGrow ==
  ASSUME NEW w, NEW u, NEW j \in Jobs, Limits(w), HasRoom(w, j),
         Active(u) = Active(w) \union {j}
  PROVE  Limits(u)
<1>1. /\ IsFiniteSet(Active(w)) /\ Cardinality(Active(w)) \in Nat
      /\ \A i : IsFiniteSet(Peers(w, i)) /\ Cardinality(Peers(w, i)) \in Nat
  BY PoolFinite, PeersFinite DEF Active
<1>2. Cardinality(Active(u)) <= Cardinality(Active(w)) + 1
  BY <1>1, OneMore
<1>3. Cardinality(Active(w)) < MaxConcurrent /\ Cardinality(Peers(w, j)) < MaxPerOwner
  BY RoomIs
<1>4. ASSUME NEW i \in Active(u)
      PROVE  Cardinality(Peers(u, i)) <= MaxPerOwner
  <2>1. CASE Owner[i] = Owner[j]
    <3>1. Peers(u, i) = Peers(w, j) \union {j}
      BY <2>1 DEF Peers
    <3>2. Cardinality(Peers(u, i)) <= Cardinality(Peers(w, j)) + 1
      BY <1>1, <3>1, OneMore
    <3> QED
      BY <1>1, <1>3, <3>2, PeersFinite, LimitTypes
  <2>2. CASE Owner[i] # Owner[j]
    <3>1. Peers(u, i) = Peers(w, i) /\ i \in Active(w)
      BY <2>2 DEF Peers
    <3> QED
      BY <3>1 DEF Limits
  <2> QED
    BY <2>1, <2>2
<1>5. Cardinality(Active(u)) <= MaxConcurrent
  BY <1>1, <1>2, <1>3, LimitTypes, PoolFinite DEF Active
<1> QED
  BY <1>4, <1>5 DEF Limits

\* A pool that gained no run keeps to the limits.
LEMMA LimitsShrink ==
  ASSUME NEW w, NEW u, Limits(w), Active(u) \subseteq Active(w)
  PROVE  Limits(u)
<1>1. \A i : Peers(u, i) \subseteq Peers(w, i)
  BY DEF Peers
<1>2. Cardinality(Active(u)) <= Cardinality(Active(w))
  BY PoolFinite, FS_Subset DEF Active
<1>3. \A i : Cardinality(Peers(u, i)) <= Cardinality(Peers(w, i))
  BY <1>1, PeersFinite, FS_Subset
<1> QED
  BY <1>2, <1>3, PoolFinite, PeersFinite, LimitTypes DEF Limits, Active

\* One job of a pump.
LEMMA BeginFacts ==
  ASSUME NEW w \in Worlds, NEW j \in Waiting(w), NEW F
  PROVE  /\ BeginIfRoom(w, j, F).flight = w.flight
         /\ \A i \in Jobs \ {j} : Same(w, BeginIfRoom(w, j, F), i)
         /\ Pumped(w, BeginIfRoom(w, j, F), j)
         /\ HasRoom(w, j) => Begun(w, BeginIfRoom(w, j, F), j)
         /\ ~HasRoom(w, j) => BeginIfRoom(w, j, F) = w
<1>1. j \in Jobs /\ w.run[j].state = "queued"
  BY DEF Waiting, InState
<1>2. /\ w.job \in [Jobs -> Rec] /\ w.run \in [Jobs -> Mem]
  BY DEF Worlds
<1>3. CASE ~HasRoom(w, j)
  BY <1>3 DEF BeginIfRoom, Same, Pumped
<1>4. CASE HasRoom(w, j)
  <2> DEFINE ok == /\ Names(w.job[j].active, w.run[j])
                   /\ w.job[j].on \/ w.job[j].active.trigger = "manual"
                   /\ j \notin F
             u == BeginIfRoom(w, j, F)
  <2>1. CASE ok
    <3>1. u = [w EXCEPT !.job[j].active.phase = "running", !.run[j].state = "starting"]
      BY <1>4, <2>1 DEF BeginIfRoom, Begin
    <3>2. /\ u.job = [w.job EXCEPT ![j].active.phase = "running"]
          /\ u.run = [w.run EXCEPT ![j].state = "starting"]
          /\ u.flight = w.flight
      BY <3>1 DEF Worlds
    <3> HIDE DEF u
    <3>3. /\ u.job[j] = [w.job[j] EXCEPT !.active.phase = "running"]
          /\ u.run[j] = [w.run[j] EXCEPT !.state = "starting"]
          /\ \A i \in Jobs \ {j} : u.job[i] = w.job[i] /\ u.run[i] = w.run[i]
      BY <1>1, <1>2, <3>2
    <3> QED
      BY <1>1, <1>4, <2>1, <3>2, <3>3 DEF Same, Begun, Pumped, u
  <2>2. CASE ~ok
    <3>1. u = [w EXCEPT !.run[j].state = "refused"]
      BY <1>4, <2>2 DEF BeginIfRoom, Begin
    <3>2. /\ u.job = w.job
          /\ u.run = [w.run EXCEPT ![j].state = "refused"]
          /\ u.flight = w.flight
      BY <3>1 DEF Worlds
    <3> HIDE DEF u
    <3>3. /\ u.job[j] = w.job[j]
          /\ u.run[j] = [w.run[j] EXCEPT !.state = "refused"]
          /\ \A i \in Jobs \ {j} : u.job[i] = w.job[i] /\ u.run[i] = w.run[i]
      BY <1>1, <1>2, <3>2
    <3> QED
      BY <1>1, <1>4, <3>2, <3>3 DEF Same, Begun, Pumped, u
  <2> QED
    BY <2>1, <2>2
<1> QED
  BY <1>3, <1>4

\* The pool after one job of a pump.
LEMMA BeginPool ==
  ASSUME NEW w \in Worlds, NEW j \in Waiting(w), NEW F
  PROVE  /\ Active(w) \subseteq Active(BeginIfRoom(w, j, F))
         /\ Limits(w) => Limits(BeginIfRoom(w, j, F))
         /\ j \in Waiting(BeginIfRoom(w, j, F)) => ~HasRoom(BeginIfRoom(w, j, F), j)
<1> DEFINE u == BeginIfRoom(w, j, F)
<1>1. j \in Jobs /\ w.run[j].state = "queued" /\ w.run[j] \in Mem
  BY DEF Waiting, InState, Worlds
<1>2. CASE ~HasRoom(w, j)
  BY <1>2, BeginFacts
<1>3. CASE HasRoom(w, j)
  <2>0. Begun(w, u, j)
    BY <1>3, BeginFacts
  <2>1. u.run[j].state \in InPool
    <3> HIDE DEF u
    <3> QED
      BY <1>1, <2>0 DEF Begun, InPool, Mem
  <2>2. \A i \in Jobs \ {j} : u.run[i] = w.run[i]
    BY BeginFacts DEF Same
  <2> HIDE DEF u
  <2>3. Active(u) = Active(w) \union {j}
    BY <1>1, <2>1, <2>2 DEF Active, InState
  <2>4. j \notin Waiting(u)
    BY <2>1 DEF Waiting, InState, InPool
  <2>5. Limits(w) => Limits(u)
    BY <1>1, <1>3, <2>3, LimitsGrow
  <2> QED
    BY <2>3, <2>4, <2>5 DEF u
<1> QED
  BY <1>2, <1>3

\* The whole pump: nobody but queued runs moves, the limits stay, and no queued
\* run is left beside room for it.
LEMMA PumpFacts ==
  ASSUME NEW w \in Worlds, NEW F
  PROVE  /\ Pump(w, F) \in Worlds
         /\ Pump(w, F).flight = w.flight
         /\ \A i \in Jobs : Pumped(w, Pump(w, F), i)
         /\ Limits(w) => Limits(Pump(w, F))
         /\ Served(Pump(w, F))
<1> DEFINE Sofar(s, u) ==
             /\ u.flight = w.flight
             /\ \A i \in Jobs : Pumped(w, u, i)
             /\ \A i \in Jobs \ s : Same(w, u, i)
             /\ Limits(w) => Limits(u)
             /\ \A i \in s : i \in Waiting(u) => ~HasRoom(u, i)
           G == {p \in (SUBSET Jobs) \X Worlds : Sofar(p[1], p[2])}
<1>0. \A s, u : <<s, u>> \in G <=> s \in SUBSET Jobs /\ u \in Worlds /\ Sofar(s, u)
  OBVIOUS
<1>1. Sofar({}, w)
  BY DEF Same, Pumped
<1>2. <<{}, w>> \in G
  <2> HIDE DEF G, Sofar
  <2> QED
    BY <1>0, <1>1
<1>3. ASSUME NEW s \in SUBSET Waiting(w), NEW u \in Worlds, NEW j \in s,
             Sofar(s \ {j}, u)
      PROVE  Sofar(s, BeginIfRoom(u, j, F))
  <2> DEFINE v == BeginIfRoom(u, j, F)
  <2>1. j \in Jobs /\ j \in Waiting(u) /\ Same(w, u, j)
    BY <1>3 DEF Same, Waiting, InState
  <2>2. /\ v.flight = u.flight
        /\ \A i \in Jobs \ {j} : Same(u, v, i)
        /\ Pumped(u, v, j)
    BY <2>1, BeginFacts
  <2>3. /\ Active(u) \subseteq Active(v)
        /\ Limits(u) => Limits(v)
        /\ j \in Waiting(v) => ~HasRoom(v, j)
    BY <2>1, BeginPool
  <2> HIDE DEF v
  <2>4. \A i \in Jobs : Pumped(w, v, i)
    <3>1. Pumped(w, v, j)
      BY <2>1, <2>2 DEF Same, Pumped, Begun
    <3>2. \A i \in Jobs \ {j} : Pumped(w, v, i)
      BY <1>3, <2>2 DEF Same, Pumped, Begun
    <3> QED
      BY <3>1, <3>2
  <2>5. \A i \in Jobs \ s : Same(w, v, i)
    BY <1>3, <2>2 DEF Same
  <2>6. \A i \in s : i \in Waiting(v) => ~HasRoom(v, i)
    <3> SUFFICES ASSUME NEW i \in s, i \in Waiting(v), i # j
                 PROVE  ~HasRoom(v, i)
      BY <2>3
    <3>1. i \in Waiting(u)
      BY <2>2 DEF Same, Waiting, InState
    <3> QED
      BY <1>3, <2>3, <3>1, RoomShrinks
  <2>7. v.flight = w.flight /\ (Limits(w) => Limits(v))
    BY <1>3, <2>2, <2>3
  <2> QED
    BY <2>4, <2>5, <2>6, <2>7 DEF v
<1>4. \A s \in SUBSET Waiting(w), u \in Worlds : \A j \in s :
        <<s \ {j}, u>> \in G => <<s, BeginIfRoom(u, j, F)>> \in G
  <2> HIDE DEF G, Sofar
  <2> TAKE s \in SUBSET Waiting(w), u \in Worlds
  <2> TAKE j \in s
  <2>1. s \in SUBSET Jobs /\ j \in Jobs
    BY DEF Waiting, InState
  <2> QED
    BY <1>0, <1>3, <2>1, BeginType
<1>5. Pump(w, F) \in Worlds /\ <<Waiting(w), Pump(w, F)>> \in G
  <2> HIDE DEF G
  <2> QED
    BY <1>2, <1>4, PumpRule DEF Waiting
<1>6. Sofar(Waiting(w), Pump(w, F))
  <2> HIDE DEF Sofar, G
  <2> QED
    BY <1>0, <1>5
<1>7. Served(Pump(w, F))
  <2> SUFFICES ASSUME NEW i \in Waiting(Pump(w, F))
               PROVE  ~HasRoom(Pump(w, F), i)
    BY DEF Served
  <2>1. i \in Jobs /\ Pump(w, F).run[i].state = "queued"
    BY DEF Waiting, InState
  <2>2. i \in Waiting(w)
    <3>1. CASE i \in Waiting(w)
      BY <3>1
    <3>2. CASE i \notin Waiting(w)
      BY <1>6, <2>1, <3>2 DEF Same, Waiting, InState
    <3> QED
      BY <3>1, <3>2
  <2> QED
    BY <1>6, <2>2
<1> QED
  BY <1>5, <1>6, <1>7

-----------------------------------------------------------------------------
\* The pool keeps to its limits, and no run waits beside room for it.
PoolSound(w) ==
  /\ Limits(w) /\ Served(w)
  /\ Cardinality(Waiting(w)) <= MaxQueued

\* What becomes of a job that is enqueued as a: w.job[j] is its record.
Entered(w, u, j, a) ==
  /\ u.run[j].trigger = a.trigger /\ u.run[j].sched = a.sched
  /\ \/ /\ Names(w.job[j].active, a)
        /\ u.job[j] = [w.job[j] EXCEPT !.active.phase = "running"]
        /\ u.run[j].state = "starting"
     \/ /\ u.job[j] = w.job[j]
        /\ u.run[j].state \in {"queued", "refused", "settled"}

\* The parts of a world, and worlds with another run in them.
LEMMA WorldParts ==
  ASSUME NEW w \in Worlds
  PROVE  /\ w.job \in [Jobs -> Rec] /\ w.run \in [Jobs -> Mem]
         /\ w.flight \in SUBSET Jobs
BY DEF Worlds

LEMMA NewRunType ==
  ASSUME NEW w \in Worlds, NEW j \in Jobs, NEW m \in Mem
  PROVE  /\ [w EXCEPT !.run[j] = m] \in Worlds
         /\ [w EXCEPT !.run[j] = m].job = w.job
         /\ [w EXCEPT !.run[j] = m].flight = w.flight
         /\ [w EXCEPT !.run[j] = m].run = [w.run EXCEPT ![j] = m]
<1>1. [w EXCEPT !.run[j] = m]
      = [job |-> w.job, run |-> [w.run EXCEPT ![j] = m], flight |-> w.flight]
  BY DEF Worlds
<1>2. [w.run EXCEPT ![j] = m] \in [Jobs -> Mem]
  BY WorldParts
<1> HIDE DEF Mem
<1>3. [job |-> w.job, run |-> [w.run EXCEPT ![j] = m], flight |-> w.flight] \in Worlds
  BY <1>2, WorldParts DEF Worlds
<1> QED
  BY <1>1, <1>3

LEMMA SettleIs ==
  ASSUME NEW w \in Worlds, NEW j \in Jobs, NEW st \in States
  PROVE  /\ [w.run[j] EXCEPT !.state = st] \in Mem
         /\ [w EXCEPT !.run[j].state = st]
            = [w EXCEPT !.run[j] = [w.run[j] EXCEPT !.state = st]]
<1>1. w.run[j] \in Mem
  BY WorldParts
<1> QED
  BY <1>1 DEF Worlds, Mem

\* Enqueue: the run is queued, pumped, and rejected if the queue is over full.
LEMMA EnqueueFacts ==
  ASSUME NEW w \in Worlds, NEW j \in Jobs, NEW a \in Act, NEW F
  PROVE  /\ Enqueue(w, j, a, F) \in Worlds
         /\ Enqueue(w, j, a, F).flight = w.flight
         /\ \A i \in Jobs \ {j} : Pumped(w, Enqueue(w, j, a, F), i)
         /\ Entered(w, Enqueue(w, j, a, F), j, a)
         /\ w.run[j].state = "none" /\ PoolSound(w) => PoolSound(Enqueue(w, j, a, F))
<1> DEFINE m == [state |-> "queued", trigger |-> a.trigger, sched |-> a.sched,
                 aborted |-> FALSE]
           v == [w EXCEPT !.run[j] = m]
           u == Pump(v, F)
           x == [u EXCEPT !.run[j].state = "settled"]
           over == j \in Waiting(u) /\ Cardinality(Waiting(u)) > MaxQueued
<1>1. Enqueue(w, j, a, F) = IF over THEN x ELSE u
  BY DEF Enqueue, Waiting
<1>2. m \in Mem
  BY DEF Mem, Act, States
<1> HIDE DEF m
<1>3. /\ v \in Worlds /\ v.job = w.job /\ v.flight = w.flight
      /\ v.run[j] = m /\ \A i \in Jobs \ {j} : v.run[i] = w.run[i]
  BY <1>2, NewRunType, WorldParts
<1> HIDE DEF v
<1>4. /\ u \in Worlds /\ u.flight = w.flight
      /\ \A i \in Jobs : Pumped(v, u, i)
      /\ Limits(v) => Limits(u)
      /\ Served(u)
  BY <1>3, PumpFacts
<1> HIDE DEF u
<1>5. \A i \in Jobs \ {j} : Pumped(w, u, i)
  BY <1>3, <1>4 DEF Pumped, Same, Begun
<1>6. Entered(w, u, j, a)
  <2>1. Pumped(v, u, j) /\ v.job[j] = w.job[j]
    BY <1>3, <1>4
  <2>2. m.state = "queued" /\ m.trigger = a.trigger /\ m.sched = a.sched
    BY DEF m
  <2>3. CASE Same(v, u, j)
    BY <1>3, <2>1, <2>2, <2>3 DEF Same, Entered
  <2>4. CASE Begun(v, u, j)
    <3>1. /\ [m EXCEPT !.state = "starting"].trigger = a.trigger
          /\ [m EXCEPT !.state = "starting"].sched = a.sched
          /\ [m EXCEPT !.state = "starting"].state = "starting"
          /\ [m EXCEPT !.state = "refused"].trigger = a.trigger
          /\ [m EXCEPT !.state = "refused"].sched = a.sched
          /\ [m EXCEPT !.state = "refused"].state = "refused"
      BY <1>2, <2>2 DEF m
    <3>2. Names(w.job[j].active, m) <=> Names(w.job[j].active, a)
      BY <2>2 DEF Names
    <3> QED
      BY <1>3, <2>1, <2>4, <3>1, <3>2 DEF Begun, Entered
  <2> QED
    BY <2>1, <2>3, <2>4 DEF Pumped
<1>7. /\ x \in Worlds /\ x.job = u.job /\ x.flight = u.flight
      /\ \A i \in Jobs \ {j} : x.run[i] = u.run[i]
      /\ x.run[j] = [u.run[j] EXCEPT !.state = "settled"]
      /\ x.run[j].state = "settled" /\ x.run[j].trigger = u.run[j].trigger
      /\ x.run[j].sched = u.run[j].sched
  <2>1. u.run[j] \in Mem /\ "settled" \in States
    BY <1>4, WorldParts DEF States
  <2>2. /\ [u.run[j] EXCEPT !.state = "settled"] \in Mem
        /\ x = [u EXCEPT !.run[j] = [u.run[j] EXCEPT !.state = "settled"]]
    BY <1>4, <2>1, SettleIs
  <2>3. /\ [u.run[j] EXCEPT !.state = "settled"].state = "settled"
        /\ [u.run[j] EXCEPT !.state = "settled"].trigger = u.run[j].trigger
        /\ [u.run[j] EXCEPT !.state = "settled"].sched = u.run[j].sched
    BY <2>1 DEF Mem
  <2> QED
    BY <1>4, <2>2, <2>3, NewRunType, WorldParts
<1>8. over => Entered(w, x, j, a) /\ \A i \in Jobs \ {j} : Pumped(w, x, i)
  <2> SUFFICES ASSUME over
               PROVE  Entered(w, x, j, a) /\ \A i \in Jobs \ {j} : Pumped(w, x, i)
    OBVIOUS
  <2>1. u.run[j].state = "queued"
    BY DEF Waiting, InState
  <2> HIDE DEF x
  <2>2. Entered(w, x, j, a)
    BY <1>6, <1>7, <2>1 DEF Entered
  <2>3. \A i \in Jobs \ {j} : Pumped(w, x, i)
    BY <1>5, <1>7 DEF Pumped, Same, Begun
  <2> QED
    BY <2>2, <2>3
<1>9. ASSUME w.run[j].state = "none", PoolSound(w)
      PROVE  IF over THEN PoolSound(x) ELSE PoolSound(u)
  <2>1. m.state = "queued"
    BY DEF m
  <2>2. Active(v) = Active(w)
    BY <1>3, <1>9, <2>1 DEF Active, InState, InPool
  <2>3. Limits(u)
    BY <1>4, <1>9, <2>2, LimitsShrink DEF PoolSound
  <2>4. Waiting(u) \subseteq Waiting(w) \union {j}
    BY <1>3, <1>4 DEF Waiting, InState, Pumped, Same
  <2>5. Waiting(u) \subseteq Waiting(w) => Cardinality(Waiting(u)) <= MaxQueued
    <3>1. Waiting(u) \subseteq Waiting(w) =>
            Cardinality(Waiting(u)) <= Cardinality(Waiting(w))
      BY PoolFinite, FS_Subset DEF Waiting
    <3> QED
      BY <1>9, <3>1, PoolFinite, LimitTypes DEF PoolSound, Waiting
  <2>6. CASE ~over
    <3>1. Cardinality(Waiting(u)) <= MaxQueued
      BY <2>4, <2>5, <2>6, PoolFinite, LimitTypes DEF Waiting
    <3> QED
      BY <1>4, <2>3, <2>6, <3>1 DEF PoolSound
  <2>7. CASE over
    <3> HIDE DEF x
    <3>1. Active(x) = Active(u)
      BY <1>7, <2>7 DEF Active, Waiting, InState, InPool
    <3>2. Waiting(x) = Waiting(u) \ {j}
      BY <1>7, <2>7 DEF Waiting, InState
    <3>3. Limits(x)
      BY <2>3, <3>1, LimitsShrink
    <3>4. Served(x)
      BY <1>4, <3>1, <3>2, RoomShrinks DEF Served
    <3>5. Cardinality(Waiting(x)) <= Cardinality(Waiting(w))
      <4>1. Waiting(x) \subseteq Waiting(w)
        BY <2>4, <3>2
      <4> QED
        BY <4>1, PoolFinite, FS_Subset DEF Waiting
    <3>6. Cardinality(Waiting(x)) <= MaxQueued
      BY <1>9, <3>5, PoolFinite, LimitTypes DEF PoolSound, Waiting
    <3> QED
      BY <2>7, <3>3, <3>4, <3>6 DEF PoolSound
  <2> QED
    BY <2>6, <2>7
<1> HIDE DEF x
<1>10. CASE over
  BY <1>1, <1>4, <1>7, <1>8, <1>9, <1>10
<1>11. CASE ~over
  BY <1>1, <1>4, <1>5, <1>6, <1>9, <1>11
<1> QED
  BY <1>10, <1>11

-----------------------------------------------------------------------------
\* The record of a job that is admitted as a.
Due(r, a) == [r EXCEPT !.pending = NoTime, !.active = a, !.next = NoTime]

\* What becomes of a job that is admitted as a.
Admitted(w, u, j, a) ==
  /\ u.run[j].trigger = a.trigger /\ u.run[j].sched = a.sched
  /\ \/ /\ u.job[j] = [Due(w.job[j], a) EXCEPT !.active.phase = "running"]
        /\ u.run[j].state = "starting"
     \/ /\ u.job[j] = Due(w.job[j], a)
        /\ u.run[j].state \in {"queued", "refused", "settled"}

\* The steps of an admission.
LEMMA ClaimFacts ==
  ASSUME NEW w \in Worlds, NEW j \in Jobs
  PROVE  /\ Claim(w, j) \in Worlds
         /\ Claim(w, j).job = w.job /\ Claim(w, j).run = w.run
         /\ Claim(w, j).flight = w.flight \union {j}
<1>1. Claim(w, j) = [job |-> w.job, run |-> w.run, flight |-> w.flight \union {j}]
  BY DEF Claim, Worlds
<1>2. w.flight \union {j} \in SUBSET Jobs
  BY WorldParts
<1>3. [job |-> w.job, run |-> w.run, flight |-> w.flight \union {j}] \in Worlds
  BY <1>2, WorldParts DEF Worlds
<1> QED
  BY <1>1, <1>3

LEMMA PersistFacts ==
  ASSUME NEW w \in Worlds, NEW j \in Jobs, NEW a \in Act
  PROVE  /\ Persist(w, j, a) \in Worlds
         /\ Persist(w, j, a).run = w.run
         /\ Persist(w, j, a).flight = w.flight
         /\ Persist(w, j, a).job = [w.job EXCEPT ![j] = Due(w.job[j], a)]
<1> DEFINE r == Due(w.job[j], a)
<1>1. w.job[j] \in Rec
  BY WorldParts
<1>2. r \in Rec
  <2>1. NoTime \in Int
    BY DEF NoTime
  <2>2. Due(w.job[j], a) = [w.job[j] EXCEPT !.pending = NoTime, !.active = a,
                                            !.next = NoTime]
    BY DEF Due
  <2>3. \A x \in Rec, n \in Int :
          [x EXCEPT !.pending = n, !.active = a, !.next = n] \in Rec
    BY DEF Rec
  <2> QED
    BY <1>1, <2>1, <2>2, <2>3
<1>3. Persist(w, j, a) = [w EXCEPT !.job[j] = r]
  BY <1>1 DEF Persist, Due, Worlds, Rec
<1> HIDE DEF r
<1>4. [w EXCEPT !.job[j] = r]
      = [job |-> [w.job EXCEPT ![j] = r], run |-> w.run, flight |-> w.flight]
  BY DEF Worlds
<1>5. [w.job EXCEPT ![j] = r] \in [Jobs -> Rec]
  BY <1>2, WorldParts
<1>6. [job |-> [w.job EXCEPT ![j] = r], run |-> w.run, flight |-> w.flight] \in Worlds
  <2> HIDE DEF Rec
  <2> QED
    BY <1>5, WorldParts DEF Worlds
<1> QED
  BY <1>3, <1>4, <1>6 DEF r

\* An admission as a whole, and one of a run that the store already has.
LEMMA AdmitFacts ==
  ASSUME NEW w \in Worlds, NEW j \in Jobs, NEW a \in Act, NEW F, j \notin w.flight
  PROVE  /\ Admit(w, j, a, F) \in Worlds
         /\ Admit(w, j, a, F).flight = w.flight \union {j}
         /\ \A i \in Jobs \ {j} : Pumped(w, Admit(w, j, a, F), i)
         /\ Admitted(w, Admit(w, j, a, F), j, a)
         /\ w.run[j].state = "none" /\ PoolSound(w) => PoolSound(Admit(w, j, a, F))
<1> DEFINE c == Claim(w, j)
           p == Persist(c, j, a)
           u == Enqueue(p, j, a, F)
<1>1. Admit(w, j, a, F) = u
  BY DEF Admit
<1>2. /\ c \in Worlds /\ c.job = w.job /\ c.run = w.run
      /\ c.flight = w.flight \union {j}
  BY ClaimFacts
<1> HIDE DEF c
<1>3. /\ p \in Worlds /\ p.run = w.run /\ p.flight = w.flight \union {j}
      /\ p.job = [w.job EXCEPT ![j] = Due(w.job[j], a)]
  BY <1>2, PersistFacts
<1> HIDE DEF p
<1>4. p.job[j] = Due(w.job[j], a) /\ \A i \in Jobs \ {j} : p.job[i] = w.job[i]
  BY <1>3, WorldParts
<1>5. /\ u \in Worlds /\ u.flight = p.flight
      /\ \A i \in Jobs \ {j} : Pumped(p, u, i)
      /\ Entered(p, u, j, a)
      /\ p.run[j].state = "none" /\ PoolSound(p) => PoolSound(u)
  BY <1>3, EnqueueFacts
<1> HIDE DEF u
<1>6. \A i \in Jobs \ {j} : Pumped(w, u, i)
  BY <1>3, <1>4, <1>5 DEF Pumped, Same, Begun
<1>7. Admitted(w, u, j, a)
  BY <1>4, <1>5 DEF Entered, Admitted
<1>8. PoolSound(w) => PoolSound(p)
  <2>1. \A S : InState(w, S) = InState(p, S)
    BY <1>3 DEF InState
  <2>2. Active(w) = Active(p) /\ Waiting(w) = Waiting(p)
    BY <2>1 DEF Active, Waiting
  <2>3. Limits(w) => Limits(p)
    BY <2>2, LimitsShrink
  <2>4. Served(w) => Served(p)
    BY <2>2, RoomShrinks DEF Served
  <2> QED
    BY <2>2, <2>3, <2>4 DEF PoolSound
<1> QED
  BY <1>1, <1>3, <1>5, <1>6, <1>7, <1>8

LEMMA ReadmitFacts ==
  ASSUME NEW w \in Worlds, NEW j \in Jobs, NEW F, j \notin w.flight
  PROVE  /\ Readmit(w, j, F) \in Worlds
         /\ Readmit(w, j, F).flight = w.flight \union {j}
         /\ \A i \in Jobs \ {j} : Pumped(w, Readmit(w, j, F), i)
         /\ Entered(w, Readmit(w, j, F), j, w.job[j].active)
         /\ w.run[j].state = "none" /\ PoolSound(w) => PoolSound(Readmit(w, j, F))
<1> DEFINE p == Claim(w, j)
           a == w.job[j].active
           u == Enqueue(p, j, a, F)
<1>1. Readmit(w, j, F) = u
  BY DEF Readmit
<1>2. /\ p \in Worlds /\ p.job = w.job /\ p.run = w.run
      /\ p.flight = w.flight \union {j}
  BY ClaimFacts
<1>3. a \in Act
  BY WorldParts DEF Rec
<1> HIDE DEF p, a
<1>5. /\ u \in Worlds /\ u.flight = p.flight
      /\ \A i \in Jobs \ {j} : Pumped(p, u, i)
      /\ Entered(p, u, j, a)
      /\ p.run[j].state = "none" /\ PoolSound(p) => PoolSound(u)
  BY <1>2, <1>3, EnqueueFacts
<1> HIDE DEF u
<1>6. (\A i \in Jobs \ {j} : Pumped(w, u, i)) /\ Entered(w, u, j, a)
  BY <1>2, <1>5 DEF Pumped, Same, Begun, Entered
<1>8. PoolSound(w) => PoolSound(p)
  <2>1. \A S : InState(w, S) = InState(p, S)
    BY <1>2 DEF InState
  <2>2. Active(w) = Active(p) /\ Waiting(w) = Waiting(p)
    BY <2>1 DEF Active, Waiting
  <2>3. Limits(w) => Limits(p)
    BY <2>2, LimitsShrink
  <2>4. Served(w) => Served(p)
    BY <2>2, RoomShrinks DEF Served
  <2> QED
    BY <2>2, <2>3, <2>4 DEF PoolSound
<1> QED
  BY <1>1, <1>2, <1>5, <1>6, <1>8 DEF a

-----------------------------------------------------------------------------
\* Times: what computeNextRunMs, nextStrictlyAfter and occurrenceWindow return.
LEMMA MaxOfTwo ==
  ASSUME NEW a \in Int, NEW b \in Int
  PROVE  Max({a, b}) = IF a >= b THEN a ELSE b
<1> DEFINE m == IF a >= b THEN a ELSE b
<1>1. m \in {a, b} /\ \A y \in {a, b} : m >= y
  OBVIOUS
<1>2. \A x \in {a, b} : (\A y \in {a, b} : x >= y) => x = m
  OBVIOUS
<1> HIDE DEF m
<1>3. Max({a, b}) = m
  BY <1>1, <1>2 DEF Max
<1> QED
  BY <1>3 DEF m

LEMMA Division ==
  ASSUME NEW a \in Nat, NEW b \in Nat \ {0}
  PROVE  /\ a \div b \in Nat /\ (a \div b) * b \in Nat
         /\ (a \div b) * b <= a /\ a < (a \div b) * b + b
BY Z3

LEMMA DivisionType ==
  ASSUME NEW a \in Int, NEW b \in Nat \ {0}
  PROVE  a \div b \in Int /\ (a \div b) * b \in Int
BY Z3

\* The latest missed occurrence is past, the next ones are not.
LEMMA Times ==
  ASSUME NEW r, NEW t \in Int, now \in Nat
  PROVE  /\ LatestMissed(r, t) \in Int /\ NextFuture(r, t) \in Int
         /\ NextAfter(r, t) \in Int
         /\ ~Recurs(r) => LatestMissed(r, t) = t /\ NextFuture(r, t) = NoTime
                          /\ NextAfter(r, t) = NoTime
         /\ Recurs(r) /\ t <= now =>
              /\ t <= LatestMissed(r, t) /\ LatestMissed(r, t) <= now
              /\ now < NextFuture(r, t) /\ NextFuture(r, t) <= now + Interval
              /\ now < NextAfter(r, t) /\ NextAfter(r, t) <= now + Interval
<1> DEFINE q == (now - t) \div Interval
<1>1. Interval \in Nat \ {0} /\ now - t \in Int
  BY LimitTypes
<1>2. q \in Int /\ q * Interval \in Int
  BY <1>1, DivisionType
<1>3. t <= now => q \in Nat /\ q * Interval <= now - t /\ now - t < q * Interval + Interval
                  /\ q * Interval >= 0
  <2>1. t <= now => now - t \in Nat
    OBVIOUS
  <2> QED
    BY <1>1, <2>1, Division
<1>4. /\ LatestMissed(r, t) = IF Recurs(r) THEN t + q * Interval ELSE t
      /\ NextFuture(r, t) = IF Recurs(r) THEN t + q * Interval + Interval ELSE NoTime
      /\ NextAfter(r, t) = IF Recurs(r) THEN t + Max({1, q + 1}) * Interval ELSE NoTime
  BY DEF LatestMissed, NextFuture, NextAfter
<1> HIDE DEF q
<1>5. Max({1, q + 1}) = IF q <= 0 THEN 1 ELSE q + 1
  BY <1>2, MaxOfTwo
<1>6. /\ (q + 1) * Interval = q * Interval + Interval
      /\ 1 * Interval = Interval
      /\ q = 0 => q * Interval = 0
  BY <1>1, <1>2, Z3
<1>7. NoTime \in Int
  BY DEF NoTime
<1>8. Max({1, q + 1}) * Interval = IF q <= 0 THEN Interval ELSE q * Interval + Interval
  BY <1>5, <1>6, <1>2
<1>9. /\ LatestMissed(r, t) \in Int /\ NextFuture(r, t) \in Int
      /\ NextAfter(r, t) \in Int
  BY <1>1, <1>2, <1>4, <1>7, <1>8
<1>10. ASSUME Recurs(r), t <= now
       PROVE  /\ t <= LatestMissed(r, t) /\ LatestMissed(r, t) <= now
              /\ now < NextFuture(r, t) /\ NextFuture(r, t) <= now + Interval
              /\ now < NextAfter(r, t) /\ NextAfter(r, t) <= now + Interval
  <2> DEFINE p == q * Interval
  <2>1. p \in Int /\ p <= now - t /\ now - t < p + Interval /\ p >= 0
    BY <1>2, <1>3, <1>10
  <2>2. Max({1, q + 1}) * Interval = p + Interval
    BY <1>3, <1>6, <1>8, <1>10
  <2>3. /\ LatestMissed(r, t) = t + p /\ NextFuture(r, t) = t + p + Interval
        /\ NextAfter(r, t) = t + (p + Interval)
    BY <1>4, <1>10, <2>2
  <2> HIDE DEF p
  <2> QED
    BY <1>1, <2>1, <2>3
<1> QED
  BY <1>4, <1>9, <1>10

LEMMA NextComputed ==
  ASSUME NEW r \in Rec, now \in Nat
  PROVE  /\ ComputeNext(r) \in Int
         /\ ComputeNext(r) # NoTime => ComputeNext(r) > now
         /\ Recurs(r) => ComputeNext(r) = now + Interval
         /\ ~Recurs(r) => ComputeNext(r) = IF r.at > now THEN r.at ELSE NoTime
         /\ Recurs(r) \/ r.at > now => ComputeNext(r) # NoTime
<1>1. r.at \in Int
  BY DEF Rec
<1> QED
  BY <1>1, LimitTypes DEF ComputeNext, Recurs, NoTime

\* The decision about a missed occurrence: what it queues lies between the first
\* one missed and now.
LEMMA Decided ==
  ASSUME NEW r \in Rec, NEW policy, now \in Nat
  PROVE  /\ Decision(r, policy).sched \in Int /\ Decision(r, policy).next \in Int
         /\ Decision(r, policy).kind \in {"none", "skip", "queue"}
         /\ r.next # NoTime /\ r.next < now =>
              /\ Decision(r, policy).kind \in {"skip", "queue"}
              /\ r.next <= Decision(r, policy).sched /\ Decision(r, policy).sched <= now
              /\ Decision(r, policy).next = NextFuture(r, r.next)
              /\ ~Recurs(r) => Decision(r, policy).sched = r.next
         /\ ~(r.next # NoTime /\ r.next < now) =>
              /\ Decision(r, policy).kind = "none"
              /\ Decision(r, policy).next
                   = IF r.next = NoTime THEN ComputeNext(r) ELSE r.next
<1>1. r.next \in Int /\ NoTime \in Int
  BY DEF Rec, NoTime
<1>2. ComputeNext(r) \in Int
  BY NextComputed
<1>3. /\ LatestMissed(r, r.next) \in Int /\ NextFuture(r, r.next) \in Int
      /\ ~Recurs(r) => LatestMissed(r, r.next) = r.next
      /\ Recurs(r) /\ r.next <= now => r.next <= LatestMissed(r, r.next)
                                      /\ LatestMissed(r, r.next) <= now
  BY <1>1, Times
<1>4. CASE r.next # NoTime /\ r.next < now
  <2>1. ~(r.next = NoTime) /\ ~(r.next >= now)
    BY <1>1, <1>4
  <2>2. /\ Decision(r, policy).kind = IF policy = "skip" THEN "skip" ELSE "queue"
        /\ Decision(r, policy).sched
             = IF policy = "latest" THEN LatestMissed(r, r.next) ELSE r.next
        /\ Decision(r, policy).next = NextFuture(r, r.next)
    BY <2>1 DEF Decision
  <2> QED
    BY <1>1, <1>3, <1>4, <2>2
<1>5. CASE ~(r.next # NoTime /\ r.next < now)
  <2>1. r.next = NoTime \/ r.next >= now
    BY <1>1, <1>5
  <2>2. /\ Decision(r, policy).kind = "none" /\ Decision(r, policy).sched = NoTime
        /\ Decision(r, policy).next = IF r.next = NoTime THEN ComputeNext(r) ELSE r.next
    BY <2>1 DEF Decision
  <2> QED
    BY <1>1, <1>2, <1>5, <2>2
<1> QED
  BY <1>4, <1>5

\* What a due job is admitted as: an occurrence it has reached, and a time to
\* resume that is still to come.
LEMMA DueRunFacts ==
  ASSUME NEW r \in Rec, NEW policy, now \in Nat
  PROVE  /\ DueRun(r, policy) \in Act
         /\ DueRun(r, policy).phase = "queued"
         /\ DueRun(r, policy).trigger \in {"timer", "misfire"}
         /\ r.next # NoTime /\ r.next <= now =>
              /\ r.next <= DueRun(r, policy).sched /\ DueRun(r, policy).sched <= now
              /\ Recurs(r) => now < DueRun(r, policy).resume
                              /\ DueRun(r, policy).resume <= now + Interval
              /\ ~Recurs(r) => DueRun(r, policy).resume = NoTime
                               /\ DueRun(r, policy).sched = r.next
<1>1. r.next \in Int /\ NoTime \in Int
  BY DEF Rec, NoTime
<1>2. /\ NextAfter(r, r.next) \in Int
      /\ ~Recurs(r) => NextAfter(r, r.next) = NoTime /\ NextFuture(r, r.next) = NoTime
      /\ Recurs(r) /\ r.next <= now =>
           /\ now < NextFuture(r, r.next) /\ NextFuture(r, r.next) <= now + Interval
           /\ now < NextAfter(r, r.next) /\ NextAfter(r, r.next) <= now + Interval
  BY <1>1, Times
<1>3. CASE Late(r)
  <2> DEFINE d == Decision(r, policy)
  <2>1. d.sched \in Int /\ d.next \in Int
    BY Decided
  <2>2. DueRun(r, policy) = Queued("misfire", d.sched, d.next)
    BY <1>3 DEF DueRun
  <2>3. r.next < now
    BY <1>1, <1>3, LimitTypes DEF Late
  <2>4. r.next # NoTime =>
          /\ r.next <= d.sched /\ d.sched <= now /\ d.next = NextFuture(r, r.next)
          /\ ~Recurs(r) => d.sched = r.next
    BY <2>3, Decided
  <2> HIDE DEF d
  <2> QED
    BY <1>2, <2>1, <2>2, <2>3, <2>4 DEF Queued, Act, Triggers
<1>4. CASE ~Late(r)
  <2>1. DueRun(r, policy) = Queued("timer", r.next, NextAfter(r, r.next))
    BY <1>4 DEF DueRun
  <2> QED
    BY <1>1, <1>2, <2>1 DEF Queued, Act, Triggers
<1> QED
  BY <1>3, <1>4

\* A due job whose late occurrence is skipped.
Skipped(r) == [r EXCEPT !.next = NextFuture(r, r.next), !.on = Recurs(r)]

\* A world with another record in it.
LEMMA UpsertFacts ==
  ASSUME NEW w \in Worlds, NEW j \in Jobs, NEW r \in Rec
  PROVE  /\ [w EXCEPT !.job[j] = r] \in Worlds
         /\ [w EXCEPT !.job[j] = r].job = [w.job EXCEPT ![j] = r]
         /\ [w EXCEPT !.job[j] = r].run = w.run
         /\ [w EXCEPT !.job[j] = r].flight = w.flight
<1>1. [w EXCEPT !.job[j] = r]
      = [job |-> [w.job EXCEPT ![j] = r], run |-> w.run, flight |-> w.flight]
  BY DEF Worlds
<1>2. [w.job EXCEPT ![j] = r] \in [Jobs -> Rec]
  BY WorldParts
<1>3. [job |-> [w.job EXCEPT ![j] = r], run |-> w.run, flight |-> w.flight] \in Worlds
  <2> HIDE DEF Rec
  <2> QED
    BY <1>2, WorldParts DEF Worlds
<1> QED
  BY <1>1, <1>3

\* Consider takes worlds to worlds.
LEMMA ConsiderFacts ==
  ASSUME NEW w \in Worlds, NEW j \in Jobs, NEW F, now \in Nat
  PROVE  LET r == w.job[j]
             u == Consider(w, j, F)
         IN  /\ u \in Worlds
             /\ j \in w.flight => u = w
             /\ j \notin w.flight =>
                  \/ /\ r.next < now
                     /\ u.job = [w.job EXCEPT ![j] = Skipped(r)]
                     /\ u.run = w.run /\ u.flight = w.flight
                  \/ /\ u.flight = w.flight \union {j}
                     /\ \A i \in Jobs \ {j} : Pumped(w, u, i)
                     /\ Admitted(w, u, j, DueRun(r, Policy[j]))
                     /\ w.run[j].state = "none" /\ PoolSound(w) => PoolSound(u)
<1> DEFINE r == w.job[j]
           u == Consider(w, j, F)
<1>1. r \in Rec
  BY WorldParts
<1>2. CASE j \in w.flight
  BY <1>2 DEF Consider
<1>3. CASE j \notin w.flight /\ Late(r) /\ Policy[j] = "skip"
  <2>1. r.next \in Int /\ NextFuture(r, r.next) \in Int
    BY <1>1, Times DEF Rec
  <2>2. Skipped(r) \in Rec
    <3>1. Recurs(r) \in BOOLEAN
      BY DEF Recurs
    <3>2. \A x \in Rec, n \in Int, b \in BOOLEAN : [x EXCEPT !.next = n, !.on = b] \in Rec
      BY DEF Rec
    <3> QED
      BY <1>1, <2>1, <3>1, <3>2 DEF Skipped
  <2>3. u = [w EXCEPT !.job[j] = Skipped(r)]
    BY <1>3 DEF Consider, Skipped
  <2>4. r.next < now
    BY <1>3, <2>1, LimitTypes DEF Late
  <2> HIDE DEF u, r
  <2>5. /\ u \in Worlds /\ u.job = [w.job EXCEPT ![j] = Skipped(r)]
        /\ u.run = w.run /\ u.flight = w.flight
    BY <2>2, <2>3, UpsertFacts
  <2> QED
    BY <1>3, <2>4, <2>5 DEF u, r
<1>4. CASE j \notin w.flight /\ ~(Late(r) /\ Policy[j] = "skip")
  <2> DEFINE a == DueRun(r, Policy[j])
  <2>1. a \in Act
    BY <1>1, DueRunFacts
  <2>2. u = Admit(w, j, a, F)
    BY <1>4 DEF Consider
  <2> HIDE DEF u, a
  <2>3. /\ u \in Worlds /\ u.flight = w.flight \union {j}
        /\ \A i \in Jobs \ {j} : Pumped(w, u, i)
        /\ Admitted(w, u, j, a)
        /\ w.run[j].state = "none" /\ PoolSound(w) => PoolSound(u)
    BY <1>4, <2>1, <2>2, AdmitFacts
  <2> QED
    BY <1>4, <2>3 DEF u, a
<1> QED
  BY <1>2, <1>3, <1>4

-----------------------------------------------------------------------------
\* The rules for the loops of a tick and of a start.
LEMMA ConsiderRule ==
  ASSUME NEW w \in Worlds, NEW F, NEW S \in SUBSET Jobs, now \in Nat,
         NEW G, <<{}, w>> \in G,
         \A s \in SUBSET S, u \in Worlds : \A j \in s :
           <<s \ {j}, u>> \in G => <<s, Consider(u, j, F)>> \in G
  PROVE  ConsiderAll(w, S, F) \in Worlds /\ <<S, ConsiderAll(w, S, F)>> \in G
<1> DEFINE x(s) == CHOOSE j \in s : \A i \in s \ {j} : DueBefore(w, i, j)
           last == [s \in (SUBSET S) \ {{}} |-> x(s)]
           st == [j \in S |-> [u \in Worlds |-> Consider(u, j, F)]]
           Is(f) == f = [s \in SUBSET S |->
                          IF s = {} THEN w ELSE Consider(f[s \ {x(s)}], x(s), F)]
           c == CHOOSE f : Is(f)
<1>1. ConsiderAll(w, S, F) = c[S]
  BY DEF ConsiderAll, InTurn, MapThenFoldSet, Last
<1>2. S \in SUBSET Jobs /\ IsFiniteSet(S) /\ Jobs \in SUBSET Int
  <2>1. S \in SUBSET Jobs /\ IsFiniteSet(Jobs) /\ Jobs \in SUBSET Int
    BY JobsAssumption
  <2> QED
    BY <2>1, FS_Subset
<1>3. ASSUME NEW s \in (SUBSET S) \ {{}}
      PROVE  x(s) \in s
  <2> DEFINE k == [i \in s |-> w.job[i].next]
  <2>1. k \in [s -> Int] /\ s \in SUBSET Int /\ IsFiniteSet(s) /\ s # {}
    BY <1>2, FS_Subset DEF Worlds, Rec
  <2>2. \E j \in s : \A i \in s \ {j} : k[i] < k[j] \/ (k[i] = k[j] /\ i < j)
    <3> HIDE DEF k
    <3> QED
      BY <2>1, LastExists
  <2>3. \E j \in s : \A i \in s \ {j} : DueBefore(w, i, j)
    BY <2>2 DEF DueBefore
  <2> QED
    BY <2>3
<1>4. last \in [(SUBSET S) \ {{}} -> S] /\ \A s \in (SUBSET S) \ {{}} : last[s] \in s
  <2> HIDE DEF x
  <2> QED
    BY <1>3
<1>5. st \in [S -> [Worlds -> Worlds]]
  BY <1>2, ConsiderFacts
<1>6. ASSUME NEW f, NEW s \in (SUBSET S) \ {{}}, f[s \ {last[s]}] \in Worlds
      PROVE  st[last[s]][f[s \ {last[s]}]] = Consider(f[s \ {x(s)}], x(s), F)
  <2>1. last[s] = x(s) /\ x(s) \in S
    <3> HIDE DEF x
    <3> QED
      BY <1>3
  <2> HIDE DEF x, last
  <2> QED
    BY <1>6, <2>1
<1>7. Is(c)
  <2>1. PICK f : Folding(f, S, Worlds, w, last, st)
    <3> HIDE DEF st, last, x
    <3>1. IsFiniteSet(S) /\ w \in Worlds
      BY <1>2
    <3>2. last \in [(SUBSET S) \ {{}} -> S]
      BY <1>4
    <3>3. \A s \in (SUBSET S) \ {{}} : last[s] \in s
      BY <1>4
    <3> QED
      BY <3>1, <3>2, <3>3, <1>5, FoldExists, Zenon
  <2>2. Is(f)
    <3>1. \A s \in (SUBSET S) \ {{}} : f[s \ {last[s]}] \in Worlds
      <4> HIDE DEF st, last, x
      <4> QED
        BY <2>1 DEF Folding
    <3> HIDE DEF st, last, x
    <3> QED
      BY <1>6, <2>1, <3>1 DEF Folding
  <2> QED
    BY <2>2
<1> HIDE DEF c
<1>8. /\ c[{}] = w
      /\ \A s \in (SUBSET S) \ {{}} : c[s] = Consider(c[s \ {x(s)}], x(s), F)
  BY <1>7
<1>9. \A s \in (SUBSET S) \ {{}} :
        c[s \ {last[s]}] \in Worlds => c[s] = st[last[s]][c[s \ {last[s]}]]
  <2> HIDE DEF st, last, x
  <2> QED
    BY <1>6, <1>8
<1>10. \A s \in SUBSET S, u \in Worlds : \A j \in s :
         <<s \ {j}, u>> \in G => <<s, st[j][u]>> \in G
  BY <1>2
<1>11. c[S] \in Worlds /\ <<S, c[S]>> \in G
  <2> HIDE DEF st, last, x
  <2> QED
    <3>1. IsFiniteSet(S) /\ w \in Worlds /\ <<{}, w>> \in G /\ c[{}] = w
      BY <1>2, <1>8
    <3>2. \A s \in (SUBSET S) \ {{}} : last[s] \in s
      BY <1>4
    <3>3. \A j \in S, u \in Worlds : st[j][u] \in Worlds
      BY <1>5
    <3>4. Keeps(c, S, Worlds, w, last, st, G)
      BY <3>1, <3>2, <3>3, <1>9, <1>10, Zenon DEF Keeps
    <3> QED
      BY <3>4, FoldRule, Zenon
<1> QED
  BY <1>1, <1>11

LEMMA ReadmitType ==
  ASSUME NEW w \in Worlds, NEW j \in Jobs, NEW F
  PROVE  Readmit(w, j, F) \in Worlds
BY ReadmitFacts DEF Readmit

LEMMA PromoteType ==
  ASSUME NEW w \in Worlds, NEW j \in Jobs, NEW F
  PROVE  Promote(w, j, F) \in Worlds
<1> DEFINE a == Queued("misfire", w.job[j].pending, w.job[j].next)
<1>1. a \in Act
  BY WorldParts DEF Queued, Act, Rec, Triggers
<1>2. Promote(w, j, F) = Admit(w, j, a, F)
  BY DEF Promote
<1> HIDE DEF a
<1> QED
  BY <1>1, <1>2, AdmitFacts DEF Admit

LEMMA ReadmitRule ==
  ASSUME NEW w \in Worlds, NEW F, NEW G, <<{}, w>> \in G,
         \A s \in SUBSET {j \in Jobs : w.job[j].active.phase = "queued"}, u \in Worlds : \A j \in s :
           <<s \ {j}, u>> \in G => <<s, Readmit(u, j, F)>> \in G
  PROVE  Readmitted(w, F) \in Worlds /\ <<{j \in Jobs : w.job[j].active.phase = "queued"}, Readmitted(w, F)>> \in G
<1> DEFINE S == {j \in Jobs : w.job[j].active.phase = "queued"}
           x(s) == CHOOSE j \in s : \A i \in s \ {j} : i < j
           last == [s \in (SUBSET S) \ {{}} |-> x(s)]
           st == [j \in S |-> [u \in Worlds |-> Readmit(u, j, F)]]
           Is(f) == f = [s \in SUBSET S |->
                          IF s = {} THEN w ELSE Readmit(f[s \ {x(s)}], x(s), F)]
           c == CHOOSE f : Is(f)
<1>1. Readmitted(w, F) = c[S]
  BY DEF Readmitted, InTurn, MapThenFoldSet, Last
<1>2. S \in SUBSET Jobs /\ IsFiniteSet(S) /\ Jobs \in SUBSET Int
  <2>1. S \in SUBSET Jobs /\ IsFiniteSet(Jobs) /\ Jobs \in SUBSET Int
    BY JobsAssumption
  <2> HIDE DEF S
  <2> QED
    BY <2>1, FS_Subset
<1>3. ASSUME NEW s \in (SUBSET S) \ {{}}
      PROVE  x(s) \in s
  <2> DEFINE k == [i \in s |-> 0]
  <2>1. k \in [s -> Int] /\ s \in SUBSET Int /\ IsFiniteSet(s) /\ s # {}
    <3>1. s \in SUBSET Int /\ IsFiniteSet(s)
      <4> HIDE DEF S
      <4> QED
        BY <1>2, FS_Subset
    <3> QED
      BY <3>1
  <2>2. \E j \in s : \A i \in s \ {j} : k[i] < k[j] \/ (k[i] = k[j] /\ i < j)
    <3> HIDE DEF k
    <3> QED
      BY <2>1, LastExists
  <2>3. \E j \in s : \A i \in s \ {j} : i < j
    BY <2>2
  <2> QED
    BY <2>3
<1>4. last \in [(SUBSET S) \ {{}} -> S] /\ \A s \in (SUBSET S) \ {{}} : last[s] \in s
  <2> HIDE DEF x
  <2> QED
    BY <1>3
<1>5. st \in [S -> [Worlds -> Worlds]]
  BY <1>2, ReadmitType
<1>6. ASSUME NEW f, NEW s \in (SUBSET S) \ {{}}, f[s \ {last[s]}] \in Worlds
      PROVE  st[last[s]][f[s \ {last[s]}]] = Readmit(f[s \ {x(s)}], x(s), F)
  <2>1. last[s] = x(s) /\ x(s) \in S
    <3> HIDE DEF x, S
    <3> QED
      BY <1>3
  <2> HIDE DEF x, S, last
  <2> QED
    BY <1>6, <2>1
<1>7. Is(c)
  <2>1. PICK f : Folding(f, S, Worlds, w, last, st)
    <3> HIDE DEF st, last, S, x
    <3>1. IsFiniteSet(S) /\ w \in Worlds
      BY <1>2
    <3>2. last \in [(SUBSET S) \ {{}} -> S]
      BY <1>4
    <3>3. \A s \in (SUBSET S) \ {{}} : last[s] \in s
      BY <1>4
    <3> QED
      BY <3>1, <3>2, <3>3, <1>5, FoldExists, Zenon
  <2>2. Is(f)
    <3>1. \A s \in (SUBSET S) \ {{}} : f[s \ {last[s]}] \in Worlds
      <4> HIDE DEF st, last, S, x
      <4> QED
        BY <2>1 DEF Folding
    <3> HIDE DEF st, last, S, x
    <3> QED
      BY <1>6, <2>1, <3>1 DEF Folding
  <2> HIDE DEF Is
  <2> QED
    BY <2>2, Zenon
<1> HIDE DEF c
<1>8. /\ c[{}] = w
      /\ \A s \in (SUBSET S) \ {{}} : c[s] = Readmit(c[s \ {x(s)}], x(s), F)
  BY <1>7
<1>9. \A s \in (SUBSET S) \ {{}} :
        c[s \ {last[s]}] \in Worlds => c[s] = st[last[s]][c[s \ {last[s]}]]
  <2> HIDE DEF st, last, S, x
  <2> QED
    BY <1>6, <1>8
<1>10. \A s \in SUBSET S, u \in Worlds : \A j \in s :
         <<s \ {j}, u>> \in G => <<s, st[j][u]>> \in G
  BY <1>2
<1>11. c[S] \in Worlds /\ <<S, c[S]>> \in G
  <2> HIDE DEF st, last, S, x
  <2> QED
    <3>1. IsFiniteSet(S) /\ w \in Worlds /\ <<{}, w>> \in G /\ c[{}] = w
      BY <1>2, <1>8
    <3>2. \A s \in (SUBSET S) \ {{}} : last[s] \in s
      BY <1>4
    <3>3. \A j \in S, u \in Worlds : st[j][u] \in Worlds
      BY <1>5
    <3>4. Keeps(c, S, Worlds, w, last, st, G)
      BY <3>1, <3>2, <3>3, <1>9, <1>10, Zenon DEF Keeps
    <3> QED
      BY <3>4, FoldRule, Zenon
<1> QED
  BY <1>1, <1>11

LEMMA PromoteRule ==
  ASSUME NEW w \in Worlds, NEW F, NEW S \in SUBSET Jobs, now \in Nat,
         NEW G, <<{}, w>> \in G,
         \A s \in SUBSET S, u \in Worlds : \A j \in s :
           <<s \ {j}, u>> \in G => <<s, Promote(u, j, F)>> \in G
  PROVE  PromoteAll(w, S, F) \in Worlds /\ <<S, PromoteAll(w, S, F)>> \in G
<1> DEFINE x(s) == CHOOSE j \in s : \A i \in s \ {j} : ListedBefore(w, i, j)
           last == [s \in (SUBSET S) \ {{}} |-> x(s)]
           st == [j \in S |-> [u \in Worlds |-> Promote(u, j, F)]]
           Is(f) == f = [s \in SUBSET S |->
                          IF s = {} THEN w ELSE Promote(f[s \ {x(s)}], x(s), F)]
           c == CHOOSE f : Is(f)
<1>1. PromoteAll(w, S, F) = c[S]
  BY DEF PromoteAll, InTurn, MapThenFoldSet, Last
<1>2. S \in SUBSET Jobs /\ IsFiniteSet(S) /\ Jobs \in SUBSET Int
  <2>1. S \in SUBSET Jobs /\ IsFiniteSet(Jobs) /\ Jobs \in SUBSET Int
    BY JobsAssumption
  <2> QED
    BY <2>1, FS_Subset
<1>3. ASSUME NEW s \in (SUBSET S) \ {{}}
      PROVE  x(s) \in s
  <2> DEFINE k == [i \in s |-> ListKey(w, i)]
  <2>1. k \in [s -> Int] /\ s \in SUBSET Int /\ IsFiniteSet(s) /\ s # {}
    <3>1. \A i \in Jobs : ListKey(w, i) \in Int
      BY LimitTypes DEF ListKey, Worlds, Rec
    <3>2. IsFiniteSet(s) /\ s \in SUBSET Jobs /\ s \in SUBSET Int
      BY <1>2, FS_Subset
    <3> QED
      BY <3>1, <3>2
  <2>2. \E j \in s : \A i \in s \ {j} : k[i] < k[j] \/ (k[i] = k[j] /\ i < j)
    <3> HIDE DEF k
    <3> QED
      BY <2>1, LastExists
  <2>3. \E j \in s : \A i \in s \ {j} : ListedBefore(w, i, j)
    BY <2>2 DEF ListedBefore
  <2> QED
    BY <2>3
<1>4. last \in [(SUBSET S) \ {{}} -> S] /\ \A s \in (SUBSET S) \ {{}} : last[s] \in s
  <2> HIDE DEF x
  <2> QED
    BY <1>3
<1>5. st \in [S -> [Worlds -> Worlds]]
  BY <1>2, PromoteType
<1>6. ASSUME NEW f, NEW s \in (SUBSET S) \ {{}}, f[s \ {last[s]}] \in Worlds
      PROVE  st[last[s]][f[s \ {last[s]}]] = Promote(f[s \ {x(s)}], x(s), F)
  <2>1. last[s] = x(s) /\ x(s) \in S
    <3> HIDE DEF x
    <3> QED
      BY <1>3
  <2> HIDE DEF x, last
  <2> QED
    BY <1>6, <2>1
<1>7. Is(c)
  <2>1. PICK f : Folding(f, S, Worlds, w, last, st)
    <3> HIDE DEF st, last, x
    <3>1. IsFiniteSet(S) /\ w \in Worlds
      BY <1>2
    <3>2. last \in [(SUBSET S) \ {{}} -> S]
      BY <1>4
    <3>3. \A s \in (SUBSET S) \ {{}} : last[s] \in s
      BY <1>4
    <3> QED
      BY <3>1, <3>2, <3>3, <1>5, FoldExists, Zenon
  <2>2. Is(f)
    <3>1. \A s \in (SUBSET S) \ {{}} : f[s \ {last[s]}] \in Worlds
      <4> HIDE DEF st, last, x
      <4> QED
        BY <2>1 DEF Folding
    <3> HIDE DEF st, last, x
    <3> QED
      BY <1>6, <2>1, <3>1 DEF Folding
  <2> QED
    BY <2>2
<1> HIDE DEF c
<1>8. /\ c[{}] = w
      /\ \A s \in (SUBSET S) \ {{}} : c[s] = Promote(c[s \ {x(s)}], x(s), F)
  BY <1>7
<1>9. \A s \in (SUBSET S) \ {{}} :
        c[s \ {last[s]}] \in Worlds => c[s] = st[last[s]][c[s \ {last[s]}]]
  <2> HIDE DEF st, last, x
  <2> QED
    BY <1>6, <1>8
<1>10. \A s \in SUBSET S, u \in Worlds : \A j \in s :
         <<s \ {j}, u>> \in G => <<s, st[j][u]>> \in G
  BY <1>2
<1>11. c[S] \in Worlds /\ <<S, c[S]>> \in G
  <2> HIDE DEF st, last, x
  <2> QED
    <3>1. IsFiniteSet(S) /\ w \in Worlds /\ <<{}, w>> \in G /\ c[{}] = w
      BY <1>2, <1>8
    <3>2. \A s \in (SUBSET S) \ {{}} : last[s] \in s
      BY <1>4
    <3>3. \A j \in S, u \in Worlds : st[j][u] \in Worlds
      BY <1>5
    <3>4. Keeps(c, S, Worlds, w, last, st, G)
      BY <3>1, <3>2, <3>3, <1>9, <1>10, Zenon DEF Keeps
    <3> QED
      BY <3>4, FoldRule, Zenon
<1> QED
  BY <1>1, <1>11

-----------------------------------------------------------------------------
\* A pump keeps a job sound.
LEMMA PumpSound ==
  ASSUME NEW r \in Rec, NEW m \in Mem, NEW q \in Rec, NEW n \in Mem,
         NEW b \in Int, NEW k, NEW X, now \in Nat,
         Sound(r, m, b, k, X), m.state = "queued",
         \/ /\ Names(r.active, m)
            /\ q = [r EXCEPT !.active.phase = "running"]
            /\ n = [m EXCEPT !.state = "starting"]
         \/ q = r /\ n = [m EXCEPT !.state = "refused"]
  PROVE  Sound(q, n, b, k, X)
<1>1. CASE q = r /\ n = [m EXCEPT !.state = "refused"]
  <2>1. /\ n.state = "refused" /\ n.trigger = m.trigger /\ n.sched = m.sched
    BY <1>1 DEF Mem
  <2>2. Ranged(q, n, b)
    BY <1>1, <2>1 DEF Sound, Ranged
  <2>3. Kept(q, n)
    BY <1>1, <2>1 DEF Sound, Kept, Names
  <2>4. Timed(q, n, b)
    BY <1>1, <2>1 DEF Sound, Timed
  <2> QED
    BY <1>1, <2>2, <2>3, <2>4 DEF Sound
<1>2. CASE /\ Names(r.active, m)
           /\ q = [r EXCEPT !.active.phase = "running"]
           /\ n = [m EXCEPT !.state = "starting"]
  <2>1. /\ n.state = "starting" /\ n.trigger = m.trigger /\ n.sched = m.sched
    BY <1>2 DEF Mem
  <2>2. /\ q.active.trigger = r.active.trigger /\ q.active.sched = r.active.sched
        /\ q.active.resume = r.active.resume /\ q.active.phase = "running"
        /\ q.life = r.life /\ q.on = r.on /\ q.at = r.at /\ q.next = r.next
        /\ q.pending = r.pending
    BY <1>2 DEF Rec, Act
  <2>3. r.active # NoRun /\ q.active # NoRun
    BY <1>2, <2>2 DEF Sound, Kept, Names, NoRun
  <2>4. Ranged(q, n, b)
    BY <2>1, <2>2 DEF Sound, Ranged
  <2>5. Kept(q, n)
    BY <1>2, <2>1, <2>2, <2>3 DEF Sound, Kept, Names, ActiveOK
  <2>6. Timed(q, n, b)
    BY <1>2, <2>1, <2>2 DEF Sound, Timed, Unasked, Names
  <2>7. k \notin X => Planned(q)
    BY <2>2, <2>3 DEF Sound, Planned, Recurs
  <2> QED
    BY <2>4, <2>5, <2>6, <2>7 DEF Sound
<1> QED
  BY <1>1, <1>2

\* A job that is admitted as a: what a owes to the record r.
Admissible(r, a, b, k, X) ==
  /\ r.life = "live" /\ r.active = NoRun
  /\ a.phase = "queued" /\ a.trigger \in Triggers
  /\ a.sched \in Span /\ a.resume \in Span
  /\ a.resume # NoTime => a.resume > b
  /\ Unasked(a) => /\ a.sched > b /\ a.sched <= now
                   /\ a.resume # NoTime => a.resume > a.sched
  /\ k \notin X => /\ r.on /\ (Recurs(r) \/ r.at > now) => a.resume # NoTime
                   /\ ~Recurs(r) /\ a.resume # NoTime => a.resume = r.at

\* An admission keeps a job sound.
LEMMA AdmitSound ==
  ASSUME NEW w \in Worlds, NEW u \in Worlds, NEW j \in Jobs, NEW a \in Act,
         NEW b \in Int, NEW k, NEW X, now \in Nat,
         Sound(w.job[j], w.run[j], b, k, X), Admitted(w, u, j, a),
         Admissible(w.job[j], a, b, k, X)
  PROVE  Sound(u.job[j], u.run[j], b, k, X) /\ u.run[j].state \notin {"none", "ended"}
<1> DEFINE r == w.job[j]
           q == u.job[j]
           n == u.run[j]
<1>1. r \in Rec /\ q \in Rec /\ n \in Mem
  BY WorldParts
<1>2. /\ n.trigger = a.trigger /\ n.sched = a.sched
      /\ n.state \in {"starting", "queued", "refused", "settled"}
      /\ n.state = "starting" => q.active.phase = "running"
      /\ q.active.phase \in {"queued", "running"}
      /\ q.active.trigger = a.trigger /\ q.active.sched = a.sched
      /\ q.active.resume = a.resume
      /\ q.life = r.life /\ q.on = r.on /\ q.at = r.at
      /\ q.next = NoTime /\ q.pending = NoTime
  <2>1. /\ Due(r, a).active = a /\ Due(r, a).next = NoTime /\ Due(r, a).pending = NoTime
        /\ Due(r, a).life = r.life /\ Due(r, a).on = r.on /\ Due(r, a).at = r.at
        /\ Due(r, a) \in Rec
    <3>1. NoTime \in Int
      BY DEF NoTime
    <3> QED
      BY <1>1, <3>1 DEF Due, Rec
  <2>2. \A x \in Rec : LET y == [x EXCEPT !.active.phase = "running"]
                       IN  /\ y.active.trigger = x.active.trigger
                           /\ y.active.sched = x.active.sched
                           /\ y.active.resume = x.active.resume
                           /\ y.active.phase = "running"
                           /\ y.life = x.life /\ y.on = x.on /\ y.at = x.at
                           /\ y.next = x.next /\ y.pending = x.pending
    BY DEF Rec, Act
  <2>3. a.phase = "queued"
    BY DEF Admissible
  <2>4. CASE /\ q = [Due(r, a) EXCEPT !.active.phase = "running"]
             /\ n.state = "starting"
    BY <2>1, <2>2, <2>4 DEF Admitted
  <2>5. CASE q = Due(r, a) /\ n.state \in {"queued", "refused", "settled"}
    BY <2>1, <2>3, <2>5 DEF Admitted
  <2> QED
    BY <2>4, <2>5 DEF Admitted
<1>3. /\ Ranged(r, w.run[j], b) /\ Kept(r, w.run[j]) /\ Timed(r, w.run[j], b)
  BY DEF Sound
<1> HIDE DEF r, q, n
<1>4. a.trigger \in Triggers /\ r.active = NoRun /\ Admissible(r, a, b, k, X)
  BY DEF r, Admissible
<1>5. q.active # NoRun
  BY <1>2, <1>4 DEF NoRun, Triggers
<1>6. Ranged(q, n, b)
  <2>1. NoTime \in Span
    BY LimitTypes DEF Span, NoTime
  <2> QED
    BY <1>2, <1>3, <1>4, <2>1 DEF Ranged, Admissible
<1>7. Kept(q, n)
  BY <1>2, <1>4, <1>5 DEF Kept, Names, ActiveOK, Triggers, Admissible
<1>8. Timed(q, n, b)
  BY <1>2, <1>3, <1>4 DEF Timed, Unasked, Admissible
<1>9. k \notin X => Planned(q)
  BY <1>2, <1>4, <1>5 DEF Planned, Recurs, Admissible
<1> QED
  BY <1>2, <1>6, <1>7, <1>8, <1>9 DEF Sound, q, n

\* The four ways a job comes to be admitted.
LEMMA DueAdmissible ==
  ASSUME NEW r \in Rec, NEW m \in Mem, NEW b \in Int,
         NEW k, NEW X, now \in Nat, Sound(r, m, b, k, X), NEW policy,
         r.life = "live", r.active = NoRun, r.next # NoTime, r.next <= now
  PROVE  Admissible(r, DueRun(r, policy), b, k, X)
<1> DEFINE a == DueRun(r, policy)
<1>1. /\ a \in Act /\ a.phase = "queued" /\ a.trigger \in {"timer", "misfire"}
      /\ r.next <= a.sched /\ a.sched <= now
      /\ Recurs(r) => now < a.resume /\ a.resume <= now + Interval
      /\ ~Recurs(r) => a.resume = NoTime /\ a.sched = r.next
  BY DueRunFacts
<1> HIDE DEF a
<1>2. r.next > b /\ b <= now /\ r.next \in Span /\ b \in Span
  BY DEF Sound, Timed, Ranged
<1>3. k \notin X /\ ~Recurs(r) => r.next = r.at
  BY DEF Sound, Planned
<1>4. a.sched \in Int /\ a.resume \in Int /\ r.next \in Int /\ r.at \in Int
  BY <1>1 DEF Act, Rec
<1>5. a.sched \in Span /\ a.resume \in Span
  BY <1>1, <1>2, <1>4, LimitTypes DEF Span, NoTime
<1>6. /\ a.sched > b /\ (a.resume # NoTime => a.resume > b /\ a.resume > a.sched)
  BY <1>1, <1>2, <1>4
<1>7. k \notin X => /\ r.on /\ (Recurs(r) \/ r.at > now) => a.resume # NoTime
                    /\ ~Recurs(r) /\ a.resume # NoTime => a.resume = r.at
  BY <1>1, <1>3, <1>4 DEF NoTime
<1> QED
  BY <1>1, <1>5, <1>6, <1>7 DEF Admissible, Triggers, a

LEMMA PromotionAdmissible ==
  ASSUME NEW r \in Rec, NEW m \in Mem, NEW b \in Int,
         NEW k, NEW X, now \in Nat, Sound(r, m, b, k, X),
         r.life = "live", r.active = NoRun, r.pending # NoTime
  PROVE  Admissible(r, Queued("misfire", r.pending, r.next), b, k, X)
<1> DEFINE a == Queued("misfire", r.pending, r.next)
<1>1. /\ a.trigger = "misfire" /\ a.sched = r.pending /\ a.resume = r.next
      /\ a.phase = "queued"
  BY DEF Queued
<1> HIDE DEF a
<1>2. Admissible(r, a, b, k, X)
  BY <1>1 DEF Sound, Ranged, Timed, Planned, Admissible, Triggers
<1> QED
  BY <1>2 DEF a

LEMMA ManualAdmissible ==
  ASSUME NEW r \in Rec, NEW m \in Mem, NEW b \in Int,
         NEW k, NEW X, now \in Nat, Sound(r, m, b, k, X),
         r.life = "live", r.active = NoRun
  PROVE  Admissible(r, Queued("manual", now, r.next), b, k, X)
<1> DEFINE a == Queued("manual", now, r.next)
<1>1. /\ a.trigger = "manual" /\ a.sched = now /\ a.resume = r.next
      /\ a.phase = "queued"
  BY DEF Queued
<1> HIDE DEF a
<1>2. now \in Span
  BY LimitTypes DEF Span, NoTime
<1>3. Admissible(r, a, b, k, X)
  BY <1>1, <1>2 DEF Sound, Ranged, Timed, Planned, Admissible, Triggers, Unasked
<1> QED
  BY <1>3 DEF a

\* So does one of a run that the store already has.
LEMMA ReadmitSound ==
  ASSUME NEW w \in Worlds, NEW u \in Worlds, NEW j \in Jobs,
         NEW b \in Int, NEW k, NEW X, now \in Nat,
         Sound(w.job[j], w.run[j], b, k, X), w.job[j].active.phase = "queued",
         Entered(w, u, j, w.job[j].active)
  PROVE  Sound(u.job[j], u.run[j], b, k, X) /\ u.run[j].state \notin {"none", "ended"}
<1> DEFINE r == w.job[j]
           a == r.active
           q == u.job[j]
           n == u.run[j]
<1>1. r \in Rec /\ q \in Rec /\ n \in Mem
  BY WorldParts
<1>2. /\ n.trigger = a.trigger /\ n.sched = a.sched
      /\ n.state \in {"starting", "queued", "refused", "settled"}
      /\ n.state = "starting" => q.active.phase = "running"
      /\ q.active.phase \in {"queued", "running"}
      /\ q.active.trigger = a.trigger /\ q.active.sched = a.sched
      /\ q.active.resume = a.resume
      /\ q.life = r.life /\ q.on = r.on /\ q.at = r.at
      /\ q.next = r.next /\ q.pending = r.pending
  <2>1. \A x \in Rec : LET y == [x EXCEPT !.active.phase = "running"]
                       IN  /\ y.active.trigger = x.active.trigger
                           /\ y.active.sched = x.active.sched
                           /\ y.active.resume = x.active.resume
                           /\ y.active.phase = "running"
                           /\ y.life = x.life /\ y.on = x.on /\ y.at = x.at
                           /\ y.next = x.next /\ y.pending = x.pending
    BY DEF Rec, Act
  <2>2. CASE q = [r EXCEPT !.active.phase = "running"] /\ n.state = "starting"
    BY <1>1, <2>1, <2>2 DEF Entered
  <2>3. CASE q = r /\ n.state \in {"queued", "refused", "settled"}
    BY <2>3 DEF Entered
  <2> QED
    BY <2>2, <2>3 DEF Entered
<1>3. /\ Ranged(r, w.run[j], b) /\ Kept(r, w.run[j]) /\ Timed(r, w.run[j], b)
      /\ (k \notin X => Planned(r)) /\ a.phase = "queued"
  BY DEF Sound
<1> HIDE DEF r, q, n
<1>4. a # NoRun /\ a.trigger \in Triggers /\ r.next = NoTime /\ r.pending = NoTime
      /\ r.life = "live"
  BY <1>3 DEF NoRun, Kept, ActiveOK, Triggers
<1>5. q.active # NoRun
  BY <1>2, <1>4 DEF NoRun, Triggers
<1>6. Ranged(q, n, b)
  BY <1>2, <1>3 DEF Ranged
<1>7. Kept(q, n)
  BY <1>2, <1>4, <1>5 DEF Kept, Names, ActiveOK, Triggers
<1>8. Timed(q, n, b)
  BY <1>2, <1>3, <1>4 DEF Timed, Unasked
<1>9. k \notin X => Planned(q)
  BY <1>2, <1>3, <1>4, <1>5 DEF Planned, Recurs
<1> QED
  BY <1>2, <1>6, <1>7, <1>8, <1>9 DEF Sound, q, n

\* So does a late occurrence that is skipped.
LEMMA SkipSound ==
  ASSUME NEW r \in Rec, NEW m \in Mem, NEW b \in Int,
         NEW k, NEW X, now \in Nat, Sound(r, m, b, k, X),
         r.life = "live", r.active = NoRun, r.next # NoTime, r.next < now,
         m.state = "none"
  PROVE  Sound(Skipped(r), m, b, k, X)
<1> DEFINE q == Skipped(r)
<1>1. /\ q.next = NextFuture(r, r.next) /\ q.on = Recurs(r) /\ q.life = r.life
      /\ q.at = r.at /\ q.active = r.active /\ q.pending = r.pending
  BY DEF Skipped, Rec
<1>2. r.next \in Int /\ r.next <= now
  BY DEF Rec
<1>3. /\ NextFuture(r, r.next) \in Int
      /\ ~Recurs(r) => NextFuture(r, r.next) = NoTime
      /\ Recurs(r) => now < NextFuture(r, r.next)
                      /\ NextFuture(r, r.next) <= now + Interval
  BY <1>2, Times
<1>4. Recurs(r) \in BOOLEAN
  BY DEF Recurs
<1> HIDE DEF q
<1>5. Ranged(q, m, b)
  BY <1>1, <1>3, LimitTypes DEF Sound, Ranged, Span, NoTime
<1>6. Kept(q, m)
  BY <1>1 DEF Sound, Kept
<1>7. Timed(q, m, b)
  BY <1>1, <1>3 DEF Sound, Timed, Ranged, Span, NoTime
<1>8. k \notin X => Planned(q)
  <2>1. CASE Recurs(r)
    <3>1. q.next # NoTime /\ Recurs(q)
      BY <1>1, <1>3, <2>1 DEF Recurs, NoTime
    <3> QED
      BY <1>1, <3>1 DEF Sound, Planned
  <2>2. CASE ~Recurs(r)
    <3>1. q.next = NoTime /\ ~Recurs(q) /\ ~q.on
      BY <1>1, <1>3, <2>2 DEF Recurs
    <3> QED
      BY <1>1, <3>1 DEF Sound, Planned
  <2> QED
    BY <2>1, <2>2
<1> QED
  BY <1>5, <1>6, <1>7, <1>8 DEF Sound, q

-----------------------------------------------------------------------------
\* What a pump may do, once more, and what it does when it does something.
LEMMA PumpedSound ==
  ASSUME NEW w \in Worlds, NEW u \in Worlds, NEW i \in Jobs, Pumped(w, u, i),
         NEW b \in Int, NEW k, NEW X, now \in Nat,
         Sound(w.job[i], w.run[i], b, k, X)
  PROVE  Sound(u.job[i], u.run[i], b, k, X)
<1>1. /\ w.job[i] \in Rec /\ w.run[i] \in Mem
      /\ u.job[i] \in Rec /\ u.run[i] \in Mem
  BY WorldParts
<1>2. CASE Same(w, u, i)
  BY <1>2 DEF Same
<1>3. CASE w.run[i].state = "queued" /\ Begun(w, u, i)
  BY <1>1, <1>3, PumpSound DEF Begun
<1> QED
  BY <1>2, <1>3 DEF Pumped

LEMMA PumpedIs ==
  ASSUME NEW w \in Worlds, NEW u \in Worlds, NEW i \in Jobs, Pumped(w, u, i),
         ~Same(w, u, i)
  PROVE  w.run[i].state = "queued" /\ u.run[i].state \in {"starting", "refused"}
<1>1. w.run[i] \in Mem
  BY WorldParts
<1> QED
  BY <1>1 DEF Pumped, Begun, Mem

\* The records, runs and claims of a world fit together; X is swapped.
SaneAt(w, j, X) ==
  /\ Sound(w.job[j], w.run[j], begun[j], j, X)
  /\ w.run[j].state # "none" => j \in w.flight

\* All jobs of a world.
Sane(w, X) == w \in Worlds /\ \A j \in Jobs : SaneAt(w, j, X)

\* Every claim has its run, and a run leaves no record behind.
Held(w, j) ==
  /\ j \in w.flight => w.run[j].state # "none"
  /\ w.run[j].state = "ended" => w.job[j].active = NoRun

\* All of them.
Ample(w) == \A j \in Jobs : Held(w, j)

\* The jobs whose run the store calls active and nobody has.
Lost(w) == {j \in Jobs : w.job[j].active # NoRun /\ w.run[j].state = "none"}

\* The turn of job j in a loop over jobs.
Turn(w, u, j, X) ==
  /\ u \in Worlds
  /\ j \in w.flight => u = w
  /\ \A i \in Jobs \ {j} : Pumped(w, u, i)
  /\ w.flight \subseteq u.flight /\ u.flight \subseteq w.flight \union {j}
  /\ PoolSound(w) => PoolSound(u)
  /\ j \notin w.flight =>
       /\ SaneAt(u, j, X) /\ Held(u, j)
       /\ j \notin Lost(u) /\ u.run[j].state # "executing"

\* The jobs of s have had their turn.
Looped(w, u, s, X) ==
  /\ Sane(u, X)
  /\ PoolSound(w) => PoolSound(u)
  /\ Ample(w) => Ample(u) /\ Lost(u) \intersect s = {}
  /\ Lost(u) \subseteq Lost(w)
  /\ w.flight \subseteq u.flight /\ u.flight \subseteq w.flight \union s
  /\ \A i \in Jobs :
       /\ i \in w.flight /\ w.run[i].state # "queued" => Same(w, u, i)
       /\ u.run[i].state = "executing" => w.run[i].state = "executing"
       /\ i \notin s /\ i \notin w.flight => Same(w, u, i)

\* One turn more: the argument about every loop.
LEMMA TurnAgain ==
  ASSUME NEW w \in Worlds, NEW u, NEW v, NEW s \in SUBSET Jobs, NEW j \in s,
         NEW X, now \in Nat, begun \in [Jobs -> Int],
         Looped(w, u, s \ {j}, X), Turn(u, v, j, X)
  PROVE  Looped(w, v, s, X)
<1>1. /\ u \in Worlds /\ v \in Worlds /\ j \in Jobs
      /\ \A i \in Jobs : SaneAt(u, i, X)
      /\ \A i \in Jobs \ {j} : Pumped(u, v, i)
      /\ j \in u.flight => u = v
      /\ u.flight \subseteq v.flight /\ v.flight \subseteq u.flight \union {j}
  BY DEF Looped, Turn, Sane
<1>2. \A i \in Jobs : u.run[i].state # "none" => i \in u.flight
  BY <1>1 DEF SaneAt
<1>3. \A i \in Jobs \ {j} : ~Same(u, v, i) =>
        u.run[i].state = "queued" /\ v.run[i].state \in {"starting", "refused"}
  BY <1>1, PumpedIs
<1>4. Sane(v, X)
  <2> SUFFICES ASSUME NEW i \in Jobs
               PROVE  SaneAt(v, i, X)
    BY <1>1 DEF Sane
  <2>1. CASE i = j /\ j \notin u.flight
    BY <2>1 DEF Turn
  <2>2. CASE i = j /\ j \in u.flight
    BY <1>1, <2>2
  <2>3. CASE i # j
    <3>1. Pumped(u, v, i) /\ (i \in v.flight <=> i \in u.flight)
      BY <1>1, <2>3
    <3>2. Sound(u.job[i], u.run[i], begun[i], i, X) /\ begun[i] \in Int
      BY <1>1 DEF SaneAt
    <3>3. Sound(v.job[i], v.run[i], begun[i], i, X)
      BY <1>1, <3>1, <3>2, PumpedSound
    <3>4. v.run[i].state # "none" => i \in v.flight
      BY <1>2, <1>3, <2>3, <3>1 DEF Same
    <3> QED
      BY <3>3, <3>4 DEF SaneAt
  <2> QED
    BY <2>1, <2>2, <2>3
<1>5. PoolSound(w) => PoolSound(v)
  BY DEF Looped, Turn
<1>6. Lost(v) \subseteq Lost(u)
  <2> SUFFICES ASSUME NEW i \in Lost(v)
               PROVE  i \in Lost(u)
    OBVIOUS
  <2>1. i \in Jobs /\ v.job[i].active # NoRun /\ v.run[i].state = "none"
    BY DEF Lost
  <2>2. i # j => Same(u, v, i)
    BY <1>3, <2>1
  <2>3. i = j => u = v
    BY <1>1 DEF Turn
  <2> QED
    BY <2>1, <2>2, <2>3 DEF Same, Lost
<1>7. ASSUME Ample(w)
      PROVE  Ample(v) /\ Lost(v) \intersect s = {}
  <2>1. Ample(u) /\ Lost(u) \intersect (s \ {j}) = {}
    BY <1>7 DEF Looped
  <2>2. \A i \in Jobs : Held(v, i)
    <3> TAKE i \in Jobs
    <3>1. CASE i = j /\ j \notin u.flight
      BY <3>1 DEF Turn
    <3>2. CASE i = j /\ j \in u.flight
      BY <1>1, <2>1, <3>2 DEF Ample
    <3>3. CASE i # j
      BY <1>1, <1>3, <2>1, <3>3 DEF Ample, Held, Same
    <3> QED
      BY <3>1, <3>2, <3>3
  <2>3. j \notin Lost(v)
    <3>1. CASE j \notin u.flight
      BY <3>1 DEF Turn
    <3>2. CASE j \in u.flight
      BY <1>1, <2>1, <3>2 DEF Ample, Held, Lost
    <3> QED
      BY <3>1, <3>2
  <2> QED
    BY <1>6, <2>1, <2>2, <2>3 DEF Ample
<1>8. /\ Lost(v) \subseteq Lost(w)
      /\ w.flight \subseteq v.flight /\ v.flight \subseteq w.flight \union s
  BY <1>1, <1>6 DEF Looped
<1>9. ASSUME NEW i \in Jobs
      PROVE  /\ i \in w.flight /\ w.run[i].state # "queued" => Same(w, v, i)
             /\ v.run[i].state = "executing" => w.run[i].state = "executing"
             /\ i \notin s /\ i \notin w.flight => Same(w, v, i)
  <2>1. /\ i \in w.flight => i \in u.flight
        /\ i \in w.flight /\ w.run[i].state # "queued" => Same(w, u, i)
        /\ u.run[i].state = "executing" => w.run[i].state = "executing"
        /\ i \notin s /\ i \notin w.flight => Same(w, u, i) /\ i \notin u.flight
    BY DEF Looped
  <2>2. i \in u.flight /\ u.run[i].state # "queued" => Same(u, v, i)
    BY <1>1, <1>3 DEF Same
  <2>3. v.run[i].state = "executing" => u.run[i].state = "executing"
    <3>1. CASE i = j /\ j \notin u.flight
      BY <3>1 DEF Turn
    <3>2. CASE i = j /\ j \in u.flight
      BY <1>1, <3>2
    <3>3. CASE i # j
      BY <1>3, <3>3 DEF Same
    <3> QED
      BY <3>1, <3>2, <3>3
  <2>4. i \notin s /\ i \notin w.flight => Same(u, v, i)
    BY <1>2, <1>3, <2>1
  <2> QED
    BY <2>1, <2>2, <2>3, <2>4 DEF Same
<1> QED
  BY <1>4, <1>5, <1>7, <1>8, <1>9 DEF Looped

\* Before the first turn.
LEMMA NoTurnYet ==
  ASSUME NEW w, NEW X, Sane(w, X)
  PROVE  Looped(w, w, {}, X)
BY DEF Looped, Same

LEMMA Unclaimed ==
  ASSUME NEW w, NEW X, Sane(w, X), NEW j \in Jobs, j \notin w.flight
  PROVE  w.run[j].state = "none"
BY DEF Sane, SaneAt

\* A job that is due.
IsDue(r) == r.life = "live" /\ r.active = NoRun /\ r.next # NoTime /\ r.next <= now

\* The turns of the loops: an admission, a due job, a promotion, a run of the
\* store.
LEMMA AdmitTurn ==
  ASSUME NEW w, NEW X, Sane(w, X), NEW j \in Jobs, NEW F, NEW a \in Act,
         now \in Nat, begun \in [Jobs -> Int],
         j \notin w.flight => Admissible(w.job[j], a, begun[j], j, X)
  PROVE  Turn(w, Admit(w, j, a, F), j, X)
<1> DEFINE u == Admit(w, j, a, F)
<1>1. w \in Worlds
  BY DEF Sane
<1>2. CASE j \in w.flight
  <2>1. u = w
    BY <1>2 DEF Admit
  <2> QED
    BY <1>1, <1>2, <2>1 DEF Turn, Pumped, Same
<1>3. CASE j \notin w.flight
  <2>1. /\ u \in Worlds /\ u.flight = w.flight \union {j}
        /\ \A i \in Jobs \ {j} : Pumped(w, u, i)
        /\ Admitted(w, u, j, a)
        /\ w.run[j].state = "none" /\ PoolSound(w) => PoolSound(u)
    BY <1>1, <1>3, AdmitFacts
  <2>2. w.run[j].state = "none"
    BY <1>3, Unclaimed
  <2> HIDE DEF u
  <2>3. /\ begun[j] \in Int /\ Sound(w.job[j], w.run[j], begun[j], j, X)
        /\ Admissible(w.job[j], a, begun[j], j, X)
    BY <1>3 DEF Sane, SaneAt
  <2>4. /\ Sound(u.job[j], u.run[j], begun[j], j, X)
        /\ u.run[j].state \notin {"none", "ended"}
    BY <1>1, <2>1, <2>3, AdmitSound
  <2>5. u.run[j].state # "executing"
    BY <2>1 DEF Admitted
  <2>6. j \in u.flight /\ Held(u, j) /\ j \notin Lost(u)
    BY <2>1, <2>4 DEF Held, Lost
  <2>7. SaneAt(u, j, X)
    BY <2>4, <2>6 DEF SaneAt
  <2> QED
    BY <1>3, <2>1, <2>2, <2>5, <2>6, <2>7 DEF Turn, u
<1> QED
  BY <1>2, <1>3

LEMMA ConsiderTurn ==
  ASSUME NEW w, NEW X, Sane(w, X), NEW j \in Jobs, NEW F,
         now \in Nat, begun \in [Jobs -> Int],
         j \notin w.flight => IsDue(w.job[j])
  PROVE  Turn(w, Consider(w, j, F), j, X)
<1> DEFINE r == w.job[j]
           u == Consider(w, j, F)
<1>1. /\ w \in Worlds /\ r \in Rec /\ w.run[j] \in Mem
      /\ begun[j] \in Int
      /\ Sound(r, w.run[j], begun[j], j, X)
  BY WorldParts DEF Sane, SaneAt
<1>2. CASE j \in w.flight
  <2>1. u = w
    BY <1>2 DEF Consider
  <2> QED
    BY <1>1, <1>2, <2>1 DEF Turn, Pumped, Same
<1>3. CASE j \notin w.flight /\ Late(r) /\ Policy[j] = "skip"
  <2>1. u = [w EXCEPT !.job[j] = Skipped(r)]
    BY <1>3 DEF Consider, Skipped
  <2>2. r.next \in Int /\ NextFuture(r, r.next) \in Int /\ Recurs(r) \in BOOLEAN
    BY <1>1, Times DEF Rec, Recurs
  <2>3. Skipped(r) \in Rec
    <3>1. \A y \in Rec, n \in Int, b \in BOOLEAN : [y EXCEPT !.next = n, !.on = b] \in Rec
      BY DEF Rec
    <3> QED
      BY <1>1, <2>2, <3>1 DEF Skipped
  <2>4. r.next < now /\ IsDue(r) /\ w.run[j].state = "none"
    BY <1>3, <2>2, Unclaimed, LimitTypes DEF Late
  <2> HIDE DEF u, r
  <2>5. /\ u \in Worlds /\ u.job = [w.job EXCEPT ![j] = Skipped(r)]
        /\ u.run = w.run /\ u.flight = w.flight
    BY <1>1, <2>1, <2>3, UpsertFacts
  <2>6. u.job[j] = Skipped(r) /\ \A i \in Jobs \ {j} : u.job[i] = w.job[i]
    BY <1>1, <2>5, WorldParts
  <2>7. Sound(u.job[j], u.run[j], begun[j], j, X)
    BY <1>1, <2>4, <2>5, <2>6, SkipSound DEF IsDue
  <2>8. u.job[j].active = NoRun
    BY <1>1, <2>4, <2>6 DEF Skipped, IsDue, Rec
  <2>9. PoolSound(w) => PoolSound(u)
    <3>1. \A S : InState(w, S) = InState(u, S)
      BY <2>5 DEF InState
    <3>2. Active(w) = Active(u) /\ Waiting(w) = Waiting(u)
      BY <3>1 DEF Active, Waiting
    <3>3. Limits(w) => Limits(u)
      BY <3>2, LimitsShrink
    <3>4. Served(w) => Served(u)
      BY <3>2, RoomShrinks DEF Served
    <3> QED
      BY <3>2, <3>3, <3>4 DEF PoolSound
  <2>10. SaneAt(u, j, X)
    BY <2>4, <2>5, <2>7 DEF SaneAt
  <2>11. \A i \in Jobs \ {j} : Pumped(w, u, i)
    BY <2>5, <2>6 DEF Pumped, Same
  <2>12. /\ Held(u, j)
         /\ j \notin Lost(u) /\ u.run[j].state # "executing"
    BY <1>3, <2>4, <2>5, <2>8 DEF Held, Lost
  <2> QED
    BY <1>3, <2>5, <2>9, <2>10, <2>11, <2>12 DEF Turn, u
<1>4. CASE j \notin w.flight /\ ~(Late(r) /\ Policy[j] = "skip")
  <2> DEFINE a == DueRun(r, Policy[j])
  <2>1. a \in Act
    BY <1>1, DueRunFacts
  <2>2. u = Admit(w, j, a, F)
    BY <1>4 DEF Consider
  <2>3. IsDue(r)
    BY <1>4
  <2> HIDE DEF u, r
  <2>4. Admissible(r, a, begun[j], j, X)
    BY <1>1, <2>3, DueAdmissible DEF IsDue
  <2> HIDE DEF a
  <2>5. Admissible(w.job[j], a, begun[j], j, X)
    BY <2>4 DEF r
  <2>6. Turn(w, Admit(w, j, a, F), j, X)
    BY <2>1, <2>5, AdmitTurn
  <2> QED
    BY <2>2, <2>6 DEF u
<1> QED
  BY <1>2, <1>3, <1>4

LEMMA PromoteTurn ==
  ASSUME NEW w, NEW X, Sane(w, X), NEW j \in Jobs, NEW F,
         now \in Nat, begun \in [Jobs -> Int],
         j \notin w.flight =>
           /\ w.job[j].life = "live" /\ w.job[j].active = NoRun
           /\ w.job[j].pending # NoTime
  PROVE  Turn(w, Promote(w, j, F), j, X)
<1> DEFINE r == w.job[j]
           a == Queued("misfire", r.pending, r.next)
<1>1. /\ w \in Worlds /\ r \in Rec /\ w.run[j] \in Mem
      /\ begun[j] \in Int
      /\ Sound(r, w.run[j], begun[j], j, X)
  BY WorldParts DEF Sane, SaneAt
<1>2. a \in Act
  BY <1>1 DEF Queued, Act, Rec, Triggers
<1>3. j \notin w.flight => Admissible(r, a, begun[j], j, X)
  BY <1>1, PromotionAdmissible
<1> HIDE DEF a
<1>4. Turn(w, Admit(w, j, a, F), j, X)
  BY <1>2, <1>3, AdmitTurn
<1> QED
  BY <1>4 DEF Promote, a

LEMMA ReadmitTurn ==
  ASSUME NEW w, NEW X, Sane(w, X), NEW j \in Jobs, NEW F,
         now \in Nat, begun \in [Jobs -> Int],
         j \notin w.flight => w.job[j].active.phase = "queued"
  PROVE  Turn(w, Readmit(w, j, F), j, X)
<1> DEFINE u == Readmit(w, j, F)
<1>1. w \in Worlds
  BY DEF Sane
<1>2. CASE j \in w.flight
  <2>1. u = w
    BY <1>2 DEF Readmit
  <2> QED
    BY <1>1, <1>2, <2>1 DEF Turn, Pumped, Same
<1>3. CASE j \notin w.flight
  <2>1. /\ u \in Worlds /\ u.flight = w.flight \union {j}
        /\ \A i \in Jobs \ {j} : Pumped(w, u, i)
        /\ Entered(w, u, j, w.job[j].active)
        /\ w.run[j].state = "none" /\ PoolSound(w) => PoolSound(u)
    BY <1>1, <1>3, ReadmitFacts
  <2>2. w.run[j].state = "none"
    BY <1>3, Unclaimed
  <2> HIDE DEF u
  <2>3. /\ begun[j] \in Int /\ Sound(w.job[j], w.run[j], begun[j], j, X)
        /\ w.job[j].active.phase = "queued"
    BY <1>3 DEF Sane, SaneAt
  <2>4. /\ Sound(u.job[j], u.run[j], begun[j], j, X)
        /\ u.run[j].state \notin {"none", "ended"}
    BY <1>1, <2>1, <2>3, ReadmitSound
  <2>5. u.run[j].state # "executing"
    BY <2>1 DEF Entered
  <2>6. j \in u.flight /\ Held(u, j) /\ j \notin Lost(u)
    BY <2>1, <2>4 DEF Held, Lost
  <2>7. SaneAt(u, j, X)
    BY <2>4, <2>6 DEF SaneAt
  <2> QED
    BY <1>3, <2>1, <2>2, <2>5, <2>6, <2>7 DEF Turn, u
<1> QED
  BY <1>2, <1>3

-----------------------------------------------------------------------------
\* The loops of a tick and of a start, whatever the order they take.
LEMMA ConsiderLoop ==
  ASSUME NEW w, NEW X, Sane(w, X), NEW F, NEW Q \in SUBSET Jobs,
         now \in Nat, begun \in [Jobs -> Int],
         \A j \in Q \ w.flight : IsDue(w.job[j])
  PROVE  Looped(w, ConsiderAll(w, Q, F), Q, X)
<1> DEFINE S == Q
           G == {p \in (SUBSET Jobs) \X Worlds : Looped(w, p[2], p[1], X)}
<1>0. S \in SUBSET Jobs /\ w \in Worlds
  BY DEF Sane
<1>1. \A s, u : <<s, u>> \in G <=> s \in SUBSET Jobs /\ u \in Worlds /\ Looped(w, u, s, X)
  OBVIOUS
<1> HIDE DEF G
<1>2. <<{}, w>> \in G
  BY <1>0, <1>1, NoTurnYet
<1>3. ASSUME NEW s \in SUBSET S, NEW u \in Worlds, NEW j \in s, <<s \ {j}, u>> \in G
      PROVE  <<s, Consider(u, j, F)>> \in G
  <2>1. /\ Looped(w, u, s \ {j}, X) /\ Sane(u, X) /\ j \in Jobs /\ j \in S
        /\ s \in SUBSET Jobs
    BY <1>0, <1>1, <1>3 DEF Looped
  <2>2. j \notin u.flight => u.job[j] = w.job[j] /\ j \notin w.flight
    BY <2>1 DEF Looped, Same
  <2>3. Turn(u, Consider(u, j, F), j, X)
    <3>1. j \notin u.flight => IsDue(u.job[j])
      BY <2>1, <2>2
    <3> QED
      BY <2>1, <3>1, ConsiderTurn
  <2>4. Consider(u, j, F) \in Worlds
    BY <2>3 DEF Turn
  <2>5. Looped(w, Consider(u, j, F), s, X)
    <3> HIDE DEF S
    <3> QED
      BY <1>0, <2>1, <2>3, TurnAgain
  <2> QED
    BY <1>1, <2>1, <2>4, <2>5
<1>4. \A s \in SUBSET S, u \in Worlds : \A j \in s :
        <<s \ {j}, u>> \in G => <<s, Consider(u, j, F)>> \in G
  BY <1>3, Zenon
<1>5. <<S, ConsiderAll(w, Q, F)>> \in G
  BY <1>0, <1>2, <1>4, ConsiderRule
<1> QED
  BY <1>1, <1>5

LEMMA PromoteLoop ==
  ASSUME NEW w, NEW X, Sane(w, X), NEW F, NEW Q \in SUBSET Jobs,
         now \in Nat, begun \in [Jobs -> Int],
         \A j \in Q \ w.flight :
           /\ w.job[j].life = "live" /\ w.job[j].active = NoRun
           /\ w.job[j].pending # NoTime
  PROVE  Looped(w, PromoteAll(w, Q, F), Q, X)
<1> DEFINE S == Q
           G == {p \in (SUBSET Jobs) \X Worlds : Looped(w, p[2], p[1], X)}
<1>0. S \in SUBSET Jobs /\ w \in Worlds
  BY DEF Sane
<1>1. \A s, u : <<s, u>> \in G <=> s \in SUBSET Jobs /\ u \in Worlds /\ Looped(w, u, s, X)
  OBVIOUS
<1> HIDE DEF G
<1>2. <<{}, w>> \in G
  BY <1>0, <1>1, NoTurnYet
<1>3. ASSUME NEW s \in SUBSET S, NEW u \in Worlds, NEW j \in s, <<s \ {j}, u>> \in G
      PROVE  <<s, Promote(u, j, F)>> \in G
  <2>1. /\ Looped(w, u, s \ {j}, X) /\ Sane(u, X) /\ j \in Jobs /\ j \in S
        /\ s \in SUBSET Jobs
    BY <1>0, <1>1, <1>3 DEF Looped
  <2>2. j \notin u.flight => u.job[j] = w.job[j] /\ j \notin w.flight
    BY <2>1 DEF Looped, Same
  <2>3. Turn(u, Promote(u, j, F), j, X)
    <3>1. j \notin u.flight => 
           /\ u.job[j].life = "live" /\ u.job[j].active = NoRun
           /\ u.job[j].pending # NoTime
      BY <2>1, <2>2
    <3> QED
      BY <2>1, <3>1, PromoteTurn
  <2>4. Promote(u, j, F) \in Worlds
    BY <2>3 DEF Turn
  <2>5. Looped(w, Promote(u, j, F), s, X)
    <3> HIDE DEF S
    <3> QED
      BY <1>0, <2>1, <2>3, TurnAgain
  <2> QED
    BY <1>1, <2>1, <2>4, <2>5
<1>4. \A s \in SUBSET S, u \in Worlds : \A j \in s :
        <<s \ {j}, u>> \in G => <<s, Promote(u, j, F)>> \in G
  BY <1>3, Zenon
<1>5. <<S, PromoteAll(w, Q, F)>> \in G
  BY <1>0, <1>2, <1>4, PromoteRule
<1> QED
  BY <1>1, <1>5

LEMMA ReadmitLoop ==
  ASSUME NEW w, NEW X, Sane(w, X), NEW F,
         now \in Nat, begun \in [Jobs -> Int]
  PROVE  Looped(w, Readmitted(w, F), {j \in Jobs : w.job[j].active.phase = "queued"}, X)
<1> DEFINE S == {j \in Jobs : w.job[j].active.phase = "queued"}
           G == {p \in (SUBSET Jobs) \X Worlds : Looped(w, p[2], p[1], X)}
<1>0. S \in SUBSET Jobs /\ w \in Worlds
  BY DEF Sane
<1>1. \A s, u : <<s, u>> \in G <=> s \in SUBSET Jobs /\ u \in Worlds /\ Looped(w, u, s, X)
  OBVIOUS
<1> HIDE DEF G
<1>2. <<{}, w>> \in G
  BY <1>0, <1>1, NoTurnYet
<1>3. ASSUME NEW s \in SUBSET S, NEW u \in Worlds, NEW j \in s, <<s \ {j}, u>> \in G
      PROVE  <<s, Readmit(u, j, F)>> \in G
  <2>1. /\ Looped(w, u, s \ {j}, X) /\ Sane(u, X) /\ j \in Jobs /\ j \in S
        /\ s \in SUBSET Jobs
    BY <1>0, <1>1, <1>3 DEF Looped
  <2>2. j \notin u.flight => u.job[j] = w.job[j] /\ j \notin w.flight
    BY <2>1 DEF Looped, Same
  <2>3. Turn(u, Readmit(u, j, F), j, X)
    <3>1. j \notin u.flight => u.job[j].active.phase = "queued"
      BY <2>1, <2>2
    <3> QED
      BY <2>1, <3>1, ReadmitTurn
  <2>4. Readmit(u, j, F) \in Worlds
    BY <2>3 DEF Turn
  <2>5. Looped(w, Readmit(u, j, F), s, X)
    <3> HIDE DEF S
    <3> QED
      BY <1>0, <2>1, <2>3, TurnAgain
  <2> QED
    BY <1>1, <2>1, <2>4, <2>5
<1>4. \A s \in SUBSET S, u \in Worlds : \A j \in s :
        <<s \ {j}, u>> \in G => <<s, Readmit(u, j, F)>> \in G
  BY <1>3, Zenon
<1>5. <<S, Readmitted(w, F)>> \in G
  BY <1>0, <1>2, <1>4, ReadmitRule
<1> QED
  BY <1>1, <1>5

-----------------------------------------------------------------------------
\* The invariant. Its parts take the world, so that they can be shown of the
\* world that becomes.
Scalars ==
  /\ now \in 0..MaxTime /\ timer \in Moments \union 0..(MaxTime + MaxSleep)
  /\ svc \in {"new", "running", "stopping", "stopped"} /\ locked \in BOOLEAN
  /\ swapped \subseteq Jobs /\ begun \in [Jobs -> Int]
  /\ calls \in 0..MaxCalls /\ faults \in 0..MaxFaults /\ ends \in 0..MaxEnds

\* As long as no write failed.
Intact(w, f, v) == f = 0 => Ample(w) /\ (v = "running" => Lost(w) = {})

\* A stopped service has no runs.
Idle(w, v) == v = "stopped" => \A j \in Jobs : w.run[j] = NotRunning

\* The pool keeps its limits, and is served while it is open.
Pooled(w, v) ==
  /\ Limits(w) /\ Cardinality(Waiting(w)) <= MaxQueued
  /\ v \in {"new", "running"} => Served(w)

\* t is the timer, n the time.
WakesAll(w, t, n) ==
  t # NoTime /\ \A j \in Eligible(w) \ w.flight : t <= Max({n, w.job[j].next})

\* A service that holds its lock has armed its timer.
Armed(w, v, l, t, n) == v = "running" /\ l => WakesAll(w, t, n)

\* The inductive invariant.
Inv ==
  /\ Scalars
  /\ Sane(World, swapped)
  /\ Intact(World, faults, svc)
  /\ Idle(World, svc)
  /\ Pooled(World, svc)
  /\ Armed(World, svc, locked, timer, now)

\* How the invariant of the next state is shown, from the world that becomes.
LEMMA WorldIs ==
  ASSUME NEW w \in Worlds, Becomes(w)
  PROVE  World' = w
BY DEF Becomes, World, Worlds

LEMMA SaneNext ==
  ASSUME NEW w, Sane(w, swapped'), Becomes(w), now' = now, begun' = begun
  PROVE  Sane(World, swapped)'
<1>1. w \in Worlds /\ World' = w
  BY WorldIs DEF Sane
<1>2. \A j \in Jobs : SaneAt(w, j, swapped')
  BY DEF Sane
<1>3. \A j \in Jobs : SaneAt(World, j, swapped)'
  BY <1>1, <1>2 DEF SaneAt, Sound, Ranged, Kept, Timed, Planned, Span, ActiveOK,
                    Unasked, Names, Recurs, NotRunning, NoRun, NoTime
<1> QED
  BY <1>1, <1>3 DEF Sane, Worlds, Rec, Mem, Act, Triggers, States, InPool

LEMMA InvFrom ==
  ASSUME now' = now, Scalars', Sane(World, swapped)',
         NEW w \in Worlds, Becomes(w), Intact(w, faults', svc'),
         Idle(w, svc'), Pooled(w, svc'), Armed(w, svc', locked', timer', now)
  PROVE  Inv'
<1>1. World' = w
  BY WorldIs
<1>2. Intact(World, faults, svc)'
  BY <1>1 DEF Intact, Ample, Held, Lost, NoRun, NoTime
<1>3. Idle(World, svc)'
  BY <1>1 DEF Idle, NotRunning, NoTime
<1>4. Pooled(World, svc)'
  BY <1>1 DEF Pooled, Limits, Active, Peers, Waiting, Served, HasRoom, InState, InPool
<1>5. Armed(World, svc, locked, timer, now)'
  BY <1>1 DEF Armed, WakesAll, Eligible, Live, NoRun, NoTime, Max
<1> QED
  BY <1>2, <1>3, <1>4, <1>5 DEF Inv

LEMMA InvNext ==
  ASSUME now' = now, begun' = begun, Scalars',
         NEW w, Becomes(w), Sane(w, swapped'), Intact(w, faults', svc'),
         Idle(w, svc'), Pooled(w, svc'), Armed(w, svc', locked', timer', now)
  PROVE  Inv'
<1>1. w \in Worlds
  BY DEF Sane
<1>2. Sane(World, swapped)'
  BY SaneNext
<1> QED
  BY <1>1, <1>2, InvFrom

\* The wake is not later than the time of any eligible job.
LEMMA WakeFacts ==
  ASSUME NEW w \in Worlds, now \in Nat
  PROVE  /\ WakeTime(w) \in 0..(now + MaxSleep)
         /\ \A j \in Eligible(w) : WakeTime(w) <= Max({now, w.job[j].next})
<1> DEFINE m(j) == Max({now, w.job[j].next})
           S == {now + MaxSleep} \union {m(j) : j \in Eligible(w)}
<1>1. \A j \in Eligible(w) : Max({now, w.job[j].next}) \in Nat
  <2> TAKE j \in Eligible(w)
  <2>1. j \in Jobs /\ w.job[j].next \in Int
    BY WorldParts DEF Eligible, Live, Rec
  <2>2. Max({now, w.job[j].next}) = IF now >= w.job[j].next THEN now ELSE w.job[j].next
    BY <2>1, MaxOfTwo
  <2> QED
    BY <2>1, <2>2
<1> HIDE DEF m
<1>2. S \in SUBSET Nat /\ now + MaxSleep \in S /\ now + MaxSleep \in Nat
  <2>1. \A j \in Eligible(w) : m(j) \in Nat
    BY <1>1 DEF m
  <2>2. now + MaxSleep \in Nat
    BY LimitTypes
  <2> QED
    BY <2>1, <2>2
<1>3. \A j \in Eligible(w) : m(j) \in S
  OBVIOUS
<1> HIDE DEF S
<1>4. \E n \in S : \A k \in S : n <= k
  BY <1>2, LeastNat
<1>5. Min(S) \in S /\ \A k \in S : Min(S) <= k
  BY <1>4 DEF Min
<1>6. WakeTime(w) = Min(S)
  BY DEF WakeTime, S, m
<1>7. WakeTime(w) \in 0..(now + MaxSleep)
  <2>1. WakeTime(w) \in Nat /\ WakeTime(w) <= now + MaxSleep
    BY <1>2, <1>5, <1>6
  <2> QED
    BY <1>2, <2>1
<1>8. \A j \in Eligible(w) : WakeTime(w) <= m(j)
  BY <1>3, <1>5, <1>6
<1> QED
  BY <1>7, <1>8 DEF m

\* The timer is armed for the world that becomes.
LEMMA ArmNext ==
  ASSUME NEW w \in Worlds, Inv, Arm(w), svc' = svc
  PROVE  /\ Armed(w, svc', locked', timer', now)
         /\ timer' \in Moments \union 0..(MaxTime + MaxSleep)
<1>1. now \in 0..MaxTime /\ timer \in Moments \union 0..(MaxTime + MaxSleep)
  BY DEF Inv, Scalars
<1>2. /\ WakeTime(w) \in 0..(now + MaxSleep)
      /\ \A j \in Eligible(w) : WakeTime(w) <= Max({now, w.job[j].next})
  BY <1>1, WakeFacts, LimitTypes
<1>3. svc = "running" => timer' = WakeTime(w)
  BY DEF Arm
<1>4. svc # "running" => timer' = timer
  BY DEF Arm
<1>5. WakeTime(w) \in 0..(MaxTime + MaxSleep) /\ WakeTime(w) # NoTime
  BY <1>1, <1>2, LimitTypes DEF NoTime
<1> QED
  BY <1>1, <1>2, <1>3, <1>4, <1>5 DEF Armed, WakesAll

-----------------------------------------------------------------------------
\* What the action properties say of a step.
Steady ==
  /\ svc' = svc =>
       \A j \in Jobs :
         run[j].state = "executing" /\ run'[j].state = "executing" /\ Recorded(j)
           => Recorded(j)'
  /\ \A j \in Jobs :
       run'[j].state = "executing" /\ run[j].state # "executing"
         => run'[j].trigger = "manual" \/ run'[j].sched > begun[j]

\* The count of failed writes.
LEMMA FaultyFacts ==
  ASSUME Inv, NEW F \in Faulty
  PROVE  /\ IsFiniteSet(F)
         /\ faults + Cardinality(F) \in 0..MaxFaults
         /\ faults + Cardinality(F) = 0 => faults = 0
<1>1. faults \in 0..MaxFaults /\ MaxFaults \in Nat
  BY LimitTypes DEF Inv, Scalars
<1>2. CASE F = {}
  BY <1>1, <1>2, FS_EmptySet
<1>3. CASE F # {}
  <2>1. PICK j \in Jobs : F = {j} /\ faults < MaxFaults
    BY <1>3 DEF Faulty
  <2>2. IsFiniteSet(F) /\ Cardinality(F) = 1
    BY <2>1, FS_Singleton
  <2> QED
    BY <1>1, <2>1, <2>2
<1> QED
  BY <1>2, <1>3

\* What most steps need of the invariant.
LEMMA Parts ==
  ASSUME Inv
  PROVE  /\ World \in Worlds /\ Sane(World, swapped)
         /\ now \in Nat /\ now \in 0..MaxTime /\ begun \in [Jobs -> Int]
         /\ World.job = job /\ World.run = run /\ World.flight = flight
BY LimitTypes DEF Inv, Sane, Scalars, World

\* No loop takes the record from a body, or begins one.
LEMMA LoopedSteady ==
  ASSUME Inv, NEW w, NEW S, NEW X, Looped(World, w, S, X), Becomes(w)
  PROVE  Steady
<1>1. job' = w.job /\ run' = w.run
  BY DEF Becomes
<1>2. \A j \in Jobs : w.run[j].state = "executing" =>
        /\ run[j].state = "executing"
        /\ w.run[j] = run[j] /\ w.job[j] = job[j]
  <2> SUFFICES ASSUME NEW j \in Jobs, w.run[j].state = "executing"
               PROVE  /\ run[j].state = "executing"
                      /\ w.run[j] = run[j] /\ w.job[j] = job[j]
    OBVIOUS
  <2>1. run[j].state = "executing"
    BY Parts DEF Looped
  <2>2. j \in flight
    BY <2>1, Parts DEF Sane, SaneAt
  <2>3. Same(World, w, j)
    BY <2>1, <2>2, Parts DEF Looped
  <2> QED
    BY <2>1, <2>3, Parts DEF Same
<1> QED
  BY <1>1, <1>2 DEF Steady, Recorded, Names

\* A claim alone changes nothing but the claims.
LEMMA ClaimSane ==
  ASSUME NEW w, NEW X, Sane(w, X), NEW j \in Jobs
  PROVE  /\ Sane(Claim(w, j), X)
         /\ \A v : Pooled(w, v) => Pooled(Claim(w, j), v)
         /\ Claim(w, j).job = w.job /\ Claim(w, j).run = w.run
<1> DEFINE u == Claim(w, j)
<1>1. /\ u \in Worlds /\ u.job = w.job /\ u.run = w.run
      /\ u.flight = w.flight \union {j}
  BY ClaimFacts DEF Sane
<1> HIDE DEF u
<1>2. Sane(u, X)
  BY <1>1 DEF Sane, SaneAt
<1>3. Active(w) = Active(u) /\ Waiting(w) = Waiting(u)
  BY <1>1 DEF Active, Waiting, InState
<1>4. \A v : Pooled(w, v) => Pooled(u, v)
  BY <1>3, LimitsShrink, RoomShrinks DEF Pooled, Served
<1> QED
  BY <1>1, <1>2, <1>4 DEF u

\* The steps. A tick:
LEMMA DueAreDue ==
  ASSUME Inv
  PROVE  DueJobs(World) \in SUBSET Jobs /\ \A j \in DueJobs(World) : IsDue(World.job[j])
BY DEF DueJobs, Eligible, Live, IsDue

LEMMA TickKeeps ==
  ASSUME Inv, Tick
  PROVE  Inv' /\ Steady
<1>1. PICK F \in Faulty :
        LET w == ConsiderAll(World, DueJobs(World), F)
        IN  MarkFaults(w, F) /\ Becomes(w) /\ Arm(w)
  BY DEF Tick
<1> DEFINE w == ConsiderAll(World, DueJobs(World), F)
<1>2. MarkFaults(w, F) /\ Becomes(w) /\ Arm(w)
  BY <1>1
<1>3. UNCHANGED <<now, svc, locked, begun, swapped, calls, ends>> /\ svc = "running"
  BY DEF Tick, TimerDue
<1>4. Looped(World, w, DueJobs(World), swapped)
  BY Parts, DueAreDue, ConsiderLoop
<1> HIDE DEF w
<1>5. Sane(w, swapped') /\ w \in Worlds
  BY <1>3, <1>4 DEF Looped, Sane
<1>6. /\ faults' \in 0..MaxFaults
      /\ faults' = 0 => faults = 0
  BY <1>2, FaultyFacts DEF MarkFaults
<1>7. Intact(w, faults', svc')
  BY <1>3, <1>4, <1>6 DEF Inv, Intact, Looped
<1>8. Pooled(w, svc')
  BY <1>3, <1>4 DEF Inv, Pooled, PoolSound, Looped
<1>9. /\ Armed(w, svc', locked', timer', now)
      /\ timer' \in Moments \union 0..(MaxTime + MaxSleep)
  BY <1>2, <1>3, <1>5, ArmNext
<1>10. Scalars'
  BY <1>3, <1>6, <1>9 DEF Inv, Scalars, Moments, NoTime
<1>11. Idle(w, svc')
  BY <1>3 DEF Idle
<1>12. Inv'
  BY <1>2, <1>3, <1>5, <1>7, <1>8, <1>9, <1>10, <1>11, InvNext
<1> QED
  BY <1>2, <1>4, <1>12, LoopedSteady

\* A tick in which a write fails.
LEMMA TickFailsKeeps ==
  ASSUME Inv, TickFails
  PROVE  Inv' /\ Steady
<1>1. PICK j \in DueJobs(World) \ flight :
        LET S == {i \in DueJobs(World) : DueBefore(World, i, j)}
            w == ConsiderAll(World, S, {})
            u == IF Late(w.job[j]) /\ Policy[j] = "skip" THEN w
                 ELSE AdmitFails(w, j)
        IN  Becomes(u) /\ Arm(u)
  BY DEF TickFails
<1> DEFINE S == {i \in DueJobs(World) : DueBefore(World, i, j)}
           w == ConsiderAll(World, S, {})
           u == IF Late(w.job[j]) /\ Policy[j] = "skip" THEN w ELSE Claim(w, j)
<1>2. Becomes(u) /\ Arm(u)
  BY <1>1 DEF AdmitFails
<1>3. /\ UNCHANGED <<now, svc, locked, begun, swapped, calls, ends>> /\ svc = "running"
      /\ faults' = faults + 1 /\ faults < MaxFaults
  BY DEF TickFails, TimerDue
<1>4. Looped(World, w, S, swapped) /\ j \in Jobs
  BY Parts, DueAreDue, ConsiderLoop
<1> HIDE DEF S, w
<1>5. Sane(w, swapped') /\ Pooled(w, svc')
  BY <1>3, <1>4 DEF Looped, Inv, Pooled, PoolSound
<1>6. Sane(u, swapped') /\ Pooled(u, svc') /\ u.job = w.job /\ u.run = w.run
  BY <1>4, <1>5, ClaimSane
<1> HIDE DEF u
<1>7. faults' \in 0..MaxFaults /\ faults' # 0
  BY <1>3, LimitTypes DEF Inv, Scalars
<1>8. Intact(u, faults', svc') /\ Idle(u, svc')
  BY <1>3, <1>7 DEF Intact, Idle
<1>9. /\ Armed(u, svc', locked', timer', now)
      /\ timer' \in Moments \union 0..(MaxTime + MaxSleep)
  BY <1>2, <1>3, <1>6, ArmNext DEF Sane
<1>10. Scalars'
  BY <1>3, <1>7, <1>9 DEF Inv, Scalars, Moments, NoTime
<1>11. Inv'
  BY <1>2, <1>3, <1>6, <1>8, <1>9, <1>10, InvNext
<1>12. \A i \in Jobs : u.run[i].state = "executing" => run[i].state = "executing"
  BY <1>4, <1>6, Parts DEF Looped
<1>13. \A i \in Jobs : run[i].state = "executing" => Same(World, u, i)
  BY <1>4, <1>6, Parts DEF Looped, Sane, SaneAt, Same
<1>14. Steady
  BY <1>2, <1>12, <1>13, Parts DEF Becomes, Steady, Recorded, Names, Same
<1> QED
  BY <1>11, <1>14

-----------------------------------------------------------------------------
\* A job is settled, or ends, or its run is aborted: its record stays.
LEMMA RunMoves ==
  ASSUME NEW r \in Rec, NEW m \in Mem, NEW n \in Mem, NEW b \in Int,
         NEW k, NEW X, now \in Nat, Sound(r, m, b, k, X), m.state # "none",
         n.trigger = m.trigger /\ n.sched = m.sched,
         n.state \in {m.state, "settled", "ended"}
  PROVE  Sound(r, n, b, k, X)
<1>1. Ranged(r, n, b)
  BY DEF Sound, Ranged
<1>2. Kept(r, n)
  BY DEF Sound, Kept, Names
<1>3. Timed(r, n, b)
  BY DEF Sound, Timed, Unasked
<1> QED
  BY <1>1, <1>2, <1>3 DEF Sound

\* A pump, on a whole world.
LEMMA PumpSane ==
  ASSUME NEW w, NEW X, Sane(w, X), NEW F, now \in Nat, begun \in [Jobs -> Int]
  PROVE  LET u == Pump(w, F)
         IN  /\ Sane(u, X) /\ u.flight = w.flight
             /\ Limits(w) => Limits(u)
             /\ Served(u)
             /\ Cardinality(Waiting(u)) <= Cardinality(Waiting(w))
             /\ Ample(w) => Ample(u)
             /\ Lost(u) \subseteq Lost(w)
             /\ \A i \in Jobs :
                  /\ w.run[i].state # "queued" => Same(w, u, i)
                  /\ u.run[i].state = "executing" => w.run[i].state = "executing"
                  /\ u.job[i].active = NoRun => u.job[i] = w.job[i]
<1> DEFINE u == Pump(w, F)
<1>1. /\ w \in Worlds /\ u \in Worlds /\ u.flight = w.flight
      /\ \A i \in Jobs : Pumped(w, u, i)
      /\ Limits(w) => Limits(u)
      /\ Served(u)
  BY PumpFacts DEF Sane
<1> HIDE DEF u
<1>2. \A i \in Jobs : ~Same(w, u, i) =>
        w.run[i].state = "queued" /\ u.run[i].state \in {"starting", "refused"}
  BY <1>1, PumpedIs
<1>3. Sane(u, X)
  <2> SUFFICES ASSUME NEW i \in Jobs
               PROVE  SaneAt(u, i, X)
    BY <1>1 DEF Sane
  <2>1. SaneAt(w, i, X) /\ begun[i] \in Int
    BY DEF Sane
  <2>2. Sound(u.job[i], u.run[i], begun[i], i, X)
    BY <1>1, <2>1, PumpedSound DEF SaneAt
  <2>3. u.run[i].state # "none" => i \in u.flight
    BY <1>1, <1>2, <2>1 DEF SaneAt, Same
  <2> QED
    BY <2>2, <2>3 DEF SaneAt
<1>4. Cardinality(Waiting(u)) <= Cardinality(Waiting(w))
  <2>1. Waiting(u) \subseteq Waiting(w)
    BY <1>2 DEF Waiting, InState, Same
  <2> QED
    BY <2>1, PoolFinite, FS_Subset DEF Waiting
<1>5. (Ample(w) => Ample(u)) /\ Lost(u) \subseteq Lost(w)
  BY <1>1, <1>2 DEF Ample, Held, Lost, Same
<1>6. ASSUME NEW i \in Jobs, u.job[i].active = NoRun
      PROVE  u.job[i] = w.job[i]
  <2>1. CASE u.job[i] = [w.job[i] EXCEPT !.active.phase = "running"]
    <3>1. w.job[i] \in Rec
      BY <1>1, WorldParts
    <3>2. u.job[i].active.phase = "running"
      BY <2>1, <3>1 DEF Rec, Act
    <3> QED
      BY <1>6, <3>2 DEF NoRun
  <2>2. CASE u.job[i] = w.job[i]
    BY <2>2
  <2> QED
    BY <1>1, <2>1, <2>2 DEF Pumped, Same, Begun
<1>7. ASSUME NEW i \in Jobs
      PROVE  /\ w.run[i].state # "queued" => Same(w, u, i)
             /\ u.run[i].state = "executing" => w.run[i].state = "executing"
  BY <1>2 DEF Same
<1> QED
  BY <1>1, <1>3, <1>4, <1>5, <1>6, <1>7 DEF u

\* The timer need not move when no job newly waits for it.
LEMMA StillArmed ==
  ASSUME Inv, NEW w, UNCHANGED <<svc, locked, timer>>,
         \A i \in Eligible(w) \ w.flight : i \notin flight /\ w.job[i] = job[i]
  PROVE  Armed(w, svc', locked', timer', now)
<1>1. \A i \in Eligible(w) \ w.flight : i \in Eligible(World) \ World.flight
  BY DEF Eligible, Live, World
<1> QED
  BY <1>1 DEF Inv, Armed, WakesAll, World

\* A stopped service has no runs.
LEMMA NotStopped ==
  ASSUME Inv, NEW j \in Jobs, run[j].state # "none", svc' = svc, NEW w
  PROVE  Idle(w, svc')
<1>1. svc = "stopped" => run[j] = NotRunning
  BY Parts DEF Inv, Idle
<1>2. NotRunning.state = "none"
  BY DEF NotRunning
<1> QED
  BY <1>1, <1>2 DEF Idle

\* The execution of a run settles; while the pool is open it pumps.
LEMMA SettleKeeps ==
  ASSUME Inv, NEW j \in Jobs, Settle(j)
  PROVE  Inv' /\ Steady
<1>1. PICK F \in Faulty :
        LET w == PumpIfOpen([World EXCEPT !.run[j].state = "settled"], F)
        IN  MarkFaults(w, F) /\ Becomes(w)
  BY DEF Settle
<1> DEFINE v == [World EXCEPT !.run[j].state = "settled"]
           w == PumpIfOpen(v, F)
           n == [run[j] EXCEPT !.state = "settled"]
<1>2. MarkFaults(w, F) /\ Becomes(w)
  BY <1>1
<1>3. /\ UNCHANGED <<now, svc, locked, timer, begun, swapped, calls, ends>>
      /\ run[j].state \in InPool
  BY DEF Settle
<1>4. run[j] \in Mem /\ SaneAt(World, j, swapped)
  BY Parts, WorldParts DEF Sane
<1>5. n \in Mem /\ n.state = "settled" /\ n.trigger = run[j].trigger /\ n.sched = run[j].sched
  BY <1>4 DEF Mem, States
<1>6. v = [World EXCEPT !.run[j] = n]
  BY Parts, SettleIs DEF States
<1> HIDE DEF v, n
<1>7. /\ v \in Worlds /\ v.job = job /\ v.flight = flight
      /\ v.run[j] = n /\ \A i \in Jobs \ {j} : v.run[i] = run[i]
  BY <1>5, <1>6, Parts, NewRunType, WorldParts
<1>8. Sane(v, swapped)
  <2>1. Sound(job[j], n, begun[j], j, swapped) /\ j \in flight
    <3>1. /\ Sound(job[j], run[j], begun[j], j, swapped) /\ j \in flight
          /\ job[j] \in Rec /\ begun[j] \in Int
      BY <1>3, <1>4, Parts, WorldParts DEF SaneAt, InPool
    <3>2. n.state \in {run[j].state, "settled", "ended"} /\ run[j].state # "none"
      BY <1>3, <1>5 DEF InPool
    <3> QED
      BY <1>4, <1>5, <3>1, <3>2, Parts, RunMoves
  <2>2. \A i \in Jobs \ {j} : SaneAt(v, i, swapped)
    BY <1>7, Parts DEF Sane, SaneAt
  <2> QED
    BY <1>7, <2>1, <2>2 DEF Sane, SaneAt
<1>9. Active(v) \subseteq Active(World) /\ Waiting(v) = Waiting(World)
  BY <1>3, <1>5, <1>7, Parts DEF Active, Waiting, InState, InPool
<1>10. Limits(v) /\ Cardinality(Waiting(v)) <= MaxQueued
  BY <1>9, LimitsShrink DEF Inv, Pooled
<1>11. (Ample(World) => Ample(v)) /\ Lost(v) \subseteq Lost(World)
  BY <1>3, <1>5, <1>7, Parts DEF Ample, Held, Lost, InPool
<1>12. /\ Sane(w, swapped') /\ w.flight = flight
       /\ Pooled(w, svc')
       /\ Ample(World) => Ample(w)
       /\ Lost(w) \subseteq Lost(World)
       /\ \A i \in Jobs :
            /\ run[i].state # "queued" /\ i # j => w.job[i] = job[i] /\ w.run[i] = run[i]
            /\ w.run[i].state = "executing" => run[i].state = "executing" /\ i # j
            /\ w.job[i].active = NoRun => w.job[i] = job[i]
  <2>1. CASE ~Accepting
    <3>1. w = v
      BY <2>1 DEF PumpIfOpen
    <3> HIDE DEF w
    <3> QED
      BY <1>3, <1>5, <1>7, <1>8, <1>10, <1>11, <2>1, <3>1 DEF Pooled, Accepting
  <2>2. CASE Accepting
    <3>1. w = Pump(v, F)
      BY <2>2 DEF PumpIfOpen
    <3> HIDE DEF w
    <3>2. /\ Sane(w, swapped) /\ w.flight = v.flight
          /\ Limits(w) /\ Served(w)
          /\ Cardinality(Waiting(w)) <= Cardinality(Waiting(v))
          /\ Ample(v) => Ample(w)
          /\ Lost(w) \subseteq Lost(v)
          /\ \A i \in Jobs :
               /\ v.run[i].state # "queued" => Same(v, w, i)
               /\ w.run[i].state = "executing" => v.run[i].state = "executing"
               /\ w.job[i].active = NoRun => w.job[i] = v.job[i]
      BY <1>8, <1>10, <3>1, Parts, PumpSane
    <3>3. Pooled(w, svc')
      BY <1>10, <3>2, PoolFinite, LimitTypes DEF Pooled, Waiting
    <3> QED
      BY <1>3, <1>5, <1>7, <1>11, <3>2, <3>3 DEF Same
  <2> QED
    BY <2>1, <2>2
<1> HIDE DEF w
<1>13. /\ faults' \in 0..MaxFaults
       /\ faults' = 0 => faults = 0
  BY <1>2, FaultyFacts DEF MarkFaults
<1>14. Intact(w, faults', svc')
  BY <1>3, <1>12, <1>13 DEF Inv, Intact
<1>15. Armed(w, svc', locked', timer', now)
  <2>1. \A i \in Eligible(w) \ w.flight : i \notin flight /\ w.job[i] = job[i]
    BY <1>12 DEF Eligible, Live
  <2> QED
    BY <1>3, <2>1, StillArmed
<1>16. Idle(w, svc')
  BY <1>3, NotStopped DEF InPool
<1>17. Scalars'
  BY <1>3, <1>13 DEF Inv, Scalars, Moments, NoTime
<1>18. Inv'
  BY <1>2, <1>3, <1>12, <1>14, <1>15, <1>16, <1>17, InvNext
<1>19. Steady
  BY <1>2, <1>12 DEF Becomes, Steady, Recorded, Names
<1> QED
  BY <1>18, <1>19

-----------------------------------------------------------------------------
\* From the world that becomes to the next state.
LEMMA SoundNext ==
  ASSUME now' = now, NEW w \in Worlds, Becomes(w), NEW j \in Jobs,
         Sound(w.job[j], w.run[j], begun'[j], j, swapped')
  PROVE  Sound(World.job[j], World.run[j], begun[j], j, swapped)'
<1>1. World' = w
  BY WorldIs
<1> QED
  BY <1>1 DEF Sound, Ranged, Kept, Timed, Planned, Span, ActiveOK, Unasked, Names,
              Recurs, NotRunning, NoRun, NoTime

\* The body begins: its occurrence is behind it.
LEMMA BodySound ==
  ASSUME NEW r \in Rec, NEW m \in Mem, NEW n \in Mem, NEW b \in Int, NEW c \in Int,
         NEW k, NEW X, now \in Nat, Sound(r, m, b, k, X), m.state = "starting",
         n.state = "executing" /\ n.trigger = m.trigger /\ n.sched = m.sched,
         c = IF m.trigger = "manual" THEN b ELSE m.sched
  PROVE  Sound(r, n, c, k, X) /\ (m.trigger = "manual" \/ m.sched > b)
<1>1. m.trigger # "manual" => Unasked(m)
  BY DEF Sound, Kept, Unasked
<1>2. Ranged(r, n, c)
  BY DEF Sound, Ranged
<1>3. Kept(r, n)
  BY DEF Sound, Kept, Names
<1>4. Timed(r, n, c)
  BY <1>1 DEF Sound, Timed, Kept, Names, Unasked, NoRun
<1> QED
  BY <1>1, <1>2, <1>3, <1>4 DEF Sound, Timed

\* The body of a run begins.
LEMMA BodyBeginsKeeps ==
  ASSUME Inv, NEW j \in Jobs, BodyBegins(j)
  PROVE  Inv' /\ Steady
<1> DEFINE n == [run[j] EXCEPT !.state = "executing"]
           w == [job |-> job, run |-> [run EXCEPT ![j] = n], flight |-> flight]
<1>1. /\ run[j].state = "starting"
      /\ run' = [run EXCEPT ![j].state = "executing"]
      /\ begun' = IF run[j].trigger = "manual" THEN begun
                  ELSE [begun EXCEPT ![j] = run[j].sched]
      /\ UNCHANGED <<now, job, svc, locked, timer, flight, swapped, counts>>
  BY DEF BodyBegins
<1>2. run \in [Jobs -> Mem] /\ job \in [Jobs -> Rec] /\ begun \in [Jobs -> Int]
      /\ World \in Worlds /\ flight \in SUBSET Jobs
  BY Parts, WorldParts
<1>3. n \in Mem /\ n.state = "executing" /\ n.trigger = run[j].trigger
      /\ n.sched = run[j].sched
  BY <1>2 DEF Mem, States, InPool
<1>4. run' = [run EXCEPT ![j] = n]
  BY <1>1
<1> HIDE DEF n
<1>5. /\ w \in Worlds /\ w.job = job /\ w.flight = flight
      /\ w.run = [run EXCEPT ![j] = n]
  BY <1>2, <1>3 DEF Worlds
<1>6. Becomes(w)
  BY <1>1, <1>4, <1>5 DEF Becomes
<1> HIDE DEF w
<1>7. w.run[j] = n /\ \A i \in Jobs \ {j} : w.run[i] = run[i]
  BY <1>2, <1>5
<1>8. /\ begun' \in [Jobs -> Int]
      /\ begun'[j] = IF run[j].trigger = "manual" THEN begun[j] ELSE run[j].sched
      /\ \A i \in Jobs \ {j} : begun'[i] = begun[i]
  BY <1>1, <1>2 DEF Mem
<1>9. \A i \in Jobs : SaneAt(World, i, swapped)
  BY Parts DEF Sane
<1>10. /\ Sound(job[j], n, begun'[j], j, swapped')
       /\ run[j].trigger = "manual" \/ run[j].sched > begun[j]
       /\ j \in flight
  <2>1. /\ Sound(job[j], run[j], begun[j], j, swapped) /\ j \in flight
        /\ job[j] \in Rec /\ run[j] \in Mem /\ begun[j] \in Int /\ begun'[j] \in Int
        /\ swapped' = swapped
    BY <1>1, <1>2, <1>8, <1>9, Parts DEF SaneAt
  <2> QED
    BY <1>1, <1>3, <1>8, <2>1, Parts, BodySound
<1>11. Sane(World, swapped)'
  <2>1. \A i \in Jobs : SaneAt(World, i, swapped)'
    <3> SUFFICES ASSUME NEW i \in Jobs
                 PROVE  SaneAt(World, i, swapped)'
      OBVIOUS
    <3>1. /\ Sound(w.job[i], w.run[i], begun'[i], i, swapped')
          /\ w.run[i].state # "none" => i \in w.flight
      <4>1. CASE i = j
        BY <1>5, <1>7, <1>10, <4>1
      <4>2. CASE i # j
        BY <1>1, <1>5, <1>7, <1>8, <1>9, <4>2, Parts DEF SaneAt
      <4> QED
        BY <4>1, <4>2
    <3>2. Sound(World.job[i], World.run[i], begun[i], i, swapped)'
      BY <1>1, <1>5, <1>6, <3>1, SoundNext
    <3>3. World' = w
      BY <1>5, <1>6, WorldIs
    <3> QED
      BY <3>1, <3>2, <3>3 DEF SaneAt
  <2>2. World' \in Worlds
    BY <1>5, <1>6, WorldIs
  <2> QED
    BY <2>1, <2>2 DEF Sane, Worlds, Rec, Mem, Act, Triggers, States, InPool
<1>12. Active(w) = Active(World) /\ Waiting(w) = Waiting(World)
  BY <1>1, <1>3, <1>7, Parts DEF Active, Waiting, InState, InPool
<1>13. Pooled(w, svc')
  BY <1>1, <1>12, LimitsShrink, RoomShrinks DEF Inv, Pooled, Served
<1>14. Intact(w, faults', svc')
  BY <1>1, <1>3, <1>5, <1>7, Parts DEF Inv, Intact, Ample, Held, Lost, counts
<1>15. Idle(w, svc')
  BY <1>1, NotStopped
<1>16. Armed(w, svc', locked', timer', now)
  BY <1>1, <1>5, StillArmed DEF Eligible, Live
<1>17. Scalars'
  BY <1>1, <1>8 DEF Inv, Scalars, Moments, NoTime, counts
<1>18. Inv'
  BY <1>1, <1>5, <1>6, <1>11, <1>13, <1>14, <1>15, <1>16, <1>17, InvFrom
<1>19. Steady
  <2>1. \A i \in Jobs : run'[i].state = "executing" /\ i # j => run[i].state = "executing"
    BY <1>2, <1>4
  <2>2. run'[j].trigger = run[j].trigger /\ run'[j].sched = run[j].sched
    BY <1>2, <1>3, <1>4
  <2>3. \A i \in Jobs : i # j => run'[i] = run[i]
    BY <1>2, <1>4
  <2> QED
    BY <1>1, <1>10, <2>1, <2>2, <2>3 DEF Steady, Recorded, Names
<1> QED
  BY <1>18, <1>19

-----------------------------------------------------------------------------
\* A step of one job that brings no run into the pool and takes none from it.
LEMMA OneMoves ==
  ASSUME Inv, NEW w \in Worlds, Becomes(w), NEW j \in Jobs,
         UNCHANGED <<now, begun, svc, locked, ends>>,
         calls' \in 0..MaxCalls, faults' \in 0..MaxFaults, swapped' \subseteq Jobs,
         \A i \in Jobs \ {j} : /\ Same(World, w, i)
                               /\ i \in w.flight <=> i \in flight
                               /\ i \in swapped' <=> i \in swapped,
         SaneAt(w, j, swapped'),
         w.run[j].state \in InPool <=> run[j].state \in InPool,
         w.run[j].state = "queued" => run[j].state = "queued",
         svc = "stopped" => w.run[j] = NotRunning,
         faults' = 0 => faults = 0 /\ (Ample(World) => Held(w, j))
                        /\ (j \in Lost(w) => j \in Lost(World)),
         \/ Arm(w)
         \/ /\ timer' = timer
            /\ j \in Eligible(w) \ w.flight => j \notin flight /\ w.job[j] = job[j],
         w.run[j].state = "executing" =>
           w.run[j] = run[j] /\ w.job[j].active = job[j].active
  PROVE  Inv' /\ Steady
<1>1. \A i \in Jobs \ {j} : w.job[i] = job[i] /\ w.run[i] = run[i]
  BY Parts DEF Same
<1>2. Sane(w, swapped')
  <2>1. ASSUME NEW i \in Jobs \ {j}
        PROVE  SaneAt(w, i, swapped')
    <3>1. /\ SaneAt(World, i, swapped) /\ w.job[i] = job[i] /\ w.run[i] = run[i]
          /\ i \in w.flight <=> i \in flight
          /\ i \in swapped' <=> i \in swapped
      BY <1>1, Parts DEF Sane
    <3> QED
      BY <3>1, Parts DEF SaneAt, Sound
  <2> QED
    BY <2>1 DEF Sane
<1>3. Active(w) = Active(World) /\ Waiting(w) \subseteq Waiting(World)
  BY <1>1, Parts DEF Active, Waiting, InState, InPool
<1>4. Pooled(w, svc')
  <2>1. Limits(w)
    BY <1>3, LimitsShrink DEF Inv, Pooled
  <2>2. Cardinality(Waiting(w)) <= Cardinality(Waiting(World))
    BY <1>3, PoolFinite, FS_Subset DEF Waiting
  <2>3. Cardinality(Waiting(w)) <= MaxQueued
    BY <2>2, PoolFinite, LimitTypes DEF Inv, Pooled, Waiting
  <2>4. Served(World) => Served(w)
    BY <1>3, RoomShrinks DEF Served
  <2> QED
    BY <2>1, <2>3, <2>4 DEF Inv, Pooled
<1>5. Intact(w, faults', svc')
  <2>1. ASSUME faults' = 0
        PROVE  Ample(w) /\ (svc' = "running" => Lost(w) = {})
    <3>1. faults = 0 /\ Ample(World) /\ (svc = "running" => Lost(World) = {})
      BY <2>1 DEF Inv, Intact
    <3>2. Ample(w)
      BY <1>1, <2>1, <3>1, Parts DEF Ample, Held
    <3>3. Lost(w) \subseteq Lost(World)
      BY <1>1, <2>1, Parts DEF Lost
    <3> QED
      BY <3>1, <3>2, <3>3
  <2> QED
    BY <2>1 DEF Intact
<1>6. Idle(w, svc')
  BY <1>1, Parts DEF Inv, Idle
<1>7. /\ Armed(w, svc', locked', timer', now)
      /\ timer' \in Moments \union 0..(MaxTime + MaxSleep)
  <2>1. CASE Arm(w)
    BY <2>1, ArmNext
  <2>2. CASE /\ timer' = timer
             /\ j \in Eligible(w) \ w.flight => j \notin flight /\ w.job[j] = job[j]
    <3>1. \A i \in Eligible(w) \ w.flight : i \notin flight /\ w.job[i] = job[i]
      BY <1>1, <2>2 DEF Eligible, Live
    <3> QED
      BY <2>2, <3>1, StillArmed DEF Inv, Scalars
  <2> QED
    BY <2>1, <2>2
<1>8. Scalars'
  BY <1>7 DEF Inv, Scalars, Moments, NoTime
<1>9. Inv'
  BY <1>2, <1>4, <1>5, <1>6, <1>7, <1>8, InvNext
<1>10. Steady
  BY <1>1 DEF Becomes, Steady, Recorded, Names
<1> QED
  BY <1>9, <1>10

\* The record of a job whose run is finalized.
Finished(r, k) ==
  IF ~Recurs(r) /\ r.active.trigger # "manual"
  THEN IF k \in OneShot THEN [Blank EXCEPT !.life = "gone"]
       ELSE [r EXCEPT !.active = NoRun, !.pending = NoTime,
                      !.next = NoTime, !.on = FALSE]
  ELSE [r EXCEPT !.active = NoRun, !.pending = NoTime,
                 !.next = IF r.on THEN r.active.resume ELSE NoTime]

\* A run is finalized: the job takes up the time the run carried.
LEMMA FinishedSound ==
  ASSUME NEW r \in Rec, NEW m \in Mem, NEW n \in Mem, NEW b \in Int,
         NEW k, NEW X, now \in Nat, Sound(r, m, b, k, X), m.state = "settled",
         n.trigger = m.trigger /\ n.sched = m.sched, n.state = "ended",
         Names(r.active, m)
  PROVE  /\ Finished(r, k) \in Rec /\ Finished(r, k).active = NoRun
         /\ Sound(Finished(r, k), n, b, k, X)
<1> DEFINE q == Finished(r, k)
<1>1. NoTime \in Int /\ NoTime \in Span /\ NoRun \in Act
      /\ r.active.resume \in Int /\ NoRun.sched = NoTime /\ NoRun.resume = NoTime
      /\ NoRun.trigger = "none"
  BY LimitTypes DEF NoTime, Span, NoRun, Act, Triggers, Rec
<1>2. r.active # NoRun /\ r.active.trigger \in Triggers
  BY <1>1 DEF Sound, Kept, Names, ActiveOK, Triggers
<1>3. /\ q \in Rec /\ q.active = NoRun /\ q.pending = NoTime
      /\ \/ /\ ~Recurs(r) /\ q.life = "gone" /\ ~q.on /\ q.next = NoTime /\ q.at = NoTime
         \/ /\ ~Recurs(r) /\ q.life = r.life /\ ~q.on /\ q.next = NoTime /\ q.at = r.at
         \/ /\ q.life = r.life /\ q.on = r.on /\ q.at = r.at
            /\ q.next = IF r.on THEN r.active.resume ELSE NoTime
  <2>1. CASE ~Recurs(r) /\ r.active.trigger # "manual" /\ k \in OneShot
    <3>1. q = [Blank EXCEPT !.life = "gone"]
      BY <2>1 DEF Finished
    <3> QED
      BY <1>1, <2>1, <3>1 DEF Blank, Rec
  <2>2. CASE ~Recurs(r) /\ r.active.trigger # "manual" /\ k \notin OneShot
    <3>1. q = [r EXCEPT !.active = NoRun, !.pending = NoTime,
                      !.next = NoTime, !.on = FALSE]
      BY <2>2 DEF Finished
    <3> QED
      BY <1>1, <2>2, <3>1 DEF Rec
  <2>3. CASE ~(~Recurs(r) /\ r.active.trigger # "manual")
    <3>1. q = [r EXCEPT !.active = NoRun, !.pending = NoTime,
                 !.next = IF r.on THEN r.active.resume ELSE NoTime]
      BY <2>3 DEF Finished
    <3> QED
      BY <1>1, <2>3, <3>1 DEF Rec
  <2> QED
    BY <2>1, <2>2, <2>3
<1> HIDE DEF q
<1>4. Ranged(q, n, b)
  BY <1>1, <1>3 DEF Sound, Ranged
<1>5. Kept(q, n)
  BY <1>2, <1>3 DEF Sound, Kept, ActiveOK
<1>6. Timed(q, n, b)
  BY <1>1, <1>3 DEF Sound, Timed, Unasked
<1>7. k \notin X => Planned(q)
  BY <1>1, <1>2, <1>3 DEF Sound, Planned, Recurs, Kept
<1> QED
  BY <1>3, <1>4, <1>5, <1>6, <1>7 DEF Sound, q

\* finalizeRun, and its write that fails.
LEMMA FinalizeKeeps ==
  ASSUME Inv, NEW j \in Jobs, Finalize(j)
  PROVE  Inv' /\ Steady
<1> DEFINE n == [run[j] EXCEPT !.state = "ended"]
           own == Names(job[j].active, run[j])
<1>1. /\ UNCHANGED <<now, svc, locked, timer, begun, swapped, calls, ends>>
      /\ run[j].state = "settled"
  BY DEF Finalize
<1>2. /\ run[j] \in Mem /\ SaneAt(World, j, swapped) /\ job[j] \in Rec /\ begun[j] \in Int
      /\ swapped \subseteq Jobs /\ calls \in 0..MaxCalls /\ faults \in 0..MaxFaults
      /\ svc # "stopped"
  <2>1. svc = "stopped" => run[j] = NotRunning
    BY Parts DEF Inv, Idle
  <2> QED
    BY <1>1, <2>1, Parts, WorldParts DEF Sane, Inv, Scalars, NotRunning
<1>3. n \in Mem /\ n.state = "ended" /\ n.trigger = run[j].trigger /\ n.sched = run[j].sched
  BY <1>2 DEF Mem, States
<1>4. Sound(job[j], run[j], begun[j], j, swapped) /\ j \in flight
  BY <1>1, <1>2, Parts DEF SaneAt
<1> HIDE DEF n
<1>5. CASE Becomes(Ended(Finalized(World, j), j)) /\ UNCHANGED faults
  <2> DEFINE q == IF own THEN Finished(job[j], j) ELSE job[j]
             u == Finalized(World, j)
             w == Ended(u, j)
  <2>1. u = [World EXCEPT !.job[j] = q]
    <3>1. CASE own
      BY <3>1, Parts DEF Finalized, Finished
    <3>2. CASE ~own
      BY <3>2, Parts, WorldParts DEF Finalized, World
    <3> QED
      BY <3>1, <3>2
  <2>2. /\ q \in Rec /\ Sound(q, n, begun[j], j, swapped) /\ q.active = NoRun
    <3>1. CASE own
      BY <1>1, <1>2, <1>3, <1>4, <3>1, Parts, FinishedSound
    <3>2. CASE ~own
      <4>1. Sound(job[j], n, begun[j], j, swapped)
        BY <1>1, <1>2, <1>3, <1>4, Parts, RunMoves
      <4>2. job[j].active = NoRun
        BY <1>1, <1>4, <3>2 DEF Sound, Kept
      <4> QED
        BY <1>2, <3>2, <4>1, <4>2
    <3> QED
      BY <3>1, <3>2
  <2> HIDE DEF q, u
  <2>3. /\ u \in Worlds /\ u.run = run /\ u.flight = flight
        /\ u.job = [job EXCEPT ![j] = q]
    BY <2>1, <2>2, Parts, UpsertFacts
  <2>4. w = [u EXCEPT !.run[j] = n]
    BY <2>3, SettleIs DEF Ended, States, n
  <2> HIDE DEF w
  <2>5. /\ w \in Worlds /\ w.flight = flight /\ w.job = u.job
        /\ w.run = [run EXCEPT ![j] = n]
    BY <1>3, <2>3, <2>4, NewRunType
  <2>6. /\ w.job[j] = q /\ w.run[j] = n
        /\ \A i \in Jobs \ {j} : w.job[i] = job[i] /\ w.run[i] = run[i]
    BY <2>3, <2>5, Parts, WorldParts
  <2>7. SaneAt(w, j, swapped')
    BY <1>1, <1>4, <2>2, <2>5, <2>6 DEF SaneAt
  <2>8. \A i \in Jobs \ {j} : /\ Same(World, w, i)
                              /\ i \in w.flight <=> i \in flight
                              /\ i \in swapped' <=> i \in swapped
    BY <1>1, <2>5, <2>6, Parts DEF Same
  <2>9. Held(w, j) /\ j \notin Lost(w) /\ j \in w.flight
    BY <1>3, <1>4, <2>2, <2>5, <2>6 DEF Held, Lost
  <2>10. Becomes(w)
    BY <1>5 DEF w, u
  <2> QED
    BY <1>1, <1>2, <1>3, <1>5, <2>5, <2>6, <2>7, <2>8, <2>9, <2>10, OneMoves DEF InPool
<1>6. CASE /\ Names(job[j].active, run[j])
           /\ faults < MaxFaults /\ Quiet /\ faults' = faults + 1
           /\ Becomes(Ended(World, j))
  <2> DEFINE w == Ended(World, j)
  <2>1. w = [World EXCEPT !.run[j] = n]
    BY Parts, SettleIs DEF Ended, States, n
  <2>2. Becomes(w)
    BY <1>6
  <2> HIDE DEF w
  <2>3. /\ w \in Worlds /\ w.flight = flight /\ w.job = job
        /\ w.run = [run EXCEPT ![j] = n]
    BY <1>3, <2>1, Parts, NewRunType
  <2>4. /\ w.job[j] = job[j] /\ w.run[j] = n
        /\ \A i \in Jobs \ {j} : w.job[i] = job[i] /\ w.run[i] = run[i]
    BY <2>3, Parts, WorldParts
  <2>5. SaneAt(w, j, swapped')
    <3>1. Sound(job[j], n, begun[j], j, swapped)
      BY <1>1, <1>2, <1>3, <1>4, Parts, RunMoves
    <3> QED
      BY <1>1, <1>4, <2>3, <2>4, <3>1 DEF SaneAt
  <2>6. \A i \in Jobs \ {j} : /\ Same(World, w, i)
                              /\ i \in w.flight <=> i \in flight
                              /\ i \in swapped' <=> i \in swapped
    BY <1>1, <2>3, <2>4, Parts DEF Same
  <2>7. faults' \in 0..MaxFaults /\ faults' # 0
    BY <1>2, <1>6, LimitTypes
  <2> QED
    BY <1>1, <1>2, <1>3, <1>4, <2>2, <2>3, <2>4, <2>5, <2>6, <2>7, OneMoves DEF InPool
<1> QED
  BY <1>5, <1>6 DEF Finalize

\* A job whose run has left, or died with its process.
LEMMA GoneSound ==
  ASSUME NEW r \in Rec, NEW m \in Mem, NEW b \in Int,
         NEW k, NEW X, now \in Nat, Sound(r, m, b, k, X)
  PROVE  Sound(r, NotRunning, b, k, X) /\ NotRunning \in Mem
<1>1. NotRunning.state = "none" /\ NotRunning.sched = NoTime /\ NoTime \in Span
      /\ NotRunning \in Mem
  BY LimitTypes DEF NotRunning, NoTime, Span, Mem, States
<1>2. Ranged(r, NotRunning, b)
  BY <1>1 DEF Sound, Ranged
<1>3. Kept(r, NotRunning)
  BY <1>1 DEF Sound, Kept
<1>4. Timed(r, NotRunning, b)
  BY <1>1 DEF Sound, Timed
<1> QED
  BY <1>1, <1>2, <1>3, <1>4 DEF Sound

\* The finally of finishRun.
LEMMA LeaveFlightKeeps ==
  ASSUME Inv, NEW j \in Jobs, LeaveFlight(j)
  PROVE  Inv' /\ Steady
<1> DEFINE w == [World EXCEPT !.run[j] = NotRunning, !.flight = @ \ {j}]
<1>1. /\ UNCHANGED <<now, svc, locked, begun, swapped, counts>>
      /\ run[j].state = "ended"
      /\ Becomes(w) /\ Arm(w)
  BY DEF LeaveFlight
<1>3. /\ run[j] \in Mem /\ SaneAt(World, j, swapped) /\ job[j] \in Rec /\ begun[j] \in Int
      /\ swapped \subseteq Jobs /\ calls \in 0..MaxCalls /\ faults \in 0..MaxFaults
      /\ job \in [Jobs -> Rec] /\ run \in [Jobs -> Mem] /\ flight \in SUBSET Jobs
  BY Parts, WorldParts DEF Sane, Inv, Scalars
<1>4. Sound(job[j], NotRunning, begun[j], j, swapped) /\ NotRunning \in Mem
  BY <1>3, Parts, GoneSound DEF SaneAt
<1>5. /\ w \in Worlds /\ w.job = job /\ w.flight = flight \ {j}
      /\ w.run = [run EXCEPT ![j] = NotRunning]
  <2>1. World \in Worlds /\ NotRunning \in Mem
    BY <1>4, Parts
  <2> HIDE DEF Rec, Mem
  <2>2. w \in Worlds
    BY <2>1 DEF Worlds
  <2>3. /\ w.job = World.job /\ w.flight = World.flight \ {j}
        /\ w.run = [World.run EXCEPT ![j] = NotRunning]
    BY <2>1 DEF Worlds
  <2> QED
    BY <2>2, <2>3, Parts
<1> HIDE DEF w
<1>7. /\ w.job[j] = job[j] /\ w.run[j] = NotRunning
      /\ \A i \in Jobs \ {j} : w.job[i] = job[i] /\ w.run[i] = run[i]
  BY <1>3, <1>5
<1>8. NotRunning.state = "none"
  BY DEF NotRunning
<1>9. SaneAt(w, j, swapped')
  BY <1>1, <1>4, <1>5, <1>7, <1>8 DEF SaneAt
<1>10. \A i \in Jobs \ {j} : /\ Same(World, w, i)
                             /\ i \in w.flight <=> i \in flight
                             /\ i \in swapped' <=> i \in swapped
  BY <1>1, <1>5, <1>7, Parts DEF Same
<1>11. Held(w, j)
  BY <1>5, <1>7, <1>8 DEF Held
<1>12. faults = 0 => job[j].active = NoRun
  BY <1>1, Parts DEF Inv, Intact, Ample, Held
<1>13. faults' = 0 => faults = 0 /\ j \notin Lost(w)
  BY <1>1, <1>7, <1>12 DEF Lost, counts
<1>14. UNCHANGED <<ends, calls, faults>>
  BY <1>1 DEF counts
<1> QED
  BY <1>1, <1>3, <1>5, <1>7, <1>8, <1>9, <1>10, <1>11, <1>13, <1>14, OneMoves
     DEF InPool

-----------------------------------------------------------------------------
\* Runs cancelled in the queue.
LEMMA CancelFacts ==
  ASSUME NEW w \in Worlds, NEW S
  PROVE  LET u == CancelQueued(w, S)
         IN  /\ u \in Worlds /\ u.job = w.job /\ u.flight = w.flight
             /\ \A i \in Jobs : u.run[i] = IF i \in S /\ w.run[i].state = "queued"
                                           THEN [w.run[i] EXCEPT !.state = "settled"]
                                           ELSE w.run[i]
<1> DEFINE f == [i \in Jobs |-> IF i \in S /\ w.run[i].state = "queued"
                                THEN [w.run[i] EXCEPT !.state = "settled"]
                                ELSE w.run[i]]
           u == CancelQueued(w, S)
<1>1. u = [job |-> w.job, run |-> f, flight |-> w.flight]
  BY DEF CancelQueued, Worlds
<1>2. f \in [Jobs -> Mem]
  <2>1. \A i \in Jobs : [w.run[i] EXCEPT !.state = "settled"] \in Mem /\ w.run[i] \in Mem
    BY WorldParts, SettleIs DEF States
  <2> QED
    BY <2>1
<1> HIDE DEF f
<1>3. u \in Worlds /\ u.job = w.job /\ u.flight = w.flight /\ u.run = f
  <2> HIDE DEF u
  <2> QED
    BY <1>1, <1>2, WorldParts DEF Worlds
<1> QED
  BY <1>3 DEF f

\* The run is as it was, or cancelled while it was queued.
Moved(m, n) == n = m \/ (m.state = "queued" /\ n = [m EXCEPT !.state = "settled"])

\* A call on a job that leaves it the record q.
LEMMA CallKeeps ==
  ASSUME Inv, NEW j \in Jobs, NEW q \in Rec, NEW w \in Worlds, Becomes(w),
         Call, UNCHANGED <<now, begun, svc, locked, ends, faults>>,
         w.job = [job EXCEPT ![j] = q], w.flight = flight,
         \A i \in Jobs \ {j} : w.run[i] = run[i],
         Moved(run[j], w.run[j]),
         Arm(w) \/ (timer' = timer /\ j \in flight),
         Sound(q, run[j], begun[j], j, swapped'),
         swapped' \subseteq Jobs, \A i \in Jobs \ {j} : i \in swapped' <=> i \in swapped,
         q.active # job[j].active => q.active = NoRun /\ run[j].state # "executing"
  PROVE  Inv' /\ Steady
<1>1. /\ run[j] \in Mem /\ SaneAt(World, j, swapped) /\ job[j] \in Rec /\ begun[j] \in Int
      /\ calls \in 0..MaxCalls /\ faults \in 0..MaxFaults
  BY Parts, WorldParts DEF Sane, Inv, Scalars
<1>2. calls' \in 0..MaxCalls /\ faults' = faults
  BY <1>1, LimitTypes DEF Call
<1>3. w.job[j] = q /\ \A i \in Jobs \ {j} : w.job[i] = job[i]
  BY Parts, WorldParts
<1>4. \A i \in Jobs \ {j} : /\ Same(World, w, i)
                            /\ i \in w.flight <=> i \in flight
                            /\ i \in swapped' <=> i \in swapped
  BY <1>3, Parts DEF Same
<1>5. /\ w.run[j] \in Mem
      /\ \/ w.run[j] = run[j]
         \/ /\ run[j].state = "queued" /\ w.run[j].state = "settled"
            /\ w.run[j].trigger = run[j].trigger /\ w.run[j].sched = run[j].sched
  BY <1>1, WorldParts DEF Moved, Mem
<1>6. SaneAt(w, j, swapped')
  <2>1. Sound(q, w.run[j], begun[j], j, swapped')
    BY <1>1, <1>5, Parts, RunMoves
  <2> QED
    BY <1>1, <1>3, <1>5, <2>1, Parts DEF SaneAt
<1>7. Ample(World) => Held(w, j)
  BY <1>3, <1>5, Parts, RunMoves DEF Ample, Held
<1>8. j \in Lost(w) => j \in Lost(World)
  BY <1>3, <1>5, Parts DEF Lost
<1>9. svc = "stopped" => w.run[j] = NotRunning
  <2>1. svc = "stopped" => run[j] = NotRunning
    BY Parts DEF Inv, Idle
  <2>2. NotRunning.state = "none"
    BY DEF NotRunning
  <2> QED
    BY <1>5, <2>1, <2>2
<1>10. /\ w.run[j].state \in InPool <=> run[j].state \in InPool
       /\ w.run[j].state = "queued" => run[j].state = "queued"
       /\ w.run[j].state = "executing" => w.run[j] = run[j] /\ w.job[j].active = job[j].active
  BY <1>3, <1>5 DEF InPool
<1> QED
  BY <1>1, <1>2, <1>4, <1>6, <1>7, <1>8, <1>9, <1>10, OneMoves

\* A job without a run is given the next time of its schedule.
LEMMA PlannedSound ==
  ASSUME NEW r \in Rec, NEW q \in Rec, NEW m \in Mem, NEW b \in Int,
         NEW k, NEW X, NEW Y, now \in Nat, Sound(r, m, b, k, X),
         q.life = "live", q.active = NoRun, q.at \in Span,
         q.pending \in {NoTime, r.pending}, q.next = ComputeNext(q)
  PROVE  Sound(q, m, b, k, Y)
<1>1. /\ q.at \in Int /\ q.next \in Int
      /\ q.next # NoTime => q.next > now
      /\ Recurs(q) => q.next = now + Interval
      /\ ~Recurs(q) => q.next = IF q.at > now THEN q.at ELSE NoTime
      /\ Recurs(q) \/ q.at > now => q.next # NoTime
  BY NextComputed DEF Rec
<1>2. NoTime \in Int /\ NoTime \in Span /\ now + Interval \in Span
      /\ NoRun.sched = NoTime /\ NoRun.resume = NoTime /\ NoRun.trigger = "none"
  BY LimitTypes DEF NoTime, Span, NoRun
<1>3. Ranged(q, m, b)
  BY <1>1, <1>2 DEF Sound, Ranged
<1>4. Kept(q, m)
  BY DEF Sound, Kept, ActiveOK
<1>5. Timed(q, m, b)
  <2>1. q.next # NoTime => q.next > b
    BY <1>1 DEF Sound, Timed
  <2>2. q.pending # NoTime =>
          q.pending > b /\ q.pending <= now /\ (q.next # NoTime => q.next > q.pending)
    BY <1>1 DEF Sound, Timed, Rec
  <2>3. m.state \in {"queued", "starting"} /\ Unasked(m) =>
          /\ m.sched > b /\ m.sched <= now
          /\ q.next # NoTime => q.next > m.sched
          /\ q.pending # NoTime => q.pending > m.sched
    BY <1>1 DEF Sound, Timed, Mem, Rec
  <2> QED
    BY <1>2, <2>1, <2>2, <2>3 DEF Sound, Timed, Unasked
<1>6. Planned(q)
  BY <1>1, <1>2 DEF Planned
<1> QED
  BY <1>3, <1>4, <1>5, <1>6 DEF Sound

\* The calls, each with the record it leaves.
LEMMA AddJobKeeps ==
  ASSUME Inv, NEW j \in Jobs, NEW at \in AtTimes, AddJob(j, at)
  PROVE  Inv' /\ Steady
<1> DEFINE r == [Fresh EXCEPT !.at = at]
           q == [r EXCEPT !.next = ComputeNext(r)]
           w == [World EXCEPT !.job[j] = q]
<1>1. /\ Call /\ job[j].life = "none"
      /\ Becomes(w) /\ Arm(w)
      /\ UNCHANGED <<now, svc, locked, begun, swapped, faults, ends>>
  BY DEF AddJob, Upsert
<1>2. /\ run[j] \in Mem /\ SaneAt(World, j, swapped) /\ job[j] \in Rec /\ begun[j] \in Int
      /\ swapped \subseteq Jobs
  BY Parts, WorldParts DEF Sane, Inv, Scalars
<1>3. at \in Span /\ at \in Int
  BY Parts, LimitTypes DEF AtTimes, Span, NoTime
<1>5. NoRun \in Act /\ NoTime \in Int
  BY DEF NoRun, Act, NoTime
<1>4. /\ Fresh \in Rec /\ Fresh.life = "live" /\ Fresh.active = NoRun
      /\ Fresh.pending = NoTime
  <2>1. Blank \in Rec /\ Blank.active = NoRun /\ Blank.pending = NoTime
    BY <1>5 DEF Blank, Rec
  <2> QED
    BY <2>1 DEF Fresh, Rec
<1>6. /\ r \in Rec /\ r.at = at /\ r.life = "live" /\ r.active = NoRun
      /\ r.pending = NoTime
  BY <1>3, <1>4 DEF Rec
<1>7. ComputeNext(r) \in Int
  BY <1>6, Parts, NextComputed
<1>8. /\ q \in Rec /\ q.life = "live" /\ q.active = NoRun /\ q.at = at
      /\ q.pending = NoTime /\ q.next = ComputeNext(r) /\ Recurs(q) = Recurs(r)
      /\ q.at = r.at
  BY <1>3, <1>6, <1>7 DEF Rec, Recurs
<1> HIDE DEF q, r
<1>9. q.next = ComputeNext(q)
  BY <1>8 DEF ComputeNext
<1>10. Sound(q, run[j], begun[j], j, swapped') /\ job[j].active = NoRun
  <2>1. Sound(job[j], run[j], begun[j], j, swapped)
    BY <1>2, Parts DEF SaneAt
  <2>2. job[j].active = NoRun
    BY <1>1, <2>1 DEF Sound, Kept
  <2> QED
    BY <1>2, <1>3, <1>8, <1>9, <2>1, <2>2, Parts, PlannedSound
<1>11. /\ w \in Worlds /\ w.job = [job EXCEPT ![j] = q] /\ w.run = run
       /\ w.flight = flight
  BY <1>8, Parts, UpsertFacts
<1> HIDE DEF w
<1> QED
  BY <1>1, <1>2, <1>8, <1>10, <1>11, CallKeeps DEF Moved

LEMMA UpdateJobKeeps ==
  ASSUME Inv, NEW j \in Jobs, NEW at \in AtTimes, UpdateJob(j, at)
  PROVE  Inv' /\ Steady
<1> DEFINE r == [job[j] EXCEPT !.at = at]
           q == IF r.active = NoRun THEN [r EXCEPT !.next = ComputeNext(r)] ELSE r
           w == [World EXCEPT !.job[j] = q]
<1>1. /\ Call /\ job[j].life = "live"
      /\ Becomes(w) /\ Arm(w)
      /\ swapped' = IF job[j].active = NoRun THEN swapped \ {j}
                    ELSE swapped \union {j}
      /\ UNCHANGED <<now, svc, locked, begun, faults, ends>>
  BY DEF UpdateJob, Upsert
<1>2. /\ run[j] \in Mem /\ SaneAt(World, j, swapped) /\ job[j] \in Rec /\ begun[j] \in Int
      /\ swapped \subseteq Jobs /\ Sound(job[j], run[j], begun[j], j, swapped)
  BY Parts, WorldParts DEF Sane, Inv, Scalars, SaneAt
<1>3. at \in Span /\ at \in Int
  BY Parts, LimitTypes DEF AtTimes, Span, NoTime
<1>4. /\ r \in Rec /\ r.at = at /\ r.life = "live" /\ r.active = job[j].active
      /\ r.pending = job[j].pending /\ r.next = job[j].next /\ r.on = job[j].on
  BY <1>1, <1>2, <1>3 DEF Rec
<1> HIDE DEF r
<1>5. ComputeNext(r) \in Int
  BY <1>4, Parts, NextComputed
<1>6. /\ q \in Rec /\ q.active = job[j].active
      /\ q.life = "live" /\ q.at = at /\ q.pending = job[j].pending /\ q.on = job[j].on
      /\ q.next = IF job[j].active = NoRun THEN ComputeNext(r) ELSE job[j].next
  BY <1>4, <1>5 DEF Rec
<1> HIDE DEF q
<1>7. Sound(q, run[j], begun[j], j, swapped')
  <2>1. CASE job[j].active = NoRun
    <3>1. q.next = ComputeNext(q)
      BY <1>4, <1>6, <2>1 DEF ComputeNext, Recurs
    <3> QED
      BY <1>2, <1>3, <1>6, <2>1, <3>1, Parts, PlannedSound
  <2>2. CASE job[j].active # NoRun
    <3>1. j \in swapped'
      BY <1>1, <2>2
    <3>2. Ranged(q, run[j], begun[j])
      BY <1>2, <1>3, <1>6, <2>2 DEF Sound, Ranged
    <3>3. Kept(q, run[j])
      BY <1>1, <1>2, <1>6, <2>2 DEF Sound, Kept
    <3>4. Timed(q, run[j], begun[j])
      BY <1>2, <1>6, <2>2 DEF Sound, Timed
    <3> QED
      BY <3>1, <3>2, <3>3, <3>4 DEF Sound
  <2> QED
    BY <2>1, <2>2
<1>8. /\ w \in Worlds /\ w.job = [job EXCEPT ![j] = q] /\ w.run = run
      /\ w.flight = flight
  BY <1>6, Parts, UpsertFacts
<1> HIDE DEF w
<1>9. swapped' \subseteq Jobs /\ \A i \in Jobs \ {j} : i \in swapped' <=> i \in swapped
  BY <1>1, <1>2
<1> QED
  BY <1>1, <1>6, <1>7, <1>8, <1>9, CallKeeps DEF Moved

\* A job resumed during a run whose time a pause has taken is swapped.
LEMMA ResumeJobKeeps ==
  ASSUME Inv, NEW j \in Jobs, ResumeJob(j)
  PROVE  Inv' /\ Steady
<1> DEFINE r == [job[j] EXCEPT !.on = TRUE]
           q == IF r.active = NoRun THEN [r EXCEPT !.next = ComputeNext(r)] ELSE r
           w == [World EXCEPT !.job[j] = q]
<1>1. /\ Call /\ job[j].life = "live"
      /\ Becomes(w) /\ Arm(w)
      /\ swapped' = IF job[j].active = NoRun THEN swapped \ {j}
                    ELSE IF job[j].active.resume = NoTime THEN swapped \union {j}
                    ELSE swapped
      /\ UNCHANGED <<now, svc, locked, begun, faults, ends>>
  BY DEF ResumeJob, Upsert
<1>2. /\ run[j] \in Mem /\ SaneAt(World, j, swapped) /\ job[j] \in Rec /\ begun[j] \in Int
      /\ swapped \subseteq Jobs /\ Sound(job[j], run[j], begun[j], j, swapped)
  BY Parts, WorldParts DEF Sane, Inv, Scalars, SaneAt
<1>4. /\ r \in Rec /\ r.at = job[j].at /\ r.life = "live" /\ r.active = job[j].active
      /\ r.pending = job[j].pending /\ r.next = job[j].next /\ r.on
  BY <1>1, <1>2 DEF Rec
<1> HIDE DEF r
<1>5. ComputeNext(r) \in Int
  BY <1>4, Parts, NextComputed
<1>6. /\ q \in Rec /\ q.active = job[j].active
      /\ q.life = "live" /\ q.at = job[j].at /\ q.pending = job[j].pending /\ q.on
      /\ q.next = IF job[j].active = NoRun THEN ComputeNext(r) ELSE job[j].next
  BY <1>4, <1>5 DEF Rec
<1> HIDE DEF q
<1>7. Sound(q, run[j], begun[j], j, swapped')
  <2>1. CASE job[j].active = NoRun
    <3>1. q.next = ComputeNext(q)
      BY <1>4, <1>6, <2>1 DEF ComputeNext, Recurs
    <3>2. q.at \in Span
      BY <1>2, <1>6 DEF Sound, Ranged
    <3> QED
      BY <1>2, <1>6, <2>1, <3>1, <3>2, Parts, PlannedSound
  <2>2. CASE job[j].active # NoRun
    <3>1. j \notin swapped' => j \notin swapped /\ job[j].active.resume # NoTime
      BY <1>1, <2>2
    <3>2. Ranged(q, run[j], begun[j])
      BY <1>2, <1>6, <2>2 DEF Sound, Ranged
    <3>3. Kept(q, run[j])
      BY <1>1, <1>2, <1>6, <2>2 DEF Sound, Kept
    <3>4. Timed(q, run[j], begun[j])
      BY <1>2, <1>6, <2>2 DEF Sound, Timed
    <3>5. j \notin swapped' => Planned(q)
      BY <1>2, <1>6, <2>2, <3>1 DEF Sound, Planned, Recurs
    <3> QED
      BY <3>2, <3>3, <3>4, <3>5 DEF Sound
  <2> QED
    BY <2>1, <2>2
<1>8. /\ w \in Worlds /\ w.job = [job EXCEPT ![j] = q] /\ w.run = run
      /\ w.flight = flight
  BY <1>6, Parts, UpsertFacts
<1> HIDE DEF w
<1>9. swapped' \subseteq Jobs /\ \A i \in Jobs \ {j} : i \in swapped' <=> i \in swapped
  BY <1>1, <1>2
<1> QED
  BY <1>1, <1>6, <1>7, <1>8, <1>9, CallKeeps DEF Moved

\* The world of a call that may cancel a queued run.
LEMMA CancelledFacts ==
  ASSUME NEW u \in Worlds, NEW j \in Jobs, u.run = run, NEW w,
         w = CancelQueued(u, {j}) \/ w = u
  PROVE  /\ w \in Worlds /\ w.job = u.job /\ w.flight = u.flight
         /\ \A i \in Jobs \ {j} : w.run[i] = run[i]
         /\ Moved(run[j], w.run[j])
<1>1. CASE w = u
  BY <1>1 DEF Moved
<1>2. CASE w = CancelQueued(u, {j})
  <2>1. /\ w \in Worlds /\ w.job = u.job /\ w.flight = u.flight
        /\ \A i \in Jobs : w.run[i] = IF i \in {j} /\ u.run[i].state = "queued"
                                      THEN [u.run[i] EXCEPT !.state = "settled"]
                                      ELSE u.run[i]
    BY <1>2, CancelFacts
  <2>2. \A i \in Jobs \ {j} : w.run[i] = run[i]
    BY <2>1
  <2> QED
    BY <2>1, <2>2 DEF Moved
<1> QED
  BY <1>1, <1>2

\* A paused job has no time; its run, when queued, is cancelled.
LEMMA PauseJobKeeps ==
  ASSUME Inv, NEW j \in Jobs, PauseJob(j)
  PROVE  Inv' /\ Steady
<1> DEFINE q == [job[j] EXCEPT !.on = FALSE, !.next = NoTime]
           u == [World EXCEPT !.job[j] = q]
           w == IF job[j].active.phase = "queued" THEN CancelQueued(u, {j}) ELSE u
<1>1. /\ Call /\ job[j].life = "live"
      /\ Becomes(w) /\ Arm(w)
      /\ UNCHANGED <<now, svc, locked, begun, swapped, faults, ends>>
  BY DEF PauseJob, Upsert
<1>2. /\ run[j] \in Mem /\ SaneAt(World, j, swapped) /\ job[j] \in Rec /\ begun[j] \in Int
      /\ swapped \subseteq Jobs /\ Sound(job[j], run[j], begun[j], j, swapped)
  BY Parts, WorldParts DEF Sane, Inv, Scalars, SaneAt
<1>3. NoTime \in Int /\ NoTime \in Span
  BY Parts, LimitTypes DEF NoTime, Span
<1>4. /\ q \in Rec /\ q.at = job[j].at /\ q.life = "live" /\ q.active = job[j].active
      /\ q.pending = job[j].pending /\ q.next = NoTime /\ ~q.on
  BY <1>1, <1>2, <1>3 DEF Rec
<1> HIDE DEF q
<1>5. Sound(q, run[j], begun[j], j, swapped')
  <2>1. Ranged(q, run[j], begun[j])
    BY <1>2, <1>3, <1>4 DEF Sound, Ranged
  <2>2. Kept(q, run[j])
    BY <1>1, <1>2, <1>4 DEF Sound, Kept
  <2>3. Timed(q, run[j], begun[j])
    BY <1>2, <1>4 DEF Sound, Timed
  <2>4. j \notin swapped' => Planned(q)
    BY <1>1, <1>2, <1>4 DEF Sound, Planned, Recurs
  <2> QED
    BY <2>1, <2>2, <2>3, <2>4 DEF Sound
<1>6. /\ u \in Worlds /\ u.job = [job EXCEPT ![j] = q] /\ u.run = run
      /\ u.flight = flight
  BY <1>4, Parts, UpsertFacts
<1> HIDE DEF u
<1>7. w = CancelQueued(u, {j}) \/ w = u
  OBVIOUS
<1> HIDE DEF w
<1>8. /\ w \in Worlds /\ w.job = [job EXCEPT ![j] = q] /\ w.flight = flight
      /\ \A i \in Jobs \ {j} : w.run[i] = run[i]
      /\ Moved(run[j], w.run[j])
  BY <1>6, <1>7, CancelledFacts
<1> QED
  BY <1>1, <1>2, <1>4, <1>5, <1>8, CallKeeps

\* A job is not removed while its run is marked running.
LEMMA RemoveJobKeeps ==
  ASSUME Inv, NEW j \in Jobs, RemoveJob(j)
  PROVE  Inv' /\ Steady
<1> DEFINE q == [Blank EXCEPT !.life = "gone"]
           u == [World EXCEPT !.job[j] = q]
           w == IF job[j].active.phase = "queued" THEN CancelQueued(u, {j}) ELSE u
<1>1. /\ Call /\ job[j].life = "live" /\ job[j].active.phase # "running"
      /\ Becomes(w) /\ Arm(w)
      /\ UNCHANGED <<now, svc, locked, begun, swapped, faults, ends>>
  BY DEF RemoveJob, Upsert
<1>2. /\ run[j] \in Mem /\ SaneAt(World, j, swapped) /\ job[j] \in Rec /\ begun[j] \in Int
      /\ swapped \subseteq Jobs /\ Sound(job[j], run[j], begun[j], j, swapped)
  BY Parts, WorldParts DEF Sane, Inv, Scalars, SaneAt
<1>3. /\ NoTime \in Int /\ NoTime \in Span /\ NoRun \in Act
      /\ NoRun.sched = NoTime /\ NoRun.resume = NoTime /\ NoRun.trigger = "none"
  BY Parts, LimitTypes DEF NoTime, Span, NoRun, Act
<1>4. /\ q \in Rec /\ q.at = NoTime /\ q.life = "gone" /\ q.active = NoRun
      /\ q.pending = NoTime /\ q.next = NoTime /\ ~q.on
  BY <1>3 DEF Rec, Blank
<1> HIDE DEF q
<1>5. Sound(q, run[j], begun[j], j, swapped')
  <2>1. Ranged(q, run[j], begun[j])
    BY <1>2, <1>3, <1>4 DEF Sound, Ranged
  <2>2. Kept(q, run[j])
    BY <1>2, <1>4 DEF Sound, Kept, ActiveOK
  <2>3. Timed(q, run[j], begun[j])
    BY <1>2, <1>3, <1>4 DEF Sound, Timed, Unasked
  <2>4. Planned(q)
    BY <1>3, <1>4 DEF Planned, Recurs
  <2> QED
    BY <2>1, <2>2, <2>3, <2>4 DEF Sound
<1>6. /\ u \in Worlds /\ u.job = [job EXCEPT ![j] = q] /\ u.run = run
      /\ u.flight = flight
  BY <1>4, Parts, UpsertFacts
<1> HIDE DEF u
<1>7. w = CancelQueued(u, {j}) \/ w = u
  OBVIOUS
<1> HIDE DEF w
<1>8. /\ w \in Worlds /\ w.job = [job EXCEPT ![j] = q] /\ w.flight = flight
      /\ \A i \in Jobs \ {j} : w.run[i] = run[i]
      /\ Moved(run[j], w.run[j])
  BY <1>6, <1>7, CancelledFacts
<1>9. run[j].state = "executing" => job[j].active = NoRun
  BY <1>1, <1>2 DEF Sound, Kept
<1> QED
  BY <1>1, <1>2, <1>4, <1>5, <1>8, <1>9, CallKeeps

LEMMA CancelQueuedJobKeeps ==
  ASSUME Inv, NEW j \in Jobs, CancelQueuedJob(j)
  PROVE  Inv' /\ Steady
<1> DEFINE w == CancelQueued(World, {j})
<1>1. /\ Call /\ run[j].state = "queued" /\ Becomes(w)
      /\ UNCHANGED <<now, svc, locked, timer, begun, swapped, faults, ends>>
  BY DEF CancelQueuedJob
<1>2. /\ job[j] \in Rec /\ j \in flight /\ swapped \subseteq Jobs
      /\ Sound(job[j], run[j], begun[j], j, swapped)
      /\ job \in [Jobs -> Rec]
  BY <1>1, Parts, WorldParts DEF Sane, Inv, Scalars, SaneAt
<1>3. /\ w \in Worlds /\ w.job = job /\ w.flight = flight
      /\ \A i \in Jobs \ {j} : w.run[i] = run[i]
      /\ Moved(run[j], w.run[j])
  BY Parts, CancelledFacts
<1> HIDE DEF w
<1>4. w.job = [job EXCEPT ![j] = job[j]]
  BY <1>2, <1>3
<1> QED
  BY <1>1, <1>2, <1>3, <1>4, CallKeeps

\* A run by hand is an admission like the others.
LEMMA RunJobKeeps ==
  ASSUME Inv, NEW j \in Jobs, RunJob(j)
  PROVE  Inv' /\ Steady
<1> DEFINE a == Queued("manual", now, job[j].next)
<1>1. /\ Call /\ Accepting /\ job[j].life = "live"
      /\ job[j].active = NoRun /\ j \notin flight
      /\ UNCHANGED <<now, svc, locked, timer, begun, swapped, ends>>
      /\ \/ \E F \in Faulty : MarkFaults(Admit(World, j, a, F), F)
                              /\ Becomes(Admit(World, j, a, F))
         \/ /\ faults < MaxFaults /\ Quiet /\ faults' = faults + 1
            /\ Becomes(AdmitFails(World, j))
  BY DEF RunJob
<1>2. /\ run[j] \in Mem /\ job[j] \in Rec /\ begun[j] \in Int
      /\ Sound(job[j], run[j], begun[j], j, swapped)
      /\ calls' \in 0..MaxCalls /\ faults \in 0..MaxFaults
      /\ svc \in {"new", "running"}
  BY <1>1, Parts, WorldParts, LimitTypes DEF Sane, Inv, Scalars, SaneAt, Call, Accepting
<1>3. CASE \E F \in Faulty : MarkFaults(Admit(World, j, a, F), F)
                             /\ Becomes(Admit(World, j, a, F))
  <2>1. PICK F \in Faulty : MarkFaults(Admit(World, j, a, F), F)
                            /\ Becomes(Admit(World, j, a, F))
    BY <1>3
  <2> DEFINE w == Admit(World, j, a, F)
  <2>2. a \in Act
    BY <1>2, Parts DEF Queued, Act, Rec, Triggers
  <2>3. Admissible(World.job[j], a, begun[j], j, swapped)
    BY <1>1, <1>2, Parts, ManualAdmissible
  <2> HIDE DEF a
  <2>4. Turn(World, w, j, swapped)
    BY <2>2, <2>3, Parts, AdmitTurn
  <2>5. w.flight = flight \union {j}
    BY <1>1, <2>2, Parts, AdmitFacts
  <2>6. MarkFaults(w, F) /\ Becomes(w)
    BY <2>1
  <2> HIDE DEF w
  <2>7. Looped(World, w, {j}, swapped)
    <3>1. Looped(World, World, {j} \ {j}, swapped)
      BY Parts, NoTurnYet
    <3> QED
      BY <2>4, <3>1, Parts, TurnAgain
  <2>8. /\ faults' \in 0..MaxFaults
        /\ faults' = 0 => faults = 0
    BY <2>6, FaultyFacts DEF MarkFaults
  <2>9. Sane(w, swapped')
    BY <1>1, <2>7 DEF Looped
  <2>10. Intact(w, faults', svc')
    BY <1>1, <2>7, <2>8 DEF Inv, Intact, Looped
  <2>11. Pooled(w, svc')
    BY <1>1, <1>2, <2>7 DEF Inv, Pooled, PoolSound, Looped
  <2>12. Armed(w, svc', locked', timer', now)
    <3>1. \A i \in Eligible(w) \ w.flight : i \notin flight /\ w.job[i] = job[i]
      BY <2>5, <2>7, Parts DEF Looped, Same, Eligible, Live
    <3> QED
      BY <1>1, <3>1, StillArmed
  <2>13. Idle(w, svc')
    BY <1>1, <1>2 DEF Idle
  <2>14. Scalars'
    BY <1>1, <1>2, <2>8 DEF Inv, Scalars, Moments, NoTime
  <2>15. Inv'
    BY <1>1, <2>6, <2>9, <2>10, <2>11, <2>12, <2>13, <2>14, InvNext
  <2> QED
    BY <2>6, <2>7, <2>15, LoopedSteady
<1>4. CASE /\ faults < MaxFaults /\ Quiet /\ faults' = faults + 1
           /\ Becomes(AdmitFails(World, j))
  <2> DEFINE w == Claim(World, j)
  <2>1. Becomes(w)
    BY <1>4 DEF AdmitFails
  <2>2. /\ Sane(w, swapped') /\ Pooled(w, svc') /\ w.job = job /\ w.run = run
        /\ w.flight = flight \union {j}
    BY <1>1, Parts, ClaimSane, ClaimFacts DEF Inv
  <2> HIDE DEF w
  <2>3. faults' \in 0..MaxFaults /\ faults' # 0
    BY <1>2, <1>4, LimitTypes
  <2>4. Intact(w, faults', svc') /\ Idle(w, svc')
    BY <1>1, <1>2, <2>3 DEF Intact, Idle
  <2>5. Armed(w, svc', locked', timer', now)
    <3>1. \A i \in Eligible(w) \ w.flight : i \notin flight /\ w.job[i] = job[i]
      BY <2>2
    <3> QED
      BY <1>1, <3>1, StillArmed
  <2>6. Scalars'
    BY <1>1, <1>2, <2>3 DEF Inv, Scalars, Moments, NoTime
  <2>7. Inv'
    BY <1>1, <2>1, <2>2, <2>4, <2>5, <2>6, InvNext
  <2>8. Steady
    BY <2>1, <2>2 DEF Becomes, Steady, Recorded, Names
  <2> QED
    BY <2>7, <2>8
<1> QED
  BY <1>1, <1>3, <1>4

-----------------------------------------------------------------------------
\* Without runs there is nothing in the pool.
LEMMA EmptyPool ==
  ASSUME NEW w, \A i \in Jobs : w.run[i] = NotRunning
  PROVE  \A v : Pooled(w, v)
<1>1. NotRunning.state = "none"
  BY DEF NotRunning
<1>2. Active(w) = {} /\ Waiting(w) = {}
  BY <1>1 DEF Active, Waiting, InState, InPool
<1>3. Cardinality({}) = 0
  BY FS_EmptySet
<1> QED
  BY <1>2, <1>3, LimitTypes DEF Pooled, Limits, Served

\* A stop cancels what is queued and aborts what runs.
LEMMA StopKeeps ==
  ASSUME Inv, Stop
  PROVE  Inv' /\ Steady
<1> DEFINE c == CancelQueued(World, Jobs)
           f == [j \in Jobs |-> [c.run[j] EXCEPT !.aborted = @ \/ c.run[j].state \in InPool]]
           w == [c EXCEPT !.run = f]
<1>1. /\ Accepting /\ ends < MaxEnds /\ ends' = ends + 1
      /\ svc' = "stopping" /\ locked' = FALSE /\ timer' = NoTime
      /\ Becomes(w)
      /\ UNCHANGED <<now, begun, swapped, calls, faults>>
  BY DEF Stop
<1>2. /\ c \in Worlds /\ c.job = job /\ c.flight = flight
      /\ \A i \in Jobs : c.run[i] = IF i \in Jobs /\ run[i].state = "queued"
                                    THEN [run[i] EXCEPT !.state = "settled"]
                                    ELSE run[i]
  BY Parts, CancelFacts
<1> HIDE DEF c
<1>3. ASSUME NEW i \in Jobs
      PROVE  /\ f[i] \in Mem /\ f[i].trigger = run[i].trigger /\ f[i].sched = run[i].sched
             /\ run[i].state = "queued" => f[i].state = "settled"
             /\ run[i].state # "queued" => f[i].state = run[i].state
             /\ run[i].state = "none" => f[i] = NotRunning
  <2>1. /\ run[i] \in Mem /\ c.run[i] \in Mem
        /\ Sound(job[i], run[i], begun[i], i, swapped)
    BY <1>2, Parts, WorldParts DEF Sane, SaneAt
  <2>2. /\ c.run[i].trigger = run[i].trigger /\ c.run[i].sched = run[i].sched
        /\ run[i].state = "queued" => c.run[i].state = "settled"
        /\ run[i].state # "queued" => c.run[i] = run[i]
    BY <1>2, <2>1 DEF Mem
  <2>3. f[i] = [c.run[i] EXCEPT !.aborted = c.run[i].aborted \/ c.run[i].state \in InPool]
    OBVIOUS
  <2> HIDE DEF f
  <2>4. \A m \in Mem, b \in BOOLEAN :
          LET n == [m EXCEPT !.aborted = b]
          IN  n \in Mem /\ n.trigger = m.trigger /\ n.sched = m.sched /\ n.state = m.state
    BY DEF Mem
  <2>5. /\ f[i] \in Mem /\ f[i].trigger = c.run[i].trigger /\ f[i].sched = c.run[i].sched
        /\ f[i].state = c.run[i].state
    <3>1. (c.run[i].aborted \/ c.run[i].state \in InPool) \in BOOLEAN
      OBVIOUS
    <3> QED
      BY <2>1, <2>3, <2>4, <3>1
  <2>6. run[i].state = "none" => f[i] = NotRunning
    <3> SUFFICES ASSUME run[i].state = "none"
                 PROVE  f[i] = NotRunning
      OBVIOUS
    <3>1. c.run[i] = NotRunning
      BY <2>1, <2>2 DEF Sound, Kept
    <3>2. NotRunning.aborted = FALSE /\ NotRunning.state \notin InPool
      BY DEF NotRunning, InPool
    <3>3. (c.run[i].aborted \/ c.run[i].state \in InPool) = FALSE
      BY <3>1, <3>2
    <3>4. f[i] = [NotRunning EXCEPT !.aborted = FALSE]
      BY <2>3, <3>1, <3>3
    <3> QED
      BY <3>4 DEF NotRunning
  <2> QED
    BY <2>2, <2>5, <2>6
<1>4. f \in [Jobs -> Mem]
  BY <1>3
<1> HIDE DEF f
<1>5. w \in Worlds /\ w.job = job /\ w.flight = flight /\ w.run = f
  <2> HIDE DEF Rec, Mem
  <2> QED
    BY <1>2, <1>4 DEF Worlds
<1> HIDE DEF w
<1>6. Sane(w, swapped')
  <2> SUFFICES ASSUME NEW i \in Jobs
               PROVE  SaneAt(w, i, swapped)
    BY <1>1, <1>5 DEF Sane
  <2>1. /\ run[i] \in Mem /\ job[i] \in Rec /\ begun[i] \in Int
        /\ SaneAt(World, i, swapped) /\ Sound(job[i], run[i], begun[i], i, swapped)
    BY Parts, WorldParts DEF Sane, SaneAt
  <2>2. Sound(job[i], f[i], begun[i], i, swapped)
    <3>1. CASE run[i].state = "none"
      BY <1>3, <2>1, <3>1, Parts, GoneSound
    <3>2. CASE run[i].state # "none"
      <4>1. f[i].state \in {run[i].state, "settled", "ended"}
        BY <1>3
      <4> QED
        BY <1>3, <2>1, <3>2, <4>1, Parts, RunMoves
    <3> QED
      BY <3>1, <3>2
  <2>3. f[i].state # "none" => i \in flight
    <3>1. run[i].state # "none" => i \in flight
      BY <2>1, Parts DEF SaneAt
    <3> QED
      BY <1>3, <3>1
  <2> QED
    BY <1>5, <2>2, <2>3 DEF SaneAt
<1>7. Pooled(w, svc')
  <2>1. Active(w) \subseteq Active(World) /\ Waiting(w) = {}
    BY <1>3, <1>5, Parts DEF Active, Waiting, InState, InPool
  <2>2. Limits(w) /\ Cardinality(Waiting(w)) = 0
    BY <2>1, LimitsShrink, FS_EmptySet DEF Inv, Pooled
  <2> QED
    BY <1>1, <2>1, <2>2, LimitTypes DEF Pooled, Served
<1>8. Intact(w, faults', svc')
  <2>1. Ample(World) => Ample(w)
    BY <1>3, <1>5, Parts DEF Ample, Held
  <2> QED
    BY <1>1, <2>1 DEF Inv, Intact
<1>9. Idle(w, svc') /\ Armed(w, svc', locked', timer', now)
  BY <1>1 DEF Idle, Armed
<1>10. Scalars'
  <2>1. NoTime \in Moments
    BY LimitTypes DEF Moments, NoTime
  <2>2. ends' \in 0..MaxEnds
    BY <1>1, LimitTypes DEF Inv, Scalars
  <2> QED
    BY <1>1, <2>1, <2>2 DEF Inv, Scalars
<1>11. Inv'
  BY <1>1, <1>6, <1>7, <1>8, <1>9, <1>10, InvNext
<1>12. Steady
  BY <1>1, <1>3, <1>5 DEF Becomes, Steady, Accepting
<1> QED
  BY <1>11, <1>12

\* The last run has left.
LEMMA DrainedKeeps ==
  ASSUME Inv, Drained
  PROVE  Inv' /\ Steady
<1>1. /\ svc = "stopping" /\ svc' = "stopped" /\ \A j \in Jobs : run[j] = NotRunning
      /\ UNCHANGED <<now, job, locked, timer, run, flight, begun, swapped, counts>>
  BY DEF Drained
<1>2. Becomes(World) /\ Sane(World, swapped')
  BY <1>1, Parts DEF Becomes
<1>3. Pooled(World, svc') /\ Idle(World, svc')
  BY <1>1, Parts, EmptyPool DEF Idle
<1>4. Intact(World, faults', svc') /\ Armed(World, svc', locked', timer', now)
  BY <1>1 DEF Inv, Intact, Armed, counts
<1>5. Scalars'
  BY <1>1 DEF Inv, Scalars, Moments, NoTime, counts
<1>6. Inv'
  BY <1>1, <1>2, <1>3, <1>4, <1>5, InvNext
<1>7. Steady
  BY <1>1 DEF Steady
<1> QED
  BY <1>6, <1>7

\* The store survives the process: the records alone are sound.
LEMMA CrashKeeps ==
  ASSUME Inv, Crash
  PROVE  Inv' /\ Steady
<1> DEFINE f == [j \in Jobs |-> NotRunning]
           w == [job |-> job, run |-> f, flight |-> {}]
<1>1. /\ ends < MaxEnds /\ ends' = ends + 1
      /\ svc' = "new" /\ locked' = FALSE /\ timer' = NoTime
      /\ run' = f /\ flight' = {}
      /\ UNCHANGED <<now, job, begun, swapped, calls, faults>>
  BY DEF Crash
<1>2. NotRunning \in Mem /\ NotRunning.state = "none"
  BY DEF NotRunning, Mem, States, NoTime
<1>3. f \in [Jobs -> Mem] /\ \A i \in Jobs : f[i] = NotRunning
  BY <1>2
<1> HIDE DEF f
<1>4. job \in [Jobs -> Rec]
  BY Parts, WorldParts
<1>5. w \in Worlds /\ w.job = job /\ w.run = f /\ w.flight = {}
  <2> HIDE DEF Rec, Mem
  <2> QED
    BY <1>3, <1>4 DEF Worlds
<1>6. Becomes(w)
  BY <1>1, <1>5 DEF Becomes
<1> HIDE DEF w
<1>7. Sane(w, swapped')
  <2>1. ASSUME NEW i \in Jobs
        PROVE  SaneAt(w, i, swapped)
    <3>1. /\ run[i] \in Mem /\ job[i] \in Rec /\ begun[i] \in Int
          /\ Sound(job[i], run[i], begun[i], i, swapped)
      BY Parts, WorldParts DEF Sane, SaneAt
    <3>2. Sound(job[i], NotRunning, begun[i], i, swapped)
      BY <3>1, Parts, GoneSound
    <3> QED
      BY <1>2, <1>3, <1>5, <3>2 DEF SaneAt
  <2> QED
    BY <1>1, <1>5, <2>1 DEF Sane
<1>8. Pooled(w, svc')
  BY <1>3, <1>5, EmptyPool
<1>9. Intact(w, faults', svc')
  BY <1>1, <1>2, <1>3, <1>5 DEF Intact, Ample, Held
<1>10. Idle(w, svc') /\ Armed(w, svc', locked', timer', now)
  BY <1>1 DEF Idle, Armed
<1>11. Scalars'
  <2>1. NoTime \in Moments
    BY LimitTypes DEF Moments, NoTime
  <2>2. ends' \in 0..MaxEnds
    BY <1>1, LimitTypes DEF Inv, Scalars
  <2> QED
    BY <1>1, <2>1, <2>2 DEF Inv, Scalars
<1>12. Inv'
  BY <1>1, <1>6, <1>7, <1>8, <1>9, <1>10, <1>11, InvNext
<1>13. Steady
  BY <1>1, <1>2, <1>3 DEF Steady
<1> QED
  BY <1>12, <1>13

\* A step of nothing.
LEMMA StaysKeeps ==
  ASSUME Inv, UNCHANGED vars
  PROVE  Inv' /\ Steady
<1>1. /\ UNCHANGED <<now, job, svc, locked, timer, run, flight, begun, swapped>>
      /\ UNCHANGED <<calls, faults, ends>>
  BY DEF vars, counts
<1>2. Becomes(World) /\ Sane(World, swapped') /\ Scalars'
  BY <1>1, Parts DEF Becomes, Inv, Scalars, Moments, NoTime
<1>3. /\ Intact(World, faults', svc') /\ Idle(World, svc') /\ Pooled(World, svc')
      /\ Armed(World, svc', locked', timer', now)
  BY <1>1 DEF Inv
<1>4. Inv'
  BY <1>1, <1>2, <1>3, InvNext
<1>5. Steady
  BY <1>1 DEF Steady, Recorded, Names
<1> QED
  BY <1>4, <1>5

\* Time takes nothing from a job.
LEMMA SoundLater ==
  ASSUME NEW r \in Rec, NEW m \in Mem, NEW b \in Int, NEW k, NEW X, now \in Nat,
         now' = now + 1, Sound(r, m, b, k, X)
  PROVE  Sound(r, m, b, k, X)'
<1>1. r.at \in Int /\ r.next \in Int /\ r.pending \in Int /\ m.sched \in Int
      /\ r.active.sched \in Int /\ r.active.resume \in Int
  BY DEF Rec, Mem, Act
<1>2. Ranged(r, m, b)'
  BY LimitTypes DEF Sound, Ranged, Span, NoTime
<1>3. Kept(r, m)'
  BY DEF Sound, Kept, ActiveOK, NoRun, NoTime, NotRunning, Names
<1>4. Timed(r, m, b)'
  BY <1>1 DEF Sound, Timed, Unasked, NoTime
<1>5. (k \notin X => Planned(r))'
  BY <1>1 DEF Sound, Planned, Recurs, NoTime, NoRun
<1> QED
  BY <1>2, <1>3, <1>4, <1>5 DEF Sound

\* And the timer is still not later than the next job is due.
LEMMA ClockKeeps ==
  ASSUME Inv, ClockAdvances
  PROVE  Inv' /\ Steady
<1>1. /\ now < MaxTime /\ now' = now + 1
      /\ UNCHANGED <<job, svc, locked, timer, run, flight, begun, swapped>>
      /\ UNCHANGED <<calls, faults, ends>>
  BY DEF ClockAdvances, counts
<1>2. World' = World
  BY <1>1 DEF World
<1>3. Scalars'
  BY <1>1, LimitTypes DEF Inv, Scalars, Moments, NoTime
<1>4. Sane(World, swapped)'
  <2>1. ASSUME NEW j \in Jobs
        PROVE  SaneAt(World, j, swapped)'
    <3>1. /\ run[j] \in Mem /\ job[j] \in Rec /\ begun[j] \in Int
          /\ Sound(job[j], run[j], begun[j], j, swapped)
          /\ run[j].state # "none" => j \in flight
      BY Parts, WorldParts DEF Sane, SaneAt
    <3>2. Sound(job[j], run[j], begun[j], j, swapped)'
      BY <1>1, <3>1, Parts, SoundLater
    <3> QED
      BY <1>1, <3>1, <3>2, Parts DEF SaneAt, World
  <2>2. World' \in Worlds
    BY <1>2, Parts
  <2> QED
    BY <2>1, <2>2 DEF Sane, Worlds, Rec, Mem, Act, Triggers, States, InPool
<1>5. Intact(World, faults, svc)'
  BY <1>1, <1>2 DEF Inv, Intact, Ample, Held, Lost, NoRun, NoTime
<1>6. Idle(World, svc)'
  BY <1>1, <1>2 DEF Inv, Idle, NotRunning, NoTime
<1>7. Pooled(World, svc)'
  BY <1>1, <1>2 DEF Inv, Pooled, Limits, Active, Peers, Waiting, Served, HasRoom,
                    InState, InPool
<1>8. Armed(World, svc, locked, timer, now)'
  <2> SUFFICES ASSUME svc = "running" /\ locked
               PROVE  WakesAll(World, timer, now)'
    BY <1>1 DEF Armed
  <2>1. timer # NoTime /\ \A j \in Eligible(World) \ flight : timer <= Max({now, job[j].next})
    BY Parts DEF Inv, Armed, WakesAll
  <2>2. \A j \in Eligible(World) \ flight : timer <= Max({now + 1, job[j].next})
    <3> TAKE j \in Eligible(World) \ flight
    <3>1. job[j].next \in Int /\ j \in Jobs /\ timer \in Int
      BY Parts, WorldParts, LimitTypes
         DEF Eligible, Live, Rec, Inv, Scalars, Moments, NoTime
    <3>2. Max({now, job[j].next}) = IF now >= job[j].next THEN now ELSE job[j].next
      BY <3>1, Parts, MaxOfTwo
    <3>3. Max({now + 1, job[j].next}) = IF now + 1 >= job[j].next THEN now + 1
                                                                ELSE job[j].next
      <4>1. now + 1 \in Int
        BY Parts
      <4> QED
        BY <3>1, <4>1, MaxOfTwo
    <3> QED
      BY <2>1, <3>1, <3>2, <3>3, Parts
  <2>3. Eligible(World)' = Eligible(World)
    BY <1>2 DEF Eligible, Live, NoRun, NoTime
  <2> QED
    BY <1>1, <1>2, <2>1, <2>2, <2>3, Parts DEF WakesAll, Max, NoTime
<1>9. Inv'
  BY <1>3, <1>4, <1>5, <1>6, <1>7, <1>8 DEF Inv
<1>10. Steady
  BY <1>1 DEF Steady, Recorded, Names
<1> QED
  BY <1>9, <1>10

\* The first state.
LEMMA InitInv ==
  ASSUME Init
  PROVE  Inv
<1> DEFINE first(j) == IF j \in Known THEN [Fresh EXCEPT !.next = 1] ELSE Blank
<1>1. /\ now = 0 /\ svc = "new" /\ locked = FALSE /\ timer = NoTime
      /\ job = [j \in Jobs |-> first(j)]
      /\ run = [j \in Jobs |-> NotRunning]
      /\ flight = {} /\ swapped = {}
      /\ begun = [j \in Jobs |-> NoTime]
      /\ calls = 0 /\ faults = 0 /\ ends = 0
  BY DEF Init
<1>2. /\ NoTime \in Int /\ NoTime \in Span /\ NoRun \in Act /\ 1 \in Span
      /\ NoRun.sched = NoTime /\ NoRun.resume = NoTime /\ NoRun.trigger = "none"
      /\ NotRunning \in Mem /\ NotRunning.state = "none" /\ NotRunning.sched = NoTime
  BY <1>1, LimitTypes DEF NoTime, Span, NoRun, Act, NotRunning, Mem, States
<1>3. /\ Blank \in Rec /\ Blank.life = "none" /\ ~Blank.on /\ Blank.at = NoTime
      /\ Blank.next = NoTime /\ Blank.active = NoRun /\ Blank.pending = NoTime
  BY <1>2 DEF Blank, Rec
<1>4. /\ Fresh \in Rec /\ Fresh.life = "live" /\ Fresh.on /\ Fresh.at = NoTime
      /\ Fresh.active = NoRun /\ Fresh.pending = NoTime
  BY <1>3 DEF Fresh, Rec
<1>5. \A j \in Jobs : /\ first(j) \in Rec /\ first(j).at = NoTime
                      /\ first(j).active = NoRun /\ first(j).pending = NoTime
                      /\ \/ first(j).life = "none" /\ first(j).next = NoTime /\ ~first(j).on
                         \/ first(j).life = "live" /\ first(j).next = 1
  BY <1>3, <1>4 DEF Rec
<1> HIDE DEF first
<1>6. \A j \in Jobs : Sound(first(j), NotRunning, NoTime, j, {})
  <2> TAKE j \in Jobs
  <2>1. Ranged(first(j), NotRunning, NoTime)
    BY <1>2, <1>5 DEF Ranged
  <2>2. Kept(first(j), NotRunning)
    BY <1>2, <1>5 DEF Kept, ActiveOK
  <2>3. Timed(first(j), NotRunning, NoTime)
    BY <1>1, <1>2, <1>5 DEF Timed, Unasked, NoTime
  <2>4. Planned(first(j))
    BY <1>2, <1>5 DEF Planned, Recurs, NoTime
  <2> QED
    BY <2>1, <2>2, <2>3, <2>4 DEF Sound
<1>7. World.job = job /\ World.run = run /\ World.flight = flight
  BY DEF World
<1>8. World \in Worlds
  <2>1. job \in [Jobs -> Rec] /\ run \in [Jobs -> Mem] /\ flight \in SUBSET Jobs
    BY <1>1, <1>2, <1>5
  <2> HIDE DEF Rec, Mem
  <2> QED
    BY <2>1 DEF Worlds, World
<1>9. \A j \in Jobs : job[j] = first(j) /\ run[j] = NotRunning /\ begun[j] = NoTime
  BY <1>1
<1>10. Sane(World, swapped)
  BY <1>1, <1>2, <1>6, <1>7, <1>8, <1>9 DEF Sane, SaneAt
<1>11. Scalars
  <2>1. NoTime \in Moments
    BY LimitTypes DEF Moments, NoTime
  <2>2. begun \in [Jobs -> Int]
    BY <1>1, <1>2
  <2>3. 0 \in 0..MaxTime /\ 0 \in 0..MaxCalls /\ 0 \in 0..MaxFaults /\ 0 \in 0..MaxEnds
    BY LimitTypes
  <2> QED
    BY <1>1, <2>1, <2>2, <2>3 DEF Scalars
<1>12. Pooled(World, svc)
  BY <1>7, <1>9, EmptyPool
<1>13. Intact(World, faults, svc)
  BY <1>1, <1>2, <1>7, <1>9 DEF Intact, Ample, Held
<1>14. Idle(World, svc) /\ Armed(World, svc, locked, timer, now)
  BY <1>1 DEF Idle, Armed
<1> QED
  BY <1>10, <1>11, <1>12, <1>13, <1>14 DEF Inv

-----------------------------------------------------------------------------
\* A job that has no time at all, and is given one by the start.
Unset(r) == r.active = NoRun /\ r.pending = NoTime /\ r.next = NoTime

\* A job as the start finds it; Y is swapped as the start leaves it.
Found(r, m, b, k, Y) ==
  Ranged(r, m, b) /\ Kept(r, m) /\ Timed(r, m, b)
  /\ (k \notin Y => Planned(r) \/ Unset(r))

\* registerSystemJobs.
LEMMA RegisteredFound ==
  ASSUME NEW r \in Rec, NEW m \in Mem, NEW b \in Int, NEW k, NEW Y, now \in Nat,
         Found(r, m, b, k, Y)
  PROVE  /\ Registered(k, r) \in Rec /\ Found(Registered(k, r), m, b, k, Y)
         /\ Registered(k, r).active \in {NoRun, r.active}
<1>1. Sound(r, m, b, k, {k})
  BY DEF Found, Sound
<1>2. /\ NoTime \in Int /\ NoTime \in Span /\ NoRun \in Act
  BY LimitTypes DEF NoTime, Span, NoRun, Act
<1>3. /\ Fresh \in Rec /\ Fresh.life = "live" /\ Fresh.at = NoTime
      /\ Fresh.active = NoRun /\ Fresh.pending = NoTime
  <2>1. Blank \in Rec /\ Blank.active = NoRun /\ Blank.pending = NoTime
        /\ Blank.at = NoTime
    BY <1>2 DEF Blank, Rec
  <2> QED
    BY <2>1 DEF Fresh, Rec
<1>4. \A x \in Rec :
        LET q == [x EXCEPT !.next = ComputeNext(x)]
        IN  /\ q \in Rec /\ q.next = ComputeNext(q) /\ q.life = x.life /\ q.at = x.at
            /\ q.active = x.active /\ q.pending = x.pending
  <2> TAKE x \in Rec
  <2> DEFINE n == ComputeNext(x)
             q == [x EXCEPT !.next = n]
  <2>1. n \in Int
    BY NextComputed
  <2> HIDE DEF n
  <2>2. /\ q \in Rec /\ q.next = n /\ q.life = x.life /\ q.at = x.at
        /\ q.active = x.active /\ q.pending = x.pending
    BY <2>1 DEF Rec
  <2> HIDE DEF q
  <2>3. ComputeNext(q) = n
    BY <2>2 DEF n, ComputeNext, Recurs
  <2> QED
    BY <2>2, <2>3 DEF q, n
<1>5. ASSUME NEW q \in Rec, q.life = "live", q.active = NoRun, q.at \in Span,
             q.pending \in {NoTime, r.pending}, q.next = ComputeNext(q)
      PROVE  Found(q, m, b, k, Y)
  <2>1. Sound(q, m, b, k, {})
    BY <1>1, <1>5, PlannedSound
  <2> QED
    BY <2>1 DEF Sound, Found
<1>6. CASE k \in System /\ r.life = "none"
  <2>1. Registered(k, r) = [Fresh EXCEPT !.next = ComputeNext(Fresh)]
    BY <1>6 DEF Registered
  <2> QED
    BY <1>2, <1>3, <1>4, <1>5, <2>1
<1>7. CASE /\ k \in System /\ r.life # "none"
           /\ r.on /\ r.active = NoRun /\ r.pending = NoTime /\ r.next = NoTime
  <2>1. Registered(k, r) = [r EXCEPT !.next = ComputeNext(r)]
    BY <1>7 DEF Registered
  <2>2. r.life = "live" /\ r.at \in Span
    BY <1>7 DEF Found, Kept, Ranged
  <2> QED
    BY <1>4, <1>5, <1>7, <2>1, <2>2
<1>8. CASE ~(k \in System /\ r.life = "none")
           /\ ~(/\ k \in System /\ r.life # "none"
                /\ r.on /\ r.active = NoRun /\ r.pending = NoTime /\ r.next = NoTime)
  <2>1. Registered(k, r) = r
    BY <1>8 DEF Registered
  <2> QED
    BY <2>1
<1> QED
  BY <1>6, <1>7, <1>8

\* reconcileStartup of one job, whatever run of it is in memory.
LEMMA ReconciledFound ==
  ASSUME NEW r \in Rec, NEW m \in Mem, NEW b \in Int, NEW k, NEW Y, now \in Nat,
         Found(r, m, b, k, Y), NEW policy
  PROVE  /\ Reconciled(r, policy) \in Rec
         /\ Sound(Reconciled(r, policy), m, b, k, Y)
         /\ Reconciled(r, policy).active \in {NoRun, r.active}
         /\ \/ Reconciled(r, policy).active = NoRun
            \/ Reconciled(r, policy).active.phase = "queued"
<1> DEFINE q == Reconciled(r, policy)
           d == Decision(r, policy)
           clear == [r EXCEPT !.active = NoRun, !.pending = NoTime]
<1>1. /\ NoTime \in Int /\ NoTime \in Span /\ NoRun \in Act /\ NoRun.phase = "none"
      /\ NoRun.sched = NoTime /\ NoRun.resume = NoTime /\ NoRun.trigger = "none"
  BY LimitTypes DEF NoTime, Span, NoRun, Act
<1>2. /\ r.next \in Int /\ r.at \in Int /\ r.pending \in Int
      /\ r.active.resume \in Int /\ r.active.sched \in Int /\ m.sched \in Int
  BY DEF Rec, Act, Mem
<1>3. /\ Ranged(r, m, b) /\ Kept(r, m) /\ Timed(r, m, b)
      /\ k \notin Y => Planned(r) \/ Unset(r)
  BY DEF Found
<1>4. r.active = NoRun \/ r.active.phase \in {"queued", "running"}
  BY <1>3 DEF Kept, ActiveOK
<1>5. CASE r.life # "live"
  <2>1. q = r
    BY <1>5 DEF Reconciled
  <2>2. Planned(r) /\ r.active = NoRun
    BY <1>1, <1>3, <1>5 DEF Kept, Planned
  <2> QED
    BY <1>3, <2>1, <2>2 DEF Sound
<1>6. CASE r.life = "live" /\ r.active.phase = "running"
  <2>1. q = [clear EXCEPT !.next = IF r.on THEN r.active.resume ELSE NoTime]
    BY <1>6 DEF Reconciled
  <2>2. /\ q \in Rec /\ q.active = NoRun /\ q.pending = NoTime /\ q.life = "live"
        /\ q.on = r.on /\ q.at = r.at
        /\ q.next = IF r.on THEN r.active.resume ELSE NoTime
    BY <1>1, <1>2, <1>6, <2>1 DEF Rec
  <2> HIDE DEF q
  <2>3. Ranged(q, m, b)
    BY <1>1, <1>3, <2>2 DEF Ranged
  <2>4. Kept(q, m)
    BY <1>3, <2>2 DEF Kept, ActiveOK
  <2>5. Timed(q, m, b)
    BY <1>1, <1>3, <2>2 DEF Timed, Unasked
  <2>6. k \notin Y => Planned(q)
    BY <1>1, <1>3, <1>6, <2>2 DEF Planned, Recurs, Unset
  <2> QED
    BY <2>2, <2>3, <2>4, <2>5, <2>6 DEF Sound, q
<1>7. CASE r.life = "live" /\ r.active.phase = "queued" /\ r.on
  <2>1. q = r
    BY <1>7 DEF Reconciled
  <2>2. k \notin Y => Planned(r)
    BY <1>1, <1>3, <1>7 DEF Unset
  <2> QED
    BY <1>3, <1>7, <2>1, <2>2 DEF Sound
<1>8. CASE r.life = "live" /\ r.active.phase = "queued" /\ ~r.on
  <2>1. q = [clear EXCEPT !.next = NoTime]
    BY <1>8 DEF Reconciled
  <2>2. /\ q \in Rec /\ q.active = NoRun /\ q.pending = NoTime /\ q.life = "live"
        /\ q.on = r.on /\ q.at = r.at /\ q.next = NoTime
    BY <1>1, <1>2, <1>8, <2>1 DEF Rec
  <2> HIDE DEF q
  <2>3. Ranged(q, m, b)
    BY <1>1, <1>3, <2>2 DEF Ranged
  <2>4. Kept(q, m)
    BY <1>3, <2>2 DEF Kept, ActiveOK
  <2>5. Timed(q, m, b)
    BY <1>1, <1>3, <2>2 DEF Timed, Unasked
  <2>6. Planned(q)
    BY <1>1, <1>8, <2>2 DEF Planned
  <2> QED
    BY <2>2, <2>3, <2>4, <2>5, <2>6 DEF Sound, q
<1>9. CASE r.life = "live" /\ r.active = NoRun /\ ~r.on
  <2>1. q = [r EXCEPT !.next = NoTime]
    BY <1>1, <1>9 DEF Reconciled
  <2>2. /\ q \in Rec /\ q.active = NoRun /\ q.pending = r.pending /\ q.life = "live"
        /\ q.on = r.on /\ q.at = r.at /\ q.next = NoTime
    BY <1>1, <1>2, <1>9, <2>1 DEF Rec
  <2> HIDE DEF q
  <2>3. Ranged(q, m, b)
    BY <1>1, <1>3, <2>2 DEF Ranged
  <2>4. Kept(q, m)
    BY <1>3, <2>2 DEF Kept, ActiveOK
  <2>5. Timed(q, m, b)
    BY <1>1, <1>3, <2>2 DEF Timed, Unasked
  <2>6. Planned(q)
    BY <1>1, <1>9, <2>2 DEF Planned
  <2> QED
    BY <2>2, <2>3, <2>4, <2>5, <2>6 DEF Sound, q
<1>10. CASE r.life = "live" /\ r.active = NoRun /\ r.on /\ r.pending # NoTime
  <2>1. q = r
    BY <1>1, <1>10 DEF Reconciled
  <2>2. k \notin Y => Planned(r)
    BY <1>3, <1>10 DEF Unset
  <2> QED
    BY <1>3, <1>10, <2>1, <2>2 DEF Sound
<1>11. CASE r.life = "live" /\ r.active = NoRun /\ r.on /\ r.pending = NoTime
  <2> DEFINE missed == r.next # NoTime /\ r.next < now
  <2>1. /\ d.sched \in Int /\ d.next \in Int
        /\ d.kind \in {"none", "skip", "queue"}
        /\ missed => /\ d.kind \in {"skip", "queue"}
                     /\ r.next <= d.sched /\ d.sched <= now
                     /\ d.next = NextFuture(r, r.next)
        /\ ~missed => /\ d.kind = "none"
                      /\ d.next = IF r.next = NoTime THEN ComputeNext(r) ELSE r.next
    BY Decided
  <2>2. /\ ComputeNext(r) # NoTime => ComputeNext(r) > now
        /\ Recurs(r) => ComputeNext(r) = now + Interval
        /\ ~Recurs(r) => ComputeNext(r) = IF r.at > now THEN r.at ELSE NoTime
        /\ Recurs(r) \/ r.at > now => ComputeNext(r) # NoTime
    BY NextComputed
  <2>3. /\ NextFuture(r, r.next) \in Int
        /\ ~Recurs(r) => NextFuture(r, r.next) = NoTime
        /\ Recurs(r) /\ r.next <= now => now < NextFuture(r, r.next)
                                         /\ NextFuture(r, r.next) <= now + Interval
    BY <1>2, Times
  <2>4. CASE ~missed
    <3>1. q = [r EXCEPT !.next = d.next]
      BY <1>1, <1>11, <2>1, <2>4 DEF Reconciled
    <3> HIDE DEF d
    <3>2. /\ q \in Rec /\ q.active = NoRun /\ q.pending = NoTime /\ q.life = "live"
          /\ q.on /\ q.at = r.at /\ q.next = d.next
      BY <1>1, <1>2, <1>11, <2>1, <3>1 DEF Rec
    <3> HIDE DEF q
    <3>3. CASE r.next = NoTime
      <4>1. q.next = ComputeNext(q)
        BY <2>1, <2>4, <3>2, <3>3 DEF ComputeNext, Recurs
      <4>2. Sound(r, m, b, k, {k}) /\ q.at \in Span
        BY <1>3, <3>2 DEF Sound, Ranged
      <4>3. Sound(q, m, b, k, Y)
        BY <3>2, <4>1, <4>2, PlannedSound
      <4> QED
        BY <3>2, <4>3 DEF q
    <3>4. CASE r.next # NoTime
      <4>1. q = r
        BY <2>1, <2>4, <3>1, <3>4 DEF Rec, q
      <4>2. k \notin Y => Planned(r)
        BY <1>3, <3>4 DEF Unset
      <4> QED
        BY <1>3, <1>11, <4>1, <4>2 DEF Sound, q
    <3> QED
      BY <3>3, <3>4
  <2>5. CASE missed /\ d.kind = "skip"
    <3>1. q = [r EXCEPT !.next = d.next, !.on = Recurs(r)]
      BY <1>1, <1>11, <2>5 DEF Reconciled
    <3> HIDE DEF d
    <3>2. Recurs(r) \in BOOLEAN
      BY DEF Recurs
    <3>3. /\ q \in Rec /\ q.active = NoRun /\ q.pending = NoTime /\ q.life = "live"
          /\ q.on = Recurs(r) /\ q.at = r.at /\ q.next = NextFuture(r, r.next)
      BY <1>1, <1>2, <1>11, <2>1, <2>5, <3>1, <3>2 DEF Rec
    <3> HIDE DEF q
    <3>4. Recurs(r) => now < q.next /\ q.next <= now + Interval
      BY <1>2, <2>3, <2>5, <3>3
    <3>5. q.next \in Int /\ (~Recurs(r) => q.next = NoTime) /\ (Recurs(q) <=> Recurs(r))
      BY <2>3, <3>3 DEF Recurs
    <3>6. Ranged(q, m, b)
      BY <1>1, <1>3, <3>3, <3>4, <3>5, LimitTypes DEF Ranged, Span, NoTime
    <3>7. Kept(q, m)
      BY <1>3, <3>3 DEF Kept, ActiveOK
    <3>8. Timed(q, m, b)
      BY <1>1, <1>2, <1>3, <3>3, <3>4, <3>5 DEF Timed, Unasked
    <3>9. Planned(q)
      <4>1. Recurs(q) => q.next # NoTime
        BY <3>4, <3>5 DEF NoTime
      <4> QED
        BY <1>1, <3>3, <3>5, <4>1 DEF Planned
    <3> QED
      BY <3>3, <3>6, <3>7, <3>8, <3>9 DEF Sound, q
  <2>6. CASE missed /\ d.kind = "queue"
    <3>1. q = [r EXCEPT !.next = d.next, !.pending = d.sched]
      BY <1>1, <1>11, <2>6 DEF Reconciled
    <3> HIDE DEF d
    <3>3. /\ q \in Rec /\ q.active = NoRun /\ q.pending = d.sched /\ q.life = "live"
          /\ q.on /\ q.at = r.at /\ q.next = NextFuture(r, r.next)
      BY <1>1, <1>2, <1>11, <2>1, <2>6, <3>1 DEF Rec
    <3> HIDE DEF q
    <3>4. Recurs(r) => now < q.next /\ q.next <= now + Interval
      BY <1>2, <2>3, <2>6, <3>3
    <3>5. q.next \in Int /\ (~Recurs(r) => q.next = NoTime) /\ (Recurs(q) <=> Recurs(r))
      BY <2>3, <3>3 DEF Recurs
    <3>6. r.next <= q.pending /\ q.pending <= now /\ q.pending \in Int
      BY <2>1, <2>6, <3>3
    <3>7. Ranged(q, m, b)
      BY <1>1, <1>2, <1>3, <3>3, <3>4, <3>5, <3>6, LimitTypes DEF Ranged, Span, NoTime
    <3>8. Kept(q, m)
      BY <1>3, <3>3 DEF Kept, ActiveOK
    <3>9. Timed(q, m, b)
      BY <1>1, <1>2, <1>3, <2>6, <3>3, <3>4, <3>5, <3>6 DEF Timed, Unasked
    <3>10. k \notin Y => Planned(q)
      <4>1. Recurs(q) => q.next # NoTime
        BY <3>4, <3>5 DEF NoTime
      <4>2. k \notin Y => Planned(r)
        BY <1>3, <2>6 DEF Unset
      <4>3. k \notin Y /\ ~Recurs(r) => r.next = r.at
        BY <2>6, <4>2 DEF Planned
      <4> QED
        BY <1>1, <1>2, <2>6, <3>3, <3>5, <4>1, <4>3 DEF Planned
    <3> QED
      BY <3>3, <3>7, <3>8, <3>9, <3>10 DEF Sound, q
  <2> QED
    BY <2>1, <2>4, <2>5, <2>6
<1> QED
  BY <1>4, <1>5, <1>6, <1>7, <1>8, <1>9, <1>10, <1>11

\* The pool is a matter of the runs alone.
LEMMA SamePool ==
  ASSUME NEW w, NEW u, \A i \in Jobs : u.run[i] = w.run[i]
  PROVE  \A v : Pooled(w, v) => Pooled(u, v)
<1>1. Active(w) = Active(u) /\ Waiting(w) = Waiting(u)
  BY DEF Active, Waiting, InState
<1> QED
  BY <1>1, LimitsShrink, RoomShrinks DEF Pooled, Served

\* What the start finds, once the store is reconciled.
LEMMA LoadedFacts ==
  ASSUME Inv, MayStart, NEW Y, \A j \in Jobs \ Y : j \notin swapped \/ Unset(job[j])
  PROVE  /\ Sane(Loaded, Y) /\ Loaded.run = run /\ Loaded.flight = flight
         /\ PoolSound(Loaded)
         /\ Ample(World) => Ample(Loaded)
         /\ Lost(Loaded) \subseteq {j \in Jobs : Loaded.job[j].active.phase = "queued"}
<1> DEFINE f == [j \in Jobs |-> Reconciled(Registered(j, job[j]), Policy[j])]
           w == Loaded
<1>1. ASSUME NEW j \in Jobs
      PROVE  /\ f[j] \in Rec /\ Sound(f[j], run[j], begun[j], j, Y)
             /\ f[j].active \in {NoRun, job[j].active}
             /\ f[j].active = NoRun \/ f[j].active.phase = "queued"
  <2> DEFINE r == Registered(j, job[j])
  <2>1. /\ run[j] \in Mem /\ job[j] \in Rec /\ begun[j] \in Int /\ now \in Nat
        /\ Sound(job[j], run[j], begun[j], j, swapped)
    BY Parts, WorldParts DEF Sane, SaneAt
  <2>2. Found(job[j], run[j], begun[j], j, Y)
    BY <2>1 DEF Sound, Found
  <2>3. /\ r \in Rec /\ Found(r, run[j], begun[j], j, Y)
        /\ r.active \in {NoRun, job[j].active}
    BY <2>1, <2>2, RegisteredFound
  <2> HIDE DEF r
  <2>4. /\ Reconciled(r, Policy[j]) \in Rec
        /\ Sound(Reconciled(r, Policy[j]), run[j], begun[j], j, Y)
        /\ Reconciled(r, Policy[j]).active \in {NoRun, r.active}
        /\ \/ Reconciled(r, Policy[j]).active = NoRun
           \/ Reconciled(r, Policy[j]).active.phase = "queued"
    BY <2>1, <2>3, ReconciledFound
  <2>5. f[j] = Reconciled(r, Policy[j])
    BY DEF r
  <2> HIDE DEF f
  <2> QED
    BY <2>3, <2>4, <2>5
<1>2. f \in [Jobs -> Rec]
  <2>1. \A j \in Jobs : f[j] \in Rec
    BY <1>1
  <2> HIDE DEF Rec
  <2> QED
    BY <2>1
<1>3. w = [World EXCEPT !.job = f]
  BY DEF Loaded
<1> HIDE DEF f, w
<1>4. w \in Worlds /\ w.job = f /\ w.run = run /\ w.flight = flight
  <2> HIDE DEF Rec, Mem
  <2> QED
    BY <1>2, <1>3, Parts DEF Worlds
<1>5. \A j \in Jobs : run[j].state # "none" => j \in flight
  BY Parts DEF Sane, SaneAt
<1>6. Sane(w, Y)
  BY <1>1, <1>4, <1>5 DEF Sane, SaneAt
<1>7. PoolSound(w)
  <2>1. Pooled(World, "new")
    <3>1. CASE svc = "new"
      BY <3>1 DEF Inv
    <3>2. CASE svc = "stopped"
      BY <3>2, EmptyPool DEF Inv, Idle
    <3> QED
      BY <3>1, <3>2 DEF MayStart
  <2>2. Pooled(w, "new")
    BY <1>4, <2>1, SamePool, Parts
  <2> QED
    BY <2>2 DEF Pooled, PoolSound
<1>8. Ample(World) => Ample(w)
  BY <1>1, <1>4, Parts DEF Ample, Held
<1>9. Lost(w) \subseteq {j \in Jobs : w.job[j].active.phase = "queued"}
  BY <1>1, <1>4 DEF Lost
<1> QED
  BY <1>4, <1>6, <1>7, <1>8, <1>9 DEF w

\* The start has readmitted what was queued, and promoted jobs of S.
LEMMA StartedFacts ==
  ASSUME Inv, MayStart, NEW Y, \A j \in Jobs \ Y : j \notin swapped \/ Unset(job[j]),
         NEW F, NEW S \in SUBSET Overdue(Readmitted(Loaded, F))
  PROVE  LET w == PromoteAll(Readmitted(Loaded, F), S, F)
         IN  /\ Sane(w, Y) /\ PoolSound(w)
             /\ Ample(World) => Ample(w) /\ Lost(w) = {}
             /\ \A j \in Jobs : w.run[j].state = "executing" => run[j].state = "executing"
<1> DEFINE Q == {j \in Jobs : Loaded.job[j].active.phase = "queued"}
           u == Readmitted(Loaded, F)
           w == PromoteAll(u, S, F)
<1>1. /\ Sane(Loaded, Y) /\ Loaded.run = run /\ Loaded.flight = flight
      /\ PoolSound(Loaded)
      /\ Ample(World) => Ample(Loaded)
      /\ Lost(Loaded) \subseteq Q
  BY LoadedFacts
<1>2. Looped(Loaded, u, Q, Y)
  BY <1>1, Parts, ReadmitLoop
<1> HIDE DEF Q, u
<1>3. Sane(u, Y) /\ S \in SUBSET Jobs
  BY <1>2 DEF Looped, Overdue, Live, u
<1>4. \A j \in S \ u.flight : /\ u.job[j].life = "live" /\ u.job[j].active = NoRun
                              /\ u.job[j].pending # NoTime
  BY DEF Overdue, Live, u
<1>5. Looped(u, w, S, Y)
  BY <1>3, <1>4, Parts, PromoteLoop
<1> HIDE DEF w
<1>6. Ample(World) => Ample(u) /\ Lost(u) = {}
  BY <1>1, <1>2 DEF Looped
<1>7. Ample(World) => Ample(w) /\ Lost(w) = {}
  BY <1>5, <1>6 DEF Looped
<1>8. Sane(w, Y) /\ PoolSound(w)
  BY <1>1, <1>2, <1>5 DEF Looped
<1>9. \A j \in Jobs : w.run[j].state = "executing" => run[j].state = "executing"
  BY <1>1, <1>2, <1>5 DEF Looped
<1> QED
  BY <1>7, <1>8, <1>9 DEF w, u

\* A start, and one in which the write of a promotion fails.
LEMMA StartKeeps ==
  ASSUME Inv, Start
  PROVE  Inv' /\ Steady
<1>1. PICK F \in Faulty :
        LET u == Readmitted(Loaded, F)
            w == PromoteAll(u, Overdue(u), F)
        IN  MarkFaults(w, F) /\ Becomes(w) /\ timer' = WakeTime(w)
  BY DEF Start
<1> DEFINE u == Readmitted(Loaded, F)
           w == PromoteAll(u, Overdue(u), F)
<1>2. MarkFaults(w, F) /\ Becomes(w) /\ timer' = WakeTime(w)
  BY <1>1
<1>3. /\ MayStart /\ svc' = "running" /\ locked' = TRUE /\ svc' # svc
      /\ swapped' = {j \in swapped : \/ job[j].active # NoRun \/ job[j].next # NoTime
                                     \/ job[j].pending # NoTime}
      /\ UNCHANGED <<now, begun, calls, ends>>
  BY DEF Start, MayStart
<1>4. \A j \in Jobs \ swapped' : j \notin swapped \/ Unset(job[j])
  BY <1>3 DEF Unset
<1>5. /\ Sane(w, swapped') /\ PoolSound(w)
      /\ Ample(World) => Ample(w) /\ Lost(w) = {}
      /\ \A j \in Jobs : w.run[j].state = "executing" => run[j].state = "executing"
  BY <1>3, <1>4, StartedFacts
<1> HIDE DEF w
<1>6. /\ faults' \in 0..MaxFaults
      /\ faults' = 0 => faults = 0
  BY <1>2, FaultyFacts DEF MarkFaults
<1>7. Intact(w, faults', svc')
  BY <1>5, <1>6 DEF Inv, Intact
<1>8. Pooled(w, svc') /\ Idle(w, svc')
  BY <1>3, <1>5 DEF Pooled, PoolSound, Idle
<1>9. /\ WakeTime(w) \in 0..(now + MaxSleep)
      /\ \A j \in Eligible(w) : WakeTime(w) <= Max({now, w.job[j].next})
  BY <1>5, Parts, WakeFacts DEF Sane
<1>10. timer' \in 0..(MaxTime + MaxSleep) /\ timer' # NoTime
  BY <1>2, <1>9, Parts, LimitTypes DEF NoTime
<1>11. Armed(w, svc', locked', timer', now)
  BY <1>2, <1>9, <1>10 DEF Armed, WakesAll
<1>12. Scalars'
  BY <1>3, <1>6, <1>10 DEF Inv, Scalars, Moments, NoTime
<1>13. Inv'
  BY <1>2, <1>3, <1>5, <1>7, <1>8, <1>11, <1>12, InvNext
<1>14. Steady
  BY <1>2, <1>3, <1>5 DEF Becomes, Steady
<1> QED
  BY <1>13, <1>14

LEMMA StartFailsKeeps ==
  ASSUME Inv, StartFails
  PROVE  Inv' /\ Steady
<1> DEFINE u == Readmitted(Loaded, {})
<1>1. PICK j \in Overdue(u) \ u.flight :
        LET S == {i \in Overdue(u) : ListedBefore(u, i, j)}
        IN  Becomes(AdmitFails(PromoteAll(u, S, {}), j))
  BY DEF StartFails
<1> DEFINE S == {i \in Overdue(u) : ListedBefore(u, i, j)}
           v == PromoteAll(u, S, {})
           w == Claim(v, j)
<1>2. Becomes(w)
  BY <1>1 DEF AdmitFails
<1>3. /\ MayStart /\ svc' = "running" /\ locked' = FALSE /\ svc' # svc
      /\ faults < MaxFaults /\ faults' = faults + 1
      /\ UNCHANGED <<now, timer, begun, swapped, calls, ends>>
  BY DEF StartFails, MayStart
<1>4. S \in SUBSET Overdue(u) /\ j \in Jobs
  BY DEF Overdue, Live
<1>5. /\ Sane(v, swapped) /\ PoolSound(v)
      /\ \A i \in Jobs : v.run[i].state = "executing" => run[i].state = "executing"
  <2>1. \A i \in Jobs \ swapped : i \notin swapped \/ Unset(job[i])
    OBVIOUS
  <2> HIDE DEF S
  <2>2. S \in SUBSET Overdue(Readmitted(Loaded, {}))
    BY <1>4
  <2> QED
    BY <1>3, <2>1, <2>2, StartedFacts
<1> HIDE DEF v
<1>6. Pooled(v, svc')
  BY <1>3, <1>5 DEF Pooled, PoolSound
<1>7. Sane(w, swapped') /\ Pooled(w, svc') /\ w.run = v.run
  BY <1>3, <1>4, <1>5, <1>6, ClaimSane
<1> HIDE DEF w
<1>8. faults' \in 0..MaxFaults /\ faults' # 0
  BY <1>3, LimitTypes DEF Inv, Scalars
<1>9. Intact(w, faults', svc') /\ Idle(w, svc') /\ Armed(w, svc', locked', timer', now)
  BY <1>3, <1>8 DEF Intact, Idle, Armed
<1>10. Scalars'
  BY <1>3, <1>8 DEF Inv, Scalars, Moments, NoTime
<1>11. Inv'
  BY <1>2, <1>3, <1>7, <1>9, <1>10, InvNext
<1>12. Steady
  BY <1>2, <1>3, <1>5, <1>7 DEF Becomes, Steady
<1> QED
  BY <1>11, <1>12

-----------------------------------------------------------------------------
\* Every step.
LEMMA NextKeeps ==
  ASSUME Inv, [Next]_vars
  PROVE  Inv' /\ Steady
<1>1. ASSUME NEW j \in Jobs, NEW at \in AtTimes, AddJob(j, at) \/ UpdateJob(j, at)
      PROVE  Inv' /\ Steady
  BY <1>1, AddJobKeeps, UpdateJobKeeps
<1>2. ASSUME NEW j \in Jobs, PauseJob(j) \/ ResumeJob(j) \/ RemoveJob(j)
                             \/ CancelQueuedJob(j) \/ RunJob(j)
      PROVE  Inv' /\ Steady
  BY <1>2, PauseJobKeeps, ResumeJobKeeps, RemoveJobKeeps, CancelQueuedJobKeeps,
     RunJobKeeps
<1>3. ASSUME NEW j \in Jobs, RunSteps(j)
      PROVE  Inv' /\ Steady
  BY <1>3, BodyBeginsKeeps, SettleKeeps, FinalizeKeeps, LeaveFlightKeeps DEF RunSteps
<1>4. CASE Tick \/ TickFails
  BY <1>4, TickKeeps, TickFailsKeeps
<1>5. CASE Start \/ StartFails \/ Stop \/ Drained
  BY <1>5, StartKeeps, StartFailsKeeps, StopKeeps, DrainedKeeps
<1>6. CASE Crash \/ ClockAdvances \/ UNCHANGED vars
  BY <1>6, CrashKeeps, ClockKeeps, StaysKeeps
<1> QED
  BY <1>1, <1>2, <1>3, <1>4, <1>5, <1>6 DEF Next, Calls

\* In every state, and at every step.
LEMMA InvHolds == Spec => []Inv
<1>1. Inv /\ [Next]_vars => Inv'
  BY NextKeeps
<1> QED
  BY InitInv, <1>1, PTL DEF Spec

LEMMA SteadyHolds == Spec => [][Steady]_vars
<1>1. Inv /\ [Next]_vars => [Steady]_vars
  BY NextKeeps
<1> QED
  BY InvHolds, <1>1, PTL DEF Spec

\* The types of the model follow.
LEMMA InvTypes ==
  ASSUME Inv
  PROVE  TypeOK
<1>1. Span \subseteq Moments
  BY LimitTypes DEF Inv, Scalars, Span, Moments, NoTime
<1>2. job \in [Jobs -> Rec] /\ run \in [Jobs -> Mem] /\ flight \subseteq Jobs
      /\ begun \in [Jobs -> Int]
  BY Parts, WorldParts
<1>3. ASSUME NEW j \in Jobs
      PROVE  /\ job[j] \in JobType /\ run[j].state \in States /\ run[j].sched \in Moments
             /\ begun[j] \in Moments
  <2>1. Ranged(job[j], run[j], begun[j]) /\ job[j] \in Rec /\ run[j] \in Mem
    BY <1>2, Parts DEF Sane, SaneAt, Sound
  <2>2. /\ job[j].at \in Moments /\ job[j].next \in Moments /\ job[j].pending \in Moments
        /\ job[j].active.sched \in Moments /\ job[j].active.resume \in Moments
        /\ run[j].sched \in Moments /\ begun[j] \in Moments
    BY <1>1, <2>1 DEF Ranged
  <2> HIDE DEF Span
  <2>3. job[j].active \in RunType
    BY <2>1, <2>2 DEF Rec, Act, RunType, Triggers
  <2>4. job[j] \in JobType
    BY <2>1, <2>2, <2>3 DEF Rec, JobType
  <2> QED
    BY <2>1, <2>2, <2>4 DEF Mem
<1>4. job \in [Jobs -> JobType] /\ begun \in [Jobs -> Moments]
  BY <1>2, <1>3
<1> QED
  BY <1>2, <1>3, <1>4 DEF TypeOK, Inv, Scalars

\* Types hold, every run in memory is claimed, and as long as no write failed
\* every claim has its run and a running service has every run that the store
\* calls active (inFlightJobIds and active_run of scheduler/service.ts).
THEOREM ClaimsHold == Spec => []IInv
<1>1. ASSUME Inv
      PROVE  Claims
  <2>1. \A j \in Jobs : /\ run[j].state = "none" => run[j] = NotRunning
                        /\ run[j].state # "none" => j \in flight
                        /\ run[j].state # "none" /\ job[j].active # NoRun
                             => Names(job[j].active, run[j])
    BY <1>1, Parts DEF Sane, SaneAt, Sound, Kept
  <2>2. NotRunning.state = "none"
    BY DEF NotRunning
  <2>3. flight \subseteq Jobs
    BY <1>1, Parts, WorldParts
  <2>4. faults = 0 => /\ \A j \in Jobs : j \in flight => run[j].state # "none"
                      /\ svc = "running" =>
                           \A j \in Jobs : job[j].active # NoRun => run[j].state # "none"
    BY <1>1, Parts DEF Inv, Intact, Ample, Held, Lost
  <2> QED
    BY <2>1, <2>2, <2>3, <2>4, <1>1, Parts DEF Claims, Live
<1>2. Inv => IInv
  BY <1>1, InvTypes DEF IInv
<1> QED
  BY InvHolds, <1>2, PTL

\* The limits of the pool hold in every state, and while the service accepts
\* runs none waits beside room for it (pump of scheduler/run-pool.ts).
THEOREM PoolStaysFull == Spec => []PoolIsFull
<1>1. ASSUME Inv
      PROVE  PoolIsFull
  <2>1. Pooled(World, svc)
    BY <1>1 DEF Inv
  <2> QED
    BY <2>1 DEF Pooled, Limits, Served, Active, Peers, Waiting, PoolIsFull, Accepting
<1> QED
  BY InvHolds, <1>1, PTL

\* No job that wants to run is without a time, a run or a run to come, unless
\* nobody computed one; and a service that holds its lock has armed the timer
\* no later than the next job is due (armTimer of scheduler/service.ts).
THEOREM NoJobStranded == Spec => []NoStrandedJob
<1>1. ASSUME Inv
      PROVE  NoStrandedJob
  <2>1. \A j \in Jobs \ swapped : WantsRuns(j) => Scheduled(j)
    BY <1>1, Parts DEF Sane, SaneAt, Sound, Planned, WantsRuns, Scheduled
  <2>2. Armed(World, svc, locked, timer, now)
    BY <1>1 DEF Inv
  <2> QED
    BY <2>1, <2>2, <1>1, Parts DEF Armed, WakesAll, NoStrandedJob
<1> QED
  BY InvHolds, <1>1, PTL

\* Only a start takes the record of a body that executes from under it
\* (reconcileStartup of scheduler/service.ts).
THEOREM RecordsStay == Spec => OnlyStartForgets
<1>1. Steady => (svc' = svc =>
        \A j \in Jobs :
          run[j].state = "executing" /\ run'[j].state = "executing" /\ Recorded(j)
            => Recorded(j)')
  BY DEF Steady
<1> QED
  BY SteadyHolds, <1>1, PTL DEF OnlyStartForgets

\* The occurrences of a job that begin by themselves move on in time, whatever
\* was missed, cancelled, run by hand or cut short in between (occurrenceWindow
\* of scheduler/misfire.ts, nextStrictlyAfter of scheduler/service.ts).
THEOREM OccurrencesOnce == Spec => OccurrenceOnce
<1>1. Steady => \A j \in Jobs :
        run'[j].state = "executing" /\ run[j].state # "executing"
          => run'[j].trigger = "manual" \/ run'[j].sched > begun[j]
  BY DEF Steady
<1> QED
  BY SteadyHolds, <1>1, PTL DEF OccurrenceOnce
=============================================================================
