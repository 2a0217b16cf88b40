----------------------------- MODULE SessionLog -----------------------------
(***************************************************************************)
(* One session log of SessionLogStore (session-log/store.ts): the events   *)
(* in memory, write-behind batches, a paused writer that retries, the file *)
(* with what failed writes and crashes leave in it, and the repair done    *)
(* when the log is opened again.                                           *)
(*                                                                         *)
(* The file is its sequence of lines; entry.bytes is a number of lines.    *)
(* All file calls of one write are synchronous, so a write is one step     *)
(* with one of its outcomes, dying in the middle of it included.           *)
(***************************************************************************)
EXTENDS Naturals, Sequences, SequencesExt

CONSTANTS
  MaxEvents,   \* bound on events appended
  MaxFaults,   \* bound on failed writes and syncs
  MaxDamage,   \* bound on damaged lines
  MaxCrashes   \* bound on process ends

ASSUME BoundsAssumption == /\ MaxEvents \in Nat
                           /\ MaxFaults \in Nat
                           /\ MaxDamage \in Nat
                           /\ MaxCrashes \in Nat

VARIABLES
  stage,      \* "closed", "live", "repair" (attached, open turn not closed
              \* yet), "renamed" (repairFile between its renames), "lost"
  mem,        \* session.events
  bytes,      \* entry.bytes
  paused,     \* entry.paused
  wantSync,   \* entry.wantSync
  unsynced,   \* entry.unsynced
  timer,      \* entry.timer is set
  file,       \* lines of log.jsonl
  temp,       \* lines of log.jsonl.repair, while stage is "renamed"
  platter,    \* how many lines of the file a power loss leaves
  recovered,  \* history: how many events the last open restored
  promised,   \* history: events a completed durable write covers
  appended, faults, damage, crashes   \* counters for the bounds

entry  == <<bytes, paused, wantSync, unsynced, timer>>
disk   == <<file, platter>>
counts == <<appended, faults, damage, crashes>>
vars   == <<stage, mem, entry, disk, temp, recovered, promised, counts>>

Kinds  == {"turn/start", "other", "turn/end"}
Events == [id : 1..MaxEvents, kind : Kinds]

\* A line is whole, is whole but for its newline, is cut, or is damaged.
Line(e)  == [event |-> e, state |-> "whole"]
States   == {"whole", "no-newline", "cut", "damaged"}
Lines(s) == [i \in 1..Len(s) |-> Line(s[i])]

Prefix(s, n) == SubSeq(s, 1, n)
Least(a, b)  == IF a < b THEN a ELSE b

\* How a line may end when the file ends inside it.
CutShort(line) ==
  {"cut"} \union
    (IF line.state \in {"whole", "no-newline"} THEN {"no-newline"} ELSE {})

\* What remains when the bytes end inside line n + 1.
CutAfter(s, n) ==
  {Prefix(s, n)} \union
    (IF n < Len(s)
     THEN {Append(Prefix(s, n), [s[n + 1] EXCEPT !.state = st]) :
             st \in CutShort(s[n + 1])}
     ELSE {})

TurnOpen(s) ==
  \E i \in 1..Len(s) :
    /\ s[i].kind = "turn/start"
    /\ \A j \in (i + 1)..Len(s) : s[j].kind # "turn/end"

Init == /\ stage = "live" /\ mem = <<>>
        /\ bytes = 0 /\ paused = FALSE /\ wantSync = FALSE
        /\ unsynced = FALSE /\ timer = FALSE
        /\ file = <<>> /\ temp = <<>> /\ platter = 0
        /\ recovered = 0 /\ promised = 0
        /\ appended = 0 /\ faults = 0 /\ damage = 0 /\ crashes = 0

Attached == stage \in {"live", "repair"}

-----------------------------------------------------------------------------
(***************************************************************************)
(* flushEntry and append for the events of m past entry.bytes.             *)
(***************************************************************************)

\* Bytes past the last whole batch belong to a write that failed.
StrayCut == Prefix(file, bytes)

\* Mutant of Target: a retry appends behind the stray bytes.
AppendedToStray(m) == file \o Lines(SubSeq(m, bytes + 1, Len(m)))

Target(m) == Lines(m)

\* Mutant of WriteSucceeds: it reports a sync it did not make.
WriteUnsynced(m, sync) ==
  /\ file' = Target(m)
  /\ bytes' = Len(m)
  /\ unsynced' = ~sync
  /\ platter' = Least(platter, bytes)
  /\ paused' = FALSE /\ wantSync' = FALSE /\ timer' = FALSE
  /\ promised' = IF sync THEN Len(m) ELSE promised
  /\ UNCHANGED <<faults, damage, crashes>>

WriteSucceeds(m, sync) ==
  /\ file' = Target(m)
  /\ bytes' = Len(m)
  /\ unsynced' = ~sync
  /\ platter' = IF sync THEN Len(m) ELSE Least(platter, bytes)
  /\ paused' = FALSE /\ wantSync' = FALSE /\ timer' = FALSE
  /\ promised' = IF sync THEN Len(m) ELSE promised
  /\ UNCHANGED <<faults, damage, crashes>>

\* What a write that fails leaves: the file cut back to whole batches; or,
\* when cutting fails as well, the stray bytes it found or what it wrote.
Leftovers(m) ==
  {StrayCut, file} \union UNION {CutAfter(Target(m), n) : n \in bytes..Len(m)}

\* Mutant of WriteFails: no retry is scheduled.
WriteFailsForGood(m, sync) ==
  /\ faults < MaxFaults /\ faults' = faults + 1
  /\ file' \in Leftovers(m)
  /\ platter' = Least(platter, bytes)
  /\ paused' = TRUE /\ timer' = FALSE
  /\ wantSync' = sync
  /\ UNCHANGED <<bytes, unsynced, promised, damage, crashes>>

WriteFails(m, sync) ==
  /\ faults < MaxFaults /\ faults' = faults + 1
  /\ file' \in Leftovers(m)
  /\ platter' = Least(platter, bytes)
  /\ paused' = TRUE /\ timer' = TRUE
  /\ wantSync' = sync
  /\ UNCHANGED <<bytes, unsynced, promised, damage, crashes>>

\* Nothing is pending: only a sync may be due.
SyncOnly(sync) ==
  /\ timer' = FALSE
  /\ \/ /\ sync /\ unsynced
        /\ platter' = Len(file) /\ unsynced' = FALSE /\ promised' = Len(mem)
        /\ UNCHANGED faults
     \/ /\ sync /\ unsynced
        /\ faults < MaxFaults /\ faults' = faults + 1
        /\ UNCHANGED <<platter, unsynced, promised>>
     \/ /\ ~(sync /\ unsynced)
        /\ UNCHANGED <<platter, unsynced, promised, faults>>
  /\ UNCHANGED <<file, bytes, paused, wantSync, damage, crashes>>

FlushEntry(m, askedSync) ==
  LET sync == askedSync \/ wantSync
  IN  IF Len(m) = bytes THEN SyncOnly(sync)
      ELSE WriteSucceeds(m, sync) \/ WriteFails(m, sync)

-----------------------------------------------------------------------------
(***************************************************************************)
(* Appending, the timer, explicit flushes, closing.                        *)
(***************************************************************************)

NewEvent(kind) == [id |-> appended + 1, kind |-> kind]

\* Turns open and close in order; the agent sees to it.
MayAppend(kind) ==
  CASE kind = "turn/start" -> ~TurnOpen(mem)
    [] kind = "turn/end"   -> TurnOpen(mem)
    [] OTHER               -> TRUE

\* The subscriber of session.append: a durable event is written and synced
\* at once, unless writing is paused; others wait for the timer.
AppendEvent(kind) ==
  LET m == Append(mem, NewEvent(kind))
  IN  /\ appended < MaxEvents /\ appended' = appended + 1
      /\ mem' = m
      /\ IF kind = "turn/end" /\ ~paused
         THEN FlushEntry(m, TRUE)
         ELSE /\ wantSync' = (wantSync \/ kind = "turn/end")
              /\ timer' = TRUE
              /\ UNCHANGED <<bytes, paused, unsynced, disk, promised, faults,
                             damage, crashes>>

SessionAppends(kind) ==
  /\ stage = "live" /\ MayAppend(kind)
  /\ AppendEvent(kind)
  /\ UNCHANGED <<stage, temp, recovered>>

TimerFires ==
  /\ stage = "live" /\ timer
  /\ FlushEntry(mem, FALSE)
  /\ UNCHANGED <<stage, mem, temp, recovered, appended>>

\* flush(id, {sync}), for instance before a goal round.
FlushNow(sync) ==
  /\ stage = "live"
  /\ FlushEntry(mem, sync)
  /\ UNCHANGED <<stage, mem, temp, recovered, appended>>

\* A last flush; events it could not write are given up.  The entry is
\* dropped, its fields mean nothing from here.
Close ==
  /\ stage = "live"
  /\ FlushEntry(mem, TRUE)
  /\ stage' = "closed" /\ mem' = <<>>
  /\ UNCHANGED <<temp, recovered, appended>>

-----------------------------------------------------------------------------
(***************************************************************************)
(* The ends of a process, and damage.                                      *)
(***************************************************************************)

Forget ==
  /\ crashes < MaxCrashes /\ crashes' = crashes + 1
  /\ stage' = IF stage = "renamed" THEN "lost" ELSE "closed"
  /\ mem' = <<>> /\ temp' = <<>>
  /\ bytes' = 0 /\ paused' = FALSE /\ wantSync' = FALSE
  /\ unsynced' = FALSE /\ timer' = FALSE
  /\ UNCHANGED <<recovered, promised, appended, faults, damage>>

\* The process is killed, perhaps while it writes what is pending.
Killed ==
  /\ stage \in {"live", "repair", "renamed"}
  /\ \/ file' = file
     \/ /\ Attached /\ Len(mem) > bytes
        /\ file' \in Leftovers(mem)
  /\ platter' = Least(platter, Len(file'))
  /\ Forget

\* Power is lost: of what was not synced, some prefix reached the disk.
PowerLost ==
  /\ stage \in {"live", "repair", "closed"}
  /\ \E n \in platter..Len(file) : file' \in CutAfter(file, n)
  /\ platter' = platter
  /\ Forget

\* A line of the stored file becomes unreadable.
Damaged ==
  /\ stage = "closed" /\ damage < MaxDamage
  /\ damage' = damage + 1
  /\ \E i \in 1..Len(file) :
       /\ file[i].state = "whole"
       /\ file' = [file EXCEPT ![i].state = "damaged"]
       /\ promised' = Least(promised, i - 1)
  /\ UNCHANGED <<stage, mem, entry, temp, platter, recovered, appended,
                 faults, crashes>>

-----------------------------------------------------------------------------
(***************************************************************************)
(* Opening: parseLog, repairFile, and the closers of an interrupted turn.  *)
(***************************************************************************)

\* How many lines parseLog decodes before the first it cannot.
Good(f) ==
  LET bad == {i \in 1..Len(f) : f[i].state \in {"cut", "damaged"}}
  IN  IF bad = {} THEN Len(f)
      ELSE (CHOOSE i \in bad : \A j \in bad : i <= j) - 1

Readable(f) == [i \in 1..Good(f) |-> f[i].event]

Attach(lines) ==
  /\ mem' = Readable(lines)
  /\ recovered' = Good(lines)
  /\ bytes' = Len(lines)
  /\ stage' = IF TurnOpen(Readable(lines)) THEN "repair" ELSE "live"
  /\ paused' = FALSE /\ wantSync' = FALSE /\ unsynced' = FALSE /\ timer' = FALSE

\* Nothing to repair.
OpenClean ==
  /\ stage = "closed"
  /\ \A i \in 1..Len(file) : file[i].state = "whole"
  /\ Attach(file)
  /\ UNCHANGED <<disk, temp, promised, counts>>

\* The last line is unfinished: finish it or cut it off, and sync.
OpenTail ==
  /\ stage = "closed" /\ file # <<>>
  /\ \A i \in 1..Len(file) : file[i].state # "damaged"
  /\ Last(file).state # "whole"
  /\ LET f == IF Last(file).state = "no-newline"
              THEN Append(Front(file), Line(Last(file).event))
              ELSE Front(file)
     IN  /\ file' = f
         /\ platter' = Len(f)
         /\ Attach(f)
  /\ UNCHANGED <<temp, promised, counts>>

\* A damaged line: write the readable prefix beside the file and move the
\* original away ...
OpenDamagedRename ==
  /\ stage = "closed"
  /\ \E i \in 1..Len(file) : file[i].state = "damaged"
  /\ temp' = Prefix(file, Good(file))
  /\ stage' = "renamed"
  /\ UNCHANGED <<mem, entry, disk, recovered, promised, counts>>

\* ... and put the prefix in its place.
OpenDamagedInstall ==
  /\ stage = "renamed"
  /\ file' = temp /\ platter' = Len(temp)
  /\ temp' = <<>>
  /\ Attach(temp)
  /\ UNCHANGED <<promised, counts>>

\* interruptedTurnClosers: the open turn ends, durably.
CloseInterruptedTurn ==
  /\ stage = "repair"
  /\ AppendEvent("turn/end")
  /\ stage' = "live"
  /\ UNCHANGED <<temp, recovered>>

-----------------------------------------------------------------------------
Writing == TimerFires \/ (\E sync \in BOOLEAN : FlushNow(sync)) \/ Close

Ending == Killed \/ PowerLost \/ Damaged

Opening == \/ OpenClean \/ OpenTail \/ OpenDamagedRename
           \/ OpenDamagedInstall \/ CloseInterruptedTurn

Next == (\E kind \in Kinds : SessionAppends(kind)) \/ Writing \/ Ending \/ Opening

Spec == Init /\ [][Next]_vars

(***************************************************************************)
(* The timer the writer armed fires.                                       *)
(***************************************************************************)
FairSpec == Spec /\ WF_vars(TimerFires)

-----------------------------------------------------------------------------
\* Every variable stays in its type; a power loss leaves lines of the file.
TypeOK ==
  /\ stage \in {"closed", "live", "repair", "renamed", "lost"}
  /\ mem \in Seq(Events) /\ bytes \in 0..MaxEvents
  /\ paused \in BOOLEAN /\ wantSync \in BOOLEAN
  /\ unsynced \in BOOLEAN /\ timer \in BOOLEAN
  /\ file \in Seq([event : Events, state : States])
  /\ temp \in Seq([event : Events, state : States])
  /\ platter \in 0..Len(file)
  /\ recovered \in 0..MaxEvents /\ promised \in 0..MaxEvents
  /\ appended \in 0..MaxEvents /\ faults \in 0..MaxFaults
  /\ damage \in 0..MaxDamage /\ crashes \in 0..MaxCrashes

\* While a log is open, the file starts with the whole batches written so
\* far, and has more than them only while a failed write waits to be retried;
\* so a retry never repeats an event (store.ts:12).
FileHoldsWrittenBatches ==
  /\ bytes <= Len(mem)
  /\ Prefix(file, bytes) = Lines(Prefix(mem, bytes))
  /\ Len(file) > bytes => paused

\* A turn end nobody could write yet is owed: the writer is paused, and its
\* retry will also sync (a user waits on it, store.ts:10).
TurnEndsOwed ==
  (\E i \in (recovered + 1)..Len(mem) :
     i > promised /\ mem[i].kind = "turn/end") => paused /\ wantSync

\* Nothing is forgotten on its way from memory to the file: what was written
\* is there once, what was not has a timer that will write it, and what a user
\* waits for will be synced.  (And TypeOK.)
NothingForgotten ==
  /\ TypeOK
  /\ Attached => /\ FileHoldsWrittenBatches /\ TurnEndsOwed
                 /\ Len(mem) > bytes => timer

\* What the log holds for a reader.
Visible == CASE Attached           -> mem
             [] stage = "closed"   -> Readable(file)
             [] stage = "renamed"  -> Readable(temp)
             [] OTHER              -> <<>>

Durable == INSTANCE DurableLog WITH
             log    <- Visible,
             safe   <- IF stage = "lost" THEN 0 ELSE promised,
             damage <- IF stage = "lost" THEN damage + 1 ELSE damage

\* Appended events stay in order, a crash keeps a prefix, and an event a
\* completed durable write covers is in it; only damage to the stored file
\* takes more (a log lost in the middle of its repair counts as damaged).
DurableImplemented == Durable!Spec

\* A paused writer gets its events to the file in the end, once writing
\* works again.
EverythingWritten ==
  (Attached /\ Len(mem) > bytes) ~> (~Attached \/ Len(mem) = bytes)
=============================================================================
