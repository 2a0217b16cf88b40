----------------------------- MODULE DurableLog -----------------------------
(***************************************************************************)
(* What a session log promises (session-log/store.ts): events are appended *)
(* in order; from time to time a prefix becomes safe; a crash keeps a      *)
(* prefix of what was appended that contains everything safe.  Damage to   *)
(* the stored file, which is counted, spares a prefix of any length.       *)
(***************************************************************************)
EXTENDS Naturals, Sequences

VARIABLES
  log,    \* what a reader of the session sees, or would see if it reopened
  safe,   \* how many of its events survive any crash
  damage  \* how often the stored log was damaged

Init == log = <<>> /\ safe = 0 /\ damage = 0

Prefix(s, n) == SubSeq(s, 1, n)

\* Appending, and making a prefix safe, in one step or in two.
Extend == /\ Len(log') >= Len(log)
          /\ log = Prefix(log', Len(log))
          /\ safe' \in safe..Len(log')
          /\ damage' = damage

Crash == /\ \E n \in safe..Len(log) : log' = Prefix(log, n)
         /\ UNCHANGED <<safe, damage>>

Damage == /\ \E n \in 0..Len(log) :
               /\ log' = Prefix(log, n)
               /\ safe' = IF safe < n THEN safe ELSE n
          /\ damage' = damage + 1

Next == Extend \/ Crash \/ Damage

Spec == Init /\ [][Next]_<<log, safe, damage>>
=============================================================================
