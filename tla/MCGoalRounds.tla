---------------------------- MODULE MCGoalRounds ----------------------------
(***************************************************************************)
(* GoalRounds with two prompts and three messages for rounds.              *)
(***************************************************************************)
EXTENDS GoalRounds, TLC

CONSTANTS p1, p2, r1, r2, r3

Prompts  == {p1, p2}
Rounds   == {r1, r2, r3}
Messages == Prompts \union Rounds

Symmetry == Permutations(Prompts) \union Permutations(Rounds)
=============================================================================
