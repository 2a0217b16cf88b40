---------------------------- MODULE MCAgentLoop ----------------------------
(* AgentLoop on small sets of messages. *)
EXTENDS AgentLoop, TLC

CONSTANTS u1, u2, c1

Prompts1 == {u1}
Prompts2 == {u1, u2}
OneOfEach == {u1, c1}
TwoPromptsAndContext == {u1, u2, c1}
PromptSymmetry == Permutations(Prompts2)
=============================================================================
