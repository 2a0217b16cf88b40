CONSTANTS
  u1 = u1
  u2 = u2
  c1 = c1
  Msg <- TwoPromptsAndContext
  User <- Prompts2
  MaxCrashes = 0
SYMMETRY PromptSymmetry
SPECIFICATION Spec
INVARIANT NoStrandedPrompt
PROPERTIES ParkedNeverRuns CancelledNeverRuns OutcomesTruthful OnlyStopsHold TurnPerPrompt
