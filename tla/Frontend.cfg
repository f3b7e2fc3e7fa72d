SPECIFICATION Spec
CONSTANTS
  Vocabulary <- AllWords
  Samples <- SampleInputs
  MaxTokens = 6
INVARIANTS
  TypeOK
  AcceptsGrammar
  CrashExplained
  NodesFreedOnce
  TailSound
  TailComplete
CHECK_DEADLOCK FALSE
