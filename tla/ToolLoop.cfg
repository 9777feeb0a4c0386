SPECIFICATION FairSpec
CONSTANTS
  Tools <- const_Tools
  Registered <- const_Registered
  ReadOnly <- const_ReadOnly
  RetriesInternally <- const_RetriesInternally
  MaxParallelCalls = 2
  MaxAssistantTurns = 3
  MaxUserTurns = 2
  MaxEscalations = 2
  MaxRetries = 2
  RetryBudget = 3
  Delays = {1, 2}
CHECK_DEADLOCK FALSE
INVARIANT EffectsArePaidFor BudgetNotOverdrawn
PROPERTY NoReplayAfterStop RunEnds
