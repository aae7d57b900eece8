SPECIFICATION Spec
CONSTANTS
  Snapshots <- MCSnapshots
  Requests <- MCRequests
  Cost <- MCCost
  MaxTokens = 1
  MaxRounds = 3
  MaxTables = 2
  MaxQueries = 2
  MaxCalls = 2
INVARIANTS ToolInv AcceptedByProviders LearningInv
PROPERTY LoopEnds
