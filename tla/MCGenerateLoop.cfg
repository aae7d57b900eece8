CONSTANT MaxRetries = 3
SPECIFICATION LoopSpec
INVARIANTS GenerateInv RowTellsTheTruth
PROPERTY Terminates
