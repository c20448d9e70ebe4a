CONSTANTS
  Scale = 2
  Unit = 16
  MaxLegalActions = 2
  Draws = 2
  Games <- SmallGames
  Vectors <- SmallVectors
  MaxCalls = 2
  MaxFaults = 1
  MaxCommits = 1
SPECIFICATION Spec
INVARIANTS AgreesWithSequential SnapshotIsFresh OnlySuccessesCount
