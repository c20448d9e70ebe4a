CONSTANTS
  KeyModulus = 8
  MaxLegalActions = 2
  SchemaId <- SmallSchema
  Invocations <- SmallInvocations
  Worlds <- SmallWorlds
  GameKeys <- SmallKeys
  ActionCount <- SmallCounts
  TemporaryAttempts = 2
  MaxRuns = 2
  MaxCommits = 2
SPECIFICATION Spec
INVARIANTS SavedFileComplete ResumeIsExact LoadAllOrNothing RecordsUntorn SuccessMeansSaved
PROPERTIES ExportNeverOverwrites
CHECK_DEADLOCK FALSE
