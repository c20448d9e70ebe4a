CONSTANTS
  Threads = {t1, t2}
  Nobody = Nobody
  Keys = {1, 2, 4, 9, 11}
  HashBits = 6
  HashMultiplier = 37
  ShardBits = 1
  TagBits = 1
  MinCapacity = 4
  MaxCapacity = 16
  ActionCounts = {2}
  Ops = {"find", "get_or_create", "get_stats", "reserve", "snapshot"}
  Preloaded <- ThreeKeys
  Asked = {1, 9, 11}
  Reservations = {7}
  MayFail = TRUE
  MaxCalls = 2
SPECIFICATION FairSpec
INVARIANTS TablesSound AnswersTrue
PROPERTIES PublishedIsStable EveryCallReturns
