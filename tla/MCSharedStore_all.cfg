CONSTANTS
  Threads = {t1, t2}
  Keys = {7, 9, 14, 21}
  HashBits = 6
  HashMultiplier = 37
  ShardBits = 1
  TagBits = 1
  MinCapacity = 4
  MaxCapacity = 8
  ActionCounts = {2, 3}
  Ops = {"find", "get_or_create", "sequential", "reserve", "get_stats", "snapshot", "prepare"}
  Preloaded <- TwoKeys
  Reservations = {4, 7}
  MayFail = TRUE
  MaxCalls = 2
SPECIFICATION Spec
SYMMETRY ThreadSymmetry
INVARIANTS TableSound AnswersTrue
