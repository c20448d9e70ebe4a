CONSTANTS
  Threads = {t1, t2}
  Keys = {7, 9, 14}
  HashBits = 6
  HashMultiplier = 37
  ShardBits = 1
  TagBits = 1
  MinCapacity = 4
  MaxCapacity = 8
  ActionCounts = {2}
  Ops = {"get_or_create", "prepare"}
  Preloaded <- TwoKeys
  Reservations = {}
  MayFail = FALSE
  MaxCalls = 1
SPECIFICATION Spec
INVARIANTS NoSpuriousInvalid
