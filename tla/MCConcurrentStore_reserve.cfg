CONSTANTS
  Threads = {t1}
  Nobody = Nobody
  Keys = {2, 4, 9, 11}
  HashBits = 6
  HashMultiplier = 37
  ShardBits = 1
  TagBits = 1
  MinCapacity = 4
  MaxCapacity = 16
  ActionCounts = {2}
  Ops = {"get_or_create", "reserve"}
  Preloaded <- ThreeKeys
  Asked = {2, 4, 9, 11}
  Reservations = {5}
  MayFail = FALSE
  MaxCalls = 2
SPECIFICATION Spec
PROPERTIES ReserveKeepsPromise
