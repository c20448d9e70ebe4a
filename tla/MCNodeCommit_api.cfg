CONSTANTS
  n1 = n1
  n2 = n2
  c1 = c1
  m1 = m1
  p1 = p1
  r1 = r1
  NoThread = NoThread
  Nodes = {n1, n2}
  Actions = {1, 2}
  CfrThreads = {c1}
  McThreads = {}
  ApiThreads = {p1}
  Writers = {c1, p1}
  Readers = {r1}
  KeyRank <- KeyOrder
  PtrRank <- AddressOrder
  Plus = TRUE
  Deltas <- OneDelta
  ApiOps = {"apply", "add_regret", "accumulate", "read"}
  MaxFinite = 2
  VersionModulus = 10
  MaxReads = 1
  MaxCalls = 1
SPECIFICATION Spec
INVARIANTS AcceptedSnapshotCoherent AccumulatorsStayFinite
PROPERTIES ImplementsLedger
