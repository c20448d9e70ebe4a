CONSTANTS
  n1 = n1
  n2 = n2
  c1 = c1
  m1 = m1
  p1 = p1
  r1 = r1
  NoThread = NoThread
  Nodes = {n1, n2}
  Actions = {1, 2}
  CfrThreads = {c1}
  McThreads = {m1}
  ApiThreads = {}
  Writers = {c1, m1}
  Readers = {r1}
  KeyRank <- KeyOrder
  PtrRank <- AddressOrder
  Plus = FALSE
  Deltas <- OneDelta
  ApiOps = {}
  MaxFinite = 3
  VersionModulus = 12
  MaxReads = 1
  MaxCalls = 2
SPECIFICATION FairSpec
INVARIANTS VersionMarksWriter
PROPERTIES ImplementsLedger EveryCallReturns
