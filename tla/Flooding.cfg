SPECIFICATION FairSpec
CONSTANTS
  a = a
  r1 = r1
  r2 = r2
  h = h
  m1 = m1
  m2 = m2
  Nodes = {a, r1, r2, h}
  HUBS = {h}
  RELAYS = {r1, r2}
  Messages = {m1, m2}
  Source <- BothWays
  Broadcast = Broadcast
  Reserved = {m2}
  ZeroCrc = {}
  MAX_HOPS = 3
  Meshes <- AllMeshes
INVARIANTS
  TypeOK
  TransmitsOnce
  CopiesAreFaithful
PROPERTIES FloodEnds RelaysReachAll
CHECK_DEADLOCK FALSE
