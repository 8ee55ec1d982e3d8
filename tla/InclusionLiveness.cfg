SPECIFICATION FairSpec
CONSTANTS
  HUBS = {h1}
  DEVICES = {d1, d2}
  h1 = h1
  d1 = d1
  d2 = d2
  NoNode = NoNode
  NoKey = NoKey
  NoNonce = NoNonce
  NoPacket = NoPacket
  NONCE_MODULUS = 4
  StorageFaults = TRUE
  Reliable = FALSE
  MaxCalls = 1
  MaxReboots = 0
  MaxResets = 0
PROPERTIES
  PendingResolves
  HubSessionEnds
