SPECIFICATION FairSpec
CONSTANTS
  HUBS = {h1}
  DEVICES = {d1}
  h1 = h1
  d1 = d1
  NoNode = NoNode
  NoKey = NoKey
  NoNonce = NoNonce
  NoPacket = NoPacket
  NONCE_MODULUS = 4
  StorageFaults = FALSE
  Reliable = FALSE
  MaxCalls = 1
  MaxReboots = 1
  MaxResets = 0
PROPERTY PendingResolves
