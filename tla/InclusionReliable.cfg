SPECIFICATION FairSpec
CONSTANTS
  HUBS = {h1}
  DEVICES = {d1}
  h1 = h1
  d1 = d1
  NoNode = NoNode
  NoKey = NoKey
  NoNonce = NoNonce
  NoPacket = NoPacket
  NONCE_MODULUS = 4
  StorageFaults = FALSE
  Reliable = TRUE
  MaxCalls = 3
  MaxReboots = 0
  MaxResets = 1
PROPERTY JoinCompletes
