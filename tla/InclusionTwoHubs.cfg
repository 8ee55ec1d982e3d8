SPECIFICATION Spec
CONSTANTS
  HUBS = {h1, h2}
  DEVICES = {d1}
  h1 = h1
  h2 = h2
  d1 = d1
  NoNode = NoNode
  NoKey = NoKey
  NoNonce = NoNonce
  NoPacket = NoPacket
  NONCE_MODULUS = 4
  StorageFaults = TRUE
  Reliable = FALSE
  MaxCalls = 2
  MaxReboots = 1
  MaxResets = 1
SYMMETRY Symmetry
INVARIANTS
  MemberHoldsStoredKey
  KeyOfChosenHub
  ConfirmIsReadable
