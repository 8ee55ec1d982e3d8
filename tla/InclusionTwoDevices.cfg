SPECIFICATION Spec
CONSTANTS
  HUBS = {h1}
  DEVICES = {d1, d2}
  h1 = h1
  d1 = d1
  d2 = d2
  NoNode = NoNode
  NoKey = NoKey
  NoNonce = NoNonce
  NoPacket = NoPacket
  NONCE_MODULUS = 4
  StorageFaults = FALSE
  Reliable = FALSE
  MaxCalls = 2
  MaxReboots = 1
  MaxResets = 1
SYMMETRY Symmetry
INVARIANTS
  TypeOK
  MembershipIsBacked
PROPERTIES
  ConfirmsTheAnsweredDevice
  ImplementsMembership
