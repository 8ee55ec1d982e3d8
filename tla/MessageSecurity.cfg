SPECIFICATION Spec
CONSTANTS
  HUBS = {h1, h2}
  DEVICES = {d1, d2}
  NoNode = NoNode
  NetworkKeys = {k1, k2}
  NoKey = NoKey
  Data = {datum}
  Broadcast = Broadcast
  Destinations = {Broadcast}
  MAX_HOPS = 2
  MaxPackets = 2
INVARIANTS
  TypeOK
  AirIsProtected
  AcceptedIsReadable
  ResponseReachesOnlyItsDevice
SYMMETRY Symmetry
