SPECIFICATION Spec
CONSTANTS
  Devices = {a, b, c}
  a = a
  b = b
  c = c
  NoDevice = NoDevice
  Packets <- SomePackets
  Leftovers <- SomeLeftovers
  MAX_ROUTES = 2
  MAX_HOPS = 7
  RSSI_UPPER_THRESHOLD = 12
  RSSI_LOWER_THRESHOLD = 6
  ROUTE_TIMEOUT = 2
  CLOCK = 4
  MaxTime = 5
INVARIANTS
  TypeOK
  AnswersAreRecent
PROPERTIES
  RoutesSettle
  ImplementsRouteCache
