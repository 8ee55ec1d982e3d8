SPECIFICATION Spec
CONSTANTS
  Networks = {home, office}
  NoNetwork = NoNetwork
  Options = {"Wifi", "WifiAccessPoint", "DevicePortal"}
  MaxBuilds = 2
INVARIANTS
  TypeOK
  WifiStateIsKnown
PROPERTIES
  BuiltAsAsked
