SPECIFICATION Spec
CONSTANTS
  c1 = c1
  c2 = c2
  Clients <- MCClients
  Limits <- MCLimits
  MaxPackets = 2
CHECK_DEADLOCK FALSE
INVARIANTS
  TypeOK
  NoInventedCommand
  ObeyedBeforeRelease
PROPERTIES
  ClientsServed
