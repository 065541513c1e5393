CONSTANTS
  Clients = {c1, c2}
  MaxFds = 1
  EventSize = 2
  Packets <- MCPackets
  MaxPackets = 1
  TextSize = 2
  Lines <- MCLines
  Garbage <- MCGarbage
  Worlds <- MCWorlds
SPECIFICATION Spec
INVARIANTS
  TypeOK
  EventsNotStale
  NoMixedPacket
PROPERTIES
  QuitObeyed
  ClientsServed
  ConnectionsAccepted
