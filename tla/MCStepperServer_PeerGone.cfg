CONSTANTS
  Clients = {c1}
  MaxFds = 1
  EventSize = 2
  Packets <- MCPackets
  MaxPackets = 1
  TextSize = 2
  Lines <- MCLines
  Garbage <- MCGarbage
  Worlds <- MCWorlds
SPECIFICATION Spec
PROPERTY PeerGoneIsClosed
