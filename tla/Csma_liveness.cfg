SPECIFICATION LinkFairSpec
CONSTANTS
  d1 = d1
  d2 = d2
  k1 = k1
  k2 = k2
  k3 = k3
  Device <- MCDevice
  Packet <- MCPacket
  NoPacket = NoPacket
  Broadcast = Broadcast
  Group = Group
  Destination <- MCDestination
  Size <- MCSize
  Protocol <- MCProtocol
  Mtu = 1500
  QueueLimit = 3
  MaxRetries = 3
  MinSlots = 1
  MaxSlots = 3
  Ceiling = 2
  Width = 3
  MayDisable = FALSE
  MayDetach = FALSE
  MayChange = FALSE
  MayLose = FALSE
CONSTRAINT
  NoCallback
INVARIANTS
  FreshBackoff
  IdleQueueIsEmpty
PROPERTIES
  EveryPacketFinished
  EverybodyHears
  BackoffGrows
CHECK_DEADLOCK FALSE
