SPECIFICATION LinkSpec
CONSTANTS
  d1 = d1
  d2 = d2
  k1 = k1
  k2 = k2
  k3 = k3
  Device <- MCDevice
  Packet <- MCPacket
  NoPacket = NoPacket
  Broadcast = Broadcast
  Group = Group
  Destination <- MCDestination
  Size <- MCSize
  Protocol <- MCProtocol
  Mtu = 1500
  QueueLimit = 2
  MaxRetries = 1
  MinSlots = 1
  MaxSlots = 3
  Ceiling = 2
  Width = 3
  MayDisable = TRUE
  MayDetach = TRUE
  MayChange = TRUE
  MayLose = TRUE
CONSTRAINT
  OneSwitch
INVARIANTS
  TypeOK
  LinkTypeOK
  OneSender
  EventsFindTheirState
  InOrder
  FramesIntact
  OneOrder
PROPERTY
  StopHasCause
CHECK_DEADLOCK FALSE
