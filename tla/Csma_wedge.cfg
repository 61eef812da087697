SPECIFICATION Spec
CONSTANTS
  Device = {d1, d2}
  Packet = {k1, k2, k3}
  NoPacket = NoPacket
  QueueLimit = 2
  MaxRetries = 2
  MayDisable = TRUE
  MayDetach = FALSE
SYMMETRY Symmetry
INVARIANT
  NeverWedged
CHECK_DEADLOCK FALSE
