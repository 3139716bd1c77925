CONSTANTS
  p1 = p1
  p2 = p2
  p3 = p3
  collector = collector
  mapped = mapped
  server = server
  NotDecoded = NotDecoded
  Echo = Echo
  Packet <- MCPacket
  KeyOf <- TwoFlows
  WireKey <- MCWireKey
  CollectorIp = collector
  CollectorPort = 4739
  INTERVAL = 3
  TIMEOUT = 2
  MaxEcho = 1
  MaxBacklog = 2
SPECIFICATION Spec
INVARIANTS
  TypeOK Accounted WindowsInOrder NoSelfExport DrainDeadline OnlyTailLost NothingLeftBehind
