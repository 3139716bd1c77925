CONSTANTS
  p1 = p1
  p2 = p2
  p3 = p3
  collector = collector
  mapped = mapped
  server = server
  NotDecoded = NotDecoded
  Echo = Echo
  Packet <- MCPacket
  KeyOf <- TwoFlows
  WireKey <- MCWireKey
  CollectorIp = collector
  CollectorPort = 4739
  INTERVAL = 2
  TIMEOUT = 1
  MaxEcho = 1
  MaxBacklog = 2
SPECIFICATION Spec
PROPERTY ImplementsLedger
