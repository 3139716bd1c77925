CONSTANTS
  Parsed <- MCParsed
  MaxWindow = 5
  U64MAX = 4
  SEC = 2
  MSEC = 2
SPECIFICATION Spec
INVARIANTS TypeOK CountersExact SeenTimesExtreme FirstKnownKept
