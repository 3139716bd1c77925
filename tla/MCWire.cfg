CONSTANTS
  MTU = 1200
  MSG_HEADER_LEN = 16
  TEMPLATE_SET_LEN = 124
  SET_HEADER_LEN = 4
  RECORD_SIZE_V4 = 62
  RECORD_SIZE_V6 = 86
  U16MAX = 65535
  SEQ_MOD = 64
  Unset = Unset
  FlowAt <- MCFlowAt
  FlowCounts <- MCFlowCounts
  SeqStarts <- MCSeqStarts
SPECIFICATION WireSpec
INVARIANTS LengthsMeasured RecordsReadBack
