\* MTU, header and record sizes as in src/ipfix/encode.rs and mod.rs
CONSTANTS
  MTU = 1200
  MSG_HEADER_LEN = 16
  TEMPLATE_SET_LEN = 124
  SET_HEADER_LEN = 4
  RECORD_SIZE_V4 = 62
  RECORD_SIZE_V6 = 86
  U16MAX = 65535
  SEQ_MOD = 64
  FlowCounts <- MCFlowCounts
  SeqStarts <- MCSeqStarts
SPECIFICATION Spec
INVARIANTS
  TypeOK FitsMTU LengthHonest SequenceIsCumulative RecordsPartitioned
  EveryMessageProgresses TemplateFirstOnly V4BeforeV6 NoEarlySplit PackingAsPromised
