CONSTANTS
  Words <- MCWords
  Registers <- MCRegisters
  PageBytes = 8
  ImmBits = 2
  limit = 28
SPECIFICATION Spec
INVARIANTS
  CompactChainFound
  QuietChainFeedsBlr
CHECK_DEADLOCK FALSE
