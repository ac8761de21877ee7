CONSTANTS
  Words <- MCWideWords
  Registers <- MCRegisters
  PageBytes = 8
  ImmBits = 2
  limit = 28
SPECIFICATION Spec
INVARIANTS
  ChainFeedsBlr
CHECK_DEADLOCK FALSE
