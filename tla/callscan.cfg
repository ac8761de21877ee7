CONSTANTS
  ImageLength = 3
  Addresses <- MCAddresses
  Stext = 2
  TextOffset = 1
  FixedBase = 0
  SignBit = 2
SPECIFICATION Spec
INVARIANTS
  CountsMatchImage
  GraphMatchesImage
CHECK_DEADLOCK FALSE
