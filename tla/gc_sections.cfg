CONSTANTS
  s1 = s1
  s2 = s2
  s3 = s3
  s4 = s4
  NatError = NatError
  NoSection = NoSection
  EINVAL = EINVAL
  EIO = EIO
  ENODATA = ENODATA
  EAGAIN = EAGAIN
  Segments <- MCSegments
  Sections <- MCPairs
  Errors <- MCErrors
  SegmentsPerSection = 2
  ReservedSections = 1
SPECIFICATION FairSpec
INVARIANTS
  TypeOK
  ClaimReleased
  
PROPERTIES
  ZeroHasAReason
  SpaceDecisionSound
  ReturnsUnlessStalled
