CONSTANTS
  SignBit = SignBit
  b0 = b0
  b1 = b1
  Fb = Fb
  Drm = Drm
  Blank = Blank
  Unblank = Unblank
  Codes <- MCCodes
  Sign <- SignBit
  Notifiers <- MCNotifiers
  Events <- MCEvents
SPECIFICATION Spec
INVARIANTS
  InitReportsFailures
  PoliciesCatchUp
