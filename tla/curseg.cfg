CONSTANTS
  s1 = s1
  s2 = s2
  s3 = s3
  s4 = s4
  Segments <- MCSegments
  Logs = 3
  WarmNode = 1
SPECIFICATION Spec
SYMMETRY MCSymmetry
INVARIANTS
  TypeOK
  NoSegmentForgotten
  OnlyDrainedLogsStayFull
