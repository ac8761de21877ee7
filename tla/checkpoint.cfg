CONSTANTS
  s1 = s1
  s2 = s2
  Gc = Gc
  NatError = NatError
  WriteError = WriteError
  n1 = n1
  n2 = n2
  i1 = i1
  i2 = i2
  Segments <- MCSegments
  Callers <- MCCallers
  Reasons <- MCReasons
  Errors <- MCErrors
  Nodes <- MCNodes
  Inodes <- MCInodes
  InoOf <- MCInoOf
  SyncErrors <- MCSyncErrors
  CounterRange = 2
SPECIFICATION NmFairSpec
INVARIANTS
  NmTypeOK
  NoReuseBeforeFlush
  OutcomeTellsEffect
  SuccessMeansWritten
  OwnNodesFirst
PROPERTIES
  CheckpointIsAtomic
  SyncEnds
