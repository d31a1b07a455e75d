SPECIFICATION FairSpec
CONSTANTS
  a = a  b = b  c = c  d = d  d1 = d1  d2 = d2  p1 = p1  p2 = p2
  NoOp = NoOp  NoProject = NoProject
  Op <- AllOp
  Digest = {d1, d2}
  Kind <- AllKind  Entries <- AllEntries  Data <- AllData  Project <- AllProject
  MaxRestart = 2
INVARIANT ObjectsBacked
INVARIANT OrphansAccounted
PROPERTY OrphansCleared
