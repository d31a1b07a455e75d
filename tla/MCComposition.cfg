SPECIFICATION Spec
CONSTANTS
  Shot = {s1}
  Content = {c1, c2}
  Text = {x1, x2}
  RevId = {r1, r2, r3}
  ParentId = {p1, p2, p3}
  Timeline = {t1}
  Key = {k1, k2, k3}
  None = none
  MaxVersion = 3
  MaxHead = 2
SYMMETRY Symmetry
INVARIANTS
  HeadShown
  HeadChain
  ReplayExact
CHECK_DEADLOCK FALSE
