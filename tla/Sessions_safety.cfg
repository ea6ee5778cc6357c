\* Three sessions, up to three tabs: the first, a middle and the last one can be closed.
SPECIFICATION Spec
CONSTANTS
  a = a
  b = b
  c = c
  null = null
  Session = {a, b, c}
  First = a
  Null = null
  TabLimit = 2
  MaxBacklog = 1
  Settings <- DefaultOrStaying
CONSTRAINT TwoTabs
SYMMETRY SessionSymmetry
INVARIANTS
  TabsMatchSessions
  PointersLive
  ThrottlingSound
PROPERTIES
  QuitsForCurrentSession
CHECK_DEADLOCK FALSE
