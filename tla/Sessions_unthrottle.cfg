\* A resize request, and a change of tabs before it has been dealt with.
SPECIFICATION Spec
CONSTANTS
  a = a
  b = b
  c = c
  null = null
  Session = {a, b}
  First = a
  Null = null
  TabLimit = 1
  MaxBacklog = 1
  Settings <- Default
INVARIANTS
  NoStalledSession
CHECK_DEADLOCK FALSE
