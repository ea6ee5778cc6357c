\* Two downstreams: any two acts of theirs, and a channel opened by the server.
CONSTANTS
  Down = {d1, d2}
  Ports = {p1}
  MaxActs = 2
  MaxServerOpens = 1
  Persistent = FALSE
  None = None
  d1 = d1
  d2 = d2
  p1 = p1
SPECIFICATION FairSpec
INVARIANTS NoConfusion NothingForgotten
PROPERTY ConnectionEnds
CHECK_DEADLOCK FALSE
