\* Two objects, a queue of up to three callbacks and the one being run.
SPECIFICATION FairSpec
CONSTANTS
  o1 = o1
  o2 = o2
  c1 = c1
  c2 = c2
  c3 = c3
  c4 = c4
  Object = {o1, o2}
  PlainUser = {o1}
  Cell = {c1, c2, c3, c4}
  NoEntry = NoEntry
  Null = Null
  MaxQueue = 3
INVARIANTS
  NoDanglingCallback
  NoInputForgotten
PROPERTIES
  InputHandled
  ImplementsQueue
