\* Two inputs, one of which does not end at an EOF, or an input and an output: callbacks
\* of one free, write to or unthrottle the other, and every I/O operation ends.
SPECIFICATION FairSpec
CONSTANTS
  i1 = i1
  i2 = i2
  o1 = o1
  Inputs = {i1, i2}
  Outputs = {o1}
  IgnoreEof = {i1}
  NoHandle = NoHandle
  MaxBacklog = 1
  ReadBound = 3
  WriteBound = 2
  MaxHandles = 2
INVARIANTS
  NoUseAfterFree
  ReadyListSound
  BuffersSound
PROPERTIES
  StreamsInOrder
  OutputDrains
  FreeCompletes
  ReadingResumes
CHECK_DEADLOCK FALSE
