\* Four loads: enough for two rounds of freezing and thawing with stale callbacks left.
SPECIFICATION FairSocketSpec
CONSTANTS
  Loads = 4
  Callbacks = 3
INVARIANTS
  CallbacksSound
  NeverStuck
PROPERTIES
  InputInOrder
  DataArrives
CHECK_DEADLOCK FALSE
