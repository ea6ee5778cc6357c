\* What the higher layer queued during a key exchange is sent after it.
SPECIFICATION Spec
CONSTANTS
  Bugs = {"none", "norekey", "filter"}
  MaxRekeys = 1
  MaxConf = 1
  MaxSent <- MCMaxSent

INVARIANTS NothingHeld
CHECK_DEADLOCK FALSE
