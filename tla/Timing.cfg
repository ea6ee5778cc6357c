\* Two contexts, which come and go, and a clock that wraps around.
SPECIFICATION Spec
CONSTANTS
  Ctx = {1, 2}
  W = 16
  Slack = 1
  Delays = {0, 3}
  Early = 1
  Late = 1
  Slow = 1
  MaxTimers = 3
INVARIANTS
  PromisesKept
PROPERTIES
  ImplementsService
