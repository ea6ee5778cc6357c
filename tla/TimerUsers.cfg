\* Keepalives are switched off and on and between two intervals; a terminal's delays
\* differ, so that old timers come between new ones.
SPECIFICATION MCSpec
CONSTANTS
  Ctx = {1, 2}
  W = 10
  Intervals = {0, 1, 3}
  Lateness = 1
  UpdateDelay = 2
  BlinkDelay = 3
  BellDelay = 1
  Blinks = {"cblink", "tblink"}
  Late = 1
  Callbacks = 2
INVARIANTS
  PingScheduled
  UpdateScheduled
PROPERTIES
  NoStrayPing
  UpdatesRationed
