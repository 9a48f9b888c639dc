\* A record of two values; a training process that restarts.
CONSTANTS
  Payload = {"step", "loss"}
  CloseInvalidates = FALSE
  StaleAfter = 1
  MaxWrites = 3
  MaxPosts = 1
  MaxClock = 4
SPECIFICATION ChSpec
INVARIANT ReaderSurvives
\* The clock and the writes of the page are bounded.
CHECK_DEADLOCK FALSE
