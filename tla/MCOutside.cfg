\* A record of two values; three messages and an attempt to connect every two seconds; two
\* keys, one of them good, and three sockets; two jobs and two alerts; a job of up to four
\* entries for two workers; two stakers.
CONSTANTS
  Payload = {"step", "loss"}
  CloseInvalidates = FALSE
  StaleAfter = 1
  MaxWrites = 3
  MaxPosts = 1
  MaxClock = 4
  Messages = {"m1", "m2", "m3"}
  ReconnectAfter = 2
  Keys = {"good", "bad"}
  GoodKeys = {"good"}
  Sockets = {"s1", "s2", "s3"}
  MaxDelay = 3
  PaneJobs = {"j1", "j2"}
  PaneAlerts = {"a1", "a2"}
  Jobs = {"j1"}
  Workers = {"w1", "w2"}
  MaxWorkers = 4
  Allocations = {1, 2}
  MaxGifts = 1
  Stakers = {"w1", "w2"}
  Amounts = {0, 1, 2}
  Cooldowns = {0, 1}
  MaxSlashes = 2
  MaxSent = 1
  MaxNow = 3
SPECIFICATION MCFairSpec
INVARIANTS TypesOK SampleRegular OutageBounded OneSocket EscrowSolvent StakesBacked
PROPERTIES AttemptsSpaced MCReconnects MCSocketReturns PanesKeepSubject ImplementsSettlement
\* The clock and the writes of the page are bounded, and a completed job takes no more
\* instructions.
CHECK_DEADLOCK FALSE
