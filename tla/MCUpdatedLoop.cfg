SPECIFICATION FairSpec
CONSTANTS
  Clients = {c1, c2}
  InitialDelay = 3
  Interval = 2
  Jitter = 2
  RequestTimeout = 1
  MaxTrial = 3
  NoClient = nobody
INVARIANTS NeverSleepsPastDeadline EachStreamOnce
PROPERTY LoopKeepsGoing
