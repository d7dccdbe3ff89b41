\* Small numbers of philosophers, smokers and processors.
CONSTANTS
  Apps = {"ringbuf", "dpp", "smokers", "workers", "watchdog", "coro", "sync", "fork"}
  None = None
  Size = 9
  Requests = {1, 2, 3, 4, 5, 6, 7}
  DataLen = 8
  Total = 200
  NPhilo = 3
  NSessions = 4
  NSmokers = 3
  IdModulus = 4
  NCpus = 3
  WorkerQueue = 2
  FeedTicks = 10
  BarkTicks = 13
  Lag = 1
  CoroQueue = 2
  Rounds = 2
  Timeout = 5
SPECIFICATION AppsSpec
INVARIANTS
  Exclusive
  AssertsHold
  TimersServe
PROPERTY AppsEnd
