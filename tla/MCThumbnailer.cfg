\* Three requests, 2 at a time, every order of calls, replies and timers.
CONSTANTS
  Requests = {r1, r2, r3}
  MaxBacklog = 2
  MaxNetworkError = 1
  MaxQuota = 2
  DropsInFlight = FALSE
SPECIFICATION FairSpec
INVARIANTS
  RunningIsExact
  NoLostWakeup
  AnsweredOnce
PROPERTIES
  EveryRequestAnswered
\* Clients may stop making requests.
CHECK_DEADLOCK FALSE
