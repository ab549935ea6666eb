\* Clients drop requests that await their reply.
CONSTANTS
  Requests = {r1, r2, r3}
  MaxBacklog = 1
  MaxNetworkError = 1
  MaxQuota = 0
  DropsInFlight = TRUE
SPECIFICATION Spec
INVARIANTS
  RunningIsExact
\* Clients may stop making requests.
CHECK_DEADLOCK FALSE
