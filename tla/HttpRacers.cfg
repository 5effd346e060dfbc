\* One request that races the close of the binding.
SPECIFICATION HttpSpec
CONSTANTS
    HttpRequests = 1
    HttpBacklog = 1
    MaxPendingHttp = 1
INVARIANT HttpRacersReclaimed
CHECK_DEADLOCK FALSE
