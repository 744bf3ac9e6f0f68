SPECIFICATION Spec
CONSTANTS
  r1 = r1  r2 = r2  r3 = r3
  Reqs = {r1, r2, r3}
  Alarm = 1
  MaxRequests = 4
  NoReq = NoReq
SYMMETRY Symmetry
\* The number of requests is bounded.
CHECK_DEADLOCK FALSE
INVARIANTS TypeOK TrafficBalance BusinessBalance ScrapeIsPlausible HealthIsHonest
