SPECIFICATION FairSpec
CONSTANTS
  ip1 = ip1  ip2 = ip2  r1 = r1  r2 = r2  r3 = r3
  Endpoints = {"login", "signup", "profile"}
  IPs = {ip1}
  Limit <- TwoLimits
  Window = 3
  Reqs = {r1, r2}
  Faults <- AllFaults
  NoKey = NoKey
INVARIANTS TypeOK WindowBound SlidingBound
PROPERTIES BlockIsLifted
