SPECIFICATION FairSpec
CONSTANTS
  r1 = r1  r2 = r2  r3 = r3
  Reqs = {r1, r2, r3}
  MaxConns = 2
  MaxStatements = 2
\* The process ends.
CHECK_DEADLOCK FALSE
INVARIANTS TypeOK NoTransactionCut
PROPERTIES ShutdownEnds RequestsEnd
