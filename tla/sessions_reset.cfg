SPECIFICATION Spec
CONSTANTS
  u1 = u1  u2 = u2  p1 = p1  p2 = p2
  r1 = r1  r2 = r2  r3 = r3
  t1 = t1  t2 = t2  t3 = t3  t4 = t4
  k1 = k1  k2 = k2  s1 = s1  s2 = s2
  Users = {u1}
  Passwords = {p1, p2}
  Roles = {"admin"}
  Reqs = {r1, r2}
  Tokens = {t1}
  Links = {k1, k2}
  Salts = {s1}
  Calls <- ResetAndUnban
  Faults <- AllFaults
  InitUsers <- MaybeBanned
  NoUser = NoUser  NoPw = NoPw  NoReq = NoReq  NoToken = NoToken
  NoLink = NoLink  NoSalt = NoSalt  NoRow = NoRow
\* Clients may stop calling, and the pool of fresh tokens may be used up.
CHECK_DEADLOCK FALSE
SYMMETRY Symmetry
INVARIANTS RevocationComplete UnusedLinkSurvives UsedLinkIsLeaving MintsReflectOneRow
