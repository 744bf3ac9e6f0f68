SPECIFICATION Spec
CONSTANTS
  e1 = e1  e2 = e2  p1 = p1  p2 = p2  k1 = k1  k2 = k2  k3 = k3
  r1 = r1  r2 = r2  r3 = r3
  Emails = {e1, e2}
  Passwords = {p1, p2}
  Links = {k1, k2, k3}
  Reqs = {r1, r2, r3}
  Faults <- AllFaults
  NoLink = NoLink  NoEmail = NoEmail  NoPw = NoPw
SYMMETRY Symmetry
INVARIANTS TypeOK WinnerKeepsPassword VerifiedThroughMail NewestLinkWorks
PROPERTY ImplementsRegistration
