SPECIFICATION Spec
CONSTANTS
  u1 = u1  u2 = u2  f1 = f1  f2 = f2  f3 = f3  f4 = f4
  r1 = r1  r2 = r2  r3 = r3
  Users = {u1, u2}
  Files = {f1, f2, f3}
  Reqs = {r1, r2}
  Ops = {"upload", "profile", "view"}
  Faults <- AllFaults
  NoFile = NoFile  Foreign = Foreign
SYMMETRY Symmetry
INVARIANTS TypeOK AvatarServed ViewedIsWhole LeaksHaveACause
