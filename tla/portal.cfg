SPECIFICATION Spec
CONSTANTS
  tab1 = tab1  tab2 = tab2
  f1 = f1  f2 = f2
  c1 = c1  c2 = c2  c3 = c3
  Tabs = {tab1, tab2}
  Tasks <- MCTasks
  Fields = {f1, f2}
  Csrfs = {c1, c2, c3}
  Faults = {"failed", "unsure", "torn", "random", "lost"}
  OldRows = 3
  MaxRows = 5
  CreatedAt <- MCCreatedAt
  TieBreaks <- MCTieBreaks
  MaxLimit = 2
  DefaultLimit = 1
  AskedLimits = {0, 2, 3}
  NoCsrf = NoCsrf
  NoSettings = NoSettings
SYMMETRY Symmetry
INVARIANTS TypeOK WalkMissesNobody RefusalHasCause
PROPERTIES OnlyEditsChange
