SPECIFICATION Spec
CONSTANTS
  r1 = r1
  r2 = r2
  r3 = r3
  t1 = t1
  t2 = t2
  Repo = {r1, r2}
  Commanded = {r1, r2}
  Tree = {t1, t2}
  TreeOf <- TwoFolders
  Manual = {"manual"}
  Burst = {"all"}
  Permits = 1
  MaxInFlight = 1
INVARIANTS
  GlobalGitCap
CHECK_DEADLOCK FALSE
