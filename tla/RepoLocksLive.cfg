SPECIFICATION FairSpec
CONSTANTS
  r1 = r1
  r2 = r2
  r3 = r3
  t1 = t1
  t2 = t2
  Repo = {r1, r2, r3}
  Commanded = {r1}
  Tree = {t1, t2}
  TreeOf <- ReAddedFolder
  Manual = {"manual"}
  Burst = {"all"}
  Permits = 1
  MaxInFlight = 1
PROPERTIES
  EverythingEnds
  DueServed
CHECK_DEADLOCK FALSE
