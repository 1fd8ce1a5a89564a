SPECIFICATION FairSpec
CONSTANTS
  m1 = m1
  m2 = m2
  Modules <- MCModules
  Others <- MCOthers
  Crashing = {m1}
  Restarting = TRUE
  MaxProxies = 2
INVARIANTS AlmostAllTold ShutdownTellsAll ProxyAgrees
PROPERTY ModulesFollow
