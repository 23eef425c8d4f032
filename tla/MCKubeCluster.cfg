SPECIFICATION FairSpec
CONSTANTS
  cp = cp
  w1 = w1
  w2 = w2
  None = None
  Server = {cp, w1, w2}
  ControlPlane = cp
  MaxFaults = 2
INVARIANTS TypeOK BootstrapOnce
PROPERTIES NoSilentRebuild LifetimeKept PatchRespectsOthers Converges Reported
