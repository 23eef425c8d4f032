SPECIFICATION Spec
CONSTANTS
  base = base
  app = app
  e1 = e1
  e2 = e2
  h1 = h1
  h2 = h2
  Config = {base, app}
  Host = {h1, h2}
  Executor = {e1}
  DependsOn <- Chain
  Order <- Together
  Hosts <- Spread
  MaxEdits = 1
  MaxChanges = 1
  Faults = {}
PROPERTY CommandForCurrentSpec
