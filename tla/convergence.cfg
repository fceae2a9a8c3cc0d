\* Re-running one command line after failures and kills.
SPECIFICATION FairSpec
CONSTANTS
  i1 = i1
  i2 = i2
  b1 = b1
  b2 = b2
  N = 5
  Item = {i1, i2}
  Build = {b1}
  NoBuild = NoBuild
  FreshEvidence = {2}
  UntypedWhenIdle = {}
  Group <- FiveGroup
  Required <- FiveRequired
  Stage <- FiveStage
  Options <- DefaultOptions
  ConfigInactive = {5}
  SkipsOnNightly = {}
  Inapplicable = {1, 3}
  Probe <- FiveProbe
  Moderated = {4}
  VerifyGate = TRUE
  MaxFaults = 2
PROPERTIES
  Converges
