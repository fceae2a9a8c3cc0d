\* Six publishers, every command line: what the gates let through.
SPECIFICATION Spec
CONSTANTS
  i1 = i1
  i2 = i2
  b1 = b1
  b2 = b2
  N = 6
  Item = {i1}
  Build = {b1}
  NoBuild = NoBuild
  FreshEvidence = {2}
  UntypedWhenIdle = {}
  Group <- SixGroup
  Required <- SixRequired
  Stage <- SixStage
  Options <- GateOptions
  ConfigInactive = {4}
  SkipsOnNightly = {3}
  Inapplicable = {}
  Probe <- SixProbe
  Moderated = {3}
  VerifyGate = TRUE
  MaxFaults = 1
INVARIANTS
  DoorsCloseBehindFailure
  ExitSound
