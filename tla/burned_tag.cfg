\* A published version whose registry the guard does not ask.
SPECIFICATION FairTagSpec
CONSTANTS
  i1 = i1
  i2 = i2
  b1 = b1
  b2 = b2
  N = 3
  Item = {i1}
  Build = {b1}
  NoBuild = NoBuild
  FreshEvidence = {1, 2}
  UntypedWhenIdle = {}
  Group <- TapsGroup
  Required <- TapsRequired
  Stage <- TapsStage
  Options <- DefaultOptions
  ConfigInactive = {}
  SkipsOnNightly = {}
  Inapplicable = {}
  Probe <- TapsProbe
  Moderated = {}
  VerifyGate = FALSE
  MaxFaults = 0
  Commands <- PlainCommands
  GuardProbe <- OpenGuard
  Retained = {}
  Unregistered = {}
PROPERTIES
  KeepsBurnedTagAlways
