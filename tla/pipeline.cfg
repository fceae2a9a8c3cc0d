\* Two builds that differ, partial writes, one fault: what is recorded.
SPECIFICATION Spec
CONSTANTS
  i1 = i1
  i2 = i2
  b1 = b1
  b2 = b2
  N = 4
  Item = {i1, i2}
  Build = {b1, b2}
  NoBuild = NoBuild
  FreshEvidence = {2}
  UntypedWhenIdle = {}
  Group <- FourGroup
  Required <- FourRequired
  Stage <- FourStage
  Options <- RecordOptions
  ConfigInactive = {}
  SkipsOnNightly = {}
  Inapplicable = {4}
  Probe <- FourProbe
  Moderated = {}
  VerifyGate = TRUE
  MaxFaults = 1
SYMMETRY Symmetry
INVARIANTS
  TypeOK
  WorkIsRecorded
  ExitSound
