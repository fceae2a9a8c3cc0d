\* A repository whose evidence repeats itself and a retained tap,
\* partial writes and partial withdrawals: what the record still names.
SPECIFICATION HistorySpec
CONSTANTS
  i1 = i1
  i2 = i2
  b1 = b1
  b2 = b2
  N = 2
  Item = {i1, i2}
  Build = {b1}
  NoBuild = NoBuild
  FreshEvidence = {2}
  UntypedWhenIdle = {}
  Group <- PairGroup
  Required <- PairRequired
  Stage <- PairStage
  Options <- DefaultOptions
  ConfigInactive = {}
  SkipsOnNightly = {}
  Inapplicable = {}
  Probe <- PairProbe
  Moderated = {}
  VerifyGate = FALSE
  MaxFaults = 2
  Commands <- PlainCommands
  GuardProbe <- PairGuard
  Retained = {2}
  Unregistered = {}
SYMMETRY Symmetry
INVARIANTS
  WorkStaysRecorded
PROPERTIES
  DeletesWithdrawn
