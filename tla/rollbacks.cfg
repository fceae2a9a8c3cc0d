\* Releases, rollbacks and re-cuts of one tag, every command line: the guard,
\* the git order and the ledger.
SPECIFICATION HistorySpec
CONSTANTS
  i1 = i1
  i2 = i2
  b1 = b1
  b2 = b2
  N = 3
  Item = {i1}
  Build = {b1}
  NoBuild = NoBuild
  FreshEvidence = {1}
  UntypedWhenIdle = {}
  Group <- DoorsGroup
  Required <- DoorsRequired
  Stage <- DoorsStage
  Options <- DefaultOptions
  ConfigInactive = {}
  SkipsOnNightly = {}
  Inapplicable = {}
  Probe <- DoorsProbe
  Moderated = {3}
  VerifyGate = FALSE
  MaxFaults = 2
  Commands <- EveryCommand
  GuardProbe <- DoorsGuard
  Retained = {3}
  Unregistered = {}
INVARIANTS
  HistoryTypeOK
  NoLimbo
  BurnsStayOnRecord
  RecutSound
PROPERTIES
  KeepsBurnedTag
