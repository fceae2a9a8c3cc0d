\* Three crates in either order, a fourth from another job, equivalent and
\* changed rebuilds, two rollbacks: what the cargo publisher leaves behind.
SPECIFICATION FairSpec
CONSTANTS
  core = core
  stage = stage
  cli = cli
  ext = ext
  NoBuild = NoBuild
  Crate = {core, stage, cli, ext}
  Deps <- ForkDeps
  Selected = {cli}
  Configured = {core, stage, cli}
  Custom = {}
  Waiting = {stage}
  Impatient = {}
  Known = {core, stage, cli, ext}
  Oidc = TRUE
  Build = {1, 2, 3}
  Source <- Sources
  Attempts = 3
  Outsiders = {core, ext}
  MaxRollbacks = 2
  MaxFaults = 1
INVARIANTS
  CargoTypeOK
  DepsVisibleBeforeSend
  YanksOnlyOwn
PROPERTIES
  SubmitsSoundly
  CompletedStaysUp
  CargoConverges
