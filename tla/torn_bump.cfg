\* A lockstep bump that was stopped before its commit, and what is tagged next.
SPECIFICATION Spec
CONSTANTS
  ci = ci
  laptop = laptop
  NoTag = NoTag
  Ci = {ci}
  Laptop = {laptop}
  N = 1
  Shapes = {"lockstep"}
  Lockfile = FALSE
  Options <- JustPush
  MaxVersion = 3
  MaxWork = 1
  MaxWithdrawals = 0
  MaxFaults = 1
INVARIANT
  TagNamesManifestAlways
