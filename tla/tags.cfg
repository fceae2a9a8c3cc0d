\* Two checkouts of a lockstep and of a grouped repository: what is tagged.
SPECIFICATION FairSpec
CONSTANTS
  ci = ci
  laptop = laptop
  NoTag = NoTag
  Ci = {ci}
  Laptop = {laptop}
  N = 2
  Shapes = {"lockstep", "grouped"}
  Lockfile = TRUE
  Options <- CommandLines
  MaxVersion = 3
  MaxWork = 1
  MaxWithdrawals = 1
  MaxFaults = 1
INVARIANTS
  CutTypeOK
  TagNamesManifest
  NoOrphanTag
PROPERTIES
  SignedAsAsked
  CutsNextVersion
  WorkIsTagged
