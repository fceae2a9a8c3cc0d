\* One release, default settings, no faults: the identical command, run again.
SPECIFICATION FairSpec
CONSTANTS
  archive = archive
  checksums = checksums
  package = package
  Absent = Absent
  Partial = Partial
  Asset = {archive, checksums}
  Build = {1}
  Size <- SameSize
  Digests = TRUE
  Concurrency = 2
  Options <- OnlyPlain
  MaxRuns = 2
  MaxFaults = 0
PROPERTIES
  IdenticalRunConverges
