\* Three assets, two builds of one size, runs with different settings.
SPECIFICATION FairSpec
CONSTANTS
  archive = archive
  checksums = checksums
  package = package
  Absent = Absent
  Partial = Partial
  Asset = {archive, package, checksums}
  Build = {1, 2}
  Size <- SameSize
  Digests = TRUE
  Concurrency = 2
  Options <- Settings
  MaxRuns = 2
  MaxFaults = 1
INVARIANTS
  GithubTypeOK
  LiveCoherent
  RunDeliversBuild
PROPERTIES
  PublicBytesKept
  ResumedRunConverges
