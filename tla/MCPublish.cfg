SPECIFICATION Spec
CONSTANTS
  old = old  b1 = b1  b2 = b2  b3 = b3  bad = bad
  app = app  page = page  stale = stale
  Builders = {p, q}
  Builds <- MCBuilds
  Files <- MCFiles
  FilesOf <- MCFilesOf
  Colliding = {bad}
  Previous = old
  Absent = Absent
  Foreign = Foreign
  NoBuild = NoBuild
  MaxFaults = 2
  MaxCrashes = 1
SYMMETRY Interchangeable
INVARIANTS
  TypeOK
  OutputSound
PROPERTIES
  OutputKept
