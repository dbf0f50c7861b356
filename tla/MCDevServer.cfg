SPECIFICATION FairSpec
CONSTANTS
  Source = Source
  tex = tex
  Assets <- MCAssets
  Plain = Plain
  Textured = Textured
  Typo = Typo
  Texts <- MCTexts
  Broken = {Typo}
  Uses <- MCUses
  Blobs = {Red}
  Gens = {g1, g2, g3}
  Conns = {c1, c2}
  MaxConns = 1
  MaxSaves = 2
  MaxFaults = 1
  Absent = Absent
  Unread = Unread
  NoFp = NoFp
  NoGen = NoGen
  NoError = NoError
  IoFailure = IoFailure
INVARIANTS
  TypeOK
  ResourcesExact
  NoStaleGeneration
PROPERTIES
  ServesLastGoodBuild
  EventuallyServesTheFiles
