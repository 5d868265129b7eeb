CONSTANTS
  Sources = {"models", "trust", "readme"}
  GeneratedSources = {"models"}
  Contents = {0, 1}
  Archives <- MCArchives
  Reads <- MCReads
  Directories <- MCDirectories
  Contains <- MCContains
  Absent = Absent
  Torn = Torn
  MaxEdits = 3
  Runs = {r1, r2}
  Members = 2
  Texts = {0, 1}
  MaxChanges = 3
SPECIFICATION BuildersSpec
INVARIANTS
  DirectoriesOfOneBuild
  AcceptedOfOneBuild
  VerifiedOfOneMoment
  OutputExplained
PROPERTIES
  NeverReplaced
