CONSTANTS
  Paths <- MCPaths
  ApiPaths <- MCApiPaths
  Contents = {1, 2}
  Checkouts <- MCCheckouts
  Commits = {"c1", "c2", "c3"}
  FileCount = 2
  Roles = {"PUBLIC_CONTRACT", "PREDECESSOR_CONTRACT"}
  Outputs = {"models", "client"}
  Strays = {"old"}
  Generated <- MCGenerated
  Absent = Absent
  Torn = Torn
  Edited = Edited
  MaxEdits = 1
SPECIFICATION ReleaseSpec
INVARIANTS
  VerifiedIsOneRelease
  AcceptedSyncVerifies
  AcceptedGenerateChecks
