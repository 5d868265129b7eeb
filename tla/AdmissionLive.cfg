CONSTANTS
  None = None
  Bundles <- MCBundles
  BundleDoc <- MCBundleDoc
  Envelopes <- MCEnvelopes
  EnvelopeDoc <- MCEnvelopeDoc
  Orgs = {"org", "other", "long"}
  KeyIds = {"k1", "k2", "k3", "long"}
  Signers = {"A", "B", "Rogue"}
  Nonces = {"n1", "n2", "n3"}
  IdemKeys = {"i1", "i2"}
  Requests = {"r1", "r2"}
  LongIds = {"long"}
  MaxBundleVersion = 3
  Org = "org"
  Pinned = "root"
  MaxTime = 1
  c1 = c1
  c2 = c2
  Calls = {c1, c2}
  BudgetInputs <- MCBudgetInputs
  Replayable = {"COMMITTED"}
  MaxCalls = 2
SPECIFICATION FairSpec
INVARIANTS
  OnlyVerifiedReserve
PROPERTIES
  ReservationSettled
  ImplementsLedger
CHECK_DEADLOCK FALSE
