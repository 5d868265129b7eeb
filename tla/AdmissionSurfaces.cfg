CONSTANTS
  None = None
  Bundles <- MCBundles
  BundleDoc <- MCBundleDoc
  Envelopes <- MCEnvelopes
  EnvelopeDoc <- MCEnvelopeDoc
  Orgs = {"org", "other", "long"}
  KeyIds = {"k1", "k2", "rk", "long"}
  Signers = {"A", "B", "R", "Rogue"}
  Nonces = {"n1", "n2", "n3"}
  IdemKeys = {"i1", "i2"}
  Requests = {"r1", "r2"}
  LongIds = {"long"}
  MaxBundleVersion = 3
  Org = "org"
  Pinned = "root"
  MaxTime = 1
  py = py
  ts = ts
  Calls = {py, ts}
  TSCalls = {ts}
  BudgetInputs <- MCBudgetInputs
  Replayable = {"COMMITTED"}
  MaxCalls = 3
  ReceiptLife = 1
  ReceiptSignature <- MCReceiptSignature
  OtherSignatures <- MCOtherSignatures
  Namings = {TRUE}
SPECIFICATION SurfacesSpec
INVARIANTS
  OneOutcomePerKey
  ReservationExplained
  AdmissionsAreBacked
  VerifiedReceiptsTrue
CHECK_DEADLOCK FALSE
