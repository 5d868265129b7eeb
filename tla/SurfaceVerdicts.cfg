CONSTANTS
  None = None
  Bundles <- MCBundles
  BundleDoc <- MCBundleDoc
  Envelopes <- MCVerdictEnvelopes
  EnvelopeDoc <- MCVerdictDoc
  Orgs = {"org", "other", "long"}
  KeyIds = {"k1", "k2", "k3", "rk", "long"}
  Signers = {"A", "B", "R", "Rogue"}
  Nonces = {"n1", "n2"}
  IdemKeys = {"i1", "i2"}
  Requests = {"r1", "r2"}
  LongIds = {"long"}
  MaxBundleVersion = 3
  Org = "org"
  Pinned = "root"
  MaxTime = 4
  py = py
  ts = ts
  Calls = {py, ts}
  TSCalls = {ts}
  BudgetInputs <- MCBudgetInputs
  Replayable = {"COMMITTED"}
  MaxCalls = 1
  ReceiptLife = 1
  ReceiptSignature <- MCReceiptSignature
  OtherSignatures <- MCOtherSignatures
  Namings = {TRUE, FALSE}
SPECIFICATION SurfacesSpec
INVARIANTS
  SameAdmissionVerdict
  SameReceiptVerdict
CHECK_DEADLOCK FALSE
