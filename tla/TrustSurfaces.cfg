CONSTANTS
  None = None
  Bundles <- MCBundles
  BundleDoc <- MCBundleDoc
  Envelopes <- MCEnvelopes
  EnvelopeDoc <- MCEnvelopeDoc
  Orgs = {"org", "other", "long"}
  KeyIds = {"k1", "k2", "k3", "long"}
  Signers = {"A", "B", "C", "Rogue"}
  Nonces = {}
  IdemKeys = {}
  Requests = {}
  LongIds = {"long"}
  MaxBundleVersion = 4
  Org = "org"
  Pinned = "root"
  MaxTime = 4
SPECIFICATION SurfacesSpec
INVARIANTS
  ChainSound
  TSChainSound
  SameRotationVerdict
CHECK_DEADLOCK FALSE
