---------------------------- MODULE RuntimeTrust ----------------------------
(***************************************************************************)
(* The pure verifiers of planeon_harness.runtime: shape validation of the  *)
(* signed documents, exact-key selection, and the bootstrap, rotation and  *)
(* receipt checks, each returning the first reason that denies or NoReason.*)
(*                                                                         *)
(* Documents are named: Bundles and Envelopes are sets of document names,  *)
(* BundleDoc and EnvelopeDoc give their contents.  The SHA-256 digest of a *)
(* canonical document is its name (no collisions), so "previous" holds the *)
(* name of the predecessor.  A signature says which private key made it    *)
(* (signer), which key it claims (keyId), and whether the signed-message   *)
(* digest it carries is that of the payload (digestOk).  "defects" is what *)
(* is wrong with the document's form: its fields, patterns and types.      *)
(***************************************************************************)
EXTENDS Naturals

CONSTANTS
  Bundles,          \* names (= digests) of trust bundles
  BundleDoc,        \* [Bundles -> trust bundle]
  Envelopes,        \* names (= admission digests) of admission envelopes
  EnvelopeDoc,      \* [Envelopes -> admission envelope]
  Orgs,             \* organization ids
  KeyIds,           \* key ids
  Signers,          \* key pairs; a public key is named by its private key
  Nonces,
  IdemKeys,         \* idempotency key digests
  Requests,         \* request digests
  LongIds,          \* the organization and key ids of more than 128 characters
  MaxBundleVersion, \* 2147483647 in the code
  None              \* absent value (null)

ASSUME MaxBundleVersionAssumption == MaxBundleVersion \in Nat \ {0}
ASSUME NoneAssumption == None \notin Bundles

Purposes == {"RUNTIME_ADMISSION", "RUNTIME_RECEIPT", "TRUST_BUNDLE"}
KeyStates == {"PENDING", "ACTIVE", "RETIRED", "REVOKED"}

NoReason == "NO_REASON"
DenialReasons ==
  {"MALFORMED", "SIGNATURE_INVALID", "SIGNER_UNKNOWN", "SIGNER_NOT_ACTIVE",
   "SIGNER_REVOKED", "KEY_PURPOSE_MISMATCH", "ENVELOPE_NOT_YET_VALID",
   "ENVELOPE_EXPIRED", "TENANT_MISMATCH", "REPLAY_DETECTED",
   "IDEMPOTENCY_CONFLICT", "BUDGET_EXCEEDED", "DIGEST_MISMATCH"}

\* The defects of form the two surfaces take differently are told apart:
\* "longId" is an id that no check compares (metadata.id, admissionId) of more
\* than 128 characters, "yearZero" a timestamp of the year 0000, "base64" a
\* nonce, public key or signature written with + or / for - or _.
Defects == {"malformed", "longId", "yearZero", "base64"}

Time == Nat

TrustKey ==
  [keyId: KeyIds, publicKey: Signers, purposes: SUBSET Purposes, state: KeyStates,
   notBefore: Time, notAfter: Time, revokedAt: Time]

Signature == [keyId: KeyIds, signer: Signers, digestOk: BOOLEAN]

TrustBundle ==
  [defects: SUBSET Defects, org: Orgs, version: Nat, issuedAt: Time,
   validFrom: Time, validUntil: Time, previous: Bundles \cup {None}, keys: SUBSET TrustKey,
   signature: Signature]

AdmissionEnvelope ==
  [defects: SUBSET Defects, org: Orgs, issuedAt: Time, notBefore: Time, expiresAt: Time,
   nonce: Nonces, idemKey: IdemKeys, request: Requests, signature: Signature]

ASSUME BundleDocAssumption == BundleDoc \in [Bundles -> TrustBundle]
ASSUME EnvelopeDocAssumption == EnvelopeDoc \in [Envelopes -> AdmissionEnvelope]

-----------------------------------------------------------------------------
(* Shape validation.                                                       *)

\* What validation.py asks of every signed document.
WellFormed(doc) ==
  /\ doc.defects \subseteq {"base64"}
  /\ doc.org \notin LongIds
  /\ doc.signature.keyId \notin LongIds

ValidTrustKey(key) ==
  /\ key.keyId \notin LongIds
  /\ key.purposes # {}
  /\ key.notBefore < key.notAfter
  /\ key.state = "REVOKED" => key.revokedAt >= key.notBefore

UniqueKeyIds(keys) == \A j, k \in keys : j.keyId = k.keyId => j = k

ValidTrustBundle(doc) ==
  /\ WellFormed(doc)
  /\ doc.version \in 1..MaxBundleVersion
  /\ doc.issuedAt <= doc.validFrom
  /\ doc.validFrom < doc.validUntil
  /\ doc.keys # {}
  /\ UniqueKeyIds(doc.keys)
  /\ \A key \in doc.keys : ValidTrustKey(key)

ValidAdmissionEnvelope(doc) ==
  /\ WellFormed(doc)
  /\ doc.issuedAt <= doc.notBefore
  /\ doc.notBefore < doc.expiresAt

-----------------------------------------------------------------------------
(* Exact-key selection and the signature check.                            *)

KeyNamed(doc, keyId) == CHOOSE key \in doc.keys : key.keyId = keyId

\* Mutant: a revoked or retired key still verifies inside its window.
SelectKeyAnyState(doc, keyId, purpose, now) ==
  LET key == KeyNamed(doc, keyId)
  IN  IF \A k \in doc.keys : k.keyId # keyId THEN "SIGNER_UNKNOWN"
      ELSE IF purpose \notin key.purposes THEN "KEY_PURPOSE_MISMATCH"
      ELSE IF ~(key.notBefore <= now /\ now < key.notAfter) THEN "SIGNER_NOT_ACTIVE"
      ELSE NoReason

SelectKey(doc, keyId, purpose, now) ==
  LET key == KeyNamed(doc, keyId)
  IN  IF \A k \in doc.keys : k.keyId # keyId THEN "SIGNER_UNKNOWN"
      ELSE IF key.state = "REVOKED" THEN "SIGNER_REVOKED"
      ELSE IF key.state # "ACTIVE" THEN "SIGNER_NOT_ACTIVE"
      ELSE IF purpose \notin key.purposes THEN "KEY_PURPOSE_MISMATCH"
      ELSE IF ~(key.notBefore <= now /\ now < key.notAfter) THEN "SIGNER_NOT_ACTIVE"
      ELSE NoReason

\* verify_document_signature: the digest first, then the one selected key.
SignatureReason(signature, key) ==
  IF ~signature.digestOk THEN "DIGEST_MISMATCH"
  ELSE IF signature.signer # key.publicKey THEN "SIGNATURE_INVALID"
  ELSE NoReason

\* Key selection followed by the signature check, as every verifier does them.
SignerReason(doc, signature, purpose, now) ==
  LET selected == SelectKey(doc, signature.keyId, purpose, now)
  IN  IF selected # NoReason THEN selected
      ELSE SignatureReason(signature, KeyNamed(doc, signature.keyId))

-----------------------------------------------------------------------------
(* Trust bundles.                                                          *)

InValidity(doc, now) == doc.validFrom <= now /\ now < doc.validUntil

IsRootBundle(doc) == doc.version = 1 /\ doc.previous = None

VerifyBootstrapBundle(b, pinned, org, now) ==
  LET doc == BundleDoc[b]
      signer == SignerReason(doc, doc.signature, "TRUST_BUNDLE", now)
  IN  IF ~ValidTrustBundle(doc) THEN "MALFORMED"
      ELSE IF b # pinned THEN "DIGEST_MISMATCH"
      ELSE IF doc.org # org THEN "TENANT_MISMATCH"
      ELSE IF ~InValidity(doc, now) THEN "SIGNER_NOT_ACTIVE"
      ELSE IF signer # NoReason THEN signer
      ELSE IF ~IsRootBundle(doc) THEN "MALFORMED"
      ELSE NoReason

NextVersion(candidate, predecessor) == candidate.version = predecessor.version + 1

\* Mutant: the signer is looked up among the candidate's own keys.
SelfSignedReason(candidate, predecessor, now) ==
  SignerReason(candidate, candidate.signature, "TRUST_BUNDLE", now)

RotationSignerReason(candidate, predecessor, now) ==
  SignerReason(predecessor, candidate.signature, "TRUST_BUNDLE", now)

VerifyRotatedBundle(c, p, org, now) ==
  LET candidate == BundleDoc[c]
      predecessor == BundleDoc[p]
  IN  IF ~ValidTrustBundle(predecessor) \/ ~ValidTrustBundle(candidate) THEN "MALFORMED"
      ELSE IF candidate.org # org \/ predecessor.org # org THEN "TENANT_MISMATCH"
      ELSE IF ~NextVersion(candidate, predecessor) THEN "MALFORMED"
      ELSE IF candidate.previous # p THEN "DIGEST_MISMATCH"
      ELSE RotationSignerReason(candidate, predecessor, now)

-----------------------------------------------------------------------------
(* Admission envelopes: every check of verify_admission before it reserves.*)
(* callKey is the idempotency key digest the caller passes, or None when   *)
(* it is not a SHA-256 digest.                                             *)

\* Mutant: an envelope is accepted before its window opens.
ExpiryReason(doc, now) == IF now >= doc.expiresAt THEN "ENVELOPE_EXPIRED" ELSE NoReason

WindowReason(doc, now) ==
  IF now < doc.notBefore THEN "ENVELOPE_NOT_YET_VALID"
  ELSE IF now >= doc.expiresAt THEN "ENVELOPE_EXPIRED"
  ELSE NoReason

EnvelopeReason(e, b, org, now, callKey) ==
  LET doc == EnvelopeDoc[e]
      bundle == BundleDoc[b]
      signer == SignerReason(bundle, doc.signature, "RUNTIME_ADMISSION", now)
  IN  IF ~ValidAdmissionEnvelope(doc) \/ ~ValidTrustBundle(bundle) THEN "MALFORMED"
      ELSE IF ~doc.signature.digestOk THEN "DIGEST_MISMATCH"
      ELSE IF doc.org # org \/ bundle.org # org THEN "TENANT_MISMATCH"
      ELSE IF signer # NoReason THEN signer
      ELSE IF WindowReason(doc, now) # NoReason THEN WindowReason(doc, now)
      ELSE IF callKey = None THEN "MALFORMED"
      ELSE IF callKey # doc.idemKey THEN "IDEMPOTENCY_CONFLICT"
      ELSE NoReason
=============================================================================
