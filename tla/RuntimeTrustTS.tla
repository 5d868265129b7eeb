--------------------------- MODULE RuntimeTrustTS ---------------------------
(***************************************************************************)
(* The TypeScript surface of the same verifiers (typescript/src/runtime).  *)
(* It reads the same documents as the Python one; what differs is kept: it *)
(* bounds bundleVersion from below only, asks no order of revokedAt, takes *)
(* ids of any length but for trust keys and takes the year 0000, wants the *)
(* base64url alphabet, and checks that a bootstrap bundle is a root before *)
(* its validity window.                                                    *)
(***************************************************************************)
EXTENDS RuntimeTrust

\* What index.ts asks of every signed document.
TSWellFormed(doc) == doc.defects \subseteq {"longId", "yearZero"}

\* Where the two part: the documents that have a defect of form for one only.
OnlyPythonMinds(doc) ==
  \/ doc.defects \cap {"longId", "yearZero"} # {}
  \/ doc.org \in LongIds
  \/ doc.signature.keyId \in LongIds

OnlyTypeScriptMinds(doc) == "base64" \in doc.defects

TSValidTrustKey(key) ==
  key.keyId \notin LongIds /\ key.purposes # {} /\ key.notBefore < key.notAfter

TSValidTrustBundle(doc) ==
  /\ TSWellFormed(doc)
  /\ doc.version >= 1
  /\ doc.issuedAt <= doc.validFrom
  /\ doc.validFrom < doc.validUntil
  /\ doc.keys # {}
  /\ UniqueKeyIds(doc.keys)
  /\ \A key \in doc.keys : TSValidTrustKey(key)

TSSelectKey(doc, keyId, purpose, now) ==
  IF \A k \in doc.keys : k.keyId # keyId THEN "SIGNER_UNKNOWN"
  ELSE LET key == KeyNamed(doc, keyId)
       IN  CASE key.state = "REVOKED" -> "SIGNER_REVOKED"
             [] key.state \in {"PENDING", "RETIRED"} -> "SIGNER_NOT_ACTIVE"
             [] key.state = "ACTIVE" ->
                  IF purpose \notin key.purposes THEN "KEY_PURPOSE_MISMATCH"
                  ELSE IF key.notBefore <= now /\ now < key.notAfter THEN NoReason
                  ELSE "SIGNER_NOT_ACTIVE"

\* Mutant: the digest of the signed message is not compared.
TSSignerAnyDigest(doc, signature, purpose, now) ==
  LET selected == TSSelectKey(doc, signature.keyId, purpose, now)
  IN  IF selected # NoReason THEN selected
      ELSE IF signature.signer # KeyNamed(doc, signature.keyId).publicKey
           THEN "SIGNATURE_INVALID"
      ELSE NoReason

\* selectKey, then verifySignature, as verifyBootstrapBundle, verifyRotatedBundle
\* and verifyReceipt read them.
TSSignerReason(doc, signature, purpose, now) ==
  LET selected == TSSelectKey(doc, signature.keyId, purpose, now)
  IN  IF selected # NoReason THEN selected
      ELSE IF ~signature.digestOk THEN "DIGEST_MISMATCH"
      ELSE IF signature.signer # KeyNamed(doc, signature.keyId).publicKey
           THEN "SIGNATURE_INVALID"
      ELSE NoReason

TSVerifyBootstrapBundle(b, pinned, org, now) ==
  LET doc == BundleDoc[b]
  IN  IF ~TSValidTrustBundle(doc) THEN "MALFORMED"
      ELSE IF b # pinned THEN "DIGEST_MISMATCH"
      ELSE IF doc.org # org THEN "TENANT_MISMATCH"
      ELSE IF ~IsRootBundle(doc) THEN "MALFORMED"
      ELSE IF ~InValidity(doc, now) THEN "SIGNER_NOT_ACTIVE"
      ELSE TSSignerReason(doc, doc.signature, "TRUST_BUNDLE", now)

TSVerifyRotatedBundle(c, p, org, now) ==
  LET candidate == BundleDoc[c]
      predecessor == BundleDoc[p]
  IN  IF ~TSValidTrustBundle(candidate) \/ ~TSValidTrustBundle(predecessor) THEN "MALFORMED"
      ELSE IF candidate.org # org \/ predecessor.org # org THEN "TENANT_MISMATCH"
      ELSE IF candidate.version # predecessor.version + 1 THEN "MALFORMED"
      ELSE IF candidate.previous # p THEN "DIGEST_MISMATCH"
      ELSE TSSignerReason(predecessor, candidate.signature, "TRUST_BUNDLE", now)
=============================================================================
