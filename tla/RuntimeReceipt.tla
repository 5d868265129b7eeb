--------------------------- MODULE RuntimeReceipt ---------------------------
(***************************************************************************)
(* Signed admission receipts and their verification against a trusted      *)
(* bundle, on the Python surface (verify_receipt) and on the TypeScript    *)
(* one (verifyReceipt), with what the TypeScript verifyAdmission checks    *)
(* before it reserves.                                                     *)
(*                                                                         *)
(* "defects" is as for the other documents, "named" says that receiptId is *)
(* a stable id, "fields" that the digests and the enumerations are well    *)
(* formed, "evidence" that the budget and replay digests are there.        *)
(***************************************************************************)
EXTENDS RuntimeTrustTS

ReceiptDocument ==
  [defects: SUBSET Defects, named: BOOLEAN, fields: BOOLEAN, org: Orgs,
   envelope: Envelopes,
   decision: {"ADMIT", "DENY"}, reason: DenialReasons \cup {NoReason}, evidence: BOOLEAN,
   decidedAt: Time, expiresAt: Time, signature: Signature]

\* The decision and what must go with it.
Coherent(doc) ==
  IF doc.decision = "ADMIT" THEN doc.reason = NoReason /\ doc.evidence
  ELSE doc.reason # NoReason

-----------------------------------------------------------------------------
(* The Python surface.                                                     *)

ValidReceipt(doc) ==
  /\ WellFormed(doc) /\ doc.named /\ doc.fields
  /\ Coherent(doc)
  /\ doc.decidedAt < doc.expiresAt

\* Mutant: a receipt can be signed with any key of the bundle.
ReceiptAnyPurpose(doc, bundle, now) ==
  LET signer == SignatureReason(doc.signature, KeyNamed(bundle, doc.signature.keyId))
  IN  IF \A k \in bundle.keys : k.keyId # doc.signature.keyId THEN "SIGNER_UNKNOWN" ELSE signer

ReceiptSignerReason(doc, bundle, now) ==
  SignerReason(bundle, doc.signature, "RUNTIME_RECEIPT", now)

VerifyReceipt(doc, b, org, now) ==
  LET bundle == BundleDoc[b]
      signer == ReceiptSignerReason(doc, bundle, now)
  IN  IF ~ValidTrustBundle(bundle) \/ ~ValidReceipt(doc) THEN "MALFORMED"
      ELSE IF doc.org # org \/ bundle.org # org THEN "TENANT_MISMATCH"
      ELSE IF signer # NoReason THEN signer
      ELSE IF now >= doc.expiresAt THEN "ENVELOPE_EXPIRED"
      ELSE NoReason

-----------------------------------------------------------------------------
(* The TypeScript surface: the tenant before the fields, no receiptId.     *)

TSValidReceipt(doc) == doc.fields /\ Coherent(doc) /\ doc.decidedAt < doc.expiresAt

\* Mutant: a receipt is good until its last second is over.
TSExpiresLate(doc, now) == now > doc.expiresAt

TSExpired(doc, now) == now >= doc.expiresAt

TSVerifyReceipt(doc, b, org, now) ==
  LET bundle == BundleDoc[b]
      signer == TSSignerReason(bundle, doc.signature, "RUNTIME_RECEIPT", now)
  IN  IF ~TSWellFormed(doc) \/ ~TSValidTrustBundle(bundle) THEN "MALFORMED"
      ELSE IF doc.org # org \/ bundle.org # org THEN "TENANT_MISMATCH"
      ELSE IF ~TSValidReceipt(doc) THEN "MALFORMED"
      ELSE IF signer # NoReason THEN signer
      ELSE IF TSExpired(doc, now) THEN "ENVELOPE_EXPIRED"
      ELSE NoReason

-----------------------------------------------------------------------------
(* verifyAdmission up to replayStore.reserve.                              *)

TSValidEnvelope(doc) ==
  TSWellFormed(doc) /\ doc.issuedAt <= doc.notBefore /\ doc.notBefore < doc.expiresAt

\* Mutant: the caller's idempotency key is compared after the reservation.
TSAnyCallKey(doc, callKey) == NoReason

TSCallKeyReason(doc, callKey) ==
  IF callKey = None THEN "MALFORMED"
  ELSE IF callKey # doc.idemKey THEN "IDEMPOTENCY_CONFLICT"
  ELSE NoReason

TSEnvelopeReason(e, b, org, now, callKey) ==
  LET doc == EnvelopeDoc[e]
      bundle == BundleDoc[b]
      selected == TSSelectKey(bundle, doc.signature.keyId, "RUNTIME_ADMISSION", now)
  IN  IF ~TSValidEnvelope(doc) \/ ~TSValidTrustBundle(bundle) THEN "MALFORMED"
      ELSE IF ~doc.signature.digestOk THEN "DIGEST_MISMATCH"
      ELSE IF doc.org # org \/ bundle.org # org THEN "TENANT_MISMATCH"
      ELSE IF selected # NoReason THEN selected
      ELSE IF doc.signature.signer # KeyNamed(bundle, doc.signature.keyId).publicKey
           THEN "SIGNATURE_INVALID"
      ELSE IF now < doc.notBefore THEN "ENVELOPE_NOT_YET_VALID"
      ELSE IF now >= doc.expiresAt THEN "ENVELOPE_EXPIRED"
      ELSE TSCallKeyReason(doc, callKey)
=============================================================================
