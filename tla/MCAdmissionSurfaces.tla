------------------------- MODULE MCAdmissionSurfaces -------------------------
(***************************************************************************)
(* A Python call and a TypeScript call.  The second bundle revokes the key *)
(* k1, which signs one of the envelopes, and the receipt key.              *)
(***************************************************************************)
EXTENDS AdmissionSurfaces

CONSTANTS py, ts

Key(id, pair, purposes, state) ==
  [keyId |-> id, publicKey |-> pair, purposes |-> purposes,
   state |-> state, notBefore |-> 0, notAfter |-> 5, revokedAt |-> 1]

Signed(id, pair) == [keyId |-> id, signer |-> pair, digestOk |-> TRUE]

MCBundleDoc ==
  [b \in {"root", "next"} |->
     LET state == IF b = "root" THEN "ACTIVE" ELSE "REVOKED"
     IN  [defects |-> {}, org |-> "org", version |-> IF b = "root" THEN 1 ELSE 2,
          issuedAt |-> 0, validFrom |-> 0, validUntil |-> 5,
          previous |-> IF b = "root" THEN None ELSE "root",
          keys |-> {Key("k1", "A", {"TRUST_BUNDLE", "RUNTIME_ADMISSION"}, state),
                    Key("k2", "B", {"RUNTIME_ADMISSION"}, "ACTIVE"),
                    Key("rk", "R", {"RUNTIME_RECEIPT"}, state)},
          signature |-> Signed("k1", "A")]]

Envelope(nonce, idemKey, request, expiresAt, signature) ==
  [defects |-> {}, org |-> "org", issuedAt |-> 0, notBefore |-> 0, expiresAt |-> expiresAt,
   nonce |-> nonce, idemKey |-> idemKey, request |-> request, signature |-> signature]

First == Envelope("n1", "i1", "r1", 1, Signed("k1", "A"))
Retry == Envelope("n2", "i1", "r1", 4, Signed("k2", "B"))

\* Envelopes that collide, for the run of concurrent calls.
MCEnvelopeDoc ==
  [e \in {"first", "retry", "nonceAgain", "keyAgain"} |->
     CASE e = "first"      -> First
       [] e = "retry"      -> Retry
       [] e = "nonceAgain" -> Envelope("n1", "i2", "r2", 4, Signed("k2", "B"))
       [] e = "keyAgain"   -> Envelope("n3", "i1", "r2", 4, Signed("k2", "B"))]

\* Documents that every check but one accepts, for the run of verdicts.
MCVerdictDoc ==
  [e \in {"first", "retry", "early", "expired", "foreign", "tampered", "unknown", "shape",
          "disordered", "wrongKey", "forged", "longId", "yearZero", "base64", "longOrg",
          "longKey"} |->
     CASE e = "first"      -> First
       [] e = "retry"      -> Retry
       [] e = "early"      -> [Retry EXCEPT !.notBefore = 2]
       [] e = "expired"    -> [Retry EXCEPT !.expiresAt = 2]
       [] e = "foreign"    -> [Retry EXCEPT !.org = "other"]
       [] e = "tampered"   -> [Retry EXCEPT !.signature.digestOk = FALSE]
       [] e = "unknown"    -> [Retry EXCEPT !.signature.keyId = "k3"]
       [] e = "shape"      -> [Retry EXCEPT !.defects = {"malformed"}]
       [] e = "disordered" -> [Retry EXCEPT !.issuedAt = 1]
       [] e = "wrongKey"   -> [Retry EXCEPT !.signature.keyId = "k1"]
       [] e = "longId"     -> [Retry EXCEPT !.defects = {"longId"}]
       [] e = "yearZero"   -> [Retry EXCEPT !.defects = {"yearZero"}]
       [] e = "base64"     -> [Retry EXCEPT !.defects = {"base64"}]
       [] e = "longOrg"    -> [Retry EXCEPT !.org = "long"]
       [] e = "longKey"    -> [Retry EXCEPT !.signature.keyId = "long"]
       [] e = "forged"     -> [Retry EXCEPT !.signature.signer = "Rogue"]]

MCBundles == DOMAIN MCBundleDoc
MCEnvelopes == DOMAIN MCEnvelopeDoc
MCVerdictEnvelopes == DOMAIN MCVerdictDoc

MCReceiptSignature == Signed("rk", "R")

\* A stranger, the admission authority, and the runtime's signature of
\* something else.
MCOtherSignatures ==
  {Signed("rk", "Rogue"), Signed("k2", "B"), [Signed("rk", "R") EXCEPT !.digestOk = FALSE]}

Usage(tokens) ==
  <<LimitMax, [d \in Dimensions |-> IF d = "MODEL_TOKENS" THEN tokens ELSE 0]>>

MCBudgetInputs == {Usage(LimitMax["MODEL_TOKENS"]), Usage(LimitMax["MODEL_TOKENS"] + 1)}
=============================================================================
