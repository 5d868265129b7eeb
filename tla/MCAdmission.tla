----------------------------- MODULE MCAdmission -----------------------------
(***************************************************************************)
(* Admission on two trust bundles, the second of which revokes the key k1, *)
(* and on envelopes chosen to collide: the same request under a new nonce, *)
(* a nonce used again for another request, an idempotency key used again   *)
(* for another request, and documents that every check but one accepts.    *)
(***************************************************************************)
EXTENDS Admission

CONSTANTS c1, c2

Key(id, pair, state) ==
  [keyId |-> id, publicKey |-> pair, purposes |-> {"TRUST_BUNDLE", "RUNTIME_ADMISSION"},
   state |-> state, notBefore |-> 0, notAfter |-> 5, revokedAt |-> 1]

Signed(id, pair) == [keyId |-> id, signer |-> pair, digestOk |-> TRUE]

MCBundleDoc ==
  [b \in {"root", "next"} |->
     [defects |-> {}, org |-> "org", version |-> IF b = "root" THEN 1 ELSE 2,
      issuedAt |-> 0, validFrom |-> 0, validUntil |-> 5,
      previous |-> IF b = "root" THEN None ELSE "root",
      keys |-> {Key("k1", "A", IF b = "root" THEN "ACTIVE" ELSE "REVOKED"),
                Key("k2", "B", "ACTIVE")},
      signature |-> Signed("k1", "A")]]

Envelope(nonce, idemKey, request, expiresAt, signature) ==
  [defects |-> {}, org |-> "org", issuedAt |-> 0, notBefore |-> 0, expiresAt |-> expiresAt,
   nonce |-> nonce, idemKey |-> idemKey, request |-> request, signature |-> signature]

First == Envelope("n1", "i1", "r1", 2, Signed("k1", "A"))
Retry == Envelope("n2", "i1", "r1", 4, Signed("k2", "B"))
NonceAgain == Envelope("n1", "i2", "r2", 4, Signed("k2", "B"))
KeyAgain == Envelope("n3", "i1", "r2", 4, Signed("k2", "B"))
Forged == Envelope("n2", "i2", "r2", 4, Signed("k2", "Rogue"))

MCEnvelopeDoc ==
  [e \in {"first", "retry", "nonceAgain", "keyAgain", "forged", "early", "tampered",
          "wrongKey"} |->
     CASE e = "first"      -> First
       [] e = "retry"      -> Retry
       [] e = "nonceAgain" -> NonceAgain
       [] e = "keyAgain"   -> KeyAgain
       [] e = "forged"     -> Forged
       [] e = "early"      -> [Retry EXCEPT !.notBefore = 1]
       [] e = "tampered"   -> [Retry EXCEPT !.signature.digestOk = FALSE]
       [] e = "wrongKey"   -> [Retry EXCEPT !.signature.keyId = "k1"]]

MCBundles == DOMAIN MCBundleDoc
MCEnvelopes == DOMAIN MCEnvelopeDoc

\* One dimension at its limit, one over it, and one observation too large to report.
Usage(tokens) ==
  <<LimitMax, [d \in Dimensions |-> IF d = "MODEL_TOKENS" THEN tokens ELSE 0]>>
Within == Usage(LimitMax["MODEL_TOKENS"])
Over == Usage(LimitMax["MODEL_TOKENS"] + 1)
Unreportable == Usage(LimitMax["MODEL_TOKENS"] + 2)

MCBudgetInputs == {Within, Over, Unreportable}
MCWithinOver == {Within, Over}
=============================================================================
