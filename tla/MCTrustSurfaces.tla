--------------------------- MODULE MCTrustSurfaces ---------------------------
(***************************************************************************)
(* Both runtimes on a family of bundles around one honest chain root, v2,  *)
(* v3, v4: forks, forgeries, a bundle signed by a revoked key, by a key of *)
(* the wrong purpose or by a key only it contains, version gaps, a foreign *)
(* tenant, malformed bundles, and those that only one surface refuses:     *)
(* Python long ids, the year 0000, v4unordered and v5 past the version     *)
(* limit, TypeScript the standard base64 alphabet.                         *)
(***************************************************************************)
EXTENDS TrustSurfaces

Key(id, pair, purposes, state, from, to) ==
  [keyId |-> id, publicKey |-> pair, purposes |-> purposes, state |-> state,
   notBefore |-> from, notAfter |-> to, revokedAt |-> IF state = "REVOKED" THEN from + 1 ELSE 0]

Signed(id, pair) == [keyId |-> id, signer |-> pair, digestOk |-> TRUE]

Bundle(version, previous, keys, signature) ==
  [defects |-> {}, org |-> "org", version |-> version, issuedAt |-> 0, validFrom |-> 0,
   validUntil |-> 3, previous |-> previous, keys |-> keys, signature |-> signature]

Trust == {"TRUST_BUNDLE"}
Runtime == {"RUNTIME_ADMISSION"}

K1 == Key("k1", "A", Trust \cup Runtime, "ACTIVE", 0, 4)
K2 == Key("k2", "B", Trust, "ACTIVE", 1, 4)
K3 == Key("k3", "C", Runtime, "ACTIVE", 0, 4)

RootKeys == {K1, K3}
NextKeys == {Key("k1", "A", Trust \cup Runtime, "REVOKED", 0, 4), K2}
K1Unordered == [Key("k1", "A", Trust, "REVOKED", 1, 4) EXCEPT !.revokedAt = 0]
LastKeys == {K2, Key("k3", "C", Trust, "PENDING", 0, 4)}
ForkKeys == {K1, Key("k2", "Rogue", Trust, "ACTIVE", 0, 4)}

Root == Bundle(1, None, RootKeys, Signed("k1", "A"))
Second == Bundle(2, "root", NextKeys, Signed("k1", "A"))
Third == Bundle(3, "v2", LastKeys, Signed("k2", "B"))

MCBundleDoc ==
  [b \in {"root", "v2", "v3", "v4", "v2fork", "v3fork", "v3revoked", "v3self", "v4pending",
          "v2forged", "v2tampered", "v2purpose", "v2self", "v3skip", "v4jump", "v3other", "v2foreign",
          "v2duplicate", "v2shape", "v4unordered", "v5", "rogueRoot", "v2longId", "v2yearZero",
          "v2base64", "v2longOrg", "v2longSigner", "v2longKey", "v3longId", "v3base64"} |->
     CASE b = "root"        -> Root
       [] b = "v2"          -> Second
       [] b = "v3"          -> Third
       [] b = "v4"          -> Bundle(4, "v3", LastKeys, Signed("k2", "B"))
       [] b = "v2fork"      -> Bundle(2, "root", ForkKeys, Signed("k1", "A"))
       [] b = "v3fork"      -> Bundle(3, "v2fork", ForkKeys, Signed("k2", "Rogue"))
       [] b = "v3revoked"   -> Bundle(3, "v2", ForkKeys, Signed("k1", "A"))
       [] b = "v3self"      -> Bundle(3, "v2", {Key("k3", "Rogue", Trust, "ACTIVE", 0, 4)},
                                      Signed("k3", "Rogue"))
       [] b = "v4pending"   -> Bundle(4, "v3", LastKeys, Signed("k3", "C"))
       [] b = "v2forged"    -> Bundle(2, "root", ForkKeys, Signed("k1", "Rogue"))
       [] b = "v2tampered"  -> [Second EXCEPT !.keys = ForkKeys, !.signature.digestOk = FALSE]
       [] b = "v2purpose"   -> [Second EXCEPT !.signature = Signed("k3", "C")]
       [] b = "v2self"      -> Bundle(2, "root", ForkKeys, Signed("k2", "Rogue"))
       [] b = "v3skip"      -> Bundle(3, "root", LastKeys, Signed("k1", "A"))
       [] b = "v4jump"      -> Bundle(4, "v2", LastKeys, Signed("k2", "B"))
       [] b = "v3other"     -> Bundle(3, "v2fork", NextKeys, Signed("k1", "A"))
       [] b = "v2foreign"   -> [Second EXCEPT !.org = "other"]
       [] b = "v2duplicate" -> [Second EXCEPT !.keys = {K1, [K1 EXCEPT !.publicKey = "Rogue"]}]
       [] b = "v2shape"     -> [Second EXCEPT !.defects = {"malformed"}]
       [] b = "v4unordered" -> Bundle(4, "v3", {K2, K1Unordered},
                                      Signed("k2", "B"))
       [] b = "v5"          -> Bundle(5, "v4", LastKeys, Signed("k2", "B"))
       [] b = "v2longId"    -> [Second EXCEPT !.defects = {"longId"}]
       [] b = "v2yearZero"  -> [Second EXCEPT !.defects = {"yearZero"}]
       [] b = "v2base64"    -> [Second EXCEPT !.defects = {"base64"}]
       [] b = "v2longOrg"   -> [Second EXCEPT !.org = "long"]
       [] b = "v2longSigner" -> [Second EXCEPT !.signature.keyId = "long"]
       [] b = "v2longKey"   -> [Second EXCEPT !.keys = {K1, Key("long", "B", Trust, "ACTIVE", 0, 4)}]
       [] b = "v3longId"    -> [Third EXCEPT !.defects = {"longId"}, !.previous = "v2longId"]
       [] b = "v3base64"    -> [Third EXCEPT !.defects = {"base64"}]
       [] b = "rogueRoot"   -> [Root EXCEPT !.keys = ForkKeys]]

MCBundles == DOMAIN MCBundleDoc
MCEnvelopes == {}
MCEnvelopeDoc == [e \in {} |-> e]
=============================================================================
