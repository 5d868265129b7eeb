------------------------- MODULE TrustSurfacesProofs -------------------------
(***************************************************************************)
(* Proofs about a Python and a TypeScript runtime that follow the bundles  *)
(* of one organization, for every set of bundles and every pin.            *)
(***************************************************************************)
EXTENDS TrustSurfaces, TrustChainProofs

-----------------------------------------------------------------------------
(* What the TypeScript verifiers accept.                                   *)

LEMMA TSSignerAccepted ==
  ASSUME NEW b \in Bundles, NEW signature, NEW purpose, NEW now,
         TSSignerReason(BundleDoc[b], signature, purpose, now) = NoReason
  PROVE  \E key \in BundleDoc[b].keys : Vouches(key, signature, purpose, now)
BY SignerAlike, SignerAccepted

(* verifyBootstrapBundle: the pinned bundle, version 1, without            *)
(* predecessor, signed by a key of its own.                                *)
LEMMA TSBootstrapAccepted ==
  ASSUME NEW b \in Bundles, NEW now, TSVerifyBootstrapBundle(b, Pinned, Org, now) = NoReason
  PROVE  /\ TSValidTrustBundle(BundleDoc[b])
         /\ b = Pinned
         /\ BundleDoc[b].org = Org
         /\ BundleDoc[b].version = 1
         /\ BundleDoc[b].previous = None
         /\ \E key \in BundleDoc[b].keys :
              Vouches(key, BundleDoc[b].signature, "TRUST_BUNDLE", now)
<1>1. /\ TSValidTrustBundle(BundleDoc[b])
      /\ b = Pinned
      /\ BundleDoc[b].org = Org
      /\ IsRootBundle(BundleDoc[b])
      /\ TSSignerReason(BundleDoc[b], BundleDoc[b].signature, "TRUST_BUNDLE", now) = NoReason
  BY DEF TSVerifyBootstrapBundle, NoReason
<1> QED
  BY <1>1, TSSignerAccepted DEF IsRootBundle

(* verifyRotatedBundle: the next version of the bundle in force, naming it *)
(* as predecessor and signed by one of its keys.                           *)
LEMMA TSRotationAccepted ==
  ASSUME NEW c \in Bundles, NEW p \in Bundles, NEW now,
         TSVerifyRotatedBundle(c, p, Org, now) = NoReason
  PROVE  /\ TSValidTrustBundle(BundleDoc[c])
         /\ BundleDoc[c].org = Org
         /\ BundleDoc[c].version = BundleDoc[p].version + 1
         /\ BundleDoc[c].previous = p
         /\ \E key \in BundleDoc[p].keys :
              Vouches(key, BundleDoc[c].signature, "TRUST_BUNDLE", now)
<1>1. /\ TSValidTrustBundle(BundleDoc[c])
      /\ BundleDoc[c].org = Org
      /\ BundleDoc[c].version = BundleDoc[p].version + 1
      /\ BundleDoc[c].previous = p
      /\ TSSignerReason(BundleDoc[p], BundleDoc[c].signature, "TRUST_BUNDLE", now) = NoReason
  BY DEF TSVerifyRotatedBundle, NoReason
<1> QED
  BY <1>1, TSSignerAccepted

-----------------------------------------------------------------------------
(* The TypeScript chain, link by link.                                     *)

Linked(chain, i) ==
  /\ TSValidTrustBundle(BundleDoc[chain[i].bundle])
  /\ BundleDoc[chain[i].bundle].version = i
  /\ BundleDoc[chain[i].bundle].org = Org
  /\ IF i = 1
     THEN chain[1].bundle = Pinned /\ BundleDoc[chain[1].bundle].previous = None
     ELSE BundleDoc[chain[i].bundle].previous = chain[i - 1].bundle

Authorized(chain, i) ==
  \E key \in BundleDoc[chain[IF i = 1 THEN 1 ELSE i - 1].bundle].keys :
    Vouches(key, BundleDoc[chain[i].bundle].signature, "TRUST_BUNDLE", chain[i].at)

SoundChain(chain) == \A i \in 1..Len(chain) : Linked(chain, i) /\ Authorized(chain, i)

(* What SoundChain says of the TypeScript chain is the property.           *)
LEMMA SoundIsSound == SoundChain(typescript) => TSChainSound
<1> SUFFICES ASSUME SoundChain(typescript) PROVE TSChainSound
  OBVIOUS
<1>1. TSChain!ChainLinked
  BY DEF SoundChain, Linked, TSChain!ChainLinked, TSChain!DocAt
<1>2. TSChain!ChainAuthority
  <2> SUFFICES ASSUME NEW i \in 1..Len(typescript)
               PROVE  \E key \in TSChain!Authority(i).keys :
                        Vouches(key, TSChain!DocAt(i).signature, "TRUST_BUNDLE",
                                typescript[i].at)
    BY DEF TSChain!ChainAuthority, Vouches
  <2>1. Authorized(typescript, i)
    BY DEF SoundChain
  <2> QED
    BY <2>1 DEF Authorized, TSChain!Authority, TSChain!DocAt
<1> QED
  BY <1>1, <1>2 DEF TSChainSound, TSChain!ChainSound

(* A link added to a sound chain leaves the others as they are.            *)
LEMMA ChainGrows ==
  ASSUME NEW chain \in Seq(Adoption), NEW new \in Adoption, NEW grown,
         grown = Append(chain, new), SoundChain(chain),
         Linked(grown, Len(grown)), Authorized(grown, Len(grown))
  PROVE  grown \in Seq(Adoption) /\ SoundChain(grown)
<1>3. PICK n \in Nat : n = Len(chain)
  OBVIOUS
<1>4. /\ grown \in Seq(Adoption) /\ Len(grown) = n + 1
      /\ \A i \in 1..n : grown[i] = chain[i]
  BY <1>3
<1>5. ASSUME NEW i \in 1..n PROVE Linked(grown, i) /\ Authorized(grown, i)
  <2>1. 1 \in 1..n /\ (i # 1 => i - 1 \in 1..n)
    BY <1>3, <1>5
  <2>2. grown[1] = chain[1] /\ grown[i] = chain[i] /\ (i # 1 => grown[i - 1] = chain[i - 1])
    BY <1>4, <1>5, <2>1
  <2>3. Linked(chain, i) /\ Authorized(chain, i)
    BY <1>3, <1>5 DEF SoundChain
  <2> QED
    BY <2>2, <2>3 DEF Linked, Authorized
<1>6. \A i \in 1..(n + 1) : i \in 1..n \/ i = n + 1
  BY <1>3
<1> QED
  BY <1>4, <1>5, <1>6 DEF SoundChain

-----------------------------------------------------------------------------
(* The invariant.                                                          *)

BothInv ==
  /\ TrustInv /\ AdoptedValid
  /\ typescript \in Seq(Adoption)
  /\ SoundChain(typescript)

LEMMA TSBootstrapKeeps ==
  ASSUME BothInv, NEW b \in Bundles, TSBootstrap(b)
  PROVE  typescript' \in Seq(Adoption) /\ SoundChain(typescript')
<1>1. /\ typescript = <<>> /\ clock \in Time
      /\ typescript' = Append(typescript, [bundle |-> b, at |-> clock])
      /\ TSVerifyBootstrapBundle(b, Pinned, Org, clock) = NoReason
  BY MaxTimeAssumption DEF BothInv, TrustInv, TrustTypeOK, TSBootstrap, TSChain!Adopt, Time
<1>2. Len(typescript') = 1 /\ typescript'[1] = [bundle |-> b, at |-> clock]
  BY <1>1
<1>3. typescript'[1].bundle = b /\ typescript'[1].at = clock
  BY <1>2
<1>4. Linked(typescript', 1) /\ Authorized(typescript', 1)
  BY <1>1, <1>3, TSBootstrapAccepted DEF Linked, Authorized
<1>5. Linked(typescript', Len(typescript')) /\ Authorized(typescript', Len(typescript'))
  BY <1>2, <1>4
<1>6. typescript \in Seq(Adoption) /\ SoundChain(typescript)
  BY DEF BothInv
<1> DEFINE new == [bundle |-> b, at |-> clock]
<1>7. new \in Adoption /\ typescript' = Append(typescript, new)
  BY <1>1 DEF Adoption
<1> HIDE DEF new
<1> QED
  BY <1>5, <1>6, <1>7, ChainGrows

LEMMA TSRotateKeeps ==
  ASSUME BothInv, NEW b \in Bundles, TSRotate(b)
  PROVE  typescript' \in Seq(Adoption) /\ SoundChain(typescript')
<1>1. PICK n \in Nat : n = Len(typescript)
  BY DEF BothInv
<1>2. /\ n \in 1..n /\ clock \in Time
      /\ typescript' = Append(typescript, [bundle |-> b, at |-> clock])
      /\ TSVerifyRotatedBundle(b, typescript[n].bundle, Org, clock) = NoReason
  BY <1>1, MaxTimeAssumption DEF BothInv, TrustInv, TrustTypeOK, TSRotate, TSChain!Adopt,
     TSChain!Trusted, Time
<1>3. /\ Len(typescript') = n + 1 /\ typescript'[n + 1] = [bundle |-> b, at |-> clock]
      /\ typescript'[n] = typescript[n]
  BY <1>1, <1>2 DEF BothInv
<1>4. typescript'[n + 1].bundle = b /\ typescript'[n + 1].at = clock
  BY <1>3
<1>5. typescript[n] \in Adoption
  BY <1>1, <1>2 DEF BothInv
<1>6. typescript[n].bundle \in Bundles
  BY <1>5 DEF Adoption
<1>7. BundleDoc[typescript[n].bundle].version = n
  BY <1>1, <1>2 DEF BothInv, SoundChain, Linked
<1>8. n + 1 # 1 /\ (n + 1) - 1 = n
  BY <1>1, <1>2
<1>9. Linked(typescript', n + 1) /\ Authorized(typescript', n + 1)
  BY <1>2, <1>3, <1>4, <1>6, <1>7, <1>8, TSRotationAccepted DEF Linked, Authorized
<1>10. Linked(typescript', Len(typescript')) /\ Authorized(typescript', Len(typescript'))
  BY <1>3, <1>9
<1>11. typescript \in Seq(Adoption) /\ SoundChain(typescript)
  BY DEF BothInv
<1> DEFINE new == [bundle |-> b, at |-> clock]
<1>12. new \in Adoption /\ typescript' = Append(typescript, new)
  BY <1>2 DEF Adoption
<1> HIDE DEF new
<1> QED
  BY <1>10, <1>11, <1>12, ChainGrows

LEMMA BothStep == BothInv /\ [SurfacesNext]_surfaceVars => BothInv'
<1> SUFFICES ASSUME BothInv, [SurfacesNext]_surfaceVars PROVE BothInv'
  OBVIOUS
<1>1. [TrustNext]_trustVars
  BY DEF SurfacesNext, PythonOrClock, TSBootstrap, TSRotate, TSChain!Adopt, surfaceVars,
     trustVars
<1>2. TrustInv' /\ AdoptedValid'
  BY <1>1, TrustInvStep, AdoptedValidStep DEF BothInv, TrustInv
<1>3. CASE UNCHANGED typescript
  BY <1>2, <1>3 DEF BothInv, SoundChain, Linked, Authorized
<1>4. ASSUME NEW b \in Bundles, TSBootstrap(b) \/ TSRotate(b) PROVE BothInv'
  BY <1>2, <1>4, TSBootstrapKeeps, TSRotateKeeps DEF BothInv
<1> QED
  BY <1>3, <1>4 DEF SurfacesNext, PythonOrClock, surfaceVars

LEMMA BothAlways == SurfacesSpec => []BothInv
<1>1. SurfacesInit => BothInv
  <2> SUFFICES ASSUME SurfacesInit PROVE BothInv
    OBVIOUS
  <2>1. TrustInv /\ adopted = <<>> /\ typescript = <<>>
    BY TrustInvInit DEF SurfacesInit, TrustInit
  <2>2. Len(adopted) = 0 /\ Len(typescript) = 0 /\ typescript \in Seq(Adoption)
    BY <2>1
  <2> QED
    BY <2>1, <2>2 DEF BothInv, AdoptedValid, SoundChain
<1> QED
  BY <1>1, BothStep, PTL DEF SurfacesSpec

(* A bundle that is well formed for TypeScript and not for Python breaks   *)
(* one of the rules that only Python has.                                  *)
LEMMA RefusedByPythonOnly ==
  ASSUME NEW b \in Bundles, TSValidTrustBundle(BundleDoc[b]), ~ValidTrustBundle(BundleDoc[b])
  PROVE  OnlyPythonRefuses(BundleDoc[b])
<1> DEFINE doc == BundleDoc[b]
<1>1. doc.version \in Nat /\ doc.keys \subseteq TrustKey
  BY BundleDocAssumption DEF TrustBundle
<1>2. \A key \in doc.keys : key.notBefore \in Nat /\ key.revokedAt \in Nat
  BY <1>1 DEF TrustKey, Time
<1>3. CASE ~WellFormed(doc)
  BY <1>3 DEF TSValidTrustBundle, TSWellFormed, WellFormed, OnlyPythonMinds, OnlyPythonRefuses
<1>4. CASE WellFormed(doc)
  <2>1. \/ doc.version \notin 1..MaxBundleVersion
        \/ \E key \in doc.keys : ~(key.state = "REVOKED" => key.revokedAt >= key.notBefore)
    BY <1>4 DEF TSValidTrustBundle, ValidTrustBundle, TSValidTrustKey, ValidTrustKey
  <2>2. doc.version >= 1
    BY DEF TSValidTrustBundle
  <2>3. CASE doc.version \notin 1..MaxBundleVersion
    BY <1>1, <2>2, <2>3, MaxBundleVersionAssumption DEF OnlyPythonRefuses
  <2>4. CASE \E key \in doc.keys : ~(key.state = "REVOKED" => key.revokedAt >= key.notBefore)
    BY <1>2, <2>4 DEF OnlyPythonRefuses
  <2> QED
    BY <2>1, <2>3, <2>4
<1> QED
  BY <1>3, <1>4

-----------------------------------------------------------------------------
(* Theorems.                                                               *)

(* The TypeScript runtime's chain is sound whatever verifyBootstrapBundle  *)
(* and verifyRotatedBundle are offered, and however long it grows.         *)
THEOREM TSChainIsSound == SurfacesSpec => []TSChainSound
<1>1. BothInv => TSChainSound
  BY SoundIsSound DEF BothInv
<1> QED
  BY <1>1, BothAlways, PTL

(* On one bundle the surfaces judge every candidate alike, but for the     *)
(* checks of form that one of them makes alone, and neither adopts one     *)
(* signed under too long a key id: no other document splits the            *)
(* organization.                                                           *)
THEOREM RotationsJudgedAlike == SurfacesSpec => []SameRotationVerdict
<1>1. ASSUME BothInv PROVE SameRotationVerdict
  <2> SUFFICES ASSUME adopted # <<>>, typescript # <<>>, Trusted = TSChain!Trusted,
                      NEW b \in Bundles
               PROVE  LET doc == BundleDoc[b]
                          python == VerifyRotatedBundle(b, Trusted, Org, clock)
                          ts == TSVerifyRotatedBundle(b, Trusted, Org, clock)
                      IN  /\ \/ python = ts
                             \/ python = "MALFORMED" /\ OnlyPythonRefuses(doc)
                             \/ ts = "MALFORMED" /\ OnlyTypeScriptMinds(doc)
                          /\ doc.signature.keyId \in LongIds => NoReason \notin {python, ts}
    BY DEF SameRotationVerdict
  <2> DEFINE last == BundleDoc[Trusted]
             doc == BundleDoc[b]
             signer == SignerReason(last, doc.signature, "TRUST_BUNDLE", clock)
  <2>1. Len(adopted) \in 1..Len(adopted) /\ adopted[Len(adopted)] \in Adoption
    BY <1>1 DEF BothInv, TrustInv, TrustTypeOK
  <2>2. Trusted \in Bundles /\ ValidTrustBundle(last)
    BY <1>1, <2>1 DEF Trusted, Adoption, BothInv, AdoptedValid
  <2>3. TSValidTrustBundle(last)
    <3>1. Len(typescript) \in 1..Len(typescript)
      BY <1>1 DEF BothInv
    <3>2. TSValidTrustBundle(BundleDoc[typescript[Len(typescript)].bundle])
      BY <1>1, <3>1 DEF BothInv, SoundChain, Linked
    <3> QED
      BY <3>2 DEF TSChain!Trusted
  <2>4. TSSignerReason(last, doc.signature, "TRUST_BUNDLE", clock) = signer
    BY <2>2, SignerAlike
  <2>5. doc.signature.keyId \in LongIds => signer = "SIGNER_UNKNOWN"
    BY <2>2, LongSignerUnknown DEF SignerReason, NoReason
  <2> HIDE DEF last, signer
  <2>6. doc.signature.keyId \in LongIds
          => NoReason \notin {VerifyRotatedBundle(b, Trusted, Org, clock),
                              TSVerifyRotatedBundle(b, Trusted, Org, clock)}
    BY <2>4, <2>5 DEF VerifyRotatedBundle, TSVerifyRotatedBundle, RotationSignerReason,
       NoReason, last, signer
  <2>7. CASE ValidTrustBundle(doc) /\ TSValidTrustBundle(doc)
    <3>1. VerifyRotatedBundle(b, Trusted, Org, clock)
            = TSVerifyRotatedBundle(b, Trusted, Org, clock)
      BY <2>2, <2>3, <2>4, <2>7 DEF VerifyRotatedBundle, TSVerifyRotatedBundle, NextVersion,
         RotationSignerReason, last, signer
    <3> QED
      BY <2>6, <3>1
  <2>8. CASE ~ValidTrustBundle(doc)
    <3>1. VerifyRotatedBundle(b, Trusted, Org, clock) = "MALFORMED"
      BY <2>8 DEF VerifyRotatedBundle
    <3>2. CASE TSValidTrustBundle(doc)
      BY <2>6, <2>8, <3>1, <3>2, RefusedByPythonOnly
    <3>3. CASE ~TSValidTrustBundle(doc)
      <4>1. TSVerifyRotatedBundle(b, Trusted, Org, clock) = "MALFORMED"
        BY <3>3 DEF TSVerifyRotatedBundle
      <4> QED
        BY <2>6, <3>1, <4>1
    <3> QED
      BY <3>2, <3>3
  <2>9. CASE ValidTrustBundle(doc) /\ ~TSValidTrustBundle(doc)
    <3>1. TSVerifyRotatedBundle(b, Trusted, Org, clock) = "MALFORMED"
      BY <2>9 DEF TSVerifyRotatedBundle
    <3>2. OnlyTypeScriptMinds(doc)
      BY <2>9, WellFormedForBoth
    <3> QED
      BY <2>6, <3>1, <3>2
  <2> QED
    BY <2>7, <2>8, <2>9
<1> QED
  BY <1>1, BothAlways, PTL
=============================================================================
