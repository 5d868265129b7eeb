-------------------------- MODULE TrustChainProofs --------------------------
(***************************************************************************)
(* Proofs about TrustChain, for every set of bundles and every pin, and    *)
(* lemmas about the verifiers of both surfaces.                            *)
(***************************************************************************)
EXTENDS TrustChain, RuntimeTrustTS, TLAPS

TrustInv == TrustTypeOK /\ ChainLinked /\ ChainAuthority

(* What a verifier knows of a key when it selected it and checked the      *)
(* signature with it.                                                      *)
Vouches(key, signature, purpose, now) ==
  /\ key.keyId = signature.keyId
  /\ key.publicKey = signature.signer
  /\ signature.digestOk
  /\ key.state = "ACTIVE"
  /\ purpose \in key.purposes
  /\ key.notBefore <= now /\ now < key.notAfter

-----------------------------------------------------------------------------
(* Lemmas about the verifiers.                                             *)

(* select_key with verify_document_signature accepts only a signature made *)
(* by a key that the bundle lists, is ACTIVE, has the purpose and is       *)
(* within its window.                                                      *)
LEMMA SignerAccepted ==
  ASSUME NEW doc, NEW signature, NEW purpose, NEW now,
         SignerReason(doc, signature, purpose, now) = NoReason
  PROVE  \E key \in doc.keys : Vouches(key, signature, purpose, now)
<1> DEFINE key == KeyNamed(doc, signature.keyId)
<1>1. SelectKey(doc, signature.keyId, purpose, now) = NoReason
  BY DEF SignerReason
<1>2. PICK k \in doc.keys : k.keyId = signature.keyId
  BY <1>1 DEF SelectKey, NoReason
<1>3. key \in doc.keys /\ key.keyId = signature.keyId
  BY <1>2 DEF KeyNamed
<1>4. /\ key.state = "ACTIVE"
      /\ purpose \in key.purposes
      /\ key.notBefore <= now /\ now < key.notAfter
  BY <1>1 DEF SelectKey, NoReason
<1>5. SignatureReason(signature, key) = NoReason
  BY <1>1 DEF SignerReason
<1>6. key.publicKey = signature.signer /\ signature.digestOk
  BY <1>5 DEF SignatureReason, NoReason
<1> QED
  BY <1>3, <1>4, <1>6 DEF Vouches

(* verify_bootstrap_bundle accepts only the pinned bundle, of this         *)
(* organization, version 1 without predecessor, signed by a key of its own.*)
LEMMA BootstrapAccepted ==
  ASSUME NEW b, NEW now, VerifyBootstrapBundle(b, Pinned, Org, now) = NoReason
  PROVE  /\ b = Pinned
         /\ BundleDoc[b].org = Org
         /\ BundleDoc[b].version = 1
         /\ BundleDoc[b].previous = None
         /\ \E key \in BundleDoc[b].keys :
              Vouches(key, BundleDoc[b].signature, "TRUST_BUNDLE", now)
<1>1. /\ b = Pinned
      /\ BundleDoc[b].org = Org
      /\ IsRootBundle(BundleDoc[b])
      /\ SignerReason(BundleDoc[b], BundleDoc[b].signature, "TRUST_BUNDLE", now) = NoReason
  BY DEF VerifyBootstrapBundle, NoReason
<1> QED
  BY <1>1, SignerAccepted DEF IsRootBundle

(* verify_rotated_bundle accepts only the next version of the bundle in    *)
(* force, naming it as predecessor and signed by one of its keys.          *)
LEMMA RotationAccepted ==
  ASSUME NEW c, NEW p, NEW now, VerifyRotatedBundle(c, p, Org, now) = NoReason
  PROVE  /\ BundleDoc[c].org = Org
         /\ BundleDoc[c].version = BundleDoc[p].version + 1
         /\ BundleDoc[c].previous = p
         /\ \E key \in BundleDoc[p].keys :
              Vouches(key, BundleDoc[c].signature, "TRUST_BUNDLE", now)
<1>1. /\ BundleDoc[c].org = Org
      /\ BundleDoc[c].version = BundleDoc[p].version + 1
      /\ BundleDoc[c].previous = p
      /\ SignerReason(BundleDoc[p], BundleDoc[c].signature, "TRUST_BUNDLE", now) = NoReason
  BY DEF VerifyRotatedBundle, NextVersion, RotationSignerReason, NoReason
<1> QED
  BY <1>1, SignerAccepted

(* A bundle that is well formed for Python and written in the base64url    *)
(* alphabet is well formed for TypeScript.                                 *)
LEMMA WellFormedForBoth ==
  ASSUME NEW doc, ValidTrustBundle(doc), ~OnlyTypeScriptMinds(doc)
  PROVE  TSValidTrustBundle(doc)
<1>1. TSWellFormed(doc)
  BY DEF ValidTrustBundle, WellFormed, TSWellFormed, OnlyTypeScriptMinds
<1> QED
  BY <1>1, MaxBundleVersionAssumption DEF ValidTrustBundle, TSValidTrustBundle, ValidTrustKey,
     TSValidTrustKey

(* No well-formed bundle lists a key of too long an id, so no signature    *)
(* that names one is accepted.                                             *)
LEMMA LongSignerUnknown ==
  ASSUME NEW doc, ValidTrustBundle(doc) \/ TSValidTrustBundle(doc), NEW id \in LongIds,
         NEW purpose, NEW now
  PROVE  /\ SelectKey(doc, id, purpose, now) = "SIGNER_UNKNOWN"
         /\ TSSelectKey(doc, id, purpose, now) = "SIGNER_UNKNOWN"
<1>1. \A key \in doc.keys : key.keyId # id
  BY DEF ValidTrustBundle, ValidTrustKey, TSValidTrustBundle, TSValidTrustKey
<1> QED
  BY <1>1 DEF SelectKey, TSSelectKey

(* The surfaces select the same key, or none for the same reason.          *)
LEMMA SelectAlikeIn ==
  ASSUME NEW doc, NEW id, NEW purpose, NEW now, \A key \in doc.keys : key.state \in KeyStates
  PROVE  TSSelectKey(doc, id, purpose, now) = SelectKey(doc, id, purpose, now)
<1>1. CASE \A key \in doc.keys : key.keyId # id
  BY <1>1 DEF SelectKey, TSSelectKey
<1>2. CASE \E key \in doc.keys : key.keyId = id
  <2>1. KeyNamed(doc, id) \in doc.keys
    BY <1>2 DEF KeyNamed
  <2>2. KeyNamed(doc, id).state \in KeyStates
    BY <2>1
  <2> QED
    BY <1>2, <2>2 DEF SelectKey, TSSelectKey, KeyStates
<1> QED
  BY <1>1, <1>2

LEMMA SelectAlike ==
  ASSUME NEW b \in Bundles, NEW id, NEW purpose, NEW now
  PROVE  TSSelectKey(BundleDoc[b], id, purpose, now) = SelectKey(BundleDoc[b], id, purpose, now)
<1>1. BundleDoc[b].keys \subseteq TrustKey
  BY BundleDocAssumption DEF TrustBundle
<1>2. \A key \in BundleDoc[b].keys : key.state \in KeyStates
  BY <1>1 DEF TrustKey
<1> QED
  BY <1>2, SelectAlikeIn

(* So they give a signature the same verdict.                              *)
LEMMA SignerAlike ==
  ASSUME NEW b \in Bundles, NEW signature, NEW purpose, NEW now
  PROVE  TSSignerReason(BundleDoc[b], signature, purpose, now)
           = SignerReason(BundleDoc[b], signature, purpose, now)
BY SelectAlike DEF SignerReason, TSSignerReason, SignatureReason, NoReason

-----------------------------------------------------------------------------
(* The invariant.                                                          *)

LEMMA TrustInvInit == TrustInit => TrustInv
<1> SUFFICES ASSUME TrustInit PROVE TrustInv
  OBVIOUS
<1>1. clock = 0 /\ adopted = <<>> /\ Len(adopted) = 0
  BY DEF TrustInit
<1>2. TrustTypeOK
  BY <1>1, MaxTimeAssumption DEF TrustTypeOK
<1>3. ChainLinked /\ ChainAuthority
  BY <1>1 DEF ChainLinked, ChainAuthority
<1> QED
  BY <1>2, <1>3 DEF TrustInv

(* Appending one adoption keeps the facts about the earlier ones.          *)
LEMMA AdoptExtends ==
  ASSUME TrustTypeOK, NEW b \in Bundles, Adopt(b)
  PROVE  /\ TrustTypeOK'
         /\ Len(adopted) \in Nat
         /\ Len(adopted') = Len(adopted) + 1
         /\ adopted'[Len(adopted) + 1] = [bundle |-> b, at |-> clock]
         /\ \A i \in 1..Len(adopted) : adopted'[i] = adopted[i]
<1> DEFINE new == [bundle |-> b, at |-> clock]
<1>1. adopted \in Seq(Adoption) /\ new \in Adoption
  BY MaxTimeAssumption DEF TrustTypeOK, Adoption, Time
<1>2. adopted' = Append(adopted, new) /\ clock' = clock
  BY DEF Adopt
<1> HIDE DEF new
<1>3. adopted' \in Seq(Adoption)
  BY <1>1, <1>2
<1>4. /\ Len(adopted) \in Nat
      /\ Len(adopted') = Len(adopted) + 1
      /\ adopted'[Len(adopted) + 1] = new
      /\ \A i \in 1..Len(adopted) : adopted'[i] = adopted[i]
  BY <1>1, <1>2
<1> QED
  BY <1>2, <1>3, <1>4 DEF TrustTypeOK, new

LEMMA BootstrapKeepsInv ==
  ASSUME TrustInv, NEW b \in Bundles, Bootstrap(b)
  PROVE  TrustInv'
<1>1. /\ TrustTypeOK /\ adopted = <<>> /\ Adopt(b)
      /\ VerifyBootstrapBundle(b, Pinned, Org, clock) = NoReason
  BY DEF TrustInv, Bootstrap
<1>2. /\ TrustTypeOK'
      /\ Len(adopted') = 1
      /\ adopted'[1] = [bundle |-> b, at |-> clock]
  BY <1>1, AdoptExtends
<1>3. \A i \in 1..Len(adopted') : i = 1
  BY <1>2
<1>4. DocAt(1)' = BundleDoc[b] /\ adopted'[1].bundle = b /\ adopted'[1].at = clock
  BY <1>2 DEF DocAt
<1>5. ChainLinked'
  BY <1>1, <1>3, <1>4, BootstrapAccepted DEF ChainLinked
<1>6. ChainAuthority'
  BY <1>1, <1>3, <1>4, BootstrapAccepted DEF ChainAuthority, Authority, Vouches
<1> QED
  BY <1>2, <1>5, <1>6 DEF TrustInv

LEMMA RotateKeepsInv ==
  ASSUME TrustInv, NEW b \in Bundles, Rotate(b)
  PROVE  TrustInv'
<1>n. PICK n \in Nat : n = Len(adopted)
  BY DEF TrustInv, TrustTypeOK
<1> DEFINE last == BundleDoc[Trusted]
           doc == BundleDoc[b]
<1>1. /\ TrustTypeOK /\ ChainLinked /\ ChainAuthority /\ adopted # <<>> /\ Adopt(b)
      /\ VerifyRotatedBundle(b, Trusted, Org, clock) = NoReason
  BY DEF TrustInv, Rotate
<1>2. /\ TrustTypeOK'
      /\ n \in Nat /\ n # 0
      /\ Len(adopted') = n + 1
      /\ adopted'[n + 1] = [bundle |-> b, at |-> clock]
      /\ \A i \in 1..n : adopted'[i] = adopted[i]
  BY <1>n, <1>1, AdoptExtends DEF TrustTypeOK
<1>3. /\ doc.org = Org
      /\ doc.version = last.version + 1
      /\ doc.previous = Trusted
      /\ \E key \in last.keys : Vouches(key, doc.signature, "TRUST_BUNDLE", clock)
  BY <1>1, RotationAccepted
<1>4. n \in 1..n /\ Trusted = adopted[n].bundle /\ last = DocAt(n) /\ last.version = n
  BY <1>n, <1>1, <1>2 DEF Trusted, DocAt, ChainLinked
<1>5. /\ \A i \in 1..n : DocAt(i)' = DocAt(i)
      /\ DocAt(n + 1)' = doc
      /\ adopted'[n + 1].bundle = b /\ adopted'[n + 1].at = clock
  BY <1>2 DEF DocAt
<1> HIDE DEF last, doc
<1>6. ChainLinked'
  <2> SUFFICES ASSUME NEW i \in 1..(n + 1)
               PROVE  /\ DocAt(i)'.version = i
                      /\ DocAt(i)'.org = Org
                      /\ IF i = 1
                         THEN adopted'[i].bundle = Pinned /\ DocAt(i)'.previous = None
                         ELSE DocAt(i)'.previous = adopted'[i - 1].bundle
    BY <1>2 DEF ChainLinked
  <2>1. CASE i \in 1..n
    <3>1. i # 1 => i - 1 \in 1..n
      BY <1>2, <2>1
    <3> QED
      BY <1>n, <1>1, <1>2, <1>5, <2>1, <3>1 DEF ChainLinked
  <2>2. CASE i = n + 1
    BY <1>2, <1>3, <1>4, <1>5, <2>2
  <2> QED
    BY <1>2, <2>1, <2>2
<1>7. ChainAuthority'
  <2> SUFFICES ASSUME NEW i \in 1..(n + 1)
               PROVE  \E key \in Authority(i)'.keys :
                        Vouches(key, DocAt(i)'.signature, "TRUST_BUNDLE", adopted'[i].at)
    BY <1>2 DEF ChainAuthority, Vouches
  <2>1. CASE i \in 1..n
    <3>1. i # 1 => i - 1 \in 1..n
      BY <1>2, <2>1
    <3>2. Authority(i)' = Authority(i) /\ DocAt(i)' = DocAt(i) /\ adopted'[i] = adopted[i]
      BY <1>2, <1>5, <2>1, <3>1 DEF Authority
    <3> QED
      BY <1>n, <1>1, <2>1, <3>2 DEF ChainAuthority, Vouches
  <2>2. CASE i = n + 1
    <3>1. Authority(i)' = last
      BY <1>2, <1>4, <1>5, <2>2 DEF Authority
    <3> QED
      BY <1>3, <1>5, <2>2, <3>1
  <2> QED
    BY <1>2, <2>1, <2>2
<1> QED
  BY <1>2, <1>6, <1>7 DEF TrustInv

LEMMA TrustInvStep == TrustInv /\ [TrustNext]_trustVars => TrustInv'
<1> SUFFICES ASSUME TrustInv, [TrustNext]_trustVars PROVE TrustInv'
  OBVIOUS
<1>1. CASE Tick
  <2>1. clock' \in 0..MaxTime /\ adopted' = adopted
    BY <1>1, MaxTimeAssumption DEF Tick, TrustInv, TrustTypeOK
  <2> QED
    BY <2>1 DEF TrustInv, TrustTypeOK, ChainLinked, ChainAuthority, Authority, DocAt
<1>2. CASE \E b \in Bundles : Bootstrap(b)
  BY <1>2, BootstrapKeepsInv
<1>3. CASE \E b \in Bundles : Rotate(b)
  BY <1>3, RotateKeepsInv
<1>4. CASE UNCHANGED trustVars
  BY <1>4 DEF trustVars, TrustInv, TrustTypeOK, ChainLinked, ChainAuthority, Authority, DocAt
<1> QED
  BY <1>1, <1>2, <1>3, <1>4 DEF TrustNext

(* What was adopted is well formed.                                        *)
AdoptedValid == \A i \in 1..Len(adopted) : ValidTrustBundle(BundleDoc[adopted[i].bundle])

LEMMA AdoptedValidStep ==
  ASSUME TrustTypeOK, AdoptedValid, [TrustNext]_trustVars
  PROVE  AdoptedValid'
<1>1. CASE UNCHANGED adopted
  BY <1>1 DEF AdoptedValid
<1>2. ASSUME NEW b \in Bundles, Bootstrap(b) \/ Rotate(b) PROVE AdoptedValid'
  <2>1. Adopt(b) /\ ValidTrustBundle(BundleDoc[b])
    BY <1>2 DEF Bootstrap, Rotate, VerifyBootstrapBundle, VerifyRotatedBundle, NoReason
  <2>2. PICK n \in Nat : n = Len(adopted)
    BY DEF TrustTypeOK
  <2>3. /\ Len(adopted') = n + 1 /\ adopted'[n + 1] = [bundle |-> b, at |-> clock]
        /\ \A i \in 1..n : adopted'[i] = adopted[i]
    BY <2>1, <2>2, AdoptExtends
  <2>4. adopted'[n + 1].bundle = b
    BY <2>3
  <2> QED
    BY <2>1, <2>2, <2>3, <2>4 DEF AdoptedValid
<1> QED
  BY <1>1, <1>2 DEF TrustNext, Tick, trustVars

-----------------------------------------------------------------------------
(* Theorems.                                                               *)

(* The trust root is well typed at all times, whatever bundles are offered *)
(* to verify_bootstrap_bundle and verify_rotated_bundle.                   *)
THEOREM TrustTypeCorrect == TrustSpec => []TrustTypeOK
<1>1. TrustInv => TrustTypeOK
  BY DEF TrustInv
<1> QED
  BY <1>1, TrustInvInit, TrustInvStep, PTL DEF TrustSpec

(* For any set of bundles, any pinned digest and any order of offers, the  *)
(* adopted bundles are one chain from the pin, each naming its predecessor,*)
(* and every adoption was authorised by an ACTIVE key of the bundle it     *)
(* replaced.                                                               *)
THEOREM TrustChainSound == TrustSpec => []ChainSound
<1>1. TrustInv => ChainSound
  BY DEF TrustInv, ChainSound
<1> QED
  BY <1>1, TrustInvInit, TrustInvStep, PTL DEF TrustSpec

(* No bundle that was replaced is ever adopted again: its version number   *)
(* fixes its place in the chain, so replaying it to verify_rotated_bundle  *)
(* cannot bring its keys back.                                             *)
THEOREM TrustNoReadoption == TrustSpec => []NoBundleReadopted
<1>1. TrustInv => NoBundleReadopted
  BY DEF TrustInv, ChainLinked, NoBundleReadopted, DocAt
<1> QED
  BY <1>1, TrustInvInit, TrustInvStep, PTL DEF TrustSpec
=============================================================================
