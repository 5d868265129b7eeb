----------------------------- MODULE TrustChain -----------------------------
(***************************************************************************)
(* The life of a runtime's trust root: one digest-pinned bootstrap, then a *)
(* chain of rotations.  The verifiers are pure; the runtime that embeds    *)
(* them keeps the adopted bundle and replaces it only by one they accept.  *)
(* Any bundle of Bundles may be offered at any moment, in any order and as *)
(* often as wanted: old ones, forks, forgeries and foreign tenants' ones.  *)
(***************************************************************************)
EXTENDS RuntimeTrust, Sequences

CONSTANTS
  Org,     \* expected_organization_id of this runtime
  Pinned,  \* pinned_digest of the bootstrap bundle
  MaxTime  \* bound on the clock

ASSUME OrgAssumption == Org \in Orgs
ASSUME PinnedAssumption == Pinned \in Bundles
ASSUME MaxTimeAssumption == MaxTime \in Nat

VARIABLES
  clock,   \* whole seconds; "now" of every verification
  adopted  \* the bundles adopted so far, each with the time of its adoption

trustVars == <<clock, adopted>>

Adoption == [bundle: Bundles, at: Time]

TrustTypeOK ==
  /\ clock \in 0..MaxTime
  /\ adopted \in Seq(Adoption)

Trusted == adopted[Len(adopted)].bundle

TrustInit ==
  /\ clock = 0
  /\ adopted = <<>>

Tick ==
  /\ clock < MaxTime
  /\ clock' = clock + 1
  /\ UNCHANGED adopted

Adopt(b) ==
  /\ adopted' = Append(adopted, [bundle |-> b, at |-> clock])
  /\ UNCHANGED clock

Bootstrap(b) ==
  /\ adopted = <<>>
  /\ VerifyBootstrapBundle(b, Pinned, Org, clock) = NoReason
  /\ Adopt(b)

Rotate(b) ==
  /\ adopted # <<>>
  /\ VerifyRotatedBundle(b, Trusted, Org, clock) = NoReason
  /\ Adopt(b)

TrustNext ==
  \/ Tick
  \/ \E b \in Bundles : Bootstrap(b) \/ Rotate(b)

TrustSpec == TrustInit /\ [][TrustNext]_trustVars

-----------------------------------------------------------------------------
(* Properties.                                                             *)

DocAt(i) == BundleDoc[adopted[i].bundle]

(* The adopted bundles are one unbroken chain from the pinned digest, all  *)
(* of the runtime's own organization: the i-th has version i and names the *)
(* (i-1)-th as its predecessor.  So no older bundle, no fork of a bundle   *)
(* already replaced and no other tenant's bundle is ever adopted, whatever *)
(* is offered and in whatever order (the root checks of                    *)
(* verify_bootstrap_bundle with the strict +1 and the digest binding of    *)
(* verify_rotated_bundle).                                                 *)
ChainLinked ==
  \A i \in 1..Len(adopted) :
    /\ DocAt(i).version = i
    /\ DocAt(i).org = Org
    /\ IF i = 1
       THEN adopted[i].bundle = Pinned /\ DocAt(i).previous = None
       ELSE DocAt(i).previous = adopted[i - 1].bundle

(* The bundle with authority over the i-th adoption: the predecessor, and  *)
(* for the bootstrap the bundle itself.                                    *)
Authority(i) == IF i = 1 THEN DocAt(1) ELSE DocAt(i - 1)

(* Every adopted bundle was signed, as it is, by the private key of a key  *)
(* that the bundle in force at that moment listed as ACTIVE, for           *)
(* TRUST_BUNDLE, and within its window at the time of adoption: a key      *)
(* adopted only later, a key of a fork or a key the predecessor revoked    *)
(* never extends the chain (select_key on the predecessor, then            *)
(* verify_document_signature).                                             *)
ChainAuthority ==
  \A i \in 1..Len(adopted) :
    \E key \in Authority(i).keys :
      /\ key.keyId = DocAt(i).signature.keyId
      /\ key.publicKey = DocAt(i).signature.signer
      /\ DocAt(i).signature.digestOk
      /\ key.state = "ACTIVE"
      /\ "TRUST_BUNDLE" \in key.purposes
      /\ key.notBefore <= adopted[i].at /\ adopted[i].at < key.notAfter

(* The chain is whole and was authorised link by link.                     *)
ChainSound == ChainLinked /\ ChainAuthority

(* No bundle is adopted twice: a key set that was replaced never comes     *)
(* back by replaying its bundle to verify_rotated_bundle.                  *)
NoBundleReadopted ==
  \A i, j \in 1..Len(adopted) : adopted[i].bundle = adopted[j].bundle => i = j
=============================================================================
