---------------------------- MODULE TrustSurfaces ----------------------------
(***************************************************************************)
(* One organization with runtimes on both surfaces of the SDK.  Each gets  *)
(* the same trust bundles, at its own pace and in its own order, and keeps *)
(* its own chain with its own verifiers: TrustChain's "adopted" is the     *)
(* Python runtime's chain, "typescript" the TypeScript one's.              *)
(***************************************************************************)
EXTENDS TrustChain, RuntimeTrustTS

VARIABLE typescript  \* as adopted, of the TypeScript runtime

surfaceVars == <<trustVars, typescript>>

\* What TrustChain says of a chain, read of the TypeScript runtime's.
TSChain == INSTANCE TrustChain WITH adopted <- typescript

SurfacesInit ==
  /\ TrustInit
  /\ typescript = <<>>

PythonOrClock ==
  /\ TrustNext
  /\ UNCHANGED typescript

TSBootstrap(b) ==
  /\ typescript = <<>>
  /\ TSVerifyBootstrapBundle(b, Pinned, Org, clock) = NoReason
  /\ TSChain!Adopt(b)
  /\ UNCHANGED adopted

TSRotate(b) ==
  /\ typescript # <<>>
  /\ TSVerifyRotatedBundle(b, TSChain!Trusted, Org, clock) = NoReason
  /\ TSChain!Adopt(b)
  /\ UNCHANGED adopted

SurfacesNext ==
  \/ PythonOrClock
  \/ \E b \in Bundles : TSBootstrap(b) \/ TSRotate(b)

SurfacesSpec == SurfacesInit /\ [][SurfacesNext]_surfaceVars

-----------------------------------------------------------------------------
(* Properties.  ChainSound of TrustChain is the Python runtime's.          *)

(* The TypeScript runtime's chain, adopted by verifyBootstrapBundle and    *)
(* verifyRotatedBundle, is as sound as the Python one's: unbroken from the *)
(* pinned root, each bundle signed by the private key of a key that was    *)
(* active and in its window in the bundle before it.  Its bootstrap checks *)
(* come in another order and its checks of form differ; neither may let a  *)
(* fork, a forgery or a replaced bundle in.                                *)
TSChainSound == TSChain!ChainSound

(* What validate_trust_bundle refuses and validateTrustBundle lets through. *)
OnlyPythonRefuses(doc) ==
  \/ OnlyPythonMinds(doc)
  \/ doc.version > MaxBundleVersion
  \/ \E key \in doc.keys : key.state = "REVOKED" /\ key.revokedAt < key.notBefore

(* Standing on the same bundle, the two surfaces give every candidate the  *)
(* same verdict for the same reason, except that one of them calls it      *)
(* MALFORMED for a check of form the other does not make (ids of more than *)
(* 128 characters, the year 0000, bundleVersion past its maximum and the   *)
(* order of revokedAt in Python, the base64url alphabet in TypeScript); a  *)
(* candidate whose signature names too long a key neither adopts           *)
(* (verify_rotated_bundle against verifyRotatedBundle).  Each later        *)
(* rotation must name the bundle in force, so a bundle that one surface    *)
(* accepts and the other refuses splits the organization for good: these   *)
(* checks are all that can, not the order of the others, the key selection *)
(* or the clock.                                                           *)
SameRotationVerdict ==
  adopted # <<>> /\ typescript # <<>> /\ Trusted = TSChain!Trusted =>
    \A b \in Bundles :
      LET doc == BundleDoc[b]
          python == VerifyRotatedBundle(b, Trusted, Org, clock)
          ts == TSVerifyRotatedBundle(b, Trusted, Org, clock)
      IN  /\ \/ python = ts
             \/ python = "MALFORMED" /\ OnlyPythonRefuses(doc)
             \/ ts = "MALFORMED" /\ OnlyTypeScriptMinds(doc)
          /\ doc.signature.keyId \in LongIds => NoReason \notin {python, ts}

(* No runtime adopts a bundle outside the contract: bundleVersion is at    *)
(* most MaxBundleVersion, as the schema of the trust bundle says.          *)
VersionsInContract ==
  \A i \in 1..Len(typescript) : TSChain!DocAt(i).version <= MaxBundleVersion
=============================================================================
