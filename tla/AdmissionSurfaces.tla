-------------------------- MODULE AdmissionSurfaces --------------------------
(***************************************************************************)
(* One organization that admits on both surfaces of the SDK: Python and    *)
(* TypeScript runtimes share one replay store and one chain of trust       *)
(* bundles, which the TypeScript runtime follows at its own pace.  The     *)
(* receipt of a decision is signed when it is committed, and whoever holds *)
(* a bundle verifies it on either surface.                                 *)
(*                                                                         *)
(* Calls in TSCalls run verifyAdmission, the others verify_admission, as   *)
(* Admission models it; budgets are evaluated alike.                       *)
(***************************************************************************)
EXTENDS Admission, RuntimeReceipt

CONSTANTS
  TSCalls,           \* calls of the TypeScript runtime
  ReceiptLife,       \* seconds a receipt is good for
  ReceiptSignature,  \* the signature of the runtimes' receipt key
  OtherSignatures,   \* signatures others can put under a receipt
  Namings            \* whether the callers give receipts stable ids

ASSUME TSCallsAssumption == TSCalls \subseteq Calls

VARIABLES
  known,      \* how many of the adopted bundles the TypeScript runtime has
  receipts    \* the receipts that were signed

surfacesVars == <<vars, known, receipts>>

SurfacesInit == Init /\ known = 0 /\ receipts = {}

KnownBundle == adopted[known].bundle

\* The TypeScript runtime is offered the bundle after its own.
Follow ==
  /\ known < Len(adopted)
  /\ NoReason = IF known = 0
                THEN TSVerifyBootstrapBundle(adopted[1].bundle, Pinned, Org, clock)
                ELSE TSVerifyRotatedBundle(adopted[known + 1].bundle, KnownBundle, Org, clock)
  /\ known' = known + 1
  /\ UNCHANGED <<vars, receipts>>

-----------------------------------------------------------------------------
(* The steps of verifyAdmission that are its own.                          *)

TSBegin(c, e, callKey, budget) ==
  LET reason == TSEnvelopeReason(e, KnownBundle, Org, clock, callKey)
  IN  /\ phase[c] \in {"idle", "done"}
      /\ known > 0
      /\ begun < MaxCalls
      /\ begun' = begun + 1
      /\ IF reason # NoReason
         THEN Return(c, Deny(e, reason))
         ELSE /\ phase' = [phase EXCEPT ![c] = "reserving"]
              /\ decision' = [decision EXCEPT ![c] = None]
              /\ input' = [input EXCEPT ![c] =
                             [envelope |-> e, now |-> clock, idemKey |-> callKey,
                              budget |-> budget]]
      /\ UNCHANGED <<trustVars, store, granted, refused, disturbed>>

\* Mutant: the record leaves the idempotency key out.
TSKeylessRecord(in) == [NewRecord(in) EXCEPT !.idemKey = None]

TSReplayRecord(in) == NewRecord(in)

TSReserve(c) ==
  LET record == TSReplayRecord(input[c])
  IN  /\ phase[c] = "reserving"
      /\ ReserveStatus(record) = "RESERVED"
      /\ store' = store \cup {record}
      /\ phase' = [phase EXCEPT ![c] = "reserved"]
      /\ UNCHANGED <<trustVars, input, decision, begun, granted, refused, disturbed>>

\* Mutant: IDEMPOTENT admits, with or without a receipt.
TSAdmitsAnyway(in) == Admit(in.envelope, None)

\* IDEMPOTENT without a receipt is denied like a replay.
TSNoReceipt(in) == Deny(in.envelope, "REPLAY_DETECTED")

\* The interface lets a store answer IDEMPOTENT before the receipt is there.
TSReserveRefused(c) ==
  /\ phase[c] = "reserving"
  /\ ReserveStatus(input[c]) # "RESERVED"
  /\ \/ Return(c, ReservationDecision(input[c]))
     \/ /\ ReserveStatus(input[c]) = "REPLAY_DETECTED"
        /\ SameIdem(input[c]) # {}
        /\ Return(c, TSNoReceipt(input[c]))
  /\ UNCHANGED <<trustVars, store, begun, granted, refused, disturbed>>

\* evaluateBudget has the dimensions and bounds of evaluate_budget.
TSDecide(c) == Decide(c)

-----------------------------------------------------------------------------
\* The receipt of a decision, as the caller signs it.
SignedReceipt(c, named) ==
  [defects |-> {}, named |-> named, fields |-> TRUE, org |-> Org,
   envelope |-> EnvelopeOf(c),
   decision |-> IF phase[c] = "fresh" THEN "ADMIT" ELSE "DENY",
   reason |-> IF phase[c] = "fresh" THEN NoReason ELSE "BUDGET_EXCEEDED",
   evidence |-> TRUE,
   decidedAt |-> input[c].now, expiresAt |-> input[c].now + ReceiptLife,
   signature |-> ReceiptSignature]

SignAndCommit(c) ==
  /\ Commit(c)
  /\ \E named \in Namings : receipts' = receipts \cup {SignedReceipt(c, named)}

PythonStep(c) ==
  \/ \E e \in Envelopes, k \in IdemKeys \cup {None}, b \in BudgetInputs : Begin(c, e, k, b)
  \/ Reserve(c)
  \/ ReserveRefused(c)
  \/ Decide(c)

TSStep(c) ==
  \/ \E e \in Envelopes, k \in IdemKeys \cup {None}, b \in BudgetInputs : TSBegin(c, e, k, b)
  \/ TSReserve(c)
  \/ TSReserveRefused(c)
  \/ TSDecide(c)

SurfacesNext ==
  \/ /\ \/ TrustStep
        \/ \E c \in Calls \ TSCalls : PythonStep(c)
        \/ \E c \in TSCalls : TSStep(c)
        \/ \E c \in Calls : ReserveRaises(c)
        \/ Crash
     /\ UNCHANGED <<known, receipts>>
  \/ \E c \in Calls : SignAndCommit(c) /\ UNCHANGED known
  \/ Follow

SurfacesSpec == SurfacesInit /\ [][SurfacesNext]_surfacesVars

-----------------------------------------------------------------------------
\* The same receipt with the other decision.
Turned(r) ==
  IF r.decision = "ADMIT" THEN [r EXCEPT !.decision = "DENY", !.reason = "BUDGET_EXCEEDED"]
  ELSE [r EXCEPT !.decision = "ADMIT", !.reason = NoReason]

\* What a relying party may be shown: the receipts themselves, and what others
\* can make of them.
Shown ==
  receipts \cup
  UNION {{[Turned(r) EXCEPT !.signature = s] : s \in OtherSignatures} \cup
         {[r EXCEPT !.fields = FALSE], [r EXCEPT !.org = "other", !.evidence = FALSE],
          [r EXCEPT !.expiresAt = r.decidedAt]} : r \in receipts}

\* The receipts with what one surface or the other minds in their form.
Reformed ==
  UNION {{[r EXCEPT !.defects = {d}] : d \in Defects} \cup
         {[r EXCEPT !.signature = [r.signature EXCEPT !.keyId = id]] : id \in LongIds}
           : r \in receipts}

\* With the same bundle, the surfaces give every envelope and idempotency key
\* the same verdict for the same reason before they reserve, except that one of
\* them calls the envelope MALFORMED for its form: Python for an id of more than
\* 128 characters or a timestamp of the year 0000, TypeScript for a nonce or
\* signature outside the base64url alphabet.  A signature that names too long a
\* key verifies on neither (verify_admission up to reserve against
\* verifyAdmission up to reserve).
SameAdmissionVerdict ==
  known > 0 =>
    \A e \in Envelopes, k \in IdemKeys \cup {None} :
      LET doc == EnvelopeDoc[e]
          python == EnvelopeReason(e, KnownBundle, Org, clock, k)
          typescript == TSEnvelopeReason(e, KnownBundle, Org, clock, k)
      IN  /\ \/ python = typescript
             \/ python = "MALFORMED" /\ OnlyPythonMinds(doc)
             \/ typescript = "MALFORMED" /\ OnlyTypeScriptMinds(doc)
          /\ doc.signature.keyId \in LongIds => NoReason \notin {python, typescript}

Verified(r) ==
  adopted # <<>> /\
    (\/ VerifyReceipt(r, Trusted, Org, clock) = NoReason
     \/ known > 0 /\ TSVerifyReceipt(r, KnownBundle, Org, clock) = NoReason)

\* Whatever is shown as a receipt, what verifies on either surface, with the
\* bundle that surface has by then, says what was decided; so no two receipts
\* that verify contradict each other, here or there (verify_receipt,
\* verifyReceipt, and the reservation that makes the decision one).
VerifiedReceiptsTrue ==
  \A r \in Shown :
    \/ IF r.decision = "ADMIT" THEN granted[r.envelope] = 1 ELSE refused[r.envelope] = 1
    \/ ~Verified(r)

\* With the same bundle, the surfaces give a receipt the same verdict for the
\* same reason, but for the checks of form that one of them makes alone, as for
\* envelopes, that TypeScript names the foreign tenant of a receipt that is
\* malformed besides, and that it reads no receiptId.  A receipt signed under
\* too long a key id verifies on neither (verify_receipt against verifyReceipt).
SameReceiptVerdict ==
  known > 0 =>
    \A r \in Shown \cup Reformed :
      LET python == VerifyReceipt(r, KnownBundle, Org, clock)
          typescript == TSVerifyReceipt(r, KnownBundle, Org, clock)
      IN  /\ \/ python = typescript
             \/ python = "MALFORMED" /\ (OnlyPythonMinds(r) \/ ~r.named)
             \/ python = "MALFORMED" /\ typescript = "TENANT_MISMATCH"
             \/ typescript = "MALFORMED" /\ OnlyTypeScriptMinds(r)
          /\ r.signature.keyId \in LongIds => NoReason \notin {python, typescript}
=============================================================================
