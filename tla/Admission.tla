------------------------------ MODULE Admission ------------------------------
(***************************************************************************)
(* verify_admission in the runtime that embeds it.  Several calls are in   *)
(* flight at once; each reads the clock and the trusted bundle when it     *)
(* begins, then reserves its keys in the caller-owned AtomicReplayStore,   *)
(* then evaluates the budget.  Between these points other calls run, the   *)
(* clock advances, trust is rotated, the store fails with or without the   *)
(* reservation made, and the process crashes.  The same envelope may be    *)
(* delivered any number of times.                                          *)
(*                                                                         *)
(* The store, the commit of the signed receipt and the delivery of the     *)
(* envelopes are the caller's: they are modelled from the AtomicReplayStore*)
(* protocol, its docstrings and the decision vectors.                      *)
(***************************************************************************)
EXTENDS TrustChain, RuntimeBudget, FiniteSets

CONSTANTS
  Calls,          \* threads or tasks of the runtime that verify admissions
  BudgetInputs,   \* pairs <<limits, observed>> the caller may pass
  Replayable,     \* states of a record whose receipt the store hands out again
  MaxCalls        \* bound on the number of verify_admission calls

ASSUME ReplayableAssumption == Replayable \subseteq {"COMMITTED", "REJECTED"}
ASSUME MaxCallsAssumption == MaxCalls \in Nat

VARIABLES
  phase,      \* where each call stands
  input,      \* the arguments of each verification in flight
  decision,   \* the AdmissionDecision of each call's last verification
  store,      \* the replay records, durable
  begun,      \* number of calls begun so far (bounded by MaxCalls)
  granted,    \* history: fresh admissions of each envelope
  refused,    \* history: BUDGET_EXCEEDED decisions of each envelope
  disturbed   \* history: envelopes whose reservation met a fault

admissionVars == <<phase, input, decision, store, begun, granted, refused, disturbed>>
vars == <<trustVars, admissionVars>>

Phases ==
  {"idle",       \* no verification running
   "reserving",  \* every check passed, replay_store.reserve not yet answered
   "reserved",   \* reserve answered RESERVED, budget not yet evaluated
   "fresh",      \* admitted, receipt not yet committed
   "over",       \* BUDGET_EXCEEDED, receipt not yet committed
   "done"}       \* the decision has been returned and acted on

InFlight == {"reserving", "reserved", "fresh", "over"}

Receipt == [decision: {"ADMIT", "DENY"}, envelope: Envelopes]

ASSUME NoneReceipt == None \notin Receipt

ReplayRecord ==
  [envelope: Envelopes, idemKey: IdemKeys, firstSeenAt: Time,
   state: {"RESERVED", "COMMITTED", "REJECTED"},
   receipt: Receipt \cup {None}]

Input == [envelope: Envelopes, now: Time, idemKey: IdemKeys \cup {None},
          budget: BudgetInputs]

Decision == [envelope: Envelopes, admitted: BOOLEAN,
             reason: DenialReasons \cup {NoReason}, cached: Receipt \cup {None}]

AdmissionTypeOK ==
  /\ phase \in [Calls -> Phases]
  /\ input \in [Calls -> Input \cup {None}]
  /\ decision \in [Calls -> Decision \cup {None}]
  /\ store \in SUBSET ReplayRecord
  /\ begun \in 0..MaxCalls
  /\ granted \in [Envelopes -> Nat]
  /\ refused \in [Envelopes -> Nat]
  /\ disturbed \in SUBSET Envelopes

TypeOK == TrustTypeOK /\ AdmissionTypeOK

-----------------------------------------------------------------------------
(* Keys of an envelope, and the replay record verify_admission builds.     *)

\* replayKeyDigest: the nonce within its organization.
ReplayKey(e) == <<EnvelopeDoc[e].org, EnvelopeDoc[e].nonce>>
IdemKey(e) == EnvelopeDoc[e].idemKey
RequestOf(e) == EnvelopeDoc[e].request

\* Two envelopes that share a key: at most one of them may be executed.
Conflict(e, f) == ReplayKey(e) = ReplayKey(f) \/ IdemKey(e) = IdemKey(f)

NewRecord(in) ==
  [envelope |-> in.envelope, idemKey |-> in.idemKey, firstSeenAt |-> in.now,
   state |-> "RESERVED", receipt |-> None]

Deny(e, reason) ==
  [envelope |-> e, admitted |-> FALSE, reason |-> reason, cached |-> None]

Admit(e, receipt) ==
  [envelope |-> e, admitted |-> TRUE, reason |-> NoReason, cached |-> receipt]

EnvelopeOf(c) == input[c].envelope

-----------------------------------------------------------------------------
(* The replay store: both keys are looked up and reserved in one           *)
(* transaction.  "in" is the record that asks for them.                    *)

SameIdem(in) == {r \in store : r.idemKey = in.idemKey}
\* Mutant: the nonce is not looked up.
SameNonceSkipped(in) == {}
SameNonce(in) == {r \in store : ReplayKey(r.envelope) = ReplayKey(in.envelope)}

ReserveStatus(in) ==
  IF \E r \in SameIdem(in) : RequestOf(r.envelope) # RequestOf(in.envelope)
  THEN "IDEMPOTENCY_CONFLICT"
  ELSE IF \E r \in SameIdem(in) : r.state \in Replayable THEN "IDEMPOTENT"
  ELSE IF SameIdem(in) \cup SameNonce(in) # {} THEN "REPLAY_DETECTED"
  ELSE "RESERVED"

CachedReceipt(in) == (CHOOSE r \in SameIdem(in) : r.state \in Replayable).receipt

\* What verify_admission returns for the statuses that end it.
ReservationDecision(in) ==
  CASE ReserveStatus(in) = "IDEMPOTENT" -> Admit(in.envelope, CachedReceipt(in))
    [] ReserveStatus(in) = "IDEMPOTENCY_CONFLICT" ->
         Deny(in.envelope, "IDEMPOTENCY_CONFLICT")
    [] OTHER -> Deny(in.envelope, "REPLAY_DETECTED")

StoreReserves(in) == store' = store \cup {NewRecord(in)}

-----------------------------------------------------------------------------
(* The steps of one call.                                                  *)

AdmissionInit ==
  /\ phase = [c \in Calls |-> "idle"]
  /\ input = [c \in Calls |-> None]
  /\ decision = [c \in Calls |-> None]
  /\ store = {}
  /\ begun = 0
  /\ granted = [e \in Envelopes |-> 0]
  /\ refused = [e \in Envelopes |-> 0]
  /\ disturbed = {}

Return(c, answer) ==
  /\ phase' = [phase EXCEPT ![c] = "done"]
  /\ decision' = [decision EXCEPT ![c] = answer]
  /\ input' = [input EXCEPT ![c] = None]

\* verify_admission up to the call of replay_store.reserve.
Begin(c, e, callKey, budget) ==
  LET reason == EnvelopeReason(e, Trusted, Org, clock, callKey)
  IN  /\ phase[c] \in {"idle", "done"}
      /\ adopted # <<>>
      /\ begun < MaxCalls
      /\ begun' = begun + 1
      /\ IF reason # NoReason
         THEN Return(c, Deny(e, reason))
         ELSE /\ phase' = [phase EXCEPT ![c] = "reserving"]
              /\ decision' = [decision EXCEPT ![c] = None]
              /\ input' = [input EXCEPT ![c] =
                             [envelope |-> e, now |-> clock, idemKey |-> callKey,
                              budget |-> budget]]
      /\ UNCHANGED <<trustVars, store, granted, refused, disturbed>>

\* The store answers RESERVED; the budget is evaluated in a later step.
Reserve(c) ==
  /\ phase[c] = "reserving"
  /\ ReserveStatus(input[c]) = "RESERVED"
  /\ StoreReserves(input[c])
  /\ phase' = [phase EXCEPT ![c] = "reserved"]
  /\ UNCHANGED <<trustVars, input, decision, begun, granted, refused, disturbed>>

\* The store answers anything else, and the call returns.
ReserveRefused(c) ==
  /\ phase[c] = "reserving"
  /\ ReserveStatus(input[c]) # "RESERVED"
  /\ Return(c, ReservationDecision(input[c]))
  /\ UNCHANGED <<trustVars, store, begun, granted, refused, disturbed>>

\* reserve raises; the transaction may have been made and only its reply lost.
ReserveRaises(c) ==
  /\ phase[c] = "reserving"
  /\ Return(c, Deny(EnvelopeOf(c), "REPLAY_DETECTED"))
  /\ \/ UNCHANGED <<store, disturbed>>
     \/ /\ ReserveStatus(input[c]) = "RESERVED"
        /\ StoreReserves(input[c])
        /\ disturbed' = disturbed \cup {EnvelopeOf(c)}
  /\ UNCHANGED <<trustVars, begun, granted, refused>>

BudgetReason(c) == EvaluateBudget(input[c].budget[1], input[c].budget[2])

\* evaluate_budget, and the three ways verify_admission ends after it.
DecideMalformed(c) ==
  /\ phase[c] = "reserved"
  /\ BudgetReason(c) = "MALFORMED"
  /\ Return(c, Deny(EnvelopeOf(c), "MALFORMED"))
  /\ disturbed' = disturbed \cup {EnvelopeOf(c)}
  /\ UNCHANGED <<trustVars, store, begun, granted, refused>>

DecideOver(c) ==
  /\ phase[c] = "reserved"
  /\ BudgetReason(c) = "BUDGET_EXCEEDED"
  /\ phase' = [phase EXCEPT ![c] = "over"]
  /\ decision' = [decision EXCEPT ![c] = Deny(EnvelopeOf(c), "BUDGET_EXCEEDED")]
  /\ refused' = [refused EXCEPT ![EnvelopeOf(c)] = @ + 1]
  /\ UNCHANGED <<trustVars, input, store, begun, granted, disturbed>>

DecideWithin(c) ==
  /\ phase[c] = "reserved"
  /\ BudgetReason(c) = NoReason
  /\ phase' = [phase EXCEPT ![c] = "fresh"]
  /\ decision' = [decision EXCEPT ![c] = Admit(EnvelopeOf(c), None)]
  /\ granted' = [granted EXCEPT ![EnvelopeOf(c)] = @ + 1]
  /\ UNCHANGED <<trustVars, input, store, begun, refused, disturbed>>

Decide(c) == DecideMalformed(c) \/ DecideOver(c) \/ DecideWithin(c)

-----------------------------------------------------------------------------
(* The caller's side.                                                      *)

\* Mutant: the record of a refusal is left reserved.
SettledIfAccepted(r, accepted) ==
  IF accepted
  THEN [r EXCEPT !.state = "COMMITTED",
                 !.receipt = [decision |-> "ADMIT", envelope |-> r.envelope]]
  ELSE r

\* commit binds the reserved record to its immutable receipt.
Settled(r, accepted) ==
  [r EXCEPT !.state = IF accepted THEN "COMMITTED" ELSE "REJECTED",
            !.receipt = [decision |-> IF accepted THEN "ADMIT" ELSE "DENY",
                         envelope |-> r.envelope]]

Commit(c) ==
  /\ phase[c] \in {"fresh", "over"}
  /\ store' = {IF r.envelope = EnvelopeOf(c) /\ r.state = "RESERVED"
               THEN Settled(r, phase[c] = "fresh") ELSE r : r \in store}
  /\ phase' = [phase EXCEPT ![c] = "done"]
  /\ input' = [input EXCEPT ![c] = None]
  /\ UNCHANGED <<trustVars, decision, begun, granted, refused, disturbed>>

\* The process dies: its calls are gone, the store and the trust root remain.
Crash ==
  /\ \E c \in Calls : phase[c] \in InFlight
  /\ phase' = [c \in Calls |-> "idle"]
  /\ input' = [c \in Calls |-> None]
  /\ decision' = [c \in Calls |-> None]
  /\ disturbed' = disturbed \cup
       {EnvelopeOf(c) : c \in {d \in Calls : phase[d] \in {"reserved", "fresh", "over"}}}
  /\ UNCHANGED <<trustVars, store, begun, granted, refused>>

-----------------------------------------------------------------------------
Init == TrustInit /\ AdmissionInit

TrustStep == TrustNext /\ UNCHANGED admissionVars

CallStep(c) ==
  \/ \E e \in Envelopes, k \in IdemKeys \cup {None}, b \in BudgetInputs : Begin(c, e, k, b)
  \/ Reserve(c)
  \/ ReserveRefused(c)
  \/ ReserveRaises(c)
  \/ Decide(c)
  \/ Commit(c)

Next ==
  \/ TrustStep
  \/ \E c \in Calls : CallStep(c)
  \/ Crash

Spec == Init /\ [][Next]_vars

(* A verification that has begun runs to its end: it waits for nothing but *)
(* the store, which answers or raises, and the caller then commits the     *)
(* receipt of the decision it was given.  Nothing is assumed about new     *)
(* calls, the clock, rotations or crashes.                                 *)
Progress(c) ==
  Reserve(c) \/ ReserveRefused(c) \/ ReserveRaises(c) \/ Decide(c) \/ Commit(c)

FairSpec == Spec /\ \A c \in Calls : WF_vars(Progress(c))

-----------------------------------------------------------------------------
(* Properties.                                                             *)

(* At most once: of all the envelopes that share a nonce or an idempotency *)
(* key, at most one is ever decided on its budget, and once: it is either  *)
(* freshly admitted a single time or refused as over budget a single time, *)
(* through concurrent duplicates, retries after a crash, lost replies of   *)
(* the store and trust rotations (verify_admission, the reservation made   *)
(* before the budget is evaluated).                                        *)
OneOutcomePerKey ==
  \A e, f \in Envelopes :
    /\ granted[e] + refused[e] <= 1
    /\ granted[e] + refused[e] > 0 /\ granted[f] + refused[f] > 0 /\ Conflict(e, f)
         => e = f

\* The bundles in force at time t, by the runtime's clock.
InForce(i, t) ==
  /\ adopted[i].at <= t
  /\ i < Len(adopted) => t <= adopted[i + 1].at

(* Nothing but a verified envelope ever occupies the store: the holder of   *)
(* every reservation was signed by a key that the bundle in force when the *)
(* call began listed as ACTIVE for RUNTIME_ADMISSION and within its window,*)
(* for this organization, inside the envelope's own window, and under the  *)
(* idempotency key that was signed.  A forged, expired, foreign or         *)
(* mislabelled envelope, or one whose signer was revoked before the call   *)
(* began, consumes neither nonce nor idempotency key.                      *)
OnlyVerifiedReserve ==
  \A r \in store :
    LET doc == EnvelopeDoc[r.envelope]
    IN  /\ doc.org = Org
        /\ doc.signature.digestOk
        /\ r.idemKey = doc.idemKey
        /\ doc.notBefore <= r.firstSeenAt /\ r.firstSeenAt < doc.expiresAt
        /\ \E i \in 1..Len(adopted) :
             /\ InForce(i, r.firstSeenAt)
             /\ \E key \in DocAt(i).keys :
                  /\ key.keyId = doc.signature.keyId
                  /\ key.publicKey = doc.signature.signer
                  /\ key.state = "ACTIVE"
                  /\ "RUNTIME_ADMISSION" \in key.purposes
                  /\ key.notBefore <= r.firstSeenAt /\ r.firstSeenAt < key.notAfter

(* A receipt says what was decided: a committed record belongs to an        *)
(* envelope that was freshly admitted, a rejected one to an envelope that  *)
(* was refused over budget, and its receipt carries that decision.         *)
ReceiptMatchesDecision ==
  \A r \in store :
    /\ r.state = "COMMITTED" =>
         /\ granted[r.envelope] = 1
         /\ r.receipt = [decision |-> "ADMIT", envelope |-> r.envelope]
    /\ r.state = "REJECTED" =>
         /\ refused[r.envelope] = 1
         /\ r.receipt = [decision |-> "DENY", envelope |-> r.envelope]
    /\ r.state = "RESERVED" => r.receipt = None

(* Every admission is the one fresh admission of its envelope, or returns  *)
(* the cached receipt of one: of an envelope with the same idempotency key *)
(* and the same request, freshly admitted exactly once (the IDEMPOTENT     *)
(* branch of verify_admission and verifyAdmission, which evaluates no      *)
(* budget), however calls on envelopes that share a nonce or an            *)
(* idempotency key interleave, and whatever replies are lost.              *)
AdmissionsAreBacked ==
  \A c \in Calls :
    decision[c] # None /\ decision[c].admitted =>
      LET receipt == decision[c].cached
      IN  IF receipt = None
          THEN granted[decision[c].envelope] = 1
          ELSE /\ granted[receipt.envelope] = 1
               /\ RequestOf(receipt.envelope) = RequestOf(decision[c].envelope)
               /\ IdemKey(receipt.envelope) = IdemKey(decision[c].envelope)

(* A reservation is left without a receipt only while its call is in       *)
(* flight, or after a fault: a crash, a reply of the store that was lost,  *)
(* or budget input that is found malformed after the reservation.  No      *)
(* other path of verify_admission strands a nonce.                         *)
ReservationExplained ==
  \A r \in store :
    r.state = "RESERVED" =>
      \/ r.envelope \in disturbed
      \/ \E c \in Calls : /\ phase[c] \in {"reserved", "fresh", "over"}
                         /\ EnvelopeOf(c) = r.envelope

Held(e, states) == \E r \in store : r.envelope = e /\ r.state \in states

(* A reservation does not stay open: it is settled by its receipt, unless a *)
(* fault met it (the cases of ReservationExplained).  Together with        *)
(* OneOutcomePerKey: what is reserved is decided, once.                    *)
ReservationSettled ==
  \A e \in Envelopes :
    Held(e, {"RESERVED"}) ~> (Held(e, {"COMMITTED", "REJECTED"}) \/ e \in disturbed)

(* The ledger that admission implements: the store's records are the keys  *)
(* spent, and the fresh admissions and budget refusals are its outcomes.   *)
Ledger == INSTANCE AdmissionLedger WITH
  Items <- Envelopes, Clash <- Conflict, spent <- {r.envelope : r \in store},
  grants <- granted, refusals <- refused

(* verify_admission over an atomic store, with all its concurrency, faults *)
(* and rotations, implements the ledger: keys are spent once, and only the *)
(* holder of the keys is granted or refused, after spending them.          *)
ImplementsLedger == Ledger!LedgerSpec

(* Fail closed: a request refused over budget is never admitted afterwards,*)
(* whichever of its envelopes is retried.                                  *)
RefusedStaysRefused ==
  \A c \in Calls :
    decision[c] # None /\ decision[c].admitted =>
      \A f \in Envelopes : IdemKey(f) = IdemKey(decision[c].envelope) => refused[f] = 0
=============================================================================
