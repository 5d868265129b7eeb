--------------------------- MODULE AdmissionProofs ---------------------------
(***************************************************************************)
(* Proofs about Admission and AdmissionSurfaces, for every set of calls,   *)
(* envelopes, bundles and budget inputs, every store that hands out        *)
(* receipts of any settled state, and any number of verifications.         *)
(***************************************************************************)
EXTENDS AdmissionSurfaces, TrustChainProofs

(* The calls that own a reservation.                                       *)
Holding == {"reserved", "fresh", "over"}

(* A call past the checks works on the envelope it verified, under the     *)
(* idempotency key that was signed.                                        *)
InputVerified ==
  \A c \in Calls :
    phase[c] \in InFlight =>
      input[c] \in Input /\ input[c].idemKey = IdemKey(EnvelopeOf(c))

(* The store holds one record per nonce and per idempotency key.           *)
StoreExclusive ==
  \A r \in store :
    /\ r.idemKey = IdemKey(r.envelope)
    /\ \A s \in store : Conflict(r.envelope, s.envelope) => r = s

(* What the owner of a reservation has decided so far.                     *)
Outcome(c) ==
  /\ granted[EnvelopeOf(c)] = (IF phase[c] = "fresh" THEN 1 ELSE 0)
  /\ refused[EnvelopeOf(c)] = (IF phase[c] = "over" THEN 1 ELSE 0)

(* A reservation has one owner, and its record is open while it is owned.  *)
HolderExclusive ==
  \A c \in Calls :
    phase[c] \in Holding =>
      /\ \E r \in store : r.envelope = EnvelopeOf(c) /\ r.state = "RESERVED"
      /\ Outcome(c)
      /\ \A d \in Calls :
           phase[d] \in Holding /\ EnvelopeOf(d) = EnvelopeOf(c) => d = c

(* Nothing is decided without a record.                                    *)
DecidedHeld ==
  \A e \in Envelopes :
    /\ granted[e] + refused[e] <= 1
    /\ granted[e] + refused[e] > 0 => \E r \in store : r.envelope = e

AdmissionInv ==
  /\ AdmissionTypeOK
  /\ InputVerified
  /\ StoreExclusive
  /\ HolderExclusive
  /\ DecidedHeld
  /\ ReceiptMatchesDecision

-----------------------------------------------------------------------------
(* Lemmas about the operators.                                             *)

(* An envelope's keys are of their types.                                  *)
LEMMA KeysTyped == \A e \in Envelopes : IdemKey(e) \in IdemKeys
BY EnvelopeDocAssumption DEF IdemKey, AdmissionEnvelope

(* The checks verify_admission makes before it reserves: organization,     *)
(* digest, an ACTIVE key of the bundle, the envelope's window, and the     *)
(* idempotency key that was signed.                                        *)
LEMMA EnvelopeAccepted ==
  ASSUME NEW e, NEW b, NEW now, NEW k, EnvelopeReason(e, b, Org, now, k) = NoReason
  PROVE  /\ k = IdemKey(e)
         /\ EnvelopeDoc[e].org = Org
         /\ EnvelopeDoc[e].signature.digestOk
         /\ ~(now < EnvelopeDoc[e].notBefore)
         /\ ~(now >= EnvelopeDoc[e].expiresAt)
         /\ \E key \in BundleDoc[b].keys :
              Vouches(key, EnvelopeDoc[e].signature, "RUNTIME_ADMISSION", now)
<1>1. /\ k = IdemKey(e)
      /\ EnvelopeDoc[e].org = Org
      /\ EnvelopeDoc[e].signature.digestOk
      /\ ~(now < EnvelopeDoc[e].notBefore)
      /\ ~(now >= EnvelopeDoc[e].expiresAt)
      /\ SignerReason(BundleDoc[b], EnvelopeDoc[e].signature, "RUNTIME_ADMISSION", now)
           = NoReason
  BY DEF EnvelopeReason, WindowReason, NoReason, IdemKey
<1> QED
  BY <1>1, SignerAccepted

(* A reservation is made only when no record shares a key with it.         *)
LEMMA ReservedIsFresh ==
  ASSUME NEW in, ReserveStatus(in) = "RESERVED"
  PROVE  SameIdem(in) = {} /\ SameNonce(in) = {}
BY DEF ReserveStatus

LEMMA NewRecordTyped ==
  ASSUME NEW in \in Input, in.idemKey = IdemKey(in.envelope)
  PROVE  NewRecord(in) \in ReplayRecord
BY KeysTyped DEF NewRecord, ReplayRecord, Input

(* Whatever status ends a verification, its decision is well typed.        *)
LEMMA ReservationDecisionTyped ==
  ASSUME NEW in \in Input, store \in SUBSET ReplayRecord, ReserveStatus(in) # "RESERVED"
  PROVE  ReservationDecision(in) \in Decision
<1>1. CASE ReserveStatus(in) = "IDEMPOTENT"
  <2>1. PICK s \in SameIdem(in) : s.state \in Replayable
    BY <1>1 DEF ReserveStatus
  <2> DEFINE r == CHOOSE r \in SameIdem(in) : r.state \in Replayable
  <2>2. r \in SameIdem(in)
    BY <2>1
  <2>3. r \in ReplayRecord
    BY <2>2 DEF SameIdem
  <2>4. CachedReceipt(in) \in Receipt \cup {None}
    BY <2>3 DEF CachedReceipt, ReplayRecord
  <2> QED
    BY <1>1, <2>4 DEF ReservationDecision, Admit, Decision, Input
<1>2. CASE ReserveStatus(in) = "IDEMPOTENCY_CONFLICT"
  BY <1>2 DEF ReservationDecision, Deny, Decision, Input, DenialReasons
<1>3. CASE ReserveStatus(in) = "REPLAY_DETECTED"
  BY <1>3 DEF ReservationDecision, Deny, Decision, Input, DenialReasons
<1> QED
  BY <1>1, <1>2, <1>3 DEF ReserveStatus

-----------------------------------------------------------------------------
(* The invariant, one lemma per action.                                    *)

LEMMA AdmissionInvInit == Init => AdmissionInv
<1> SUFFICES ASSUME Init PROVE AdmissionInv
  OBVIOUS
<1> USE DEF Init, AdmissionInit
<1>1. AdmissionTypeOK
  BY MaxCallsAssumption DEF AdmissionTypeOK, Phases
<1>2. InputVerified /\ HolderExclusive
  BY DEF InputVerified, HolderExclusive, InFlight, Holding
<1>3. StoreExclusive /\ DecidedHeld /\ ReceiptMatchesDecision
  BY DEF StoreExclusive, DecidedHeld, ReceiptMatchesDecision
<1> QED
  BY <1>1, <1>2, <1>3 DEF AdmissionInv

(* A call that leaves its verification takes nothing from the other calls. *)
LEMMA ReturnKeeps ==
  ASSUME AdmissionInv, NEW c \in Calls, NEW answer \in Decision, Return(c, answer),
         UNCHANGED <<granted, refused>>,
         \A d \in Calls : d # c /\ phase[d] \in Holding =>
           \A r \in store : r.envelope = EnvelopeOf(d) => r \in store'
  PROVE  /\ phase' \in [Calls -> Phases]
         /\ input' \in [Calls -> Input \cup {None}]
         /\ decision' \in [Calls -> Decision \cup {None}]
         /\ InputVerified'
         /\ HolderExclusive'
<1>1. /\ AdmissionTypeOK /\ InputVerified /\ HolderExclusive
      /\ phase' = [phase EXCEPT ![c] = "done"]
      /\ input' = [input EXCEPT ![c] = None]
      /\ decision' = [decision EXCEPT ![c] = answer]
  BY DEF AdmissionInv, Return
<1>2. /\ phase' \in [Calls -> Phases]
      /\ input' \in [Calls -> Input \cup {None}]
      /\ decision' \in [Calls -> Decision \cup {None}]
  BY <1>1 DEF AdmissionTypeOK, Phases
<1>3. phase'[c] \notin InFlight /\ phase'[c] \notin Holding
  BY <1>1 DEF AdmissionTypeOK, InFlight, Holding
<1>4. \A d \in Calls : d # c => phase'[d] = phase[d] /\ input'[d] = input[d]
  BY <1>1 DEF AdmissionTypeOK
<1>5. InputVerified'
  BY <1>1, <1>3, <1>4 DEF InputVerified, EnvelopeOf
<1>6. HolderExclusive'
  BY <1>1, <1>3, <1>4 DEF HolderExclusive, EnvelopeOf, Outcome
<1> QED
  BY <1>2, <1>5, <1>6

(* A step that leaves the store and the outcomes alone keeps what is said  *)
(* of them.                                                                *)
LEMMA SameStoreKeeps ==
  ASSUME AdmissionInv, UNCHANGED <<store, granted, refused>>
  PROVE  StoreExclusive' /\ DecidedHeld' /\ ReceiptMatchesDecision'
BY DEF AdmissionInv, StoreExclusive, DecidedHeld, ReceiptMatchesDecision

(* The checks answer with a reason of the closed list, or none.            *)
LEMMA ReasonTyped ==
  ASSUME NEW e, NEW b, NEW now, NEW k
  PROVE  EnvelopeReason(e, b, Org, now, k) \in DenialReasons \cup {NoReason}
<1>1. SelectKey(BundleDoc[b], EnvelopeDoc[e].signature.keyId, "RUNTIME_ADMISSION", now)
        \in DenialReasons \cup {NoReason}
  BY DEF SelectKey, DenialReasons, NoReason
<1>2. SignerReason(BundleDoc[b], EnvelopeDoc[e].signature, "RUNTIME_ADMISSION", now)
        \in DenialReasons \cup {NoReason}
  BY <1>1 DEF SignerReason, SignatureReason, DenialReasons, NoReason
<1> QED
  BY <1>2 DEF EnvelopeReason, WindowReason, DenialReasons, NoReason

(* The beginning of a call, whichever surface gives the reason.            *)
LEMMA CheckedKeepsInv ==
  ASSUME AdmissionInv, TrustTypeOK, NEW c \in Calls, NEW e \in Envelopes,
         NEW k \in IdemKeys \cup {None}, NEW b \in BudgetInputs,
         NEW reason \in DenialReasons \cup {NoReason},
         reason = NoReason => k = IdemKey(e),
         phase[c] \in {"idle", "done"}, begun < MaxCalls, begun' = begun + 1,
         UNCHANGED <<store, granted, refused, disturbed>>,
         IF reason # NoReason
         THEN Return(c, Deny(e, reason))
         ELSE /\ phase' = [phase EXCEPT ![c] = "reserving"]
              /\ decision' = [decision EXCEPT ![c] = None]
              /\ input' = [input EXCEPT ![c] = [envelope |-> e, now |-> clock,
                                                idemKey |-> k, budget |-> b]]
  PROVE  AdmissionInv'
<1> DEFINE in == [envelope |-> e, now |-> clock, idemKey |-> k, budget |-> b]
<1>1. AdmissionTypeOK /\ InputVerified /\ HolderExclusive
  BY DEF AdmissionInv
<1>2. StoreExclusive' /\ DecidedHeld' /\ ReceiptMatchesDecision'
  BY <1>1, SameStoreKeeps
<1>3. begun' \in 0..MaxCalls
  BY <1>1, MaxCallsAssumption DEF AdmissionTypeOK
<1>4. CASE reason # NoReason
  <2>1. reason \in DenialReasons
    BY <1>4
  <2>2. Deny(e, reason) \in Decision /\ Return(c, Deny(e, reason))
    BY <1>4, <2>1 DEF Deny, Decision
  <2> QED
    BY <1>1, <1>2, <1>3, <2>2, ReturnKeeps DEF AdmissionInv, AdmissionTypeOK
<1>5. CASE reason = NoReason
  <2>1. /\ phase' = [phase EXCEPT ![c] = "reserving"]
        /\ decision' = [decision EXCEPT ![c] = None]
        /\ input' = [input EXCEPT ![c] = in]
    BY <1>5
  <2>2. k = IdemKey(e)
    BY <1>5
  <2>3. in \in Input /\ in.idemKey = IdemKey(in.envelope)
    BY <2>2, MaxTimeAssumption DEF Input, TrustTypeOK, Time
  <2> HIDE DEF in
  <2>4. AdmissionTypeOK'
    BY <1>1, <1>3, <2>1, <2>3 DEF AdmissionTypeOK, Phases
  <2>5. \A d \in Calls : d # c => phase'[d] = phase[d] /\ input'[d] = input[d]
    BY <1>1, <2>1 DEF AdmissionTypeOK
  <2>6. phase'[c] = "reserving" /\ input'[c] = in
    BY <1>1, <2>1 DEF AdmissionTypeOK
  <2>7. InputVerified'
    BY <1>1, <2>3, <2>5, <2>6 DEF InputVerified, EnvelopeOf
  <2>8. HolderExclusive'
    BY <1>1, <2>5, <2>6 DEF HolderExclusive, EnvelopeOf, Outcome, Holding
  <2> QED
    BY <1>2, <2>4, <2>7, <2>8 DEF AdmissionInv
<1> QED
  BY <1>4, <1>5

LEMMA BeginKeepsInv ==
  ASSUME AdmissionInv, TrustTypeOK, NEW c \in Calls, NEW e \in Envelopes,
         NEW k \in IdemKeys \cup {None}, NEW b \in BudgetInputs, Begin(c, e, k, b)
  PROVE  AdmissionInv'
<1>1. PICK reason : reason = EnvelopeReason(e, Trusted, Org, clock, k)
  OBVIOUS
<1>2. reason \in DenialReasons \cup {NoReason} /\ (reason = NoReason => k = IdemKey(e))
  BY <1>1, ReasonTyped, EnvelopeAccepted
<1> QED
  BY <1>1, <1>2, CheckedKeepsInv DEF Begin

(* StoreReserves adds a record that shares no key with any other.          *)
LEMMA StoreReservesKeeps ==
  ASSUME AdmissionInv, NEW in \in Input, in.idemKey = IdemKey(in.envelope),
         ReserveStatus(in) = "RESERVED", StoreReserves(in),
         UNCHANGED <<granted, refused>>
  PROVE  /\ store' \in SUBSET ReplayRecord
         /\ StoreExclusive' /\ DecidedHeld' /\ ReceiptMatchesDecision'
         /\ \A r \in store : r.envelope # in.envelope
         /\ granted[in.envelope] = 0 /\ refused[in.envelope] = 0
<1> DEFINE new == NewRecord(in)
<1>1. /\ AdmissionTypeOK /\ StoreExclusive /\ DecidedHeld /\ ReceiptMatchesDecision
      /\ store' = store \cup {new}
  BY DEF AdmissionInv, StoreReserves
<1>2. /\ new \in ReplayRecord
      /\ new.envelope = in.envelope /\ new.idemKey = IdemKey(in.envelope)
      /\ new.state = "RESERVED" /\ new.receipt = None
  BY NewRecordTyped DEF NewRecord
<1> HIDE DEF new
<1>3. \A r \in store : ~Conflict(r.envelope, in.envelope) /\ ~Conflict(in.envelope, r.envelope)
  BY <1>1, ReservedIsFresh DEF SameIdem, SameNonce, Conflict, StoreExclusive
<1>4. \A r \in store : r.envelope # in.envelope
  BY <1>3 DEF Conflict
<1>5. granted[in.envelope] = 0 /\ refused[in.envelope] = 0
  <2>1. in.envelope \in Envelopes
    BY DEF Input
  <2>2. /\ granted[in.envelope] \in Nat /\ refused[in.envelope] \in Nat
        /\ ~(granted[in.envelope] + refused[in.envelope] > 0)
    BY <1>1, <1>4, <2>1 DEF DecidedHeld, AdmissionTypeOK
  <2> QED
    BY <2>2
<1>6. store' \in SUBSET ReplayRecord
  BY <1>1, <1>2 DEF AdmissionTypeOK
<1>7. StoreExclusive'
  BY <1>1, <1>2, <1>3 DEF StoreExclusive
<1>8. DecidedHeld' /\ ReceiptMatchesDecision'
  BY <1>1, <1>2 DEF DecidedHeld, ReceiptMatchesDecision
<1> QED
  BY <1>4, <1>5, <1>6, <1>7, <1>8

LEMMA ReserveKeepsInv ==
  ASSUME AdmissionInv, NEW c \in Calls, Reserve(c)
  PROVE  AdmissionInv'
<1> DEFINE in == input[c]
<1>1. /\ AdmissionTypeOK /\ InputVerified /\ HolderExclusive
      /\ phase[c] = "reserving" /\ ReserveStatus(in) = "RESERVED" /\ StoreReserves(in)
      /\ phase' = [phase EXCEPT ![c] = "reserved"]
      /\ UNCHANGED <<input, decision, begun, granted, refused, disturbed>>
  BY DEF AdmissionInv, Reserve
<1>2. in \in Input /\ in.idemKey = IdemKey(in.envelope)
  BY <1>1 DEF InputVerified, InFlight, EnvelopeOf
<1>3. /\ store' \in SUBSET ReplayRecord
      /\ StoreExclusive' /\ DecidedHeld' /\ ReceiptMatchesDecision'
      /\ \A r \in store : r.envelope # in.envelope
      /\ granted[in.envelope] = 0 /\ refused[in.envelope] = 0
  BY <1>1, <1>2, StoreReservesKeeps
<1>4. AdmissionTypeOK'
  BY <1>1, <1>3 DEF AdmissionTypeOK, Phases
<1>5. /\ phase'[c] = "reserved"
      /\ \A d \in Calls : d # c => phase'[d] = phase[d]
  BY <1>1 DEF AdmissionTypeOK
<1>6. InputVerified'
  BY <1>1, <1>2, <1>5 DEF InputVerified, EnvelopeOf
<1>7. HolderExclusive'
  <2>1. /\ NewRecord(in) \in store' /\ NewRecord(in).envelope = in.envelope
        /\ NewRecord(in).state = "RESERVED" /\ store \subseteq store'
    BY <1>1 DEF StoreReserves, NewRecord
  <2>2. \A d \in Calls : d # c /\ phase'[d] \in Holding => EnvelopeOf(d) # in.envelope
    BY <1>1, <1>3, <1>5 DEF HolderExclusive
  <2> QED
    BY <1>1, <1>3, <1>5, <2>1, <2>2 DEF HolderExclusive, EnvelopeOf, Outcome
<1> QED
  BY <1>3, <1>4, <1>6, <1>7 DEF AdmissionInv

LEMMA ReserveRefusedKeepsInv ==
  ASSUME AdmissionInv, NEW c \in Calls, ReserveRefused(c)
  PROVE  AdmissionInv'
<1>1. /\ AdmissionTypeOK /\ InputVerified
      /\ phase[c] = "reserving" /\ ReserveStatus(input[c]) # "RESERVED"
      /\ Return(c, ReservationDecision(input[c]))
      /\ UNCHANGED <<store, begun, granted, refused, disturbed>>
  BY DEF AdmissionInv, ReserveRefused
<1>2. input[c] \in Input
  BY <1>1 DEF InputVerified, InFlight
<1>3. ReservationDecision(input[c]) \in Decision
  BY <1>1, <1>2, ReservationDecisionTyped DEF AdmissionTypeOK
<1> QED
  BY <1>1, <1>3, ReturnKeeps, SameStoreKeeps DEF AdmissionInv, AdmissionTypeOK

LEMMA ReserveRaisesKeepsInv ==
  ASSUME AdmissionInv, NEW c \in Calls, ReserveRaises(c)
  PROVE  AdmissionInv'
<1> DEFINE in == input[c]
<1>1. /\ AdmissionTypeOK /\ InputVerified
      /\ phase[c] = "reserving"
      /\ Return(c, Deny(EnvelopeOf(c), "REPLAY_DETECTED"))
      /\ UNCHANGED <<begun, granted, refused>>
  BY DEF AdmissionInv, ReserveRaises
<1>2. in \in Input /\ in.idemKey = IdemKey(in.envelope)
  BY <1>1 DEF InputVerified, InFlight, EnvelopeOf
<1>3. Deny(EnvelopeOf(c), "REPLAY_DETECTED") \in Decision
  BY <1>2 DEF Deny, Decision, DenialReasons, EnvelopeOf, Input
<1>4. CASE UNCHANGED <<store, disturbed>>
  BY <1>1, <1>3, <1>4, ReturnKeeps, SameStoreKeeps DEF AdmissionInv, AdmissionTypeOK
<1>5. CASE /\ ReserveStatus(in) = "RESERVED"
           /\ StoreReserves(in)
           /\ disturbed' = disturbed \cup {EnvelopeOf(c)}
  <2>1. /\ store' \in SUBSET ReplayRecord
        /\ StoreExclusive' /\ DecidedHeld' /\ ReceiptMatchesDecision'
    BY <1>1, <1>2, <1>5, StoreReservesKeeps
  <2>2. store \subseteq store'
    BY <1>5 DEF StoreReserves
  <2>3. disturbed' \in SUBSET Envelopes
    BY <1>1, <1>2, <1>5 DEF AdmissionTypeOK, EnvelopeOf, Input
  <2> QED
    BY <1>1, <1>3, <2>1, <2>2, <2>3, ReturnKeeps DEF AdmissionInv, AdmissionTypeOK
<1> QED
  BY <1>4, <1>5 DEF ReserveRaises

LEMMA DecideMalformedKeepsInv ==
  ASSUME AdmissionInv, NEW c \in Calls, DecideMalformed(c)
  PROVE  AdmissionInv'
<1>1. /\ AdmissionTypeOK /\ InputVerified
      /\ phase[c] = "reserved"
      /\ Return(c, Deny(EnvelopeOf(c), "MALFORMED"))
      /\ disturbed' = disturbed \cup {EnvelopeOf(c)}
      /\ UNCHANGED <<store, begun, granted, refused>>
  BY DEF AdmissionInv, DecideMalformed
<1>2. EnvelopeOf(c) \in Envelopes
  BY <1>1 DEF InputVerified, InFlight, EnvelopeOf, Input
<1>3. Deny(EnvelopeOf(c), "MALFORMED") \in Decision
  BY <1>2 DEF Deny, Decision, DenialReasons
<1> QED
  BY <1>1, <1>2, <1>3, ReturnKeeps, SameStoreKeeps DEF AdmissionInv, AdmissionTypeOK

(* The budget decides the envelope of a reservation that nothing decided.  *)
LEMMA BudgetDecides ==
  ASSUME AdmissionInv, NEW c \in Calls, phase[c] = "reserved",
         NEW outcome \in {"fresh", "over"}, NEW answer \in Decision,
         phase' = [phase EXCEPT ![c] = outcome],
         decision' = [decision EXCEPT ![c] = answer],
         granted' = IF outcome = "fresh"
                    THEN [granted EXCEPT ![EnvelopeOf(c)] = @ + 1] ELSE granted,
         refused' = IF outcome = "over"
                    THEN [refused EXCEPT ![EnvelopeOf(c)] = @ + 1] ELSE refused,
         UNCHANGED <<input, store, begun, disturbed>>
  PROVE  AdmissionInv'
<1> DEFINE e == EnvelopeOf(c)
<1>1. /\ AdmissionTypeOK /\ InputVerified /\ StoreExclusive /\ HolderExclusive
      /\ DecidedHeld /\ ReceiptMatchesDecision
  BY DEF AdmissionInv
<1>2. input[c] \in Input /\ e \in Envelopes /\ input[c].idemKey = IdemKey(e)
  BY <1>1 DEF InputVerified, InFlight, EnvelopeOf, Input
<1>3. PICK r \in store : r.envelope = e /\ r.state = "RESERVED"
  BY <1>1 DEF HolderExclusive, Holding
<1>4. granted[e] = 0 /\ refused[e] = 0
  BY <1>1 DEF HolderExclusive, Holding, Outcome
<1>5. /\ granted' \in [Envelopes -> Nat] /\ refused' \in [Envelopes -> Nat]
      /\ granted'[e] = (IF outcome = "fresh" THEN 1 ELSE 0)
      /\ refused'[e] = (IF outcome = "over" THEN 1 ELSE 0)
      /\ \A f \in Envelopes : f # e => granted'[f] = granted[f] /\ refused'[f] = refused[f]
  BY <1>1, <1>2, <1>4 DEF AdmissionTypeOK
<1>6. phase'[c] = outcome /\ \A d \in Calls : d # c => phase'[d] = phase[d]
  BY <1>1 DEF AdmissionTypeOK
<1> HIDE DEF e
<1>7. AdmissionTypeOK'
  BY <1>1, <1>5 DEF AdmissionTypeOK, Phases
<1>8. InputVerified'
  BY <1>1, <1>2, <1>6 DEF InputVerified, InFlight, EnvelopeOf, e
<1>9. HolderExclusive'
  <2>1. \A d \in Calls : d # c /\ phase[d] \in Holding => EnvelopeOf(d) # e
    BY <1>1 DEF HolderExclusive, Holding, e
  <2>2. \A d \in Calls : phase[d] \in Holding => EnvelopeOf(d) \in Envelopes
    BY <1>1 DEF InputVerified, Holding, InFlight, EnvelopeOf, Input
  <2> SUFFICES ASSUME NEW d \in Calls, phase'[d] \in Holding
               PROVE  /\ \E s \in store : s.envelope = EnvelopeOf(d) /\ s.state = "RESERVED"
                      /\ Outcome(d)'
                      /\ \A g \in Calls : phase'[g] \in Holding
                                          /\ EnvelopeOf(g) = EnvelopeOf(d) => g = d
    BY DEF HolderExclusive, EnvelopeOf
  <2>3. CASE d = c
    BY <1>3, <1>5, <1>6, <2>1, <2>3 DEF Outcome, EnvelopeOf, e
  <2>4. CASE d # c
    BY <1>1, <1>5, <1>6, <2>1, <2>2, <2>4 DEF HolderExclusive, Outcome, EnvelopeOf, e
  <2> QED
    BY <2>3, <2>4
<1>10. StoreExclusive'
  BY <1>1 DEF StoreExclusive
<1>11. DecidedHeld'
  BY <1>1, <1>3, <1>5 DEF DecidedHeld
<1>12. ReceiptMatchesDecision'
  <2>1. \A s \in store : s.envelope = e => s.state = "RESERVED"
    BY <1>1, <1>3 DEF StoreExclusive, Conflict
  <2>2. \A s \in store : s.envelope \in Envelopes
    BY <1>1 DEF AdmissionTypeOK, ReplayRecord
  <2> QED
    BY <1>1, <1>5, <2>1, <2>2 DEF ReceiptMatchesDecision
<1> QED
  BY <1>7, <1>8, <1>9, <1>10, <1>11, <1>12 DEF AdmissionInv

LEMMA DecideKeepsInv ==
  ASSUME AdmissionInv, NEW c \in Calls, Decide(c)
  PROVE  AdmissionInv'
<1>1. phase[c] = "reserved" => EnvelopeOf(c) \in Envelopes
  BY DEF AdmissionInv, InputVerified, InFlight, EnvelopeOf, Input
<1>2. CASE DecideOver(c)
  <2>1. Deny(EnvelopeOf(c), "BUDGET_EXCEEDED") \in Decision
    BY <1>1, <1>2 DEF DecideOver, Deny, Decision, DenialReasons
  <2> QED
    BY <1>2, <2>1, BudgetDecides DEF DecideOver
<1>3. CASE DecideWithin(c)
  <2>1. Admit(EnvelopeOf(c), None) \in Decision
    BY <1>1, <1>3 DEF DecideWithin, Admit, Decision
  <2> QED
    BY <1>3, <2>1, BudgetDecides DEF DecideWithin
<1> QED
  BY <1>2, <1>3, DecideMalformedKeepsInv DEF Decide

LEMMA CommitKeepsInv ==
  ASSUME AdmissionInv, NEW c \in Calls, Commit(c)
  PROVE  AdmissionInv'
<1> DEFINE e == EnvelopeOf(c)
           accepted == phase[c] = "fresh"
           settle(r) == IF r.envelope = e /\ r.state = "RESERVED"
                        THEN Settled(r, accepted) ELSE r
<1>1. /\ AdmissionTypeOK /\ InputVerified /\ StoreExclusive /\ HolderExclusive
      /\ DecidedHeld /\ ReceiptMatchesDecision
      /\ phase[c] \in {"fresh", "over"}
      /\ store' = {settle(r) : r \in store}
      /\ phase' = [phase EXCEPT ![c] = "done"]
      /\ input' = [input EXCEPT ![c] = None]
      /\ UNCHANGED <<decision, begun, granted, refused, disturbed>>
  BY DEF AdmissionInv, Commit
<1>2. e \in Envelopes
  BY <1>1 DEF InputVerified, InFlight, EnvelopeOf, Input
<1>3. Outcome(c)
  BY <1>1 DEF HolderExclusive, Holding
<1>4. \A r \in store : r \in ReplayRecord
  BY <1>1 DEF AdmissionTypeOK
<1>5. \A r \in store :
        /\ settle(r) \in ReplayRecord
        /\ settle(r).envelope = r.envelope /\ settle(r).idemKey = r.idemKey
        /\ r.envelope # e => settle(r) = r
        /\ r.state = "RESERVED" /\ r.envelope = e =>
             /\ settle(r).state = (IF accepted THEN "COMMITTED" ELSE "REJECTED")
             /\ settle(r).receipt = [decision |-> IF accepted THEN "ADMIT" ELSE "DENY",
                                     envelope |-> e]
        /\ r.state # "RESERVED" => settle(r) = r
  BY <1>2, <1>4 DEF Settled, ReplayRecord, Receipt
<1>6. /\ phase'[c] = "done" /\ \A d \in Calls : d # c => phase'[d] = phase[d]
      /\ \A d \in Calls : d # c => input'[d] = input[d]
  BY <1>1 DEF AdmissionTypeOK
<1>7. granted[e] = (IF accepted THEN 1 ELSE 0) /\ refused[e] = (IF accepted THEN 0 ELSE 1)
  BY <1>1, <1>3 DEF Outcome
<1> HIDE DEF settle, accepted, e
<1>8. AdmissionTypeOK'
  BY <1>1, <1>5 DEF AdmissionTypeOK, Phases
<1>9. InputVerified'
  BY <1>1, <1>6 DEF InputVerified, InFlight, EnvelopeOf
<1>10. StoreExclusive'
  BY <1>1, <1>5 DEF StoreExclusive
<1>11. HolderExclusive'
  <2>1. \A d \in Calls : phase'[d] \in Holding =>
          d # c /\ phase'[d] = phase[d] /\ EnvelopeOf(d)' = EnvelopeOf(d) /\ EnvelopeOf(d) # e
    BY <1>1, <1>6 DEF HolderExclusive, Holding, EnvelopeOf, e
  <2>2. \A d \in Calls : phase'[d] \in Holding =>
          \E r \in store' : r.envelope = EnvelopeOf(d) /\ r.state = "RESERVED"
    BY <1>1, <1>5, <2>1 DEF HolderExclusive
  <2> QED
    BY <1>1, <2>1, <2>2 DEF HolderExclusive, Outcome
<1>12. DecidedHeld'
  BY <1>1, <1>5 DEF DecidedHeld
<1>13. ReceiptMatchesDecision'
  <2> SUFFICES ASSUME NEW s \in store'
               PROVE  /\ s.state = "COMMITTED" =>
                           /\ granted[s.envelope] = 1
                           /\ s.receipt = [decision |-> "ADMIT", envelope |-> s.envelope]
                      /\ s.state = "REJECTED" =>
                           /\ refused[s.envelope] = 1
                           /\ s.receipt = [decision |-> "DENY", envelope |-> s.envelope]
                      /\ s.state = "RESERVED" => s.receipt = None
    BY <1>1 DEF ReceiptMatchesDecision
  <2>1. PICK r \in store : s = settle(r)
    BY <1>1
  <2>2. CASE r.state = "RESERVED" /\ r.envelope = e
    BY <1>5, <1>7, <2>1, <2>2
  <2>3. CASE ~(r.state = "RESERVED" /\ r.envelope = e)
    <3>1. s = r
      BY <1>5, <2>1, <2>3
    <3> QED
      BY <1>1, <3>1 DEF ReceiptMatchesDecision
  <2> QED
    BY <2>2, <2>3
<1> QED
  BY <1>8, <1>9, <1>10, <1>11, <1>12, <1>13 DEF AdmissionInv

LEMMA CrashKeepsInv == AdmissionInv /\ Crash => AdmissionInv'
<1> SUFFICES ASSUME AdmissionInv, Crash PROVE AdmissionInv'
  OBVIOUS
<1>1. /\ AdmissionTypeOK /\ InputVerified
      /\ phase' = [c \in Calls |-> "idle"]
      /\ input' = [c \in Calls |-> None]
      /\ decision' = [c \in Calls |-> None]
      /\ disturbed' = disturbed \cup {EnvelopeOf(c) : c \in {d \in Calls : phase[d] \in Holding}}
      /\ UNCHANGED <<store, begun, granted, refused>>
  BY DEF AdmissionInv, Crash, Holding
<1>2. \A c \in Calls : phase[c] \in Holding => EnvelopeOf(c) \in Envelopes
  BY <1>1 DEF InputVerified, InFlight, Holding, EnvelopeOf, Input
<1>3. AdmissionTypeOK'
  BY <1>1, <1>2 DEF AdmissionTypeOK, Phases
<1>4. InputVerified' /\ HolderExclusive'
  BY <1>1 DEF InputVerified, HolderExclusive, InFlight, Holding
<1> QED
  BY <1>1, <1>3, <1>4, SameStoreKeeps DEF AdmissionInv

LEMMA UnchangedKeepsInv == AdmissionInv /\ UNCHANGED admissionVars => AdmissionInv'
BY DEF AdmissionInv, admissionVars, AdmissionTypeOK, InputVerified, StoreExclusive,
       HolderExclusive, DecidedHeld, ReceiptMatchesDecision, EnvelopeOf, Outcome

LEMMA InvStep ==
  TrustInv /\ AdmissionInv /\ [Next]_vars => TrustInv' /\ AdmissionInv'
<1> SUFFICES ASSUME TrustInv, AdmissionInv, [Next]_vars PROVE TrustInv' /\ AdmissionInv'
  OBVIOUS
<1>1. TrustTypeOK
  BY DEF TrustInv
<1>2. CASE TrustStep
  BY <1>2, TrustInvStep, UnchangedKeepsInv DEF TrustStep
<1>3. CASE \E c \in Calls : CallStep(c)
  <2>1. PICK c \in Calls : CallStep(c)
    BY <1>3
  <2>2. UNCHANGED trustVars
    BY <2>1 DEF CallStep, Begin, Reserve, ReserveRefused, ReserveRaises, Decide,
                DecideMalformed, DecideOver, DecideWithin, Commit
  <2>3. AdmissionInv'
    BY <1>1, <2>1, BeginKeepsInv, ReserveKeepsInv, ReserveRefusedKeepsInv,
       ReserveRaisesKeepsInv, DecideKeepsInv, CommitKeepsInv DEF CallStep
  <2> QED
    BY <2>2, <2>3, TrustInvStep
<1>4. CASE Crash
  BY <1>4, TrustInvStep, CrashKeepsInv DEF Crash
<1>5. CASE UNCHANGED vars
  BY <1>5, TrustInvStep, UnchangedKeepsInv DEF vars
<1> QED
  BY <1>2, <1>3, <1>4, <1>5 DEF Next

LEMMA InvAlways == Spec => [](TrustInv /\ AdmissionInv)
<1>1. Init => TrustInv /\ AdmissionInv
  BY TrustInvInit, AdmissionInvInit DEF Init
<1> QED
  BY <1>1, InvStep, PTL DEF Spec

-----------------------------------------------------------------------------
(* Theorems.                                                               *)

(* verify_admission and its store are well typed at all times; a decision  *)
(* carries a reason of the closed list, or none.                           *)
THEOREM TypeCorrect == Spec => []TypeOK
<1>1. TrustInv /\ AdmissionInv => TypeOK
  BY DEF TrustInv, AdmissionInv, TypeOK
<1> QED
  BY <1>1, InvAlways, PTL

(* At most once, for any number of concurrent calls, crashes, lost replies *)
(* and rotations, and whichever settled receipts the store hands out:      *)
(* among envelopes that share a nonce or an idempotency key, one outcome.  *)
THEOREM OneOutcome == Spec => []OneOutcomePerKey
<1>1. AdmissionInv => OneOutcomePerKey
  <2> SUFFICES ASSUME AdmissionInv, NEW e \in Envelopes, NEW f \in Envelopes
               PROVE  /\ granted[e] + refused[e] <= 1
                      /\ Conflict(e, f) /\ granted[e] + refused[e] > 0
                         /\ granted[f] + refused[f] > 0 => e = f
    BY DEF OneOutcomePerKey
  <2> QED
    BY DEF AdmissionInv, StoreExclusive, DecidedHeld
<1> QED
  BY <1>1, InvAlways, PTL

(* A settled record carries the receipt of the decision that was taken on  *)
(* its envelope.                                                           *)
THEOREM ReceiptsMatch == Spec => []ReceiptMatchesDecision
<1>1. AdmissionInv => ReceiptMatchesDecision
  BY DEF AdmissionInv
<1> QED
  BY <1>1, InvAlways, PTL

(* Admission runs beside the trust chain without disturbing it.            *)
THEOREM AdmissionKeepsChain == Spec => []ChainSound
<1>1. TrustInv => ChainSound
  BY DEF TrustInv, ChainSound
<1> QED
  BY <1>1, InvAlways, PTL

-----------------------------------------------------------------------------
(* Admission implements the ledger.                                        *)

Spent == {r.envelope : r \in store}

LEMMA LedgerStart == Init => Ledger!LedgerInit
BY DEF Init, AdmissionInit, Ledger!LedgerInit

(* A step that changes neither the spent keys nor the outcomes is none of  *)
(* the ledger's.                                                           *)
LEMMA LedgerStutters ==
  ASSUME Spent' = Spent, UNCHANGED <<granted, refused>>
  PROVE  UNCHANGED Ledger!ledgerVars
BY DEF Spent, Ledger!ledgerVars

(* A reservation spends the keys of its envelope.                          *)
LEMMA LedgerSpends ==
  ASSUME AdmissionInv, NEW in \in Input, in.idemKey = IdemKey(in.envelope),
         ReserveStatus(in) = "RESERVED", StoreReserves(in), UNCHANGED <<granted, refused>>
  PROVE  Ledger!LedgerNext
<1> DEFINE e == in.envelope
<1>1. StoreExclusive /\ store' = store \cup {NewRecord(in)} /\ NewRecord(in).envelope = e
  BY DEF AdmissionInv, StoreReserves, NewRecord
<1>2. e \in Envelopes
  BY DEF Input
<1>3. \A r \in store : ~Conflict(e, r.envelope)
  BY <1>1, ReservedIsFresh DEF SameIdem, SameNonce, Conflict, StoreExclusive
<1>4. Spent' = Spent \cup {e}
  BY <1>1 DEF Spent
<1>5. Ledger!Spend(e)
  BY <1>3, <1>4 DEF Ledger!Spend, Spent
<1> QED
  BY <1>2, <1>5 DEF Ledger!LedgerNext

LEMMA CommitSpendsNothing ==
  ASSUME AdmissionInv, NEW c \in Calls, Commit(c)
  PROVE  Spent' = Spent
<1> DEFINE settle(r) == IF r.envelope = EnvelopeOf(c) /\ r.state = "RESERVED"
                        THEN Settled(r, phase[c] = "fresh") ELSE r
<1>1. store' = {settle(r) : r \in store}
  BY DEF Commit
<1>2. \A r \in store : settle(r).envelope = r.envelope
  BY DEF AdmissionInv, AdmissionTypeOK, ReplayRecord, Settled
<1> QED
  BY <1>1, <1>2 DEF Spent

(* Each step of admission is a step of the ledger, or none.                *)
LEMMA LedgerStep ==
  AdmissionInv /\ [Next]_vars => [Ledger!LedgerNext]_(Ledger!ledgerVars)
<1> SUFFICES ASSUME AdmissionInv, [Next]_vars
             PROVE  Ledger!LedgerNext \/ UNCHANGED Ledger!ledgerVars
  OBVIOUS
<1>1. AdmissionTypeOK /\ InputVerified /\ HolderExclusive
  BY DEF AdmissionInv
<1>2. CASE TrustStep \/ Crash \/ UNCHANGED vars
  <2>1. UNCHANGED <<store, granted, refused>>
    BY <1>2 DEF TrustStep, admissionVars, Crash, vars
  <2> QED
    BY <2>1, LedgerStutters DEF Spent
<1>3. ASSUME NEW c \in Calls, CallStep(c)
      PROVE  Ledger!LedgerNext \/ UNCHANGED Ledger!ledgerVars
  <2> DEFINE in == input[c]
             e == EnvelopeOf(c)
  <2>1. phase[c] \in InFlight =>
          in \in Input /\ in.idemKey = IdemKey(in.envelope) /\ e \in Envelopes
    BY <1>1 DEF InputVerified, EnvelopeOf, Input
  <2>2. CASE \E f \in Envelopes, k \in IdemKeys \cup {None}, b \in BudgetInputs :
               Begin(c, f, k, b)
    <3>1. UNCHANGED <<store, granted, refused>>
      BY <2>2 DEF Begin
    <3> QED
      BY <3>1, LedgerStutters DEF Spent
  <2>3. CASE Reserve(c)
    BY <2>1, <2>3, LedgerSpends DEF Reserve, InFlight
  <2>4. CASE ReserveRefused(c)
    BY <2>4, LedgerStutters DEF ReserveRefused, Spent
  <2>5. CASE ReserveRaises(c)
    <3>1. UNCHANGED <<granted, refused>> /\ phase[c] = "reserving"
      BY <2>5 DEF ReserveRaises
    <3>2. store' = store \/ (ReserveStatus(in) = "RESERVED" /\ StoreReserves(in))
      BY <2>5 DEF ReserveRaises
    <3> QED
      BY <2>1, <3>1, <3>2, LedgerStutters, LedgerSpends DEF Spent, InFlight
  <2>6. CASE DecideMalformed(c)
    BY <2>6, LedgerStutters DEF DecideMalformed, Spent
  <2>7. CASE DecideOver(c) \/ DecideWithin(c)
    <3>1. phase[c] = "reserved" /\ UNCHANGED store
      BY <2>7 DEF DecideOver, DecideWithin
    <3>2. e \in Envelopes /\ e \in Spent /\ granted[e] = 0 /\ refused[e] = 0
      BY <1>1, <2>1, <3>1 DEF HolderExclusive, Holding, InFlight, Outcome, Spent
    <3>3. Ledger!Undecided(e)
      BY <3>2 DEF Ledger!Undecided
    <3>4. CASE DecideOver(c)
      <4>1. refused' = [refused EXCEPT ![e] = 1] /\ granted' = granted
        BY <1>1, <3>2, <3>4 DEF DecideOver, AdmissionTypeOK
      <4>2. Ledger!Refuse(e)
        BY <3>1, <3>2, <3>3, <4>1 DEF Ledger!Refuse, Spent
      <4> QED
        BY <3>2, <4>2 DEF Ledger!LedgerNext
    <3>5. CASE DecideWithin(c)
      <4>1. granted' = [granted EXCEPT ![e] = 1] /\ refused' = refused
        BY <1>1, <3>2, <3>5 DEF DecideWithin, AdmissionTypeOK
      <4>2. Ledger!Grant(e)
        BY <3>1, <3>2, <3>3, <4>1 DEF Ledger!Grant, Spent
      <4> QED
        BY <3>2, <4>2 DEF Ledger!LedgerNext
    <3> QED
      BY <2>7, <3>4, <3>5
  <2>8. CASE Commit(c)
    BY <2>8, CommitSpendsNothing, LedgerStutters DEF Commit
  <2> QED
    BY <1>3, <2>2, <2>3, <2>4, <2>5, <2>6, <2>7, <2>8 DEF CallStep, Decide
<1> QED
  BY <1>2, <1>3 DEF Next

(* verify_admission over an atomic store implements the ledger for all     *)
(* values of the constants: every behaviour of the calls, the faults and   *)
(* the rotations is one of spending keys once and deciding at most once.   *)
THEOREM AdmissionImplementsLedger == Spec => ImplementsLedger
<1>1. Init /\ [][Next]_vars => [](TrustInv /\ AdmissionInv)
  BY InvAlways DEF Spec
<1> QED
  BY <1>1, LedgerStart, LedgerStep, PTL DEF Spec, ImplementsLedger, Ledger!LedgerSpec

-----------------------------------------------------------------------------
(* Reservations are explained.                                             *)

LEMMA ExplainedStep ==
  ASSUME AdmissionInv, ReservationExplained, [Next]_vars
  PROVE  ReservationExplained'
<1>1. AdmissionTypeOK /\ StoreExclusive
  BY DEF AdmissionInv
<1>2. CASE TrustStep \/ UNCHANGED vars
  BY <1>2 DEF TrustStep, vars, admissionVars, ReservationExplained, EnvelopeOf
<1>3. CASE Crash
  BY <1>3 DEF Crash, ReservationExplained, EnvelopeOf
<1>4. ASSUME NEW c \in Calls, CallStep(c) PROVE ReservationExplained'
  (* A step that lets go of no reservation. *)
  <2>1. ASSUME \A d \in Calls : phase[d] \in Holding =>
                 phase'[d] \in Holding /\ EnvelopeOf(d)' = EnvelopeOf(d),
               disturbed \subseteq disturbed',
               \A r \in store' : r.state = "RESERVED" =>
                 \/ r \in store
                 \/ r.envelope \in disturbed'
                 \/ phase'[c] \in Holding /\ EnvelopeOf(c)' = r.envelope
        PROVE  ReservationExplained'
    BY <2>1 DEF ReservationExplained, Holding
  <2>2. CASE \E e \in Envelopes, k \in IdemKeys \cup {None}, b \in BudgetInputs :
               Begin(c, e, k, b)
    <3>1. /\ phase[c] \in {"idle", "done"} /\ UNCHANGED <<store, disturbed>>
          /\ \A d \in Calls : d # c => phase'[d] = phase[d] /\ input'[d] = input[d]
      BY <1>1, <2>2 DEF Begin, Return, AdmissionTypeOK
    <3> QED
      BY <2>1, <3>1 DEF Holding, EnvelopeOf
  <2>3. CASE Reserve(c)
    <3>1. /\ phase[c] = "reserving" /\ store' = store \cup {NewRecord(input[c])}
          /\ phase'[c] = "reserved" /\ UNCHANGED <<disturbed, input>>
          /\ \A d \in Calls : d # c => phase'[d] = phase[d]
      BY <1>1, <2>3 DEF Reserve, StoreReserves, AdmissionTypeOK
    <3> QED
      BY <2>1, <3>1 DEF Holding, EnvelopeOf, NewRecord
  <2>4. CASE ReserveRefused(c) \/ ReserveRaises(c)
    <3>1. /\ phase[c] = "reserving" /\ disturbed \subseteq disturbed'
          /\ \/ store' = store
             \/ store' = store \cup {NewRecord(input[c])} /\ EnvelopeOf(c) \in disturbed'
          /\ \A d \in Calls : d # c => phase'[d] = phase[d] /\ input'[d] = input[d]
      BY <1>1, <2>4 DEF ReserveRefused, ReserveRaises, StoreReserves, Return, AdmissionTypeOK
    <3> QED
      BY <2>1, <3>1 DEF Holding, EnvelopeOf, NewRecord
  <2>5. CASE DecideMalformed(c)
    <3>1. /\ disturbed' = disturbed \cup {EnvelopeOf(c)} /\ store' = store
          /\ \A d \in Calls : d # c => phase'[d] = phase[d] /\ input'[d] = input[d]
      BY <1>1, <2>5 DEF DecideMalformed, Return, AdmissionTypeOK
    <3> QED
      BY <3>1 DEF ReservationExplained, EnvelopeOf
  <2>6. CASE DecideOver(c) \/ DecideWithin(c)
    <3>1. /\ phase'[c] \in Holding /\ UNCHANGED <<store, disturbed, input>>
          /\ \A d \in Calls : d # c => phase'[d] = phase[d]
      BY <1>1, <2>6 DEF DecideOver, DecideWithin, Holding, AdmissionTypeOK
    <3> QED
      BY <2>1, <3>1 DEF EnvelopeOf
  <2>7. CASE Commit(c)
    <3>1. /\ UNCHANGED disturbed
          /\ \A d \in Calls : d # c => phase'[d] = phase[d] /\ input'[d] = input[d]
      BY <1>1, <2>7 DEF Commit, AdmissionTypeOK
    <3>2. ASSUME NEW s \in store', s.state = "RESERVED"
          PROVE  s \in store /\ s.envelope # EnvelopeOf(c)
      <4>1. PICK r \in store : s = IF r.envelope = EnvelopeOf(c) /\ r.state = "RESERVED"
                                   THEN Settled(r, phase[c] = "fresh") ELSE r
        BY <2>7 DEF Commit
      <4>2. r.state = "RESERVED" => Settled(r, phase[c] = "fresh").state # "RESERVED"
        BY <1>1 DEF Settled, AdmissionTypeOK, ReplayRecord
      <4> QED
        BY <3>2, <4>1, <4>2
    <3> QED
      BY <3>1, <3>2 DEF ReservationExplained, EnvelopeOf
  <2> QED
    BY <1>4, <2>2, <2>3, <2>4, <2>5, <2>6, <2>7 DEF CallStep, Decide
<1> QED
  BY <1>2, <1>3, <1>4 DEF Next

(* No path of verify_admission strands a nonce without a fault.            *)
THEOREM ReservationsExplained == Spec => []ReservationExplained
<1>1. Init => ReservationExplained
  BY DEF Init, AdmissionInit, ReservationExplained
<1>2. AdmissionInv /\ ReservationExplained /\ [Next]_vars => ReservationExplained'
  BY ExplainedStep
<1> QED
  BY <1>1, <1>2, InvAlways, PTL DEF Spec

-----------------------------------------------------------------------------
(* Admissions are backed.                                                  *)

(* One call's decision is backed.                                          *)
Backed(answer, grants) ==
  answer # None /\ answer.admitted =>
    LET receipt == answer.cached
    IN  IF receipt = None
        THEN grants[answer.envelope] = 1
        ELSE /\ grants[receipt.envelope] = 1
             /\ RequestOf(receipt.envelope) = RequestOf(answer.envelope)
             /\ IdemKey(receipt.envelope) = IdemKey(answer.envelope)

(* Admissions are never taken back.                                        *)
LEMMA GrantsStand ==
  ASSUME AdmissionInv, AdmissionInv', [Next]_vars, NEW e \in Envelopes, granted[e] = 1
  PROVE  granted'[e] = 1
<1>1. /\ granted \in [Envelopes -> Nat] /\ granted' \in [Envelopes -> Nat]
      /\ refused' \in [Envelopes -> Nat] /\ granted'[e] + refused'[e] <= 1
  BY DEF AdmissionInv, AdmissionTypeOK, DecidedHeld
<1>2. granted' = granted \/ \E f : granted' = [granted EXCEPT ![f] = @ + 1]
  BY DEF Next, TrustStep, CallStep, Begin, Reserve, ReserveRefused, ReserveRaises, Decide,
     DecideMalformed, DecideOver, DecideWithin, Commit, Crash, vars, admissionVars
<1>3. granted'[e] \in {1, 2}
  BY <1>1, <1>2
<1> QED
  BY <1>1, <1>3

(* The receipt that the IDEMPOTENT branch returns is that of an admission. *)
LEMMA CachedIsBacked ==
  ASSUME Replayable = {"COMMITTED"}, AdmissionInv, NEW in \in Input,
         in.idemKey = IdemKey(in.envelope), ReserveStatus(in) # "RESERVED"
  PROVE  Backed(ReservationDecision(in), granted)
<1>1. CASE ReserveStatus(in) = "IDEMPOTENT"
  <2> DEFINE r == CHOOSE r \in SameIdem(in) : r.state \in Replayable
  <2>1. /\ \A s \in SameIdem(in) : RequestOf(s.envelope) = RequestOf(in.envelope)
        /\ \E s \in SameIdem(in) : s.state \in Replayable
    BY <1>1 DEF ReserveStatus
  <2>2. r \in SameIdem(in) /\ r.state \in Replayable
    BY <2>1
  <2> HIDE DEF r
  <2>3. /\ r \in store /\ r.state = "COMMITTED" /\ r.idemKey = in.idemKey
        /\ RequestOf(r.envelope) = RequestOf(in.envelope)
    BY <2>1, <2>2 DEF SameIdem
  <2>4. /\ granted[r.envelope] = 1 /\ IdemKey(r.envelope) = IdemKey(in.envelope)
        /\ r.receipt = [decision |-> "ADMIT", envelope |-> r.envelope]
    BY <2>3 DEF AdmissionInv, ReceiptMatchesDecision, StoreExclusive
  <2>5. ReservationDecision(in) = Admit(in.envelope, r.receipt)
    BY <1>1 DEF ReservationDecision, CachedReceipt, r
  <2>6. r.envelope \in Envelopes /\ r.receipt # None
    BY <2>3, <2>4, NoneReceipt DEF AdmissionInv, AdmissionTypeOK, ReplayRecord, Receipt
  <2> QED
    BY <2>3, <2>4, <2>5, <2>6 DEF Backed, Admit
<1>2. CASE ReserveStatus(in) # "IDEMPOTENT"
  BY <1>2 DEF ReservationDecision, Deny, Backed
<1> QED
  BY <1>1, <1>2

LEMMA BackedStep ==
  ASSUME Replayable = {"COMMITTED"}, AdmissionInv, AdmissionInv', AdmissionsAreBacked,
         [Next]_vars
  PROVE  AdmissionsAreBacked'
<1>1. AdmissionTypeOK /\ InputVerified /\ HolderExclusive
  BY DEF AdmissionInv
<1>2. ASSUME NEW answer \in Decision \cup {None}, Backed(answer, granted)
      PROVE  Backed(answer, granted')
  BY <1>2, GrantsStand DEF Backed, Decision, Receipt
<1>3. ASSUME NEW c \in Calls,
             \/ decision'[c] = decision[c]
             \/ decision'[c] = None
             \/ decision'[c] \in Decision /\ Backed(decision'[c], granted)
             \/ Backed(decision'[c], granted')
      PROVE  Backed(decision'[c], granted')
  <2>1. decision[c] \in Decision \cup {None} /\ Backed(decision[c], granted)
    BY <1>1 DEF AdmissionTypeOK, AdmissionsAreBacked, Backed
  <2>2. Backed(None, granted')
    BY DEF Backed
  <2> QED
    BY <1>2, <1>3, <2>1, <2>2
<1>4. SUFFICES ASSUME NEW d \in Calls PROVE Backed(decision'[d], granted')
  BY DEF AdmissionsAreBacked, Backed
<1>5. CASE UNCHANGED decision
  BY <1>3, <1>5
<1>6. CASE Crash
  BY <1>3, <1>6 DEF Crash
<1>7. ASSUME NEW c \in Calls, NEW answer, decision' = [decision EXCEPT ![c] = answer],
             \/ answer = None
             \/ answer \in Decision /\ Backed(answer, granted)
             \/ Backed(answer, granted')
      PROVE  Backed(decision'[d], granted')
  <2>1. decision'[d] = IF d = c THEN answer ELSE decision[d]
    BY <1>1, <1>7 DEF AdmissionTypeOK
  <2> QED
    BY <1>3, <1>7, <2>1
<1>8. ASSUME NEW c \in Calls, CallStep(c) PROVE Backed(decision'[d], granted')
  <2>1. phase[c] \in InFlight =>
          input[c] \in Input /\ input[c].idemKey = IdemKey(input[c].envelope)
    BY <1>1 DEF InputVerified, EnvelopeOf
  <2>2. \A e, reason : Backed(Deny(e, reason), granted')
    BY DEF Deny, Backed
  <2>3. CASE \E e \in Envelopes, k \in IdemKeys \cup {None}, b \in BudgetInputs :
               Begin(c, e, k, b)
    BY <1>7, <2>2, <2>3 DEF Begin, Return
  <2>4. CASE Reserve(c) \/ Commit(c)
    BY <1>5, <2>4 DEF Reserve, Commit
  <2>5. CASE ReserveRefused(c)
    <3>1. /\ phase[c] \in InFlight /\ ReserveStatus(input[c]) # "RESERVED"
          /\ decision' = [decision EXCEPT ![c] = ReservationDecision(input[c])]
      BY <2>5 DEF ReserveRefused, Return, InFlight
    <3>2. /\ ReservationDecision(input[c]) \in Decision
          /\ Backed(ReservationDecision(input[c]), granted)
      BY <1>1, <2>1, <3>1, CachedIsBacked, ReservationDecisionTyped DEF AdmissionTypeOK
    <3> QED
      BY <1>7, <3>1, <3>2
  <2>6. CASE ReserveRaises(c) \/ DecideMalformed(c) \/ DecideOver(c)
    BY <1>7, <2>2, <2>6 DEF ReserveRaises, DecideMalformed, DecideOver, Return
  <2>7. CASE DecideWithin(c)
    <3>1. /\ phase[c] = "reserved"
          /\ decision' = [decision EXCEPT ![c] = Admit(EnvelopeOf(c), None)]
          /\ granted' = [granted EXCEPT ![EnvelopeOf(c)] = @ + 1]
      BY <2>7 DEF DecideWithin
    <3>2. EnvelopeOf(c) \in Envelopes /\ granted[EnvelopeOf(c)] = 0
      BY <1>1, <2>1, <3>1 DEF HolderExclusive, Holding, Outcome, InFlight, EnvelopeOf, Input
    <3>3. granted'[EnvelopeOf(c)] = 1
      BY <1>1, <3>1, <3>2 DEF AdmissionTypeOK
    <3>4. PICK answer : answer = Admit(EnvelopeOf(c), None)
      OBVIOUS
    <3>5. Backed(answer, granted')
      BY <3>3, <3>4 DEF Backed, Admit
    <3> QED
      BY <1>7, <3>1, <3>4, <3>5
  <2> QED
    BY <1>8, <2>3, <2>4, <2>5, <2>6, <2>7 DEF CallStep, Decide
<1> QED
  BY <1>5, <1>6, <1>8 DEF Next, TrustStep, admissionVars, vars

(* With a store that hands out the receipts of admissions only, whatever   *)
(* is admitted was admitted once, on its budget.                           *)
THEOREM AdmissionsBacked ==
  ASSUME Replayable = {"COMMITTED"}
  PROVE  Spec => []AdmissionsAreBacked
<1>1. Init => AdmissionsAreBacked
  BY DEF Init, AdmissionInit, AdmissionsAreBacked
<1>2. AdmissionInv /\ AdmissionInv' /\ AdmissionsAreBacked /\ [Next]_vars => AdmissionsAreBacked'
  BY BackedStep
<1> QED
  BY <1>1, <1>2, InvAlways, PTL DEF Spec

-----------------------------------------------------------------------------
(* Only what is verified reserves.                                         *)

(* A bundle that was in force at time t vouches for the signature.         *)
VouchedAt(signature, t) ==
  \E i \in 1..Len(adopted) :
    /\ InForce(i, t)
    /\ \E key \in DocAt(i).keys : Vouches(key, signature, "RUNTIME_ADMISSION", t)

(* The envelope passed the checks at time t, which is not to come.         *)
VerifiedAt(e, k, t) ==
  LET doc == EnvelopeDoc[e]
  IN  /\ t \in Time /\ t <= clock
      /\ doc.org = Org
      /\ doc.signature.digestOk
      /\ k = doc.idemKey
      /\ doc.notBefore <= t /\ t < doc.expiresAt
      /\ VouchedAt(doc.signature, t)

VerifiedInv ==
  /\ \A i \in 1..Len(adopted) : adopted[i].at <= clock
  /\ \A c \in Calls : phase[c] \in InFlight =>
       VerifiedAt(input[c].envelope, input[c].idemKey, input[c].now)
  /\ \A r \in store : VerifiedAt(r.envelope, r.idemKey, r.firstSeenAt)

(* Later adoptions do not change what was in force.                        *)
LEMMA PastStands ==
  ASSUME TrustTypeOK, \A i \in 1..Len(adopted) : adopted[i].at <= clock,
         [TrustNext]_trustVars
  PROVE  /\ \A i \in 1..Len(adopted') : adopted'[i].at <= clock'
         /\ \A e, k, t : VerifiedAt(e, k, t) => VerifiedAt(e, k, t)'
<1>1. CASE Tick \/ UNCHANGED trustVars
  <2>1. adopted' = adopted /\ clock' \in Nat /\ clock \in Nat /\ clock <= clock'
    BY <1>1, MaxTimeAssumption DEF Tick, trustVars, TrustTypeOK
  <2>2. ASSUME NEW i \in 1..Len(adopted) PROVE adopted[i].at \in Nat
    <3>1. adopted[i] \in Adoption
      BY DEF TrustTypeOK
    <3> QED
      BY <3>1 DEF Adoption, Time
  <2>3. \A signature, t : VouchedAt(signature, t) => VouchedAt(signature, t)'
    BY <2>1 DEF VouchedAt, InForce, DocAt
  <2>4. \A e, k, t : VerifiedAt(e, k, t) => VerifiedAt(e, k, t)'
    BY <2>1, <2>3 DEF VerifiedAt, Time
  <2> QED
    BY <2>1, <2>2, <2>4
<1>2. CASE \E b \in Bundles : Bootstrap(b) \/ Rotate(b)
  <2>1. PICK b \in Bundles : Adopt(b)
    BY <1>2 DEF Bootstrap, Rotate
  <2>2. PICK n \in Nat : n = Len(adopted)
    BY DEF TrustTypeOK
  <2>3. /\ Len(adopted') = n + 1 /\ adopted'[n + 1].at = clock /\ clock' = clock
        /\ \A i \in 1..n : adopted'[i] = adopted[i]
    BY <2>1, <2>2, AdoptExtends DEF Adopt
  <2>4. clock \in Nat
    BY MaxTimeAssumption DEF TrustTypeOK
  <2>5. ASSUME NEW t \in Time, t <= clock, NEW i \in 1..n, InForce(i, t)
        PROVE  InForce(i, t)'
    BY <2>2, <2>3, <2>4, <2>5 DEF InForce, Time
  <2>6. ASSUME NEW signature, NEW t \in Time, t <= clock, VouchedAt(signature, t)
        PROVE  VouchedAt(signature, t)'
    BY <2>2, <2>3, <2>5, <2>6 DEF VouchedAt, DocAt
  <2> QED
    BY <2>2, <2>3, <2>4, <2>6 DEF VerifiedAt
<1> QED
  BY <1>1, <1>2 DEF TrustNext

(* What Begin accepts is verified by the bundle in force.                  *)
LEMMA BeginVerifies ==
  ASSUME TrustTypeOK, \A i \in 1..Len(adopted) : adopted[i].at <= clock, adopted # <<>>,
         NEW e \in Envelopes, NEW k, EnvelopeReason(e, Trusted, Org, clock, k) = NoReason
  PROVE  VerifiedAt(e, k, clock)
<1>1. PICK n \in Nat : n = Len(adopted) /\ n \in 1..n
  BY DEF TrustTypeOK
<1>2. InForce(n, clock)
  BY <1>1 DEF InForce
<1>3. /\ k = IdemKey(e)
      /\ EnvelopeDoc[e].org = Org
      /\ EnvelopeDoc[e].signature.digestOk
      /\ ~(clock < EnvelopeDoc[e].notBefore)
      /\ ~(clock >= EnvelopeDoc[e].expiresAt)
      /\ \E key \in BundleDoc[Trusted].keys :
           Vouches(key, EnvelopeDoc[e].signature, "RUNTIME_ADMISSION", clock)
  BY EnvelopeAccepted
<1>4. VouchedAt(EnvelopeDoc[e].signature, clock)
  BY <1>1, <1>2, <1>3 DEF VouchedAt, DocAt, Trusted
<1>5. /\ clock \in Nat /\ EnvelopeDoc[e].notBefore \in Nat
      /\ EnvelopeDoc[e].expiresAt \in Nat
  BY MaxTimeAssumption, EnvelopeDocAssumption DEF TrustTypeOK, AdmissionEnvelope, Time
<1> QED
  BY <1>3, <1>4, <1>5 DEF VerifiedAt, IdemKey, Time

LEMMA VerifiedStep ==
  ASSUME TrustTypeOK, AdmissionInv, VerifiedInv, [Next]_vars
  PROVE  VerifiedInv'
<1>1. AdmissionTypeOK /\ [TrustNext]_trustVars
  BY DEF AdmissionInv, Next, TrustStep, vars, trustVars, CallStep, Begin, Reserve,
     ReserveRefused, ReserveRaises, Decide, DecideMalformed, DecideOver, DecideWithin, Commit,
     Crash
<1>2. /\ \A i \in 1..Len(adopted') : adopted'[i].at <= clock'
      /\ \A e, k, t : VerifiedAt(e, k, t) => VerifiedAt(e, k, t)'
  BY <1>1, PastStands DEF VerifiedInv
<1>3. ASSUME \A c \in Calls : phase'[c] \in InFlight =>
               VerifiedAt(input'[c].envelope, input'[c].idemKey, input'[c].now),
             \A r \in store' : VerifiedAt(r.envelope, r.idemKey, r.firstSeenAt)
      PROVE  VerifiedInv'
  <2>1. ASSUME NEW c \in Calls, phase'[c] \in InFlight
        PROVE  VerifiedAt(input[c].envelope, input[c].idemKey, input[c].now)'
    <3>1. PICK e, k, t : e = input'[c].envelope /\ k = input'[c].idemKey /\ t = input'[c].now
      OBVIOUS
    <3>2. VerifiedAt(e, k, t)
      BY <1>3, <2>1, <3>1
    <3>3. VerifiedAt(e, k, t)'
      BY <1>2, <3>2
    <3> QED
      BY <3>1, <3>3 DEF VerifiedAt
  <2>2. ASSUME NEW r \in store'
        PROVE  VerifiedAt(r.envelope, r.idemKey, r.firstSeenAt)'
    BY <1>2, <1>3
  <2> QED
    BY <1>2, <2>1, <2>2 DEF VerifiedInv
<1>4. CASE TrustStep \/ Crash \/ UNCHANGED vars
  BY <1>3, <1>4 DEF TrustStep, admissionVars, Crash, vars, VerifiedInv, InFlight
<1>5. ASSUME NEW c \in Calls, CallStep(c) PROVE VerifiedInv'
  <2>1. \A d \in Calls : d # c => phase'[d] = phase[d] /\ input'[d] = input[d]
    BY <1>1, <1>5 DEF CallStep, Begin, Reserve, ReserveRefused, ReserveRaises, Decide,
       DecideMalformed, DecideOver, DecideWithin, Commit, Return, AdmissionTypeOK
  <2>2. CASE \E e \in Envelopes, k \in IdemKeys \cup {None}, b \in BudgetInputs :
               Begin(c, e, k, b)
    <3>1. PICK e \in Envelopes, k \in IdemKeys \cup {None}, b \in BudgetInputs :
            Begin(c, e, k, b)
      BY <2>2
    <3>2. phase'[c] \in InFlight =>
            /\ EnvelopeReason(e, Trusted, Org, clock, k) = NoReason
            /\ input'[c] = [envelope |-> e, now |-> clock, idemKey |-> k, budget |-> b]
      BY <1>1, <3>1 DEF Begin, Return, AdmissionTypeOK, InFlight
    <3>3. phase'[c] \in InFlight =>
            VerifiedAt(input'[c].envelope, input'[c].idemKey, input'[c].now)
      BY <3>1, <3>2, BeginVerifies DEF VerifiedInv, Begin
    <3>4. store' = store
      BY <3>1 DEF Begin
    <3> QED
      BY <1>3, <2>1, <3>3, <3>4 DEF VerifiedInv
  <2>3. ASSUME ~(\E e \in Envelopes, k \in IdemKeys \cup {None}, b \in BudgetInputs :
                   Begin(c, e, k, b))
        PROVE  VerifiedInv'
    <3>1. phase'[c] \in InFlight => phase[c] \in InFlight /\ input'[c] = input[c]
      BY <1>1, <1>5, <2>3 DEF CallStep, Reserve, ReserveRefused, ReserveRaises, Decide,
         DecideMalformed, DecideOver, DecideWithin, Commit, Return, AdmissionTypeOK, InFlight
    <3>2. CASE store' \subseteq store \cup {NewRecord(input[c])} /\ phase[c] \in InFlight
      BY <1>3, <2>1, <3>1, <3>2 DEF VerifiedInv, NewRecord
    <3>3. CASE store' = store
      BY <1>3, <2>1, <3>1, <3>3 DEF VerifiedInv
    <3>4. CASE Commit(c)
      <4>1. ASSUME NEW s \in store'
            PROVE  \E r \in store : s.envelope = r.envelope /\ s.idemKey = r.idemKey
                                    /\ s.firstSeenAt = r.firstSeenAt
        <5>1. PICK r \in store : s = IF r.envelope = EnvelopeOf(c) /\ r.state = "RESERVED"
                                     THEN Settled(r, phase[c] = "fresh") ELSE r
          BY <3>4 DEF Commit
        <5> QED
          BY <1>1, <5>1 DEF Settled, AdmissionTypeOK, ReplayRecord
      <4> QED
        BY <1>3, <2>1, <3>1, <4>1 DEF VerifiedInv
    <3> QED
      BY <1>5, <2>3, <3>2, <3>3, <3>4 DEF CallStep, Reserve, ReserveRefused, ReserveRaises,
         Decide, DecideMalformed, DecideOver, DecideWithin, StoreReserves, InFlight
  <2> QED
    BY <2>2, <2>3
<1> QED
  BY <1>4, <1>5 DEF Next

(* A forged, expired, foreign or mislabelled envelope, or one whose signer *)
(* was revoked before the call began, never occupies a key, for any chain  *)
(* of bundles and any faults.                                              *)
THEOREM OnlyVerifiedReserves == Spec => []OnlyVerifiedReserve
<1>1. Init => VerifiedInv
  <2> SUFFICES ASSUME Init PROVE VerifiedInv
    OBVIOUS
  <2>1. adopted = <<>> /\ store = {} /\ \A c \in Calls : phase[c] = "idle"
    BY DEF Init, TrustInit, AdmissionInit
  <2> QED
    BY <2>1 DEF VerifiedInv, InFlight
<1>2. TrustInv /\ AdmissionInv /\ VerifiedInv /\ [Next]_vars => VerifiedInv'
  BY VerifiedStep DEF TrustInv
<1>3. VerifiedInv => OnlyVerifiedReserve
  BY DEF VerifiedInv, VerifiedAt, VouchedAt, Vouches, OnlyVerifiedReserve
<1> QED
  BY <1>1, <1>2, <1>3, InvAlways, PTL DEF Spec

-----------------------------------------------------------------------------
(* Both surfaces over one store.                                           *)

(* What was adopted is well formed, and what TypeScript has was adopted    *)
(* and is well formed for it too.                                          *)
FollowInv ==
  /\ known \in 0..Len(adopted)
  /\ AdoptedValid
  /\ \A i \in 1..known : TSValidTrustBundle(BundleDoc[adopted[i].bundle])

SurfacesInv == TrustInv /\ AdmissionInv /\ FollowInv

(* On a bundle well formed for both, an envelope well formed for both gets *)
(* one verdict for one reason.                                             *)
LEMMA SameReason ==
  ASSUME NEW e \in Envelopes, NEW b \in Bundles, NEW now, NEW k,
         ValidTrustBundle(BundleDoc[b]), TSValidTrustBundle(BundleDoc[b]),
         ValidAdmissionEnvelope(EnvelopeDoc[e]), TSValidEnvelope(EnvelopeDoc[e])
  PROVE  EnvelopeReason(e, b, Org, now, k) = TSEnvelopeReason(e, b, Org, now, k)
<1>1. TSSelectKey(BundleDoc[b], EnvelopeDoc[e].signature.keyId, "RUNTIME_ADMISSION", now)
        = SelectKey(BundleDoc[b], EnvelopeDoc[e].signature.keyId, "RUNTIME_ADMISSION", now)
  BY SelectAlike
<1> QED
  BY <1>1 DEF EnvelopeReason, TSEnvelopeReason, SignerReason, SignatureReason, WindowReason,
     TSCallKeyReason, NoReason

(* An envelope one surface finds malformed and the other does not has a    *)
(* defect only the first minds.                                            *)
LEMMA MindsApart ==
  ASSUME NEW e
  PROVE  /\ ValidAdmissionEnvelope(EnvelopeDoc[e]) /\ ~TSValidEnvelope(EnvelopeDoc[e])
              => OnlyTypeScriptMinds(EnvelopeDoc[e])
         /\ TSValidEnvelope(EnvelopeDoc[e]) /\ ~ValidAdmissionEnvelope(EnvelopeDoc[e])
              => OnlyPythonMinds(EnvelopeDoc[e])
BY DEF ValidAdmissionEnvelope, TSValidEnvelope, WellFormed, TSWellFormed, OnlyPythonMinds,
   OnlyTypeScriptMinds

(* verifyAdmission too answers with a reason of the list, or none, and     *)
(* accepts only the idempotency key that was signed.                       *)
LEMMA TSReasonTyped ==
  ASSUME NEW e, NEW b \in Bundles, NEW now, NEW k
  PROVE  /\ TSEnvelopeReason(e, b, Org, now, k) \in DenialReasons \cup {NoReason}
         /\ TSEnvelopeReason(e, b, Org, now, k) = NoReason => k = IdemKey(e)
<1> DEFINE selected ==
             TSSelectKey(BundleDoc[b], EnvelopeDoc[e].signature.keyId, "RUNTIME_ADMISSION", now)
<1>1. selected \in DenialReasons \cup {NoReason}
  BY SelectAlike DEF SelectKey, DenialReasons, NoReason
<1> HIDE DEF selected
<1>2. TSCallKeyReason(EnvelopeDoc[e], k) \in DenialReasons \cup {NoReason}
  BY DEF TSCallKeyReason, DenialReasons, NoReason
<1>3. TSCallKeyReason(EnvelopeDoc[e], k) = NoReason => k = IdemKey(e)
  BY DEF TSCallKeyReason, NoReason, IdemKey
<1>4. /\ TSEnvelopeReason(e, b, Org, now, k) \in DenialReasons \cup {NoReason}
      /\ TSEnvelopeReason(e, b, Org, now, k) = NoReason
           => TSCallKeyReason(EnvelopeDoc[e], k) = NoReason
  BY <1>1, <1>2 DEF TSEnvelopeReason, DenialReasons, NoReason, selected
<1> QED
  BY <1>3, <1>4

LEMMA FollowInvStep ==
  ASSUME TrustTypeOK, FollowInv, [TrustNext]_trustVars,
         \/ known' = known
         \/ /\ known' = known + 1 /\ known < Len(adopted) /\ UNCHANGED adopted
            /\ TSValidTrustBundle(BundleDoc[adopted[known + 1].bundle])
  PROVE  FollowInv'
<1>1. AdoptedValid'
  BY AdoptedValidStep DEF FollowInv
<1>2. CASE UNCHANGED adopted
  <2>1. known \in Nat /\ Len(adopted) \in Nat
    BY DEF FollowInv, TrustTypeOK
  <2>2. CASE known' = known
    BY <1>1, <1>2, <2>2 DEF FollowInv
  <2>3. CASE /\ known' = known + 1 /\ known < Len(adopted)
             /\ TSValidTrustBundle(BundleDoc[adopted[known + 1].bundle])
    <3>1. \A i \in 1..(known + 1) : i \in 1..known \/ i = known + 1
      BY <2>1
    <3> QED
      BY <1>1, <1>2, <2>1, <2>3, <3>1 DEF FollowInv
  <2> QED
    BY <2>2, <2>3
<1>3. ASSUME NEW b \in Bundles, Bootstrap(b) \/ Rotate(b) PROVE FollowInv'
  <2>1. /\ Len(adopted') = Len(adopted) + 1 /\ Len(adopted) \in Nat
        /\ \A i \in 1..Len(adopted) : adopted'[i] = adopted[i]
    BY <1>3, AdoptExtends DEF Bootstrap, Rotate
  <2>2. UNCHANGED known /\ 1..known \subseteq 1..Len(adopted)
    BY <2>1 DEF FollowInv
  <2> QED
    BY <1>1, <2>1, <2>2 DEF FollowInv
<1> QED
  BY <1>2, <1>3 DEF TrustNext, Tick, trustVars

LEMMA TSStepKeepsInv ==
  ASSUME SurfacesInv, NEW c \in Calls, TSStep(c)
  PROVE  AdmissionInv'
<1>1. TrustTypeOK /\ AdmissionInv /\ FollowInv
  BY DEF SurfacesInv, TrustInv
<1>2. ASSUME NEW e \in Envelopes, NEW k \in IdemKeys \cup {None}, NEW b \in BudgetInputs,
             TSBegin(c, e, k, b)
      PROVE  AdmissionInv'
  <2>1. PICK reason : reason = TSEnvelopeReason(e, KnownBundle, Org, clock, k)
    OBVIOUS
  <2>2. KnownBundle \in Bundles
    <3>1. known \in 1..Len(adopted)
      BY <1>1, <1>2 DEF TSBegin, FollowInv, TrustTypeOK
    <3>2. adopted[known] \in Adoption
      BY <1>1, <3>1 DEF TrustTypeOK
    <3> QED
      BY <3>2 DEF KnownBundle, Adoption
  <2>3. reason \in DenialReasons \cup {NoReason} /\ (reason = NoReason => k = IdemKey(e))
    BY <2>1, <2>2, TSReasonTyped
  <2> QED
    BY <1>1, <1>2, <2>1, <2>3, CheckedKeepsInv DEF TSBegin
<1>3. CASE TSReserve(c)
  BY <1>1, <1>3, ReserveKeepsInv DEF TSReserve, TSReplayRecord, Reserve, StoreReserves,
     ReserveStatus, SameIdem, SameNonce, NewRecord
<1>4. CASE TSReserveRefused(c)
  <2>1. CASE ReserveRefused(c)
    BY <1>1, <2>1, ReserveRefusedKeepsInv
  <2>2. CASE Return(c, TSNoReceipt(input[c]))
    <3>1. ReserveRaises(c)
      BY <1>4, <2>2 DEF TSReserveRefused, TSNoReceipt, ReserveRaises, EnvelopeOf
    <3> QED
      BY <1>1, <3>1, ReserveRaisesKeepsInv
  <2> QED
    BY <1>4, <2>1, <2>2 DEF TSReserveRefused, ReserveRefused
<1> QED
  BY <1>1, <1>2, <1>3, <1>4, DecideKeepsInv DEF TSStep, TSDecide

LEMMA SurfacesInvStep ==
  ASSUME SurfacesInv, [SurfacesNext]_surfacesVars
  PROVE  SurfacesInv'
<1>1. TrustTypeOK /\ TrustInv /\ AdmissionInv /\ FollowInv
  BY DEF SurfacesInv, TrustInv
<1>2. [TrustNext]_trustVars
  BY DEF SurfacesNext, surfacesVars, vars, trustVars, TrustStep, PythonStep, TSStep, Begin,
     Reserve, ReserveRefused, ReserveRaises, TSBegin, TSReserve, TSReserveRefused, TSDecide,
     Decide, DecideMalformed, DecideOver, DecideWithin, SignAndCommit, Commit, Crash, Follow
<1>3. \/ known' = known
      \/ /\ known' = known + 1 /\ known < Len(adopted) /\ UNCHANGED adopted
         /\ TSValidTrustBundle(BundleDoc[adopted[known + 1].bundle])
  <2>1. ASSUME Follow PROVE TSValidTrustBundle(BundleDoc[adopted[known + 1].bundle])
    <3>1. CASE known = 0
      BY <2>1, <3>1 DEF Follow, TSVerifyBootstrapBundle, NoReason
    <3>2. CASE known # 0
      BY <2>1, <3>2 DEF Follow, TSVerifyRotatedBundle, NoReason
    <3> QED
      BY <3>1, <3>2
  <2> QED
    BY <2>1 DEF SurfacesNext, surfacesVars, Follow, vars, trustVars
<1>4. TrustInv' /\ FollowInv'
  BY <1>1, <1>2, <1>3, TrustInvStep, FollowInvStep
<1>5. CASE TrustStep \/ Follow \/ UNCHANGED surfacesVars
  BY <1>1, <1>4, <1>5, UnchangedKeepsInv DEF TrustStep, Follow, vars, surfacesVars, SurfacesInv
<1>6. ASSUME NEW c \in Calls, PythonStep(c) \/ ReserveRaises(c) \/ SignAndCommit(c)
      PROVE  AdmissionInv'
  BY <1>1, <1>6, BeginKeepsInv, ReserveKeepsInv, ReserveRefusedKeepsInv,
     ReserveRaisesKeepsInv, DecideKeepsInv, CommitKeepsInv DEF PythonStep, SignAndCommit
<1>7. ASSUME NEW c \in Calls, TSStep(c) PROVE AdmissionInv'
  BY <1>7, TSStepKeepsInv
<1>8. Crash => AdmissionInv'
  BY <1>1, CrashKeepsInv
<1> QED
  BY <1>4, <1>5, <1>6, <1>7, <1>8, TSCallsAssumption DEF SurfacesNext, SurfacesInv

LEMMA SurfacesAlways == SurfacesSpec => []SurfacesInv
<1>1. SurfacesInit => SurfacesInv
  <2> SUFFICES ASSUME SurfacesInit PROVE SurfacesInv
    OBVIOUS
  <2>1. TrustInv /\ AdmissionInv
    BY TrustInvInit, AdmissionInvInit DEF SurfacesInit, Init
  <2>2. known = 0 /\ adopted = <<>> /\ Len(adopted) = 0
    BY DEF SurfacesInit, Init, TrustInit
  <2> QED
    BY <2>1, <2>2 DEF SurfacesInv, FollowInv, AdoptedValid
<1> QED
  BY <1>1, SurfacesInvStep, PTL DEF SurfacesSpec

(* Python and TypeScript runtimes over one replay store, the second behind *)
(* in rotation by any number of bundles: one outcome for the envelopes of  *)
(* a key, and settled records that carry the receipts of what was decided. *)
THEOREM SurfacesOneOutcome ==
  SurfacesSpec => [](TypeOK /\ OneOutcomePerKey /\ ReceiptMatchesDecision)
<1>1. AdmissionInv => OneOutcomePerKey
  BY DEF AdmissionInv, StoreExclusive, DecidedHeld, OneOutcomePerKey
<1>2. SurfacesInv => TypeOK /\ OneOutcomePerKey /\ ReceiptMatchesDecision
  BY <1>1 DEF SurfacesInv, TrustInv, AdmissionInv, TypeOK
<1> QED
  BY <1>2, SurfacesAlways, PTL

(* The bundle TypeScript stands on is well formed for both surfaces.       *)
LEMMA KnownBundleValid ==
  ASSUME SurfacesInv, known > 0
  PROVE  /\ KnownBundle \in Bundles
         /\ ValidTrustBundle(BundleDoc[KnownBundle])
         /\ TSValidTrustBundle(BundleDoc[KnownBundle])
<1>1. known \in 1..known /\ known \in 1..Len(adopted) /\ adopted \in Seq(Adoption)
  BY DEF SurfacesInv, FollowInv, TrustInv, TrustTypeOK
<1>2. adopted[known] \in Adoption
  BY <1>1
<1> QED
  BY <1>1, <1>2 DEF SurfacesInv, FollowInv, AdoptedValid, KnownBundle, Adoption

(* With one bundle the surfaces judge every envelope and idempotency key   *)
(* alike, for the same reason, at every time, but for the checks of form   *)
(* that one of them makes alone; neither lets an envelope through that is  *)
(* signed under too long a key id.                                         *)
THEOREM SurfacesSameVerdict == SurfacesSpec => []SameAdmissionVerdict
<1>1. ASSUME SurfacesInv PROVE SameAdmissionVerdict
  <2> SUFFICES ASSUME known > 0, NEW e \in Envelopes, NEW k \in IdemKeys \cup {None}
               PROVE  LET doc == EnvelopeDoc[e]
                          python == EnvelopeReason(e, KnownBundle, Org, clock, k)
                          typescript == TSEnvelopeReason(e, KnownBundle, Org, clock, k)
                      IN  /\ \/ python = typescript
                             \/ python = "MALFORMED" /\ OnlyPythonMinds(doc)
                             \/ typescript = "MALFORMED" /\ OnlyTypeScriptMinds(doc)
                          /\ doc.signature.keyId \in LongIds => NoReason \notin {python, typescript}
    BY DEF SameAdmissionVerdict
  <2> DEFINE doc == EnvelopeDoc[e]
             bundle == BundleDoc[KnownBundle]
             python == EnvelopeReason(e, KnownBundle, Org, clock, k)
             typescript == TSEnvelopeReason(e, KnownBundle, Org, clock, k)
  <2>1. KnownBundle \in Bundles /\ ValidTrustBundle(bundle) /\ TSValidTrustBundle(bundle)
    BY <1>1, KnownBundleValid
  <2>2. doc.signature.keyId \in LongIds => python # NoReason
    BY DEF EnvelopeReason, ValidAdmissionEnvelope, WellFormed, NoReason
  <2>3. ASSUME doc.signature.keyId \in LongIds PROVE typescript # NoReason
    <3>1. TSSelectKey(bundle, doc.signature.keyId, "RUNTIME_ADMISSION", clock)
            = "SIGNER_UNKNOWN"
      BY <2>1, <2>3, LongSignerUnknown
    <3> QED
      BY <3>1 DEF TSEnvelopeReason, NoReason
  <2>4. ~ValidAdmissionEnvelope(doc) => python = "MALFORMED"
    BY DEF EnvelopeReason
  <2>5. ~TSValidEnvelope(doc) => typescript = "MALFORMED"
    BY DEF TSEnvelopeReason
  <2>6. ValidAdmissionEnvelope(doc) /\ TSValidEnvelope(doc) => python = typescript
    BY <2>1, SameReason
  <2> HIDE DEF doc, python, typescript
  <2>7. \/ python = typescript
        \/ python = "MALFORMED" /\ OnlyPythonMinds(doc)
        \/ typescript = "MALFORMED" /\ OnlyTypeScriptMinds(doc)
    BY <2>4, <2>5, <2>6, MindsApart DEF doc
  <2>8. doc.signature.keyId \in LongIds => NoReason \notin {python, typescript}
    BY <2>2, <2>3
  <2> QED
    BY <2>7, <2>8 DEF doc, python, typescript
<1> QED
  BY <1>1, SurfacesAlways, PTL

(* And every receipt they are shown, whatever its faults, but for those    *)
(* same checks of form, the tenant of a malformed one and the receiptId.   *)
THEOREM SurfacesSameReceiptVerdict == SurfacesSpec => []SameReceiptVerdict
<1>1. ASSUME SurfacesInv PROVE SameReceiptVerdict
  <2> SUFFICES ASSUME known > 0, NEW r \in Shown \cup Reformed
               PROVE  LET python == VerifyReceipt(r, KnownBundle, Org, clock)
                          typescript == TSVerifyReceipt(r, KnownBundle, Org, clock)
                      IN  /\ \/ python = typescript
                             \/ python = "MALFORMED" /\ (OnlyPythonMinds(r) \/ ~r.named)
                             \/ python = "MALFORMED" /\ typescript = "TENANT_MISMATCH"
                             \/ typescript = "MALFORMED" /\ OnlyTypeScriptMinds(r)
                          /\ r.signature.keyId \in LongIds => NoReason \notin {python, typescript}
    BY DEF SameReceiptVerdict
  <2> DEFINE bundle == BundleDoc[KnownBundle]
             python == VerifyReceipt(r, KnownBundle, Org, clock)
             typescript == TSVerifyReceipt(r, KnownBundle, Org, clock)
             signer == SignerReason(bundle, r.signature, "RUNTIME_RECEIPT", clock)
  <2>1. KnownBundle \in Bundles /\ ValidTrustBundle(bundle) /\ TSValidTrustBundle(bundle)
    BY <1>1, KnownBundleValid
  <2>2. TSSignerReason(bundle, r.signature, "RUNTIME_RECEIPT", clock) = signer
    BY <2>1, SignerAlike
  <2>3. r.signature.keyId \in LongIds => signer = "SIGNER_UNKNOWN"
    BY <2>1, LongSignerUnknown DEF SignerReason, NoReason
  <2>4. r.signature.keyId \in LongIds => NoReason \notin {python, typescript}
    BY <2>2, <2>3 DEF VerifyReceipt, TSVerifyReceipt, ReceiptSignerReason, NoReason
  <2>5. ValidReceipt(r) <=> WellFormed(r) /\ r.named /\ TSValidReceipt(r)
    BY DEF ValidReceipt, TSValidReceipt
  <2>6. ~ValidReceipt(r) => python = "MALFORMED"
    BY DEF VerifyReceipt
  <2>7. ~TSWellFormed(r) => typescript = "MALFORMED"
    BY DEF TSVerifyReceipt
  <2>8. CASE WellFormed(r) /\ ~TSWellFormed(r)
    <3>1. OnlyTypeScriptMinds(r)
      BY <2>8 DEF WellFormed, TSWellFormed, OnlyTypeScriptMinds
    <3> QED
      BY <2>4, <2>7, <2>8, <3>1
  <2>9. CASE ~WellFormed(r)
    <3>1. TSWellFormed(r) => OnlyPythonMinds(r)
      BY <2>9 DEF WellFormed, TSWellFormed, OnlyPythonMinds
    <3> QED
      BY <2>4, <2>5, <2>6, <2>7, <2>9, <3>1
  <2>10. CASE WellFormed(r) /\ TSWellFormed(r)
    <3>1. CASE ValidReceipt(r)
      BY <2>1, <2>2, <2>4, <2>5, <2>10, <3>1 DEF VerifyReceipt, TSVerifyReceipt,
         ReceiptSignerReason, TSExpired
    <3>2. CASE ~ValidReceipt(r)
      <4>1. ~r.named \/ typescript \in {"MALFORMED", "TENANT_MISMATCH"}
        BY <2>5, <2>10, <3>2 DEF TSVerifyReceipt
      <4> QED
        BY <2>4, <2>6, <3>2, <4>1
    <3> QED
      BY <3>1, <3>2
  <2> QED
    BY <2>8, <2>9, <2>10
<1> QED
  BY <1>1, SurfacesAlways, PTL

-----------------------------------------------------------------------------
(* What verifies as a receipt is true.                                     *)

(* Nobody but the runtimes has a receipt key that some bundle lists.       *)
OthersCannotSign ==
  \A b \in Bundles, s \in OtherSignatures, now \in Time :
    \A key \in BundleDoc[b].keys : ~Vouches(key, s, "RUNTIME_RECEIPT", now)

(* What a receipt says was decided.                                        *)
SaysTrue(r) == IF r.decision = "ADMIT" THEN granted[r.envelope] = 1 ELSE refused[r.envelope] = 1

ReceiptFields ==
  {"defects", "fields", "org", "envelope", "decision", "reason", "evidence", "decidedAt",
   "expiresAt", "signature"}

(* The runtimes sign what they decided, as a document of this form.        *)
ReceiptsInv ==
  \A r \in receipts :
    /\ ReceiptFields \subseteq DOMAIN r
    /\ r.envelope \in Envelopes /\ r.decidedAt \in Nat
    /\ SaysTrue(r)

(* Outcomes are never taken back, whichever surface gives them.            *)
LEMMA OutcomesStand ==
  ASSUME SurfacesInv, SurfacesInv', [SurfacesNext]_surfacesVars, NEW e \in Envelopes
  PROVE  /\ granted[e] = 1 => granted'[e] = 1
         /\ refused[e] = 1 => refused'[e] = 1
<1>1. /\ granted \in [Envelopes -> Nat] /\ granted' \in [Envelopes -> Nat]
      /\ refused \in [Envelopes -> Nat] /\ refused' \in [Envelopes -> Nat]
      /\ granted'[e] + refused'[e] <= 1
  BY DEF SurfacesInv, AdmissionInv, AdmissionTypeOK, DecidedHeld
<1>2. /\ granted' = granted \/ \E f : granted' = [granted EXCEPT ![f] = @ + 1]
      /\ refused' = refused \/ \E f : refused' = [refused EXCEPT ![f] = @ + 1]
  BY DEF SurfacesNext, surfacesVars, vars, admissionVars, TrustStep, PythonStep, TSStep, Begin,
     Reserve, ReserveRefused, ReserveRaises, TSBegin, TSReserve, TSReserveRefused, TSDecide,
     Decide, DecideMalformed, DecideOver, DecideWithin, SignAndCommit, Commit, Crash, Follow
<1>3. granted'[e] \in {granted[e], granted[e] + 1} /\ refused'[e] \in {refused[e], refused[e] + 1}
  BY <1>1, <1>2
<1> QED
  BY <1>1, <1>3

LEMMA ReceiptsStep ==
  ASSUME SurfacesInv, SurfacesInv', ReceiptsInv, [SurfacesNext]_surfacesVars
  PROVE  ReceiptsInv'
<1>1. ASSUME NEW r, r \in receipts
      PROVE  /\ ReceiptFields \subseteq DOMAIN r
             /\ r.envelope \in Envelopes /\ r.decidedAt \in Nat
             /\ SaysTrue(r)'
  BY <1>1, OutcomesStand DEF ReceiptsInv, SaysTrue
<1>2. CASE UNCHANGED receipts
  BY <1>1, <1>2 DEF ReceiptsInv
<1>3. ASSUME NEW c \in Calls, NEW named, Commit(c),
             receipts' = receipts \cup {SignedReceipt(c, named)}
      PROVE  ReceiptsInv'
  <2>1. PICK r : r = SignedReceipt(c, named)
    OBVIOUS
  <2>2. phase[c] \in {"fresh", "over"} /\ granted' = granted /\ refused' = refused
    BY <1>3 DEF Commit
  <2>3. EnvelopeOf(c) \in Envelopes /\ input[c].now \in Nat /\ Outcome(c)
    BY <2>2 DEF SurfacesInv, AdmissionInv, InputVerified, HolderExclusive, Holding, InFlight,
       EnvelopeOf, Input, Time
  <2>4. /\ ReceiptFields \subseteq DOMAIN r
        /\ r.envelope = EnvelopeOf(c) /\ r.decidedAt = input[c].now
        /\ r.decision = IF phase[c] = "fresh" THEN "ADMIT" ELSE "DENY"
    BY <2>1 DEF SignedReceipt, ReceiptFields
  <2>5. SaysTrue(r)'
    BY <2>2, <2>3, <2>4 DEF SaysTrue, Outcome
  <2> QED
    BY <1>1, <1>3, <2>1, <2>3, <2>4, <2>5 DEF ReceiptsInv
<1> QED
  BY <1>2, <1>3 DEF SurfacesNext, SignAndCommit, Follow, surfacesVars

LEMMA ReceiptsAlways == SurfacesSpec => [](SurfacesInv /\ ReceiptsInv)
<1>1. SurfacesInit => ReceiptsInv
  BY DEF SurfacesInit, ReceiptsInv
<1>2. SurfacesInv /\ SurfacesInv' /\ ReceiptsInv /\ [SurfacesNext]_surfacesVars => ReceiptsInv'
  BY ReceiptsStep
<1> QED
  BY <1>1, <1>2, SurfacesAlways, PTL DEF SurfacesSpec

(* What verifies on either surface is of this organization, has its fields *)
(* and its lifetime, and is signed by a receipt key of a bundle.           *)
LEMMA VerifiedMeans ==
  ASSUME SurfacesInv, NEW r, Verified(r)
  PROVE  /\ r.fields /\ r.org = Org /\ r.decidedAt < r.expiresAt
         /\ \E b \in Bundles : \E key \in BundleDoc[b].keys :
              Vouches(key, r.signature, "RUNTIME_RECEIPT", clock)
<1>1. CASE VerifyReceipt(r, Trusted, Org, clock) = NoReason
  <2>1. Len(adopted) \in 1..Len(adopted) /\ adopted[Len(adopted)] \in Adoption
    BY DEF Verified, SurfacesInv, TrustInv, TrustTypeOK
  <2>2. Trusted \in Bundles
    BY <2>1 DEF Trusted, Adoption
  <2>3. /\ ValidReceipt(r) /\ r.org = Org
        /\ SignerReason(BundleDoc[Trusted], r.signature, "RUNTIME_RECEIPT", clock) = NoReason
    BY <1>1 DEF VerifyReceipt, ReceiptSignerReason, NoReason
  <2> QED
    BY <2>2, <2>3, SignerAccepted DEF ValidReceipt
<1>2. CASE known > 0 /\ TSVerifyReceipt(r, KnownBundle, Org, clock) = NoReason
  <2>1. KnownBundle \in Bundles
    BY <1>2, KnownBundleValid
  <2>2. /\ TSValidReceipt(r) /\ r.org = Org
        /\ TSSignerReason(BundleDoc[KnownBundle], r.signature, "RUNTIME_RECEIPT", clock)
             = NoReason
    BY <1>2 DEF TSVerifyReceipt, NoReason
  <2>3. SignerReason(BundleDoc[KnownBundle], r.signature, "RUNTIME_RECEIPT", clock) = NoReason
    BY <2>1, <2>2, SignerAlike
  <2> QED
    BY <2>1, <2>2, <2>3, SignerAccepted DEF TSValidReceipt
<1> QED
  BY <1>1, <1>2 DEF Verified

(* No receipt that verifies, on either surface and under whatever bundle   *)
(* that surface has by then, contradicts what was decided, as long as      *)
(* nobody else holds a receipt key.                                        *)
THEOREM ReceiptsTellTheTruth ==
  ASSUME OthersCannotSign, Org # "other"
  PROVE  SurfacesSpec => []VerifiedReceiptsTrue
<1>1. ASSUME SurfacesInv, ReceiptsInv PROVE VerifiedReceiptsTrue
  <2> SUFFICES ASSUME NEW shown \in Shown, Verified(shown) PROVE SaysTrue(shown)
    BY DEF VerifiedReceiptsTrue, SaysTrue
  <2>1. /\ shown.fields /\ shown.org = Org /\ shown.decidedAt < shown.expiresAt
        /\ \E b \in Bundles : \E key \in BundleDoc[b].keys :
             Vouches(key, shown.signature, "RUNTIME_RECEIPT", clock)
    BY <1>1, VerifiedMeans
  <2>2. clock \in Time
    BY <1>1, MaxTimeAssumption DEF SurfacesInv, TrustInv, TrustTypeOK, Time
  <2>3. shown.signature \notin OtherSignatures
    BY <2>1, <2>2 DEF OthersCannotSign
  <2>4. CASE shown \in receipts
    BY <1>1, <2>4 DEF ReceiptsInv
  <2>5. ASSUME NEW r \in receipts,
               \/ \E s \in OtherSignatures : shown = [Turned(r) EXCEPT !.signature = s]
               \/ shown = [r EXCEPT !.fields = FALSE]
               \/ shown = [r EXCEPT !.org = "other", !.evidence = FALSE]
               \/ shown = [r EXCEPT !.expiresAt = r.decidedAt]
        PROVE  FALSE
    <3>1. ReceiptFields \subseteq DOMAIN r
      BY <1>1 DEF ReceiptsInv
    <3>2. ASSUME NEW s \in OtherSignatures, shown = [Turned(r) EXCEPT !.signature = s]
          PROVE  FALSE
      <4>1. "signature" \in DOMAIN Turned(r)
        BY <3>1 DEF Turned, ReceiptFields
      <4> QED
        BY <2>3, <3>2, <4>1
    <3>3. shown # [r EXCEPT !.fields = FALSE]
      BY <2>1, <3>1 DEF ReceiptFields
    <3>4. shown # [r EXCEPT !.org = "other", !.evidence = FALSE]
      BY <2>1, <3>1 DEF ReceiptFields
    <3>5. CASE shown = [r EXCEPT !.expiresAt = r.decidedAt]
      <4>1. /\ shown.expiresAt = r.decidedAt /\ shown.decidedAt = r.decidedAt
            /\ r.decidedAt \in Nat
        BY <1>1, <3>1, <3>5 DEF ReceiptFields, ReceiptsInv
      <4> QED
        BY <2>1, <4>1
    <3> QED
      BY <2>5, <3>2, <3>3, <3>4, <3>5
  <2>6. ASSUME NEW r \in receipts,
               \/ \E d \in Defects : shown = [r EXCEPT !.defects = {d}]
               \/ \E id \in LongIds :
                    shown = [r EXCEPT !.signature = [r.signature EXCEPT !.keyId = id]]
        PROVE  SaysTrue(shown)
    <3>1. ReceiptFields \subseteq DOMAIN r /\ SaysTrue(r)
      BY <1>1 DEF ReceiptsInv
    <3>2. shown.decision = r.decision /\ shown.envelope = r.envelope
      BY <2>6, <3>1 DEF ReceiptFields
    <3> QED
      BY <3>1, <3>2 DEF SaysTrue
  <2>7. ASSUME shown \notin receipts PROVE SaysTrue(shown)
    <3>1. PICK r \in receipts :
            shown \in {[Turned(r) EXCEPT !.signature = s] : s \in OtherSignatures} \cup
                     {[r EXCEPT !.fields = FALSE], [r EXCEPT !.org = "other", !.evidence = FALSE],
                      [r EXCEPT !.expiresAt = r.decidedAt]} \cup
                     {[r EXCEPT !.defects = {d}] : d \in Defects} \cup
                     {[r EXCEPT !.signature = [r.signature EXCEPT !.keyId = id]] : id \in LongIds}
      BY <2>7 DEF Shown
    <3>2. CASE shown \in {[r EXCEPT !.defects = {d}] : d \in Defects}
      BY <2>6, <3>2
    <3>3. CASE shown \in {[r EXCEPT !.signature = [r.signature EXCEPT !.keyId = id]]
                           : id \in LongIds}
      BY <2>6, <3>3
    <3>4. CASE shown \in {[Turned(r) EXCEPT !.signature = s] : s \in OtherSignatures}
      BY <2>5, <3>4
    <3>5. CASE shown \in {[r EXCEPT !.fields = FALSE],
                          [r EXCEPT !.org = "other", !.evidence = FALSE],
                          [r EXCEPT !.expiresAt = r.decidedAt]}
      BY <2>5, <3>5
    <3> QED
      BY <3>1, <3>2, <3>3, <3>4, <3>5
  <2> QED
    BY <2>4, <2>7
<1> QED
  BY <1>1, ReceiptsAlways, PTL

=============================================================================
