--------------------------- MODULE AdmissionLedger ---------------------------
(***************************************************************************)
(* What admission promises, without calls, trust, clocks or receipts: the  *)
(* keys of a request are spent once, and a request whose keys are spent is *)
(* granted or refused at most once, and never by spending keys that        *)
(* another request holds.                                                  *)
(***************************************************************************)
EXTENDS Naturals

CONSTANTS
  Items,           \* what may be admitted
  Clash(_, _)      \* whether two items share a key

VARIABLES
  spent,           \* items whose keys have been consumed
  grants,          \* number of times each item was granted
  refusals         \* number of times each item was refused

ledgerVars == <<spent, grants, refusals>>

LedgerInit ==
  /\ spent = {}
  /\ grants = [x \in Items |-> 0]
  /\ refusals = [x \in Items |-> 0]

Undecided(x) == grants[x] = 0 /\ refusals[x] = 0

Spend(x) ==
  /\ \A y \in spent : ~Clash(x, y)
  /\ spent' = spent \cup {x}
  /\ UNCHANGED <<grants, refusals>>

Grant(x) ==
  /\ x \in spent /\ Undecided(x)
  /\ grants' = [grants EXCEPT ![x] = 1]
  /\ UNCHANGED <<spent, refusals>>

Refuse(x) ==
  /\ x \in spent /\ Undecided(x)
  /\ refusals' = [refusals EXCEPT ![x] = 1]
  /\ UNCHANGED <<spent, grants>>

LedgerNext == \E x \in Items : Spend(x) \/ Grant(x) \/ Refuse(x)

LedgerSpec == LedgerInit /\ [][LedgerNext]_ledgerVars
=============================================================================
