----------------------------- MODULE BillingLedger -----------------------------
(***************************************************************************)
(* What a billing session promises its user, without saying how: the       *)
(* account of a request is opened, amounts are held and released on its    *)
(* funding source and on its token while it is open, and it is closed      *)
(* exactly once, either at its price on both, or at nothing on both.  A    *)
(* failed database write or a crash may leave the account abandoned.       *)
(***************************************************************************)
EXTENDS Integers

CONSTANTS
    Requests,    \* accounts
    TokenFree    \* accounts that are not charged to a token

VARIABLES
    outcome,     \* "open", "charged", "free" or "abandoned"
    price,       \* the price the account was closed at
    held         \* what the account holds of its source and of its token

ledger == <<outcome, price, held>>

Nothing    == [funding |-> 0, token |-> 0]
Charge(r, p) == [funding |-> p, token |-> IF r \in TokenFree THEN 0 ELSE p]
Holdings   == [funding : Int, token : Int]

Init ==
    /\ outcome = [r \in Requests |-> "open"]
    /\ price = [r \in Requests |-> 0]
    /\ held = [r \in Requests |-> Nothing]

\* Hold or release while the account is open; other accounts are not touched.
Adjust(r) ==
    /\ outcome[r] = "open"
    /\ held'[r] \in Holdings
    /\ price'[r] \in Nat
    /\ held' = [held EXCEPT ![r] = held'[r]]
    /\ price' = [price EXCEPT ![r] = price'[r]]
    /\ UNCHANGED outcome

Close(r) ==
    /\ outcome[r] = "open"
    /\ price'[r] \in Nat
    /\ price' = [price EXCEPT ![r] = price'[r]]
    /\ \/ /\ outcome' = [outcome EXCEPT ![r] = "charged"]
          /\ held' = [held EXCEPT ![r] = Charge(r, price'[r])]
       \/ /\ outcome' = [outcome EXCEPT ![r] = "free"]
          /\ held' = [held EXCEPT ![r] = Nothing]

Abandon(r) ==
    /\ outcome[r] = "open"
    /\ outcome' = [outcome EXCEPT ![r] = "abandoned"]
    /\ price'[r] \in Nat
    /\ price' = [price EXCEPT ![r] = price'[r]]
    /\ held'[r] \in Holdings
    /\ held' = [held EXCEPT ![r] = held'[r]]

Next == \E r \in Requests : Adjust(r) \/ Close(r) \/ Abandon(r)

Spec == Init /\ [][Next]_ledger
=============================================================================
