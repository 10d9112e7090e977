-------------------------- MODULE BillingPromise --------------------------
(***************************************************************************)
(* What billing promises the holder of an account, per account and         *)
(* currency: usage accumulates, and Wallet is debited in whole Wallet      *)
(* units and never for more than the usage so far.                         *)
(***************************************************************************)
EXTENDS Integers

CONSTANTS Keys, Cent

VARIABLES
    used,       \* used[k] is the price of the usage so far
    charged     \* charged[k] is what Wallet has debited so far

Init ==
    /\ used = [k \in Keys |-> 0]
    /\ charged = [k \in Keys |-> 0]

Use(k) ==
    /\ used'[k] > used[k]
    /\ used' = [used EXCEPT ![k] = used'[k]]
    /\ UNCHANGED charged

Charge(k) ==
    /\ charged'[k] > charged[k]
    /\ (charged'[k] - charged[k]) % Cent = 0
    /\ charged'[k] <= used[k]
    /\ charged' = [charged EXCEPT ![k] = charged'[k]]
    /\ UNCHANGED used

Next == \E k \in Keys : Use(k) \/ Charge(k)

Spec == Init /\ [][Next]_<<used, charged>>
=============================================================================
