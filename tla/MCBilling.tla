---------------------------- MODULE MCBilling ----------------------------
(* Small instances of Billing for TLC.                                      *)
EXTENDS Billing, TLC

CONSTANTS a1, a2, golds, points, r1, r2, r3, m1, m2

\* One account, everything in the default currency.
OneOwner    == [r \in Runs |-> a1]
AllGolds    == [r \in Runs |-> golds]

\* Two accounts: r1 belongs to a1, every other run to a2.
TwoOwners   == [r \in Runs |-> IF r = r1 THEN a1 ELSE a2]

\* Two currencies: r1 runs a model priced in points.
MixedModels == [r \in Runs |-> IF r = r1 THEN points ELSE golds]

WallOf3     == [a \in Accounts |-> 3]
WallsOff    == [a \in Accounts |-> NoWall]
=============================================================================
