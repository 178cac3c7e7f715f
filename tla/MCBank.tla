------------------------------- MODULE MCBank -------------------------------
(***************************************************************************)
(* Small instances of Bank for TLC.                                        *)
(***************************************************************************)
EXTENDS Bank

CONSTANTS w1, t1, n1, n2, i1, i2, k1, k2, r1, r2

OpeningFirst == [i \in Investors |-> IF i = i1 THEN 1 ELSE 0]

BankAsks == {[key |-> k1, user |-> i1, type |-> "WITHDRAWAL", amount |-> 1, ref |-> r1]}
BankTransfers == {[key |-> k2, src |-> i1, dst |-> i2, amount |-> 1, ref |-> r2]}
\* The subscription has the transfer's reference.
BankSubscriptions == {[key |-> k2, user |-> i1, amount |-> 1, ref |-> r2]}

=============================================================================
