----------------------------- MODULE MCPayments -----------------------------
(***************************************************************************)
(* Small instances of Payments for TLC.                                    *)
(***************************************************************************)
EXTENDS Payments

CONSTANTS w1, w2, t1, t2, i1, i2, k1, k2, r1, r2

OpeningFirst == [i \in Investors |-> IF i = i1 THEN 2 ELSE 0]

WalletInput(k, t, a, r) == [key |-> k, user |-> i1, type |-> t, amount |-> a, ref |-> r]
Send(k, s, d, a, r) == [key |-> k, src |-> s, dst |-> d, amount |-> a, ref |-> r]

\* A withdrawal and a transfer that each take the opening balance, or a
\* transfer that leaves half of it.
SpendInputs == {WalletInput(k1, "WITHDRAWAL", 2, r1)}
SpendTransfers == {Send(k2, i1, i2, 2, r2), Send(k2, i1, i2, 1, r2)}

\* A deposit, and transfers that race for the balance before and after it:
\* one under the deposit's own key and reference, one to its own source, one
\* back that shares the reference.
DepositInputs == {WalletInput(k1, "DEPOSIT", 1, r1)}
DepositTransfers == {Send(k2, i1, i2, 1, r2), Send(k1, i1, i2, 2, r1),
                     Send(k2, i1, i1, 1, r2), Send(k2, i2, i1, 2, r1)}

=============================================================================
