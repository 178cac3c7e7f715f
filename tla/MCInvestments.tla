--------------------------- MODULE MCInvestments ---------------------------
(***************************************************************************)
(* Small instances of Investments for TLC.                                 *)
(***************************************************************************)
EXTENDS Investments

CONSTANTS h1, h2, i1, i2, k1, k2, r1, r2

OpeningTwo == [i \in Investors |-> IF i = i1 THEN 2 ELSE 1]

Subscribe(k, i, a, r) == [key |-> k, user |-> i, amount |-> a, ref |-> r]

\* Two subscriptions of one investor, which its balance covers one at a time
\* or together; the second key may instead be another investor's, whose
\* redemptions may clash with the first's.
SubscriptionInputs ==
  {Subscribe(k1, i1, 1, r1), Subscribe(k2, i1, 2, r2), Subscribe(k2, i2, 1, r2)}

=============================================================================
