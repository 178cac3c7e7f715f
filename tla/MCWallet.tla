------------------------------ MODULE MCWallet ------------------------------
(***************************************************************************)
(* Small instances of Wallet for TLC.                                      *)
(***************************************************************************)
EXTENDS Wallet

CONSTANTS h1, h2, h3, i1, k1, k2, r1, r2

OpeningOne == [i \in Investors |-> 1]

Ask(t, k, r) == [key |-> k, user |-> i1, type |-> t, amount |-> 1, ref |-> r]

\* Keys and references that agree or clash in every way.  The two withdrawals
\* that can both be filed overdraw the opening balance together, and a deposit
\* covers another one.
RequestInputs ==
  {Ask("WITHDRAWAL", k1, r1), Ask("WITHDRAWAL", k1, r2),
   Ask("WITHDRAWAL", k2, r1), Ask("DEPOSIT", k2, r2)}

=============================================================================
