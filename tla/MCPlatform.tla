----------------------------- MODULE MCPlatform -----------------------------
(***************************************************************************)
(* A small instance of Platform for TLC.  Payments has its instance from   *)
(* MCPayments: a deposit and the transfers that race it.                   *)
(***************************************************************************)
EXTENDS Platform, MCPayments, TLC

CONSTANTS e1, e2, p1, p2, a1, a2, b1, b2, g1, g2, z1, z2,
          root, Root, demo, weak, strong, seeded

\* Two subscriptions of one investor in one currency.
TwoHoldings ==
  {[id |-> "a", user |-> i1, currency |-> "USD", amount |-> 1],
   [id |-> "b", user |-> i1, currency |-> "USD", amount |-> 1]}
ThreeWallets == {<<i1, "USD">>, <<i2, "USD">>, <<i1, "NGN">>}

\* Two operators who map one investor's currency to different accounts.
RivalMappings ==
  {[user |-> i1, currency |-> "USD", account |-> "acct_2100"],
   [user |-> i1, currency |-> "USD", account |-> "acct_1100"]}

OneActive == [p \in Products |-> [active |-> p = p1, minimum |-> 1]]

OneOrZero == {[major |-> 1, minor |-> 0], [major |-> 0, minor |-> 0]}

SpelledTwice == [typed \in Spelled |-> IF typed = Root THEN root ELSE typed]
\* Of the address that the seed wants for its administrator.
WeakOrStrong == {[typed |-> Root, password |-> p] : p \in {weak, strong}}
TwoSeeded == <<[email |-> root, role |-> "SUPER_ADMIN"],
               [email |-> demo, role |-> "INVESTOR"]>>
OneKyc == <<[email |-> demo, status |-> "PENDING"]>>
OneAccount == <<"1000">>

\* Registrations differ in what is typed only, and so do runs of the seed.
AnyCallOrRun == Permutations(Registrars) \cup Permutations(Seeders)

=============================================================================
