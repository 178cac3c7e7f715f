---------------------------- MODULE MCLedgerCore ----------------------------
(***************************************************************************)
(* A small instance of LedgerCore for TLC.                                 *)
(***************************************************************************)
EXTENDS LedgerCore, TLC

CONSTANTS c1, c2, c3, k1, k2, k3, e1, e2, e3, e4, e5, e6, e7

Line(account, direction, amount) ==
  [account |-> account, direction |-> direction, amount |-> amount]
Deposit == <<Line("acct_1100", "DEBIT", 1), Line("acct_2100", "CREDIT", 1)>>
Lopsided == <<Line("acct_1100", "DEBIT", 1), Line("acct_2100", "CREDIT", 2)>>
CommandsFor(key) == {[key |-> key, lines |-> Deposit], [key |-> key, lines |-> Lopsided]}

\* Every key may be a reversal's as well, and k3 is nothing else, so that an
\* entry can be reversed under two keys.
PostedK2 == CommandsFor(k2)
GuardedK1 == CommandsFor(k1)

\* Callers differ in nothing.
AnyCaller == Permutations(Callers)

=============================================================================
