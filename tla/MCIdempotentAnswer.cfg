SPECIFICATION LedgerSpec
CONSTANTS
  c1 = c1
  c2 = c2
  c3 = c3
  k1 = k1
  k2 = k2
  k3 = k3
  e1 = e1
  e2 = e2
  e3 = e3
  e4 = e4
  e5 = e5
  e6 = e6
  e7 = e7
  Callers = {c1, c2}
  EntryIds = {e1, e2, e3, e4, e5, e6, e7}
  KeySet = {k1, k2, k3}
  Nil = Nil
  AccountCodes = {"acct_1100", "acct_2100"}
  PostCommands <- GuardedK1
  GuardCommands <- GuardedK1
INVARIANT GuardedIsPersisted
