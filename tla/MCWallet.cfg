SPECIFICATION WalletSpec
CONSTANTS
  h1 = h1
  h2 = h2
  h3 = h3
  i1 = i1
  k1 = k1
  k2 = k2
  r1 = r1
  r2 = r2
  Investors = {i1}
  Keys = {k1, k2}
  Refs = {r1, r2}
  Amounts = {1, 2}
  Handlers = {h1, h2, h3}
  WalletHandlers = {h1, h2, h3}
  Nobody = Nobody
  NoRow = NoRow
  Opening <- OpeningOne
  WalletInputs <- RequestInputs
INVARIANTS
  AnswersAreTheRequest
  IdenticalCallsShareARow
  OnlyConflictsAreRefused
  NoOverdraft
  OneVerdict
PROPERTIES
  VerdictIsFinal
