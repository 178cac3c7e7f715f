SPECIFICATION BankSpec
CONSTANTS
  w1 = w1
  t1 = t1
  n1 = n1
  n2 = n2
  i1 = i1
  i2 = i2
  k1 = k1
  k2 = k2
  r1 = r1
  r2 = r2
  Investors = {i1, i2}
  Keys = {k1, k2}
  Refs = {r1, r2}
  Amounts = {1}
  Handlers = {w1, t1, n1, n2}
  WalletHandlers = {w1}
  TransferHandlers = {t1}
  InvestHandlers = {n1}
  Nobody = Nobody
  NoRow = NoRow
  Opening <- OpeningFirst
  WalletInputs <- BankAsks
  TransferInputs <- BankTransfers
  InvestInputs <- BankSubscriptions
INVARIANTS
  NoOverdraft
