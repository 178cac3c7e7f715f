SPECIFICATION PaymentsSpec
CONSTANTS
  w1 = w1
  w2 = w2
  t1 = t1
  t2 = t2
  i1 = i1
  i2 = i2
  k1 = k1
  k2 = k2
  r1 = r1
  r2 = r2
  Investors = {i1, i2}
  Keys = {k1, k2}
  Refs = {r1, r2}
  Amounts = {1, 2}
  Handlers = {w1, w2, t1, t2}
  WalletHandlers = {w1, w2}
  TransferHandlers = {t1}
  Nobody = Nobody
  NoRow = NoRow
  Opening <- OpeningFirst
  WalletInputs <- SpendInputs
  TransferInputs <- SpendTransfers
INVARIANTS
  PaymentsInv
PROPERTIES
  KeepsPromise
  PaymentHandlersFinish
