SPECIFICATION InvestSpec
CONSTANTS
  h1 = h1
  h2 = h2
  i1 = i1
  i2 = i2
  k1 = k1
  k2 = k2
  r1 = r1
  r2 = r2
  Investors = {i1, i2}
  Keys = {k1, k2}
  Refs = {r1, r2}
  Amounts = {1, 2}
  Handlers = {h1, h2}
  InvestHandlers = {h1, h2}
  Nobody = Nobody
  NoRow = NoRow
  Opening <- OpeningTwo
  InvestInputs <- SubscriptionInputs
PROPERTIES
  RedeemedIsTerminal
