SPECIFICATION AuthSpec
CONSTANTS
  h1 = h1
  h2 = h2
  s1 = s1
  t1 = t1
  t2 = t2
  t3 = t3
  Sessions = {s1}
  Tokens = {t1, t2, t3}
  AuthHandlers = {h1, h2}
  None = None
INVARIANTS
  AuthInv
  OneLiveToken
  TokensAreAChain
  AuthAnswersAreTrue
PROPERTIES
  RevokedForGood
  AuthHandlersFinish
