SPECIFICATION PlatformSpec
\* Parts stop where their bounds are reached.
CHECK_DEADLOCK FALSE
CONSTANTS
  w1 = w1
  w2 = w2
  t1 = t1
  t2 = t2
  i1 = i1
  i2 = i2
  k1 = k1
  k2 = k2
  r1 = r1
  r2 = r2
  Investors = {i1, i2}
  Keys = {k1, k2}
  Refs = {r1, r2}
  Amounts = {1, 2}
  Handlers = {w1, w2, t1, t2}
  WalletHandlers = {w1}
  TransferHandlers = {t1, t2}
  Nobody = Nobody
  NoRow = NoRow
  Opening <- OpeningFirst
  WalletInputs <- DepositInputs
  TransferInputs <- DepositTransfers
  e1 = e1
  e2 = e2
  p1 = p1
  p2 = p2
  a1 = a1
  a2 = a2
  Entities = {e1, e2}
  Claimed = {e1}
  Payloads = {p1}
  Appenders = {a1, a2}
  MaxSequence = 3
  Null = Null
  Users = {i1, i2}
  Currencies = {"USD", "NGN"}
  Amount = {0, 1}
  Holdings <- TwoHoldings
  Wallets <- ThreeWallets
  MappingInputs <- RivalMappings
  PageDefault = 2
  PageLimit = 5
  MaxEntries = 5
  b1 = b1
  b2 = b2
  Tabs = {b1, b2}
  Products = {p1, p2}
  Catalogue <- OneActive
  KycApproved = TRUE
  Typed = {0, 1}
  RefsTyped = {r1}
  NoRef = NoRef
  Deposit = 2
  MaxClicks = 2
  Consoles = {b1, b2}
  Entered <- OneOrZero
  Malformed = Malformed
  PanelSize = 1
  ConsoleSize = 1
  MaxAsked = 2
  g1 = g1
  g2 = g2
  z1 = z1
  z2 = z2
  root = root
  Root = Root
  demo = demo
  weak = weak
  strong = strong
  seeded = seeded
  Emails = {root, demo}
  Spelled = {root, Root, demo}
  Lowered <- SpelledTwice
  Passwords = {weak, strong, seeded}
  StrongEnough = {strong, seeded}
  Registrations <- WeakOrStrong
  SeedPassword = seeded
  SeedUsers <- TwoSeeded
  SeedKyc <- OneKyc
  SeedAccounts <- OneAccount
  Registrars = {g1, g2}
  Seeders = {z1, z2}
  WebBrowsers = {b1}
  ClientBrowsers = {b1}
  NoUser = NoUser
  MaxRuns = 2
  MaxSessions = 2
SYMMETRY AnyCallOrRun
INVARIANTS
  PaymentsHold
  TransferIsItsEntry
  TransferAnswersAreTrue
  CashMatchesDeposits
  AuditHolds
  StatementsHold
  ClientHolds
  DeskHolds
  OnboardHolds
PROPERTIES
  PaymentsKeepPromise
