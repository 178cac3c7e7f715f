----------------------------- MODULE Statements -----------------------------
(***************************************************************************)
(* What the ledger says of itself: the chart of accounts, the balances     *)
(* BalanceService derives from the journal, the balance, statement and     *)
(* portfolio an investor is shown, and the mapping that names the account  *)
(* he is shown.  Entries are whole: how the services come to post them is  *)
(* the subject of Wallet, Transfers and Investments.  Currencies, which    *)
(* those modules keep apart, live in one journal here.                     *)
(***************************************************************************)
EXTENDS Integers, Sequences, FiniteSets, Functions

CONSTANTS
  Users,         \* investors
  Currencies,    \* three upper-case letters, as normalizeCurrency leaves them
  Amount,        \* amounts callers pass to the services
  Holdings,      \* subscriptions, with their investor, currency and amount
  Wallets,       \* (user, currency) pairs somebody pays money into
  MappingInputs, \* what operators provision: user, currency, account
  PageDefault,   \* 20 in the code: the statement's default length
  PageLimit,     \* 100 in the code: its greatest length
  MaxEntries     \* bound: entries in the journal

ASSUME StatementConstants ==
  /\ PageLimit \in Nat /\ PageDefault \in 1..PageLimit
  /\ MaxEntries \in Nat
  /\ IsFiniteSet(Users) /\ IsFiniteSet(Currencies) /\ "" \notin Currencies
  /\ Amount \subseteq Int
  /\ Wallets \subseteq Users \X Currencies
  /\ MappingInputs \subseteq [user: Users, currency: Currencies, account: STRING]

\* Subscriptions are rows, so their ids are their own.
ASSUME HoldingConstants ==
  /\ IsFiniteSet(Holdings)
  /\ \A h \in Holdings :
       h.user \in Users /\ h.currency \in Currencies /\ h.amount \in Nat \ {0} /\ h.id # ""
  /\ \A g, h \in Holdings : g.id = h.id => g = h

VARIABLES
  posted,   \* POSTED JournalEntry rows, in the order of postedAt
  mapping   \* active UserLedgerAccount rows

statementVars == <<posted, mapping>>

StatementsInit == posted = <<>> /\ mapping = {}

-----------------------------------------------------------------------------

\* The canonical chart, by type.
Chart ==
  [ASSET     |-> {"acct_1000", "acct_1100", "acct_1200"},
   LIABILITY |-> {"acct_2000", "acct_2100", "acct_2200"},
   EQUITY    |-> {"acct_3000"},
   REVENUE   |-> {"acct_4000"},
   EXPENSE   |-> {"acct_5000"}]
ChartAccounts == UNION {Chart[t] : t \in DOMAIN Chart}

\* An account that is not in the chart counts its debits.
NormalBalance(account) ==
  IF account \in Chart["LIABILITY"] \cup Chart["EQUITY"] \cup Chart["REVENUE"]
  THEN "CREDIT" ELSE "DEBIT"

\* koboFromBigInt and koboFromNumber: amounts are positive integers.
IsKobo(amount) == amount > 0

Line(account, direction, user, amount, holding) ==
  [account |-> account, direction |-> direction, investor |-> user,
   amount |-> amount, holding |-> holding]

Entry(currency, amount, debit, debited, credit, credited, holding) ==
  [currency |-> currency,
   lines |-> <<Line(debit, "DEBIT", debited, amount, holding),
               Line(credit, "CREDIT", credited, amount, holding)>>]

-----------------------------------------------------------------------------
(***************************************************************************)
(* Balances, derived from the posted entries on demand.                    *)
(***************************************************************************)

\* A journal line is a position: of its entry, and of the line in it.
Lines(entries) == UNION {{n} \X (DOMAIN entries[n].lines) : n \in DOMAIN entries}
At(entries, p) == entries[p[1]].lines[p[2]]

\* Lines on the account's normal side count for it, the others against it.
Signed(account, l) ==
  IF l.direction = NormalBalance(account) THEN l.amount ELSE 0 - l.amount

Net(account, entries, lines) ==
  SumFunctionOnSet([p \in lines |-> Signed(account, At(entries, p))], lines)

LinesIn(account, entries) == {p \in Lines(entries) : At(entries, p).account = account}

\* getAccountBalance: of every investor, and of every currency at once.
AccountBalance(account, entries) == Net(account, entries, LinesIn(account, entries))

\* The lines that carry the investor's id, in entries of the currency.
LinesOf(account, user, currency, entries) ==
  {p \in LinesIn(account, entries) : /\ entries[p[1]].currency = currency
                                    /\ At(entries, p).investor = user}

InvestorBalance(account, user, currency, entries) ==
  Net(account, entries, LinesOf(account, user, currency, entries))

\* getAllBalances: of the accounts that occur.
AllBalances(entries) ==
  [a \in {At(entries, p).account : p \in Lines(entries)} |-> AccountBalance(a, entries)]

-----------------------------------------------------------------------------
(***************************************************************************)
(* What an investor is shown.                                              *)
(***************************************************************************)

Refusal(why) == [ok |-> FALSE, why |-> why]
Shown(value) == [ok |-> TRUE, value |-> value]

MappingOf(user, currency) ==
  {m \in mapping : m.user = user /\ m.currency = currency}

\* The account a query is about; the unique index leaves one at most.
MappedAccount(user, currency) ==
  IF currency \notin Currencies THEN Refusal("INVALID_CURRENCY")
  ELSE IF MappingOf(user, currency) = {} THEN Refusal("LEDGER_ACCOUNT_NOT_FOUND")
  ELSE Shown((CHOOSE m \in MappingOf(user, currency) : TRUE).account)

MyBalance(user, currency) ==
  LET mapped == MappedAccount(user, currency)
  IN IF ~mapped.ok THEN mapped
     ELSE Shown(InvestorBalance(mapped.value, user, currency, posted))

\* Math.trunc(limit) || 20, between 1 and 100.
SafeLimit(limit) ==
  IF limit = 0 THEN PageDefault
  ELSE IF limit < 1 THEN 1 ELSE IF limit > PageLimit THEN PageLimit ELSE limit

\* The k-th newest of some entries, by their place in the journal: postedAt
\* without ties.  And the first line of an entry among some.
NthNewest(entries, k) ==
  CHOOSE n \in entries : Cardinality({m \in entries : m >= n}) = k
FirstLine(lines, n) ==
  CHOOSE p \in lines : p[1] = n /\ \A q \in lines : q[1] = n => p[2] <= q[2]

\* getMyTransactions: newest first, each entry by its first matching line.
MyTransactions(user, currency, limit) ==
  LET mapped == MappedAccount(user, currency)
      lines == LinesOf(mapped.value, user, currency, posted)
      mine == {p[1] : p \in lines}
      n == Cardinality(mine)
      size == IF SafeLimit(limit) < n THEN SafeLimit(limit) ELSE n
  IN IF ~mapped.ok THEN mapped
     ELSE Shown([k \in 1..size |-> At(posted, FirstLine(lines, NthNewest(mine, k)))])

\* The lines of acct_2200 that carry the subscription.
LinesFor(user, holding) ==
  {p \in LinesOf("acct_2200", user, holding.currency, posted) :
     At(posted, p).holding = holding.id}

\* Mutant: a redemption's line adds to the position.
PositionGross(user, holding) ==
  SumFunctionOnSet([p \in LinesFor(user, holding) |-> At(posted, p).amount],
                   LinesFor(user, holding))

\* getMyPositions.
PositionIn(user, holding) == Net("acct_2200", posted, LinesFor(user, holding))

\* The subscriptions of the caller in the currency, if positive.
MyPositions(user, currency) ==
  {h \in Holdings : /\ h.user = user /\ h.currency = currency
                    /\ PositionIn(user, h) > 0}

\* The portfolio page asks for USD only.
Portfolio(user, usd) ==
  {[holding |-> h, amount |-> PositionIn(user, h)] : h \in MyPositions(user, usd)}

-----------------------------------------------------------------------------
(***************************************************************************)
(* Postings and provisioning.                                              *)
(***************************************************************************)

PostEntry(entry) ==
  /\ Len(posted) < MaxEntries
  /\ posted' = Append(posted, entry)
  /\ UNCHANGED mapping

\* The balance a service checked, perhaps some postings ago (run BankOverdraft).
SeenToCover(account, user, currency, amount) ==
  \E n \in 0..Len(posted) :
    InvestorBalance(account, user, currency, SubSeq(posted, 1, n)) >= amount

PostDeposit ==
  \E w \in Wallets, a \in Amount :
    /\ IsKobo(a)
    /\ PostEntry(Entry(w[2], a, "acct_1100", w[1], "acct_2100", w[1], ""))

PostWithdrawal ==
  \E w \in Wallets, a \in Amount :
    /\ IsKobo(a) /\ SeenToCover("acct_2100", w[1], w[2], a)
    /\ PostEntry(Entry(w[2], a, "acct_2100", w[1], "acct_1100", w[1], ""))

PostTransfer ==
  \E from, to \in Wallets, a \in Amount :
    /\ from[1] # to[1] /\ from[2] = to[2]
    /\ IsKobo(a) /\ SeenToCover("acct_2100", from[1], from[2], a)
    /\ PostEntry(Entry(from[2], a, "acct_2100", from[1], "acct_2100", to[1], ""))

Holds(entry, direction, h) ==
  \E i \in DOMAIN entry.lines :
    LET l == entry.lines[i] IN
    l.account = "acct_2200" /\ l.direction = direction /\ l.holding = h.id
Times(direction, h) ==
  Cardinality({n \in DOMAIN posted : Holds(posted[n], direction, h)})

\* A subscription is funded once (Investments.FundedOnce).
PostFunding ==
  \E h \in Holdings :
    /\ Times("CREDIT", h) = 0
    /\ SeenToCover("acct_2100", h.user, h.currency, h.amount)
    /\ PostEntry(Entry(h.currency, h.amount,
                       "acct_2100", h.user, "acct_2200", h.user, h.id))

\* ... but may be redeemed more than once, while acct_2200 covers it (run
\* RedeemTwice).
PostRedemption ==
  \E h \in Holdings :
    /\ Times("CREDIT", h) > 0
    /\ InvestorBalance("acct_2200", h.user, h.currency, posted) >= h.amount
    /\ PostEntry(Entry(h.currency, h.amount,
                       "acct_2200", h.user, "acct_2100", h.user, h.id))

\* provision: the operator, the investor and the account pass their checks,
\* which nothing in the program can change; the insert meets the unique index
\* on active (user, currency), and a P2002 changes nothing.
Provision ==
  \E m \in MappingInputs :
    /\ MappingOf(m.user, m.currency) = {}
    /\ mapping' = mapping \cup {m}
    /\ UNCHANGED posted

StatementsNext ==
  \/ PostDeposit \/ PostWithdrawal \/ PostTransfer
  \/ PostFunding \/ PostRedemption \/ Provision

StatementsSpec == StatementsInit /\ [][StatementsNext]_statementVars

-----------------------------------------------------------------------------

\* The general ledger and the investors' own ledgers agree, account by
\* account, and the accounts with a normal debit balance carry in total what
\* those with a normal credit balance do.
LedgersAgree ==
  LET all == AllBalances(posted)
      side(d) == {a \in DOMAIN all : NormalBalance(a) = d}
  IN /\ \A a \in DOMAIN all :
          all[a] = SumFunction([uc \in Users \X Currencies |->
                                  InvestorBalance(a, uc[1], uc[2], posted)])
     /\ SumFunctionOnSet(all, side("DEBIT")) = SumFunctionOnSet(all, side("CREDIT"))

\* A statement long enough adds up to the balance shown beside it, whichever
\* account was mapped, and a shorter one is its newest part.
StatementsMatchBalances ==
  \A m \in mapping :
    LET full == MyTransactions(m.user, m.currency, PageLimit).value IN
    /\ Len(full) < PageLimit =>
         MyBalance(m.user, m.currency).value =
           SumFunction([k \in DOMAIN full |-> Signed(m.account, full[k])])
    /\ \A limit \in -1..PageLimit :
         LET page == MyTransactions(m.user, m.currency, limit).value
         IN page = SubSeq(full, 1, Len(page))

\* A position is shown for exactly the subscriptions that are funded and not
\* redeemed, at their own amount; together they are the investor's acct_2200
\* balance unless a subscription was redeemed twice, and then they exceed it.
PortfoliosAreTrue ==
  \A u \in Users, c \in Currencies :
    LET own == {h \in Holdings : h.user = u /\ h.currency = c}
        total == SumFunction([h \in MyPositions(u, c) |-> PositionIn(u, h)])
        owed == InvestorBalance("acct_2200", u, c, posted)
        twice == \E h \in own : Times("DEBIT", h) > 1
    IN /\ MyPositions(u, c) =
            {h \in own : Times("CREDIT", h) = 1 /\ Times("DEBIT", h) = 0}
       /\ \A p \in Portfolio(u, c) : p.amount = p.holding.amount
       /\ IF twice THEN total > owed ELSE total = owed

\* No balance or statement depends on which of two mappings a query met: the
\* reads take the oldest active one (ledger.service.ts:31), and of racing
\* operators only one maps an investor's currency.
NothingIsGuessed ==
  \A m, n \in mapping : m.user = n.user /\ m.currency = n.currency => m = n

\* Whatever was posted in whatever order, the views of the journal agree with
\* each other.
StatementsAddUp ==
  LedgersAgree /\ StatementsMatchBalances /\ PortfoliosAreTrue /\ NothingIsGuessed

=============================================================================
