# Formal models of the Fortress Fund banking core

TLA+ specifications of the parts of this repository that hold and move money and
of what surrounds them (sessions, registration, the audit trail, statements and
the pages people work with), the TLC configurations that check them on small
instances, and TLAPS proofs of the most important results for every value of the
constants. Paths below are relative to the repository root (`src/` in
`PROJECT.json`). `PROJECT.json` maps every definition to the lines it models.

## 1. The system

A NestJS API (`apps/api`) over one PostgreSQL database, reached through Prisma.
It is stateless: every HTTP request runs as an independent chain of database
round trips, and several API processes may run side by side. All coordination
is in the database: unique indexes, row locks of `UPDATE`, and
`pg_advisory_xact_lock`. Transactions run at READ COMMITTED, PostgreSQL's
default, which nothing in the code changes.

### 1.1 Components

| Component | State | Operations that change it | Modelled in |
|---|---|---|---|
| Wallet (`wallet.service.ts`) | `Transaction` rows DEPOSIT / WITHDRAWAL: PENDING, PROCESSING, COMPLETED, CANCELLED | createRequest, confirmRequest, rejectRequest | `Wallet` |
| Transfers (`transfers.service.ts`) | `Transfer` and `Transaction` rows | createTransfer | `Transfers` |
| Investment subscriptions (`investment-subscription.service.ts`) | `InvestmentSubscription`: PENDING, COMPLETED, REDEEMED | create, fund, redeem | `Investments` |
| Ledger persistence (`prisma-ledger.repository.ts`) | `JournalEntry`, `JournalLine`, append-only by triggers | saveEntry, saveReversal | `LedgerStore` (saveEntry) |
| Schema, locks (`schema.prisma`, migrations) | unique indexes, immutability guards, advisory locks | - | `LedgerStore` |
| Audit (`prisma-audit.repository.ts`, `packages/audit-core`) | `AuditEvent`: sequence and hash chain; an in-memory store | appendInTransaction, AuditStore.append | `AuditChain`; `Wallet` (which events a verdict appends) |
| ledger-core: posting, idempotency, reversal (`packages/ledger-core`) | `KeyedMutex`, two maps of entries | post, withIdempotency, reverse | `LedgerCore` |
| ledger-core: money, accounts, balances | none | pure functions | `Statements` (operators) |
| Account mapping and queries (`apps/api/src/ledger`) | `UserLedgerAccount` | provision | `Statements` |
| Portfolio (`investment-portfolio.service.ts`) | none | a query over the journal | `Statements` |
| Products and eligibility | `FinancialProduct` | none at run time | `ClientApp` (the list of active products, the eligibility decision) |
| Sessions (`auth.service.ts`) | `Session`, `RefreshToken` | login, refresh, logout, revokeSession | `AuthSessions` |
| Registration, seed (`auth.service.ts`, `prisma/seed.ts`) | `User`, KYC records, chart of accounts, the seed's log | register; every statement of the seed | `Onboarding` |
| Client front end (`apps/client`) | a cookie; the state of each form | submit an investment, redeem, log in and out | `ClientApp`, `Statements`, `Onboarding` |
| Web front end (`apps/web`) | two cookies; the wallet panel | request a deposit or withdrawal, register, log in and out | `WalletDesk`, `Statements`, `Onboarding` |
| Admin front end (`apps/admin`) | the list a console was loaded with | confirm a request | `WalletDesk` |
| Investor profile, documents, health, document-core, shared packages | none, or files | none | not modelled |

### 1.2 How they interact

* Wallet, transfers and investments share the account `acct_2100` (customer
  deposits). Its balance is no column but the sum of the POSTED journal lines
  whose metadata names the investor, so *checking* a balance and *spending* it
  are two statements; an advisory lock per user and currency brackets them. The
  wallet and the transfers lock `transfer:<user>:<currency>`, the investments
  `investment:<user>:<currency>`.
* All three insert into `Transaction`, whose `idempotencyKey` and `reference`
  are both unique. Wallet and transfers use the client's key as it is,
  investments prefix it with `INVEST-FUND-` or `INVEST-REDEEM-`.
* A wallet verdict also appends to the audit trail, in the same transaction.
* The front ends hold no data of their own. Their pages and route handlers call
  the API with a cookie's token; a submit of the client is *two* calls (create,
  then fund), each of which may succeed and lose its answer. Pages show what was
  true when they were rendered.
* The seed writes the rows registration writes, with no transaction around its
  statements, and may run while the API serves.
* Sessions share no tables with the money. A refresh token is rotated in one
  transaction and a session revoked in another; both write token rows.
* `ledger-core` is a library. The API uses its posting engine inside its own
  transactions (`LedgerStore`); its idempotency and reversal services run in one
  process over a `Repository`, where calls interleave at every `await`.
* Deposits and withdrawals have `acct_1100` (cash) on the other side, fundings
  and redemptions `acct_2200` (product obligations).

### 1.3 What is hard, and what makes it correct

The hard behaviours are interleavings of handlers between two round trips: two
verdicts on one request; two spenders of one balance; retries that race the call
they repeat; a status that is read before a lock is waited for; rollbacks at
every point; and waiting for an advisory lock while a row is held. The system is
correct if

* no investor's `acct_2100` balance goes below zero (`NoOverdraft`);
* a request gets at most one verdict, and status, journal and audit trail tell
  the same story of it (`OneVerdict`, `VerdictIsFinal`);
* a key moves money once however often it is retried, and every answer is true
  (`AnswersAreTheRequest`, `IdenticalCallsShareARow`, `OnlyConflictsAreRefused`,
  `TransferIsItsEntry`, `TransferAnswersAreTrue`, `InvestAnswersAreTrue`);
* a subscription is funded once, redeemed only if funded and never for more than
  was invested (`FundedOnce`, `RedeemedIsPaid`, `NoOverRedemption`,
  `RedemptionKeyPaysOnce`);
* a session has at most one live token, dead tokens form a chain, revocation is
  final and a client is told the truth about it (`OneLiveToken`,
  `TokensAreAChain`, `RevokedForGood`, `AuthAnswersAreTrue`);
* the library keeps one entry per key in both of its maps and one reversal per
  entry, answers with what it keeps, and its mutex forgets nobody (`MapsAgree`,
  `ReversalsPair`, `AnswersArePersisted`, `OneHolder`);
* the trail can be replayed: numbers are drawn once, previous hashes are those of
  rows, and an entity that is appended to under its row lock has one chain
  (`AuditHolds`);
* balances, statements, positions and the general ledger are views of one
  journal and agree, and none depends on which of several mappings a query met
  (`StatementsHold`);
* a page that reports success is right, a retry buys at most as often as the
  investor clicked and once under one reference, and money is neither made nor
  lost on the way (`ClientHolds`);
* requests reported as submitted exist, no request that waits disappears from an
  operator's sight, and two operators never both report one posting (`DeskHolds`);
* who was told that he is registered is, the seed's log speaks of finished work,
  and a browser shows the account whose session it holds, none that a log-out of
  the web application revoked once that is answered (`OnboardHolds`);
* nobody waits for ever (`PaymentHandlersFinish`, `InvestHandlersFinish`,
  `AuthHandlersFinish`).

`PROJECT.json` lists each hazard at the line where it bites, with the
properties that cover it.

## 2. The modules

```
LedgerStore          tables, unique indexes, balances, advisory locks
 |- Wallet           createRequest, confirmRequest, rejectRequest
 |- Transfers        createTransfer
 |- Investments      create, fund, redeem
Payments             Wallet + Transfers     refines CustomerFunds (abstract)
Bank                 Payments + Investments
AuthSessions         login, refresh, logout, revokeSession
LedgerCore           post, withIdempotency and KeyedMutex, reverse
AuditChain           AuditStore.append, appendInTransaction
Statements           balances, statements, positions; provision
ClientApp            the client's pages, forms and route handlers
WalletDesk           the investor's wallet panel and the operators' consoles
Onboarding           register, the seed, log-in and log-out routes
Platform             Payments, AuditChain, Statements, ClientApp, WalletDesk, Onboarding
MC*                  constants and inputs for TLC

Payments_proofs       invariants of Payments; cash and deposits
 |- Services_proofs       Payments implements CustomerFunds; what transfers and
     |                    createRequest leave behind and answer
     |- Investments_proofs    create, fund and redeem alone, and in Bank
     |- Platform_proofs       client pages, desk; everything as properties of Platform
 |- Statements_proofs     the views of the journal      (used by Platform_proofs)
Records_proofs        audit trail; registration, seed, log-in (used by Platform_proofs)
AuthSessions_proofs, LedgerCore_proofs
```

**LedgerStore** has the shared state. `journal` is the set of entries, each with
its key and its two lines; `balance` is the running sum of the lines per account
and investor. The sum may be kept as a variable because the journal is
append-only (triggers of migration `20260911000000`) and `Post`, the model of
`saveEntry`, is its only writer. `txn` is the `Transaction` table by idempotency
key; `Insertable` is both unique indexes. `lock` is the table of advisory locks.

**Wallet**, **Transfers**, **Investments**: a *handler* is one HTTP request in
flight. It has a program counter (`wpc`, `tpc`, `ipc`), its input (`wjob`,
`tjob`, `ijob`), what it read and still uses (`iseen`) and its answer. One
action is one round trip: reads, the conditional update, taking an advisory
lock, the balance query, and the commit. `...Start` is the arrival of any
request a client or an operator may send; `...Return` is the delivery of the
answer.

| Code | Actions |
|---|---|
| createRequest | `CreateStart`, `CreateLookup` (line 31), `CreateInsert` (37), `CreateRecover` (42), `CreateRecoverByRef` (48), `CreateReturn` |
| confirmRequest | `ConfirmStart`, `ConfirmRead` (65), `ConfirmClaim` (69), `ConfirmLock` (71), `ConfirmCheck` (72), `ConfirmCommit` (73-84) |
| rejectRequest | `RejectStart`, `RejectRead` (91), `RejectClaim` (95), `RejectCommit` (97-100) |
| createTransfer | `TransferStart`, `TransferLookup` (24), `TransferBegin` (40), `TransferLock` (46), `TransferCheck` (47), `TransferCommit` (48-56), `TransferReturn` |
| create (subscription) | `SubscribeStart`, `SubscribeLookup` (49), `SubscribeInsert` (63) |
| fund | `FundStart`, `FundRead` (75), `FundLock` (85), `FundCheck` (87-115), `FundCommit` (117-163) |
| redeem | `RedeemStart`, `RedeemRead` (170), `RedeemLock` (177), `RedeemCheck` (179-213), `RedeemCommit` (215-260) |
| any failure | `WalletAbort`, `TransferAbort`, `InvestAbort` |
| login | `Login` (one transaction) |
| refresh | `RefreshStart` (140), `RefreshFind` (144), `RefreshSession` (158), `RefreshClaim` (170), `RefreshRotate` (178-187) |
| logout, revokeSession | `LogoutStart` (206-214), `RevokeSession` (91), `RevokeScan` and `RevokeCommit` (95) |
| expiry, failure, crash | `Expire`, `AuthFail`, `AuthCrash` |
| post | `PostCall` (106), `PostSave` (107-113) |
| withIdempotency | `GuardAcquire` (85), `GuardFind` (88), `GuardOperate` (89-93), `GuardSave` (94-98), `GuardRelease` (98-102) |
| reverse | `ReverseCall` (36), `ReverseFind` (37-39), `ReverseSave` (40-88) |

| Code | Actions |
|---|---|
| AuditStore.append | `StoreAppend`: async, but without an await, hence one step |
| appendInTransaction | `AppendBegin` (14-21), `AppendNextval` (23), `AppendPrevious` (27), `AppendCreate` (37-70, with the COMMIT), `AppendRollback` |
| what posts | `PostDeposit`, `PostWithdrawal`, `PostTransfer`, `PostFunding`, `PostRedemption`; provision: `Provision` |
| `apps/client` | `LogIn`, `CookieExpires`, `ShowProducts`, `OpenForm`, `Submit`, `RouteCreate`, `RouteFund`, `ShowPortfolio`, `AskRedeem`, `CancelRedeem`, `RouteRedeem`, `RedeemAnswer` |
| wallet panel of `apps/web` | `LoadDashboard`, `CookieChanges`, `Ask`, then `Accepted`, `Refused` or `AnsweredBlind` |
| console of `apps/admin` | `LoadConsole`, `Confirm`, `Approve`; a verdict that comes another way: `VerdictByApi` |
| register | `RegisterCheck` (19-24), `RegisterCreate` (26-35), `RegisterFails` (23-33); the web application's own route: `RegisterOnWeb` |
| `seed.ts` | `SeedStart`, `SeedUserFind` and `SeedUserCreate` per user, `SeedKycRecords`, `SeedAccount` per account, `SeedAudit`, `SeedStops` |
| log-in and log-out routes | `SignIn`, `AccessExpires`, `RefreshExpires`, `WebLogout`, `WebLogoutAnswer`, `ClientLogout`; a session that ends elsewhere: `SessionEnds` |

**AuditChain** holds the trail twice, as the library keeps it in memory and as
the database does. `rows` are committed rows, `nextval` the sequence, which a
rollback does not give back, and `holder` the row of the entity that a verdict
has updated before it appends: nothing else serialises appends.

**Statements** has two variables, the journal and the account mappings. Its
actions post what the services post, whole; everything else is an operator that
is a query of the code: `AccountBalance`, `InvestorBalance`, `AllBalances`,
`MyBalance`, `MyTransactions`, `MyPositions`, and the `Portfolio` page's. A line of the journal is a position (entry, line), and a query the set of
positions it selects and the sum over it. The properties compare the queries with
each other.

**ClientApp** has one investor with several tabs. A tab is where its page is and
what its form holds. `bought` and `cash` are what the API keeps of it. A call
takes effect in one step and its answer may be lost: then the tab shows an error
and the effect remains.

**WalletDesk** follows requests from the panel to the consoles: `requests` is the
table, `panel` and `console` what the screens were loaded with, `form` a form of
the panel, `tally` what the investor was told and how often he clicked.

**Onboarding** has the users, the KYC rows, the chart of accounts and the seed's
log; `registrar` and `seeder` are calls and runs in flight, `jar` the cookies of
each browser and `logins` the sessions, each with how it ended: by a log-out of
the web application, or otherwise. A registration's answer `lost` means that the
user was created and the caller not told; `error`, that none was created. A seed
run is a position in the list of its statements.

**Platform** puts the six together so that one run checks them. They share no
variable: `part`, chosen in Init and never changed, says whose behaviour it is,
each property asks its own part, and the state space is the sum of the parts and
not their product.

**AuthSessions**: a session row is absent, active or revoked, a token row has a
session, a flag for `revokedAt` and its `replacedById`. The second update of
revokeSession is two steps, because PostgreSQL picks the rows of an UPDATE from
the statement's snapshot and then waits for their writers: a successor that a
rotation has inserted and not committed is not picked, and survives in a session
that is revoked. `writer` holds the row locks of the claim and of the session.

**LedgerCore**: a *caller* is one call in flight in one Node process, and a step
is what runs between two awaits. `byId` and `byKey` are the repository's maps,
`held` and `queues` the mutex. `lseen` is what the last await returned.

**CustomerFunds** is the abstract specification: investors have funds; a request
is filed under an id, settled at most once and only if covered, or declined; a
transfer is filed and settled in one go. It knows no handlers, locks, retries or
tables. `Payments` instantiates it (`Promise`) with `funds` the derived balances
and `request` the rows of `txn`, and `KeepsPromise` says that every behaviour of
the two services is a behaviour of it: creation is `File`, a confirmation's
commit is `Settle`, a rejection's is `Decline`, a transfer's is `Transfer`, and
every other step, among them all retries, conflicts and rollbacks, a stutter.

### 2.1 Modelling decisions

* *Writes at commit.* At READ COMMITTED nobody sees a write before its COMMIT,
  so all writes of an interactive transaction are applied by its commit step. Of
  uncommitted writes others notice only the waiting: `claim` is the row lock of
  the conditional `updateMany` on a request. A waiter that gets the row
  re-evaluates the condition on the committed version, as PostgreSQL does. The
  status PROCESSING is never committed, so no row of the model has it.
* *Inserts that clash.* A second insert of a key would wait for the first
  transaction's end; with inserts applied at commit, the later commit fails.
  The outcomes are the same, save that a real waiter waits longer.
* *P2002* inside an interactive transaction poisons it: PostgreSQL refuses every
  further statement, so the lookup `saveEntry` makes in its `catch` fails as well
  and the transaction rolls back. In createRequest, which runs outside a
  transaction, the recovery is modelled read by read, and when both indexes
  refuse the row either may be the one reported.
* *Failures.* Between any two steps a handler may abort: lost connection,
  Prisma's transaction timeout, a crash of the process. PostgreSQL rolls back and
  frees the locks. A commit whose answer is lost is an abort in the state
  `replied`; the retry is another `...Start` with the same input.
* *One currency.* Locks, balances and replays are scoped by user *and* currency;
  an "investor" of the model is such a pair.
* *Keys* are pairs of prefix and client key, so a client key that itself begins
  with `INVEST-FUND-` is not covered. A redemption's reference is a function of
  its key and therefore clashes exactly when the key does.
* *Static data.* Users' roles and activity, products and eligibility are read by
  the handlers and written by none of them; the models start after those checks
  succeeded, since a call that fails them changes nothing. A caller who does not
  own a subscription is refused before any lock and likewise left out.
* *Sessions.* A handler that looks a token up always finds it, since rows are
  never deleted; a client only presents tokens that were issued. `Expire` lets a
  token expire after its predecessor, as all live equally long, and a session at
  any time. A commit whose answer is lost is a crash in the state `replied`.
  `IdsSuffice` keeps an id in store for every refresh that may still rotate, as
  the random ids of the code never run out.
* *Entries of the library* are POSTED when built and stay so, hence NOT_POSTED
  cannot happen; a fresh id is the first free one, since ids are only compared.
  `EnoughIds` makes one available always. The operation of a guarded call is
  `buildEntry` under the same key, as in the package's tests, or rejects.
* *Calls of pages* are taken at their commit: what races inside the API is the
  matter of the modules above, and a page sees only whether it worked. Any answer
  may be lost, and a page is rendered from one answer.
* *Entries of Statements* are posted whole, in any order the services allow, with
  what they are known to do wrong included: a subscription redeemed twice and a
  balance overdrawn (runs RedeemTwice and BankOverdraft) are states the queries
  meet, and the properties say what they show then.
* *Registration* compares addresses after lower-casing (`Lowered`). Passwords are
  strong enough or not; what a hash or a token says is taken as right, but the
  lookup, the hash and the create of a registration may each fail for reasons of
  their own (`RegisterFails`), so that an error says nothing of the address.
* *Sessions of browsers* end by the web application's log-out or otherwise
  (`SessionEnds`: a spent refresh token is presented, lines 148 and 190; the
  log-out is called on the API; the session expires). No access token notices: it
  is checked against its user alone (`jwt.strategy.ts:18-25`). An account can
  therefore stay on a screen for the cookie's 15 minutes without a live session,
  and `AccountsAreSignedIn` claims only what the cookies keep: account and session
  are of one user, and a session that its browser logged out of is gone from the
  jar with the answer. One log-out per browser is under way at a time.
* *Order.* Statements are ordered by `postedAt` (`ledger.service.ts:65`), lists of
  requests by `createdAt`. The models take both as the order in which the rows were
  committed, without ties. The code breaks no ties: entries posted within one
  millisecond may come in either order, and in another one in the next query, so
  that what `StatementsMatchBalances` says of shorter pages is true up to such ties.
* *Amounts* are positive integers (`parseAmountKobo`); the code uses bigint and
  the column is BIGINT, no sum is near its limit in the checked instances, and
  the proofs take amounts as natural numbers.

## 3. The runs

Bounds are given in the cfg and the MC module of each run. Two handlers of a
kind are what one race needs; the wallet run has three, so that a third verdict
can come between two others, and the library run has three, so that one caller
still waits when the mutex is handed to another. Amounts 1 and 2 against an
opening balance of 1 or 2 make every pair of spenders affordable one at a time
but not together. Every handler may serve any number of requests, one after the
other, so long sequences are explored although no counter bounds them: the keys,
or the token ids, do.

| Run | Instance | Question |
|---|---|---|
| Wallet | 3 handlers, 2 keys x 2 references in three withdrawals and a deposit, balance 1 | true answers, shared rows and refusals of racing and retried createRequest calls; no overdraft, one final verdict each |
| PaymentsSpend | 2 wallet handlers, 1 transfer handler; withdrawal of 2 and transfer of 1 or 2 over a balance of 2 | no overdraft, one verdict, refinement of CustomerFunds, every call ends |
| Platform | the six parts below, one after the other | each part's own question |
| - payments | 1 wallet handler, 2 transfer handlers; a deposit and transfers that share its key or its reference, transfer to oneself, transfer back | the inductive invariant, transfers against entries, true answers, cash equals deposits, refinement |
| - audit | 2 entities, one of them claimed; 2 appenders, 3 sequence numbers | a trail that can be replayed |
| - statements | 2 users, 2 currencies, 3 wallets, 2 holdings, 2 rival mappings; 5 entries, pages of at most 5 | views of the journal that agree |
| - client | 2 tabs, 2 submits, a product on offer and one withdrawn, deposit of 2 | success that is true, bounded retries, no money made or lost |
| - desk | 2 consoles and the panel, 2 requests, lists of one item | requests that exist and stay in sight |
| - onboarding | 2 registrations of the address of the seed's administrator and 2 seed runs that overlap, each pair interchangeable (symmetry); 2 seed users; one browser that uses both applications, 2 sessions of either user | users, the log and the cookies tell the truth |
| Invest | 2 handlers; two subscriptions, of 1 and 2, by one investor with balance 2, or one each by two investors, whose redemption keys clash | the inductive invariant; funded once, redeemed only if paid and once per key, within the balance, true answers, every call ends |
| Bank | 1 wallet, 1 transfer, 2 investment handlers; a subscription that reuses the transfer's reference | what survives the composition of all three: entries, single funding, no redemption beyond the position, references |
| AuthSessions | 2 handlers, 1 session, 3 tokens | one live token, a chain of dead ones, true answers, revocation for good, every call ends; the inductive invariant |
| LedgerCore | 3 interchangeable callers (symmetry), 3 keys: one guarded, one posted, all for reversals | maps that agree, paired reversals, the mutex, answers that are persisted; the inductive invariant |

The parts of Platform share no variable, so that one run of 1.0 million states
stands for six. Its bounds are those at which the cases happen: two appenders and
a rollback leave a gap in the sequence; three entries fund and redeem a
subscription twice and two more cover it, which is what PortfoliosAreTrue
distinguishes; lists of one item put every second request beyond the limit, as
the fifty-first is in the code; with two overlapping seed runs either may stop
between the other's statements. Deadlock is not checked in this run, because each
part stops at its bounds (sequence numbers, entries, clicks, runs); that payment
handlers never get stuck is a property of PaymentsSpend.

Three tokens are a first token, its successor and that one's: a reuse of the
first can race a rotation of the second. One session suffices because no step
looks at two; the theorems of section 4 hold for any number. In LedgerCore a
reversal can take the key of a post or a guarded call that is past its lookup,
and an entry can be reversed under two keys at once. No claim of it is about
progress: `OneHolder` says that whoever waits is queued behind a holder.

What they show: each service keeps its own promises under every interleaving of
the instance, with failures at every point; the payment services refine
`CustomerFunds`. Around them no figure contradicts another and no screen claims
what did not happen, with exceptions that the properties name and bound: a submit
without a cookie is reported as sent (`AnsweredBlind`, counted by
`EveryRequestIsAsked`, which claims nothing of it), an investor who repeats a click after a lost answer buys
again unless he typed a reference (`RetriesAreBounded`), and a portfolio exceeds
the balance behind it once a subscription is redeemed twice
(`PortfoliosAreTrue`).

Five runs expect a violation. Each checks one statement of the repository.

| Run | Statement | What the code does |
|---|---|---|
| BankOverdraft | "allows only one of two concurrent transfers to spend the exact same USD balance" (`transfers-concurrency.integration.spec.ts:84`; the same of withdrawals and of funding) | `fund` locks `investment:...`, the others `transfer:...`: a funding and a transfer of one balance both pass their checks, and `acct_2100` ends below zero |
| RedeemTwice | "rejects a second redemption after the subscription is already redeemed" (`investment-subscription.service.spec.ts:213`) | the status is read before the lock is waited for, so two redemptions under different keys both pay when another subscription keeps the position covered; the client sends another key per click (`redemption-form.tsx:32`) |
| RedeemedTerminal | REDEEMED is a "terminal lifecycle state" (migration `20260923000000`) | a `fund` that waited while the subscription was funded and redeemed sets it back to COMPLETED |
| IdempotentAnswer | withIdempotency "persists the result, and returns it" (`idempotency.ts:76`) | what `saveEntry` returns is ignored; when a post took the key after the lookup, the answer is an entry that no map holds |
| ReversalRetry | "repeated reversal requests return the existing reversal" (`docs/ledger-hardening-v1.md:13`) | a repetition that is in flight with the first is refused as ALREADY_REVERSED, although its reversal exists under its key |

Without investments `NoOverdraft` holds (Wallet; in PaymentsSpend as part of PaymentsInv); it is the
composition that breaks it, which is why `Bank` is a module of its own. So it is
with `CashMatchesDeposits`: `docs/chart-of-accounts-v1.md:79` says `acct_2100`
"must always be equal in magnitude and opposite in sign to 1100"; wallet and
transfers keep that, while funding moves deposits to `acct_2200` and posts
nothing to `acct_1100`. `Bank` does not claim it.

### 3.1 Fairness

* Weak fairness of a handler's next step: Node schedules its continuation and
  PostgreSQL answers.
* Strong fairness of the steps that wait (`ConfirmClaim`, `ConfirmLock`,
  `RejectClaim`, `TransferLock`, `FundLock`, `RedeemLock`, and a session handler's
  whole next step, which may wait for token and session rows): PostgreSQL queues the
  waiters of a row or an advisory lock and wakes them in order, so a waiter is
  not overtaken for ever.
* None for arrivals and none for aborts: requests need not come and nothing has
  to fail.

There is no cycle of waits: a handler holds at most a request's row and then one
advisory lock, always in that order, and no handler waits for anything after its
advisory lock. A revocation takes the session row before token rows, and a
rotation takes its token's row and nothing after it. The liveness runs check exactly that no handler is left waiting.

## 4. What is proved

Every theorem below holds for all values of the constants: any number of
investors, keys, handlers, callers, tabs, consoles, entities and sessions.

The constants are constrained by named ASSUMEs, which TLC evaluates in the runs.
They say three things. *Inputs are what the code lets through*: amounts are
positive naturals and opening balances naturals (`AmountsPositive`, `OpeningNat`),
jobs are well-formed DTOs (`WalletConstants`, `TransferConstants`,
`InvestConstants`, `LedgerCommands`), the catalogue has a status and a minimum per
product (`ClientConstants`), pages list at least one item (`DeskConstants`), and the
seed's KYC rows are of its own users (`OnboardingConstants`).
*Values that stand for nothing are nothing else*: `Nobody`, `NoRow`, `Nil`, `None`,
`NoRef`, and refusals that share a variable with keys (`SentinelsDistinct`,
`AnswersDistinct`, `RequestsDistinct`, `InvestSentinels`, `NilIsNone`,
`AuthConstants`, `AuditConstants`). *Sets are
what they are in the code*: one process is one handler of one kind
(`PaymentHandlersDisjoint`, `BankHandlersDisjoint`), the users of a database are
finitely many (`InvestorsFinite`: without it there is no sum of all balances), and
random ids do not run out (`EnoughIds`: more than two per key, since at most one
entry is kept and one more in preparation under each).

### 4.1 Wallet and transfers

`Payments_proofs` proves of `PaymentsSpec`: `PaymentsInvariant` (`[]PaymentsInv`),
`PaymentsTypeCorrect`, `PaymentsNeverOverdraw` (`[]NoOverdraft`),
`PaymentsOneVerdict` (`[]OneVerdict`) and `CashIsOnDeposit`
(`[]CashMatchesDeposits`).

`NoOverdraft` and `OneVerdict` are not inductive. The invariant `PaymentsInv`
adds what the code relies on between its steps:

* `ClaimsHold`: past its conditional update a settling handler alone holds the
  row, and everybody else still reads it as PENDING. This gives one verdict.
* `LocksHold`: a handler between its balance lock and its end holds that lock.
* `ChecksHold`: a balance that was found sufficient still is when it is spent.
  The step that could break it is another handler's debit of the same investor;
  that handler would hold the same lock, so by `LocksHold` it is the same
  handler. Credits by others only help, as amounts are positive.
* `OnlyRequestsPend`: whatever is PENDING under a raw key is a deposit or a
  withdrawal, which confirmRequest presumes when it treats what is no deposit as
  a withdrawal.
* `TransfersMove`: a transfer past its lookup is between two different investors.

It is in two parts. `PaymentsCore` holds whoever else spends the investors' cash;
`CashSuffices` (`ChecksHold` and `NoOverdraft`) does not, and that is the line
along which the composition with investments breaks (4.3).

`CashMatchesDeposits` sums over all investors. The sum of the community modules
takes the elements in an order of its choice, and the lemmas about it (it is an
integer, any element may be taken first, changing one element changes the sum by
as much) are proved by least counterexample: if some finite set refuted the lemma,
there would be a smallest one, and it cannot be. Every posting of the wallet then
changes both totals by its amount, and a transfer changes neither.

### 4.2 Refinement, transfers and answers

`Services_proofs` proves that `Payments` implements the abstract specification,
`PaymentsKeepTheirPromise`: `PaymentsSpec => KeepsPromise`, and that verdicts are
final, `PaymentsVerdictIsFinal`: `PaymentsSpec => VerdictIsFinal`. The argument
sorts the steps (`WritingSteps`): a step leaves `txn` and the balances alone, or
inserts a request, approves one, rejects one, or makes a transfer. These four map
to `File`, `Settle`, `Decline` and `Transfer` under the mapping `Funds` and
`Filed`; that the abstract guards hold is what `PaymentsInv` is for, namely that
the request is still pending (`ClaimsHold`), and the balance still sufficient
(`ChecksHold`). Rows *age*: they keep their terms for ever, and everything once
they are settled.

Of transfers it adds to `PaymentsInv` that a transfer's row is between two
different investors and has exactly its own entry, and no entry stands without its
row. An answer is true when it is given and stays so because rows keep their
terms; P2002 is true because an entry under the key comes with a row that holds
it. It proves `TransfersAreEntries` and `TransfersAnswerTruly`.

Of createRequest it adds what a call knows at each of its lookups: in
recovery there is a row under its key or its reference. References are unique and
keys of wallet rows raw, so whatever row the second lookup finds is the one in the
way. It proves `WalletAnswersAreTheRequest`, `WalletRefusesOnlyConflicts` and
`WalletCallsShareARow`.

### 4.3 Investments, alone and in the composition

`Investments_proofs` proves of `InvestSpec`: `InvestInvariant` (`[]InvestInv`) and
from it `SubscriptionsFundedOnce`, `RedemptionsPayOnce`, `RedeemedWasPaid`,
`InvestmentsNeverOverdraw` and `InvestmentsAnswerTruly`. What the invariant adds to
those properties:

* `FundingsAgree`, `RedemptionsAgree`: row and subscription tell the same story. A
  funding transaction is there exactly when the subscription has left PENDING, so
  a second `fund` finds it; a redemption's row names a subscription that was funded.
* `SeenWasFunded`: `redeem` reads the status before it waits, so what it read may
  be stale, but it is never PENDING again. That is all that is left of the check,
  and it is why `RedeemedIsPaid` holds and `RedeemedAtMostOnce` does not.
* `InvestLocksHold`, `PositionsSuffice`, `DepositsSuffice`: as for payments, a
  position or a balance that was found sufficient stays so under the lock.

Of `BankSpec`, all three services on one database, it proves `BankInvariant`,
`ServicesKeepPromises`, `ReferencesNameOne` and `BankAnswersTruly`. `BankInv` is
`PaymentsCore`, `InvestCore` and what 4.2 says of transfers and references: of the
single services' invariants everything survives but `CashSuffices` and
`DepositsSuffice`, the two about `acct_2100`. The proof is one lemma per service
saying what it leaves alone of the others: keys are prefixed, so neither writes the
other's rows or entries; locks are named apart, so neither takes the other's, which is
also why BankOverdraft finds the two lost conjuncts violated.

### 4.4 The library

`LedgerCore_proofs` proves of `LedgerSpec`: `LedgerInvariant` (`[]LedgerInv`),
`MapsStayTheSame`, `ReversalsStayPaired`, `KeyedMutexSerialises` and
`LedgerAnswersArePersisted`. `LedgerInv` adds

* `SnapshotsHold`: what a lookup returned is still what the repository holds, save
  for a reversal mark since. It is what makes a stale snapshot harmless: lines and
  ids do not change, and the mark is checked again by saveReversal.
* `BuiltAreFresh`: an entry that is built and not saved has an id that nobody else
  has. This needs `EnoughIds`: the ids in the repository and in the hands of
  holders are at most two per key, by an injection into keys.

The delicate step is `ReleaseKey`: the head of the queue leaves it and is inside in
the same step, so that `OneHolder` holds before and after and at no point between.

### 4.5 Sessions, audit trail, registration

`AuthSessions_proofs` proves, for every set of sessions, tokens and handlers:

* `AuthInvariant`: `AuthSpec => []AuthInv`
* `AuthOneLiveToken`: `AuthSpec => []OneLiveToken`
* `AuthTokensAreAChain`: `AuthSpec => []TokensAreAChain`
* `AuthAnswersTrue`: `AuthSpec => []AuthAnswersAreTrue`
* `AuthRevokedForGood`: `AuthSpec => RevokedForGood`

from the assumption that `None` is no handler, token, row or call and that
session and token ids differ. The invariant adds to the three properties
`RotatorsHold` (a refresh past its claim holds its token's row, which is live, so
that no two rotate one token and no revocation marks it meanwhile),
`SeenAreItsSessions` (a revocation marks tokens of its own session only),
`RevokersAnswerReuse` (a refresh that revokes has a dead token), `TokensHaveSessions`
and `AnswersWait`. The delicate step is `RefreshRotate`: the token it kills is the
session's only live one by `OneLiveToken` itself, so the successor is again alone.

`Records_proofs` proves `TrailCanBeReplayed`: `AuditSpec => []AuditTrailHolds`.
Sequence numbers are drawn once, hence unique among rows and drafts. While an
appender holds a claimed entity's row, nobody else's append to that entity
commits, so that the predecessor it read is still the newest at its own COMMIT,
and its number is greater than the predecessor's. Of entities that nobody claims
it proves only that a previous hash is that of a row; their chains may fork.

It also proves `OnboardingIsHonoured`: `OnboardSpec => []OnboardingHolds`, for any
number of overlapping seed runs. The invariant says which statements a run at a
position has behind it, and counts KYC rows: there are at least as many as the reported runs, and those past their KYC statement but
not yet reported, have inserted together. Of browsers it says that no two hold one
session and that none holds a session which a log-out revoked, save its own
log-out's until the answer: a log-out takes no account off another's screen.
Sessions that end elsewhere, and registrations that fail at any statement, are
steps like the others.

### 4.6 The views of the journal

`Statements_proofs` proves `StatementsAlwaysAddUp`: `StatementsSpec =>
[]StatementsAddUp`, for any users, currencies, wallets, subscriptions, mappings, page
lengths and lengths of the journal. The invariant is small:

* the journal is a sequence of `Postings`: two lines of one positive amount, a debit
  and a credit, on different accounts or of different investors; what touches
  `acct_2200` funds a subscription or redeems it;
* `OneMappingEach`: no two active mappings of one user and currency (`NothingIsGuessed`);
* `FundedFirst`: a subscription is funded once at most, and redeemed only if funded.
  However often it is redeemed is left open, as the code does (run RedeemTwice).

That the views agree follows from the state alone, by counting the same lines in two
ways (`SumsByKey`: a sum may be taken key by key; `SumsRename`: and under other names).
By investor and currency, the lines of an account give `AccountsAreSplit`, hence that
the general ledger is the sum of the investors' own. By entry, all lines give debits
equal to credits (`JournalBalances`), and by account the trial balance
(`LedgersDoAgree`). A full statement is the lines of the account, each once, since an
entry has one line at most of one investor's account (`OneLineEach`); so it adds up to
the balance, and shorter pages are its beginning. By subscription, the lines of
`acct_2200` give `BalanceByHolding`; a position is the subscription's amount times how
often it was funded less how often it was redeemed (`PositionIs`), hence the amount,
nothing, or negative once it was redeemed twice, and only then do the positions shown
exceed what is owed.

The assumptions: users and currencies are finitely many, page lengths are numbers
(`StatementConstants`), and subscriptions have ids of their own, a user, a currency and
a positive amount (`HoldingConstants`: they are rows, and `create` refuses others).

### 4.7 Pages, and the platform

`Platform_proofs` proves that the pages keep their word. `ClientInv` adds to
`ClicksAreHonoured` that a submit between its two calls owns the row it made, still
PENDING and shared with no other submit (`RowsAreOwned`); without it `SuccessIsTrue`
would fail for a tab whose row another tab funded. It also says that rows and submits
that have not made theirs yet are no more than the clicks (`ClicksPayForRows`), and
that pages show what they are about (`TabsMakeSense`). `DeskInv` adds to
`DeskTellsTheTruth` that a click that waits has not made its request yet
(`ClicksAreEnough`) and that a console waits for an item of its own list
(`ConsolesAsk`). Money is a sum over the rows; the lemma `SequenceSums` says what
appending a row and changing one do to it.

`part` decides which of the specifications a behaviour follows, while the other
variables keep their initial values, which satisfy every invariant: so `PlatformInv`,
the conjunction of all of them, is inductive without conditions
(`PlatformInvariant`). From it `PlatformPayments`, `PlatformMoney`,
`PlatformKeepsPromise`, `PlatformAudit`, `PlatformStatements`, `PlatformOnboarding`,
`PlatformClient` and `PlatformDesk` state the properties of the run Platform of `PlatformSpec`.

### 4.8 What is only model-checked

* Liveness (`PaymentHandlersFinish`, `InvestHandlersFinish`,
  `AuthHandlersFinish`): it rests on fairness and ENABLED, out of the provers' reach.
* The five statements that the code violates; there is nothing to prove about them.

## 5. What is not modelled, and the plan

Not modelled, and why:

* `saveReversal` over Prisma: it sets `reversedById` before it inserts the entry
  named there, and the foreign key of migration `20260818000000` is checked at
  the statement, so every call fails; no service calls it.
* `FinancialProductService.create` and the product defaults: called by nothing
  that runs.
* `document-core` (rendering, no state), documents, health checks and the investor
  profile (single queries), shared packages (types, configuration, styling), and
  pages of static text.
* In the client, `redeem-form.tsx` and `api/investments/redeem/route.ts` are a
  second redemption form and route that no page uses.
* bcrypt, JWT signatures and PostgreSQL itself enter only as what the code relies
  on.

What the models of the front ends rest on, beside the code:

* Neither dashboard names a currency, so the API refuses their balance query, and
  the web dashboard renders the wallet panel only beside a balance: as it stands
  nobody sees the panel, although the page announces a balance "read from the
  authenticated Fortress ledger" (`apps/web/app/dashboard/page.tsx:45`). The refusal
  is the same in every state, so no run is spent on it; `WalletDesk` models the
  panel as if it were shown.
* Registration through the web application cannot succeed: its form sends no
  names, which the route requires; the route also imports a module that is not in
  the repository. `RegisterOnWeb` is always refused.
* The console's type expects `user.firstName` where the API sends
  `user.profile.firstName`; this is wording and not modelled.
* One redemption form per tab is open at a time; a second tab stands for a second
  form on the same page.

What could still be added:

* An abstract session (issued, rotated, ended) that `AuthSessions` refines, and an
  abstract ledger of keys that `LedgerCore` refines.
