---------------------------- MODULE Investments ----------------------------
(***************************************************************************)
(* InvestmentSubscriptionService: subscribe to a product, fund the         *)
(* subscription out of acct_2100, redeem it back.  The product is ACTIVE   *)
(* and the investor eligible: no handler changes either, and a caller who  *)
(* fails those checks changes nothing.                                     *)
(***************************************************************************)
EXTENDS LedgerStore

CONSTANTS
  InvestHandlers,  \* the handlers that serve the subscription controller
  InvestInputs     \* the create-subscription DTOs clients may send

ASSUME InvestConstants ==
  /\ InvestHandlers \subseteq Handlers
  /\ InvestInputs \subseteq
       [key: Keys, user: Investors, amount: Amounts, ref: Refs]

VARIABLES
  subs,     \* InvestmentSubscription rows by idempotency key
  ipc,      \* where each handler is
  ijob,     \* its DTO, or the subscription (and redemption key) it works on
  iseen,    \* the subscription status it read, before it had the lock
  ianswer   \* what it answered, until the response is delivered

investVars == <<subs, ipc, ijob, iseen, ianswer>>

Statuses == {"PENDING", "COMPLETED", "REDEEMED"}
Subscriptions ==
  [user: Investors, amount: Amounts, ref: Refs, status: Statuses]

ASSUME InvestSentinels == NoRow \notin Subscriptions \cup Keys

SubscribePcs == {"subscribe-lookup", "subscribe-insert"}
FundPcs == {"fund-read", "fund-lock", "fund-check", "fund-commit"}
RedeemPcs == {"redeem-read", "redeem-lock", "redeem-check", "redeem-commit"}
InvestPcs == {"idle", "replied"} \cup SubscribePcs \cup FundPcs \cup RedeemPcs

NoInvestJob == [sub |-> NoRow, redemption |-> NoRow]
FundJobs == [sub: Keys, redemption: {NoRow}]
RedeemJobs == [sub: Keys, redemption: Keys]

InvestTypeOK ==
  /\ DbTypeOK
  /\ subs \in [Keys -> Subscriptions \cup {NoRow}]
  /\ ipc \in [InvestHandlers -> InvestPcs]
  /\ iseen \in [InvestHandlers -> Statuses \cup {NoRow}]
  /\ ianswer \in [InvestHandlers -> {"NONE", "OK", "REFUSED"}]
  /\ ijob \in [InvestHandlers ->
                InvestInputs \cup FundJobs \cup RedeemJobs \cup {NoInvestJob}]
  /\ \A h \in InvestHandlers :
       /\ ipc[h] \in SubscribePcs => ijob[h] \in InvestInputs
       /\ ipc[h] \in FundPcs => ijob[h] \in FundJobs
       /\ ipc[h] \in RedeemPcs => ijob[h] \in RedeemJobs

InvestInit ==
  /\ subs = [s \in Keys |-> NoRow]
  /\ ipc = [h \in InvestHandlers |-> "idle"]
  /\ ijob = [h \in InvestHandlers |-> NoInvestJob]
  /\ iseen = [h \in InvestHandlers |-> NoRow]
  /\ ianswer = [h \in InvestHandlers |-> "NONE"]

-----------------------------------------------------------------------------
(***************************************************************************)
(* Control of a handler.                                                   *)
(***************************************************************************)

SubKey(h) == ijob[h].sub
Sub(h) == subs[SubKey(h)]

InvestGoto(h, from, to) ==
  /\ ipc[h] = from
  /\ ipc' = [ipc EXCEPT ![h] = to]
  /\ UNCHANGED <<ijob, ianswer>>

InvestArrive(h, pc, jobs) ==
  /\ ipc[h] = "idle"
  /\ ipc' = [ipc EXCEPT ![h] = pc]
  /\ \E job \in jobs : ijob' = [ijob EXCEPT ![h] = job]
  /\ UNCHANGED <<subs, iseen, ianswer, dbVars>>

\* Commit or rollback, with the answer of either.
InvestReply(h, answer) ==
  /\ ipc' = [ipc EXCEPT ![h] = "replied"]
  /\ ianswer' = [ianswer EXCEPT ![h] = answer]
  /\ ReleaseLocks(h)
  /\ UNCHANGED <<ijob, iseen>>

InvestRefuse(h) ==
  /\ InvestReply(h, "REFUSED")
  /\ UNCHANGED <<subs, balance, journal, txn>>

InvestForget(h) ==
  /\ ipc' = [ipc EXCEPT ![h] = "idle"]
  /\ ijob' = [ijob EXCEPT ![h] = NoInvestJob]
  /\ iseen' = [iseen EXCEPT ![h] = NoRow]
  /\ ianswer' = [ianswer EXCEPT ![h] = "NONE"]

\* The statement after the advisory lock: this lock is not the one the
\* wallet and the transfers take for the same balance.
InvestLock(h, from, to) ==
  /\ InvestGoto(h, from, to)
  /\ TakeLock(<<"investment", Sub(h).user>>, h)
  /\ UNCHANGED <<subs, iseen, balance, journal, txn>>

\* update ... WHERE id: no condition on the status the row has by now.
SetStatus(s, status) == subs' = [subs EXCEPT ![s].status = status]

-----------------------------------------------------------------------------
(***************************************************************************)
(* create.                                                                 *)
(***************************************************************************)

SubscribeStart(h) == InvestArrive(h, "subscribe-lookup", InvestInputs)

SameSubscription(row, dto) ==
  row.user = dto.user /\ row.amount = dto.amount /\ row.ref = dto.ref

\* Mutant: the replayed request is not compared with the row.
SubscribeLookupUncompared(h) ==
  /\ ipc[h] = "subscribe-lookup"
  /\ \/ /\ subs[ijob[h].key] = NoRow
        /\ InvestGoto(h, "subscribe-lookup", "subscribe-insert")
        /\ UNCHANGED <<subs, iseen, dbVars>>
     \/ /\ subs[ijob[h].key] # NoRow
        /\ InvestReply(h, "OK")
        /\ UNCHANGED <<subs, balance, journal, txn>>

SubscribeLookup(h) ==
  /\ ipc[h] = "subscribe-lookup"
  /\ LET row == subs[ijob[h].key] IN
     \/ /\ row = NoRow
        /\ InvestGoto(h, "subscribe-lookup", "subscribe-insert")
        /\ UNCHANGED <<subs, iseen, dbVars>>
     \/ /\ row # NoRow
        /\ InvestReply(h, IF SameSubscription(row, ijob[h]) THEN "OK" ELSE "REFUSED")
        /\ UNCHANGED <<subs, balance, journal, txn>>

\* repository.create: P2002 on either unique column reaches the caller.
SubscribeInsert(h) ==
  /\ ipc[h] = "subscribe-insert"
  /\ LET dto  == ijob[h]
         free == /\ subs[dto.key] = NoRow
                 /\ \A s \in Keys : subs[s] # NoRow => subs[s].ref # dto.ref
     IN \/ /\ free
           /\ subs' = [subs EXCEPT ![dto.key] =
                [user |-> dto.user, amount |-> dto.amount, ref |-> dto.ref,
                 status |-> "PENDING"]]
           /\ InvestReply(h, "OK")
           /\ UNCHANGED <<balance, journal, txn>>
        \/ ~free /\ InvestRefuse(h)

-----------------------------------------------------------------------------
(***************************************************************************)
(* fund: one interactive transaction.                                      *)
(***************************************************************************)

FundStart(h) ==
  InvestArrive(h, "fund-read",
    {job \in FundJobs : subs[job.sub] # NoRow})

\* The subscription is read before the lock; its status may be stale later.
FundRead(h) ==
  /\ ipc[h] = "fund-read"
  /\ \/ /\ Sub(h).status = "PENDING"
        /\ InvestGoto(h, "fund-read", "fund-lock")
        /\ iseen' = [iseen EXCEPT ![h] = "PENDING"]
        /\ UNCHANGED <<subs, dbVars>>
     \/ /\ Sub(h).status # "PENDING"
        /\ InvestReply(h, IF Sub(h).status = "COMPLETED" THEN "OK" ELSE "REFUSED")
        /\ UNCHANGED <<subs, balance, journal, txn>>

FundLock(h) == InvestLock(h, "fund-lock", "fund-check")

\* Under the lock: a funding transaction that exists by now marks the
\* subscription COMPLETED again; otherwise the balance must cover it.
FundCheck(h) ==
  /\ ipc[h] = "fund-check"
  /\ LET s == SubKey(h) IN
     \/ /\ txn[Fund(s)] # NoRow
        /\ SetStatus(s, "COMPLETED")
        /\ InvestReply(h, "OK")
        /\ UNCHANGED <<balance, journal, txn>>
     \/ /\ txn[Fund(s)] = NoRow
        /\ \/ /\ Available(Sub(h).user) >= Sub(h).amount
              /\ InvestGoto(h, "fund-check", "fund-commit")
              /\ UNCHANGED <<subs, iseen, dbVars>>
           \/ /\ Available(Sub(h).user) < Sub(h).amount
              /\ InvestRefuse(h)

FundEntry(s, row) ==
  [key |-> Fund(s), amount |-> row.amount,
   debit |-> Deposits(row.user), credit |-> Obligations(row.user)]

\* Mutant: the funding transaction is never completed.
FundRowProcessing(s, row) ==
  [user |-> row.user, type |-> "INVESTMENT_PURCHASE", amount |-> row.amount,
   ref |-> row.ref, about |-> s, status |-> "PROCESSING"]

FundRow(s, row) ==
  [user |-> row.user, type |-> "INVESTMENT_PURCHASE", amount |-> row.amount,
   ref |-> row.ref, about |-> s, status |-> "COMPLETED"]

\* Mutant: the subscription's update is lost, the money is not.
FundCommitUnmarked(h) ==
  /\ ipc[h] = "fund-commit"
  /\ LET s == SubKey(h)
         e == FundEntry(s, Sub(h))
         free == Insertable(Fund(s), FundRow(s, Sub(h))) /\ ~Posted(e.key)
     IN \/ /\ free
           /\ PutTxn(Fund(s), FundRow(s, Sub(h)))
           /\ Post(e.key, e.debit, e.credit, e.amount)
           /\ InvestReply(h, "OK")
           /\ UNCHANGED subs
        \/ ~free /\ InvestRefuse(h)

\* The Transaction row, the entry, both updates to COMPLETED, COMMIT.
FundCommit(h) ==
  /\ ipc[h] = "fund-commit"
  /\ LET s == SubKey(h)
         e == FundEntry(s, Sub(h))
         free == Insertable(Fund(s), FundRow(s, Sub(h))) /\ ~Posted(e.key)
     IN \/ /\ free
           /\ PutTxn(Fund(s), FundRow(s, Sub(h)))
           /\ Post(e.key, e.debit, e.credit, e.amount)
           /\ SetStatus(s, "COMPLETED")
           /\ InvestReply(h, "OK")
        \/ ~free /\ InvestRefuse(h)

-----------------------------------------------------------------------------
(***************************************************************************)
(* redeem: one interactive transaction.                                    *)
(***************************************************************************)

RedeemStart(h) ==
  InvestArrive(h, "redeem-read",
    {job \in RedeemJobs : subs[job.sub] # NoRow})

\* Read before the lock, whatever the status.
RedeemRead(h) ==
  /\ InvestGoto(h, "redeem-read", "redeem-lock")
  /\ iseen' = [iseen EXCEPT ![h] = Sub(h).status]
  /\ UNCHANGED <<subs, dbVars>>

RedeemLock(h) == InvestLock(h, "redeem-lock", "redeem-check")

\* Mutant: the status that was read is not looked at.
RedeemCheckAnyStatus(h) ==
  /\ ipc[h] = "redeem-check"
  /\ txn[Redeem(ijob[h].redemption)] = NoRow
  /\ Position(Sub(h).user) >= Sub(h).amount
  /\ InvestGoto(h, "redeem-check", "redeem-commit")
  /\ UNCHANGED <<subs, iseen, dbVars>>

\* Mutant: nor is the investor's position.
RedeemCheckUnbacked(h) ==
  /\ ipc[h] = "redeem-check"
  /\ txn[Redeem(ijob[h].redemption)] = NoRow
  /\ iseen[h] = "COMPLETED"
  /\ InvestGoto(h, "redeem-check", "redeem-commit")
  /\ UNCHANGED <<subs, iseen, dbVars>>

\* Under the lock: replay of the key, then the status as it was read, then
\* the investor's whole acct_2200 position.
RedeemCheck(h) ==
  /\ ipc[h] = "redeem-check"
  /\ LET prior == txn[Redeem(ijob[h].redemption)]
         redeemable == /\ iseen[h] = "COMPLETED"
                       /\ Position(Sub(h).user) >= Sub(h).amount
     IN \/ /\ prior # NoRow
           /\ InvestReply(h, IF prior.about = SubKey(h) /\ prior.user = Sub(h).user
                             THEN "OK" ELSE "REFUSED")
           /\ UNCHANGED <<subs, balance, journal, txn>>
        \/ /\ prior = NoRow /\ redeemable
           /\ InvestGoto(h, "redeem-check", "redeem-commit")
           /\ UNCHANGED <<subs, iseen, dbVars>>
        \/ /\ prior = NoRow /\ ~redeemable
           /\ InvestRefuse(h)

RedeemEntry(k, row) ==
  [key |-> Redeem(k), amount |-> row.amount,
   debit |-> Obligations(row.user), credit |-> Deposits(row.user)]

RedeemRow(s, row) ==
  [user |-> row.user, type |-> "REDEMPTION", amount |-> row.amount,
   ref |-> NoRow, about |-> s, status |-> "COMPLETED"]

\* Mutant: a redemption that is already there is overwritten.
RedeemCommitUpsert(h) ==
  /\ ipc[h] = "redeem-commit"
  /\ LET s == SubKey(h)
         e == RedeemEntry(ijob[h].redemption, Sub(h))
     IN /\ PutTxn(e.key, RedeemRow(s, Sub(h)))
        /\ Post(e.key, e.debit, e.credit, e.amount)
        /\ SetStatus(s, "REDEEMED")
        /\ InvestReply(h, "OK")

\* The Transaction row, the entry, COMPLETED and REDEEMED, COMMIT.  Another
\* investor's redemption may have taken the key meanwhile.
RedeemCommit(h) ==
  /\ ipc[h] = "redeem-commit"
  /\ LET s == SubKey(h)
         e == RedeemEntry(ijob[h].redemption, Sub(h))
         free == Insertable(e.key, RedeemRow(s, Sub(h))) /\ ~Posted(e.key)
     IN \/ /\ free
           /\ PutTxn(e.key, RedeemRow(s, Sub(h)))
           /\ Post(e.key, e.debit, e.credit, e.amount)
           /\ SetStatus(s, "REDEEMED")
           /\ InvestReply(h, "OK")
        \/ ~free /\ InvestRefuse(h)

-----------------------------------------------------------------------------

InvestReturn(h) ==
  /\ ipc[h] = "replied"
  /\ InvestForget(h)
  /\ UNCHANGED <<subs, dbVars>>

\* A lost connection, a transaction timeout, a crash.
InvestAbort(h) ==
  /\ ipc[h] # "idle"
  /\ InvestForget(h)
  /\ ReleaseLocks(h)
  /\ UNCHANGED <<subs, balance, journal, txn>>

InvestProgress(h) ==
  \/ SubscribeLookup(h) \/ SubscribeInsert(h)
  \/ FundRead(h) \/ FundLock(h) \/ FundCheck(h) \/ FundCommit(h)
  \/ RedeemRead(h) \/ RedeemLock(h) \/ RedeemCheck(h) \/ RedeemCommit(h)
  \/ InvestReturn(h)

InvestStart(h) == SubscribeStart(h) \/ FundStart(h) \/ RedeemStart(h)

InvestNext ==
  \E h \in InvestHandlers : InvestStart(h) \/ InvestProgress(h) \/ InvestAbort(h)

investSpecVars == <<dbVars, investVars>>

\* As in Wallet: handlers with something to do are scheduled, and the queue
\* of an advisory lock is served in order.
InvestFairness ==
  \A h \in InvestHandlers :
    /\ WF_investSpecVars(InvestProgress(h))
    /\ SF_investSpecVars(FundLock(h))
    /\ SF_investSpecVars(RedeemLock(h))

InvestSpecInit == DbInit /\ InvestInit

InvestSpec ==
  InvestSpecInit /\ [][InvestNext]_investSpecVars /\ InvestFairness

-----------------------------------------------------------------------------
(***************************************************************************)
(* Properties.                                                             *)
(***************************************************************************)

EntriesUnder(key) == {e \in journal : e.key = key}

\* However often and concurrently fund is called, a subscription's money
\* leaves acct_2100 once, in its own amount, and exactly if the subscription
\* has left PENDING.
FundedOnce ==
  \A s \in Keys :
    EntriesUnder(Fund(s)) =
      IF subs[s] # NoRow /\ subs[s].status # "PENDING"
      THEN {FundEntry(s, subs[s])}
      ELSE {}

\* A redemption key pays out once, for one subscription of one investor, the
\* amount that subscription was funded with.
RedemptionKeyPaysOnce ==
  \A k \in Keys :
    LET row == txn[Redeem(k)] IN
      EntriesUnder(Redeem(k)) =
        IF row = NoRow THEN {} ELSE {RedeemEntry(k, subs[row.about])}

\* A subscription reads REDEEMED only if a redemption of it was paid, and a
\* paid redemption is of a subscription that was funded before.
RedeemedIsPaid ==
  /\ \A s \in Keys :
       subs[s] # NoRow /\ subs[s].status = "REDEEMED" =>
         \E k \in Keys : txn[Redeem(k)] # NoRow /\ txn[Redeem(k)].about = s
  /\ \A k \in Keys :
       txn[Redeem(k)] # NoRow => txn[Fund(txn[Redeem(k)].about)] # NoRow

\* Redemptions never pay out more than the investor has invested, though each
\* checks the position before it posts.
NoOverRedemption == \A i \in Investors : Position(i) >= 0

\* fund and redeem answer OK only when the money they speak of has moved; a
\* replay that lost the race is told the same.
InvestAnswersAreTrue ==
  \A h \in InvestHandlers :
    ipc[h] = "replied" /\ ianswer[h] = "OK" =>
      /\ ijob[h] \in FundJobs => Posted(Fund(SubKey(h)))
      /\ ijob[h] \in RedeemJobs =>
           /\ Posted(Redeem(ijob[h].redemption))
           /\ txn[Redeem(ijob[h].redemption)].about = SubKey(h)
      /\ ijob[h] \in InvestInputs =>
           subs[ijob[h].key] # NoRow /\ SameSubscription(subs[ijob[h].key], ijob[h])

-----------------------------------------------------------------------------
(***************************************************************************)
(* The inductive invariant.  InvestCore also holds beside other services;  *)
(* the rest is lost once they spend acct_2100 under a lock of their own.   *)
(***************************************************************************)

Funded(s) == subs[s] # NoRow /\ subs[s].status # "PENDING"

\* Whoever funds or redeems works on a subscription that is there.
JobsAreFiled ==
  \A h \in InvestHandlers : ijob[h] \in FundJobs \cup RedeemJobs => Sub(h) # NoRow

\* The funding transaction is in the table once the subscription has left
\* PENDING, and the two agree on the terms.
FundingsAgree ==
  \A s \in Keys : txn[Fund(s)] = IF Funded(s) THEN FundRow(s, subs[s]) ELSE NoRow

\* A redemption is of a subscription that was funded, and on its terms.
RedemptionsAgree ==
  \A k \in Keys :
    LET row == txn[Redeem(k)] IN
      row # NoRow =>
        row.about \in Keys /\ Funded(row.about) /\ row = RedeemRow(row.about, subs[row.about])

\* The status that redeem read may be stale, but no subscription becomes
\* PENDING again.
SeenWasFunded ==
  \A h \in InvestHandlers :
    ipc[h] \in RedeemPcs \ {"redeem-read"} /\ iseen[h] = "COMPLETED" => Funded(SubKey(h))

\* Whoever is about to check a balance or a position, or has, holds its lock.
InvestLocksHold ==
  \A h \in InvestHandlers :
    ipc[h] \in {"fund-check", "fund-commit", "redeem-check", "redeem-commit"} =>
      lock[<<"investment", Sub(h).user>>] = h

\* A position that was found to cover a redemption still does.
PositionsSuffice ==
  \A h \in InvestHandlers :
    ipc[h] = "redeem-commit" =>
      iseen[h] = "COMPLETED" /\ Position(Sub(h).user) >= Sub(h).amount

InvestCore ==
  /\ InvestTypeOK
  /\ JobsAreFiled
  /\ FundingsAgree /\ FundedOnce
  /\ RedemptionsAgree /\ RedemptionKeyPaysOnce /\ RedeemedIsPaid
  /\ SeenWasFunded
  /\ InvestLocksHold /\ PositionsSuffice /\ NoOverRedemption
  /\ InvestAnswersAreTrue

\* A balance that was found to cover a funding still does.
DepositsSuffice ==
  \A h \in InvestHandlers :
    ipc[h] = "fund-commit" => Available(Sub(h).user) >= Sub(h).amount

InvestInv == InvestCore /\ DepositsSuffice /\ NoOverdraft

-----------------------------------------------------------------------------

\* Every handler finishes, in whatever order the lock is granted.
InvestHandlersFinish ==
  \A h \in InvestHandlers : ipc[h] # "idle" ~> ipc[h] = "idle"

\* apps/api/test/investment-subscription.service.spec.ts: "rejects a second
\* redemption after the subscription is already redeemed".
RedeemedAtMostOnce ==
  \A j, k \in Keys :
    /\ txn[Redeem(j)] # NoRow /\ txn[Redeem(k)] # NoRow
    /\ txn[Redeem(j)].about = txn[Redeem(k)].about
    => j = k

\* prisma/migrations/20260923000000: REDEEMED is "an explicit terminal
\* lifecycle state for redeemed investment subscriptions".
RedeemedIsTerminal ==
  [][\A s \in Keys : subs[s] # NoRow /\ subs[s].status = "REDEEMED"
                       => subs'[s] = subs[s]]_investSpecVars

=============================================================================
