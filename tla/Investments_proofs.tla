------------------------- MODULE Investments_proofs -------------------------
(***************************************************************************)
(* Subscriptions are funded once and redeemed within the investor's        *)
(* position: first alone (InvestSpec), then beside wallet requests and     *)
(* transfers (BankSpec), where only the cash balance is no longer safe.    *)
(***************************************************************************)
EXTENDS Bank, Services_proofs

-----------------------------------------------------------------------------
(***************************************************************************)
(* Names.                                                                  *)
(***************************************************************************)

\* The keys of fundings, redemptions and everything else never meet.
LEMMA InvestKeys ==
  /\ \A k \in Keys : Fund(k) \in TxnKeys /\ Redeem(k) \in TxnKeys
  /\ \A k \in Keys : Fund(k) \in EntryKeys /\ Redeem(k) \in EntryKeys
  /\ \A j, k : Fund(j) = Fund(k) <=> j = k
  /\ \A j, k : Redeem(j) = Redeem(k) <=> j = k
  /\ \A j, k : Fund(j) # Redeem(k) /\ Fund(j) # Raw(k) /\ Redeem(j) # Raw(k)
  /\ \A j, k : <<"wallet:", j>> # Fund(k) /\ <<"wallet:", j>> # Redeem(k)
  BY DEF Fund, Redeem, Raw, TxnKeys, EntryKeys

LEMMA InvestLockNames ==
  \A i \in Investors : /\ <<"investment", i>> \in LockNames
                       /\ \A j : <<"investment", i>> # <<"transfer", j>>
                       /\ \A j : <<"investment", i>> = <<"investment", j>> => i = j
  BY DEF LockNames

\* The three kinds of work a handler may have are told apart by their shape.
LEMMA JobsDiffer ==
  /\ \A job \in InvestInputs : job \notin FundJobs \cup RedeemJobs
  /\ \A job \in FundJobs : job \notin RedeemJobs
  /\ NoInvestJob \notin FundJobs \cup RedeemJobs
<1>1. ASSUME NEW job \in InvestInputs PROVE job \notin FundJobs \cup RedeemJobs
  <2>1. "sub" \notin DOMAIN job
    BY InvestConstants
  <2>2. \A j \in FundJobs \cup RedeemJobs : "sub" \in DOMAIN j
    BY DEF FundJobs, RedeemJobs
  <2> QED BY <2>1, <2>2
<1>2. ASSUME NEW job \in FundJobs PROVE job \notin RedeemJobs
  BY InvestSentinels DEF FundJobs, RedeemJobs
<1>3. NoInvestJob \notin FundJobs \cup RedeemJobs
  BY InvestSentinels DEF NoInvestJob, FundJobs, RedeemJobs
<1> QED BY <1>1, <1>2, <1>3

\* A handler that funds or redeems has a subscription to work on.
LEMMA JobTerms ==
  ASSUME InvestTypeOK, JobsAreFiled, NEW h \in InvestHandlers,
         ipc[h] \in FundPcs \cup RedeemPcs
  PROVE  /\ SubKey(h) \in Keys /\ Sub(h) \in Subscriptions /\ Sub(h) # NoRow
         /\ Sub(h) = subs[SubKey(h)]
         /\ Sub(h).user \in Investors /\ Sub(h).amount \in Amounts
         /\ Sub(h).amount \in Int /\ Sub(h).amount > 0
         /\ Sub(h).ref \in Refs
         /\ <<"investment", Sub(h).user>> \in LockNames
         /\ ipc[h] \in FundPcs => ijob[h] \in FundJobs
         /\ ipc[h] \in RedeemPcs => ijob[h] \in RedeemJobs /\ ijob[h].redemption \in Keys
<1>1. ijob[h] \in FundJobs \cup RedeemJobs
  BY DEF InvestTypeOK
<1>2. SubKey(h) \in Keys
  BY <1>1 DEF SubKey, FundJobs, RedeemJobs
<1>3. Sub(h) # NoRow
  BY <1>1 DEF JobsAreFiled
<1>4. Sub(h) \in Subscriptions
  BY <1>2, <1>3 DEF InvestTypeOK, Sub
<1>5. Sub(h).user \in Investors /\ Sub(h).amount \in Amounts /\ Sub(h).ref \in Refs
  BY <1>4 DEF Subscriptions
<1>6. ipc[h] \in FundPcs => ijob[h] \in FundJobs
  BY DEF InvestTypeOK
<1>7. ipc[h] \in RedeemPcs => ijob[h] \in RedeemJobs /\ ijob[h].redemption \in Keys
  BY DEF InvestTypeOK, RedeemJobs
<1> QED BY <1>2, <1>3, <1>4, <1>5, <1>6, <1>7, AmountsAreNumbers, InvestLockNames DEF Sub

-----------------------------------------------------------------------------
(***************************************************************************)
(* What a step writes.                                                     *)
(***************************************************************************)

\* create files a subscription under a free key.
Files(h) ==
  LET dto == ijob[h] IN
    /\ ipc[h] = "subscribe-insert"
    /\ subs[dto.key] = NoRow
    /\ subs' = [subs EXCEPT ![dto.key] =
         [user |-> dto.user, amount |-> dto.amount, ref |-> dto.ref, status |-> "PENDING"]]
    /\ InvestReply(h, "OK")
    /\ UNCHANGED <<balance, journal, txn>>

\* fund finds its work done, and says so in the subscription again.
Remarks(h) ==
  /\ ipc[h] = "fund-check"
  /\ txn[Fund(SubKey(h))] # NoRow
  /\ SetStatus(SubKey(h), "COMPLETED")
  /\ InvestReply(h, "OK")
  /\ UNCHANGED <<balance, journal, txn>>

PaysIn(h) ==
  LET s == SubKey(h) e == FundEntry(s, Sub(h)) IN
    /\ ipc[h] = "fund-commit"
    /\ Insertable(Fund(s), FundRow(s, Sub(h)))
    /\ ~Posted(e.key)
    /\ PutTxn(Fund(s), FundRow(s, Sub(h)))
    /\ Post(e.key, e.debit, e.credit, e.amount)
    /\ SetStatus(s, "COMPLETED")
    /\ InvestReply(h, "OK")

PaysOut(h) ==
  LET s == SubKey(h) k == ijob[h].redemption e == RedeemEntry(k, Sub(h)) IN
    /\ ipc[h] = "redeem-commit"
    /\ Insertable(Redeem(k), RedeemRow(s, Sub(h)))
    /\ ~Posted(e.key)
    /\ PutTxn(Redeem(k), RedeemRow(s, Sub(h)))
    /\ Post(e.key, e.debit, e.credit, e.amount)
    /\ SetStatus(s, "REDEEMED")
    /\ InvestReply(h, "OK")

InvestStep(h) == InvestStart(h) \/ InvestProgress(h) \/ InvestAbort(h)

LEMMA InvestWrites ==
  ASSUME NEW h \in InvestHandlers, InvestStep(h)
  PROVE  \/ UNCHANGED <<subs, balance, journal, txn>>
         \/ SubscribeInsert(h) /\ Files(h)
         \/ FundCheck(h) /\ Remarks(h)
         \/ FundCommit(h) /\ PaysIn(h)
         \/ RedeemCommit(h) /\ PaysOut(h)
<1> USE DEF dbVars, InvestRefuse
<1>1. CASE InvestStart(h)
  BY <1>1 DEF InvestStart, SubscribeStart, FundStart, RedeemStart, InvestArrive
<1>2. CASE SubscribeLookup(h)
  BY <1>2 DEF SubscribeLookup
<1>3. CASE SubscribeInsert(h)
  BY <1>3 DEF SubscribeInsert, Files
<1>4. CASE FundRead(h) \/ RedeemRead(h)
  BY <1>4 DEF FundRead, RedeemRead
<1>5. CASE FundLock(h) \/ RedeemLock(h)
  BY <1>5 DEF FundLock, RedeemLock, InvestLock
<1>6. CASE FundCheck(h)
  BY <1>6 DEF FundCheck, Remarks
<1>7. CASE FundCommit(h)
  BY <1>7 DEF FundCommit, PaysIn
<1>8. CASE RedeemCheck(h)
  BY <1>8 DEF RedeemCheck
<1>9. CASE RedeemCommit(h)
  BY <1>9 DEF RedeemCommit, PaysOut, RedeemEntry
<1>10. CASE InvestReturn(h) \/ InvestAbort(h)
  BY <1>10 DEF InvestReturn, InvestAbort
<1> QED BY <1>1, <1>2, <1>3, <1>4, <1>5, <1>6, <1>7, <1>8, <1>9, <1>10
        DEF InvestStep, InvestProgress

-----------------------------------------------------------------------------
(***************************************************************************)
(* Types.                                                                  *)
(***************************************************************************)

\* A handler changes its own locals only.
LEMMA OthersKeepLocals ==
  ASSUME InvestTypeOK, NEW h \in InvestHandlers, InvestStep(h),
         NEW g \in InvestHandlers \ {h}
  PROVE  ipc'[g] = ipc[g] /\ ijob'[g] = ijob[g] /\ iseen'[g] = iseen[g]
         /\ ianswer'[g] = ianswer[g]
<1> USE DEF InvestTypeOK, InvestRefuse, InvestReply, InvestGoto
<1>1. CASE InvestStart(h)
  BY <1>1 DEF InvestStart, SubscribeStart, FundStart, RedeemStart, InvestArrive
<1>2. CASE SubscribeLookup(h) \/ SubscribeInsert(h)
  BY <1>2 DEF SubscribeLookup, SubscribeInsert
<1>3. CASE FundRead(h) \/ RedeemRead(h) \/ FundLock(h) \/ RedeemLock(h)
  BY <1>3 DEF FundRead, RedeemRead, FundLock, RedeemLock, InvestLock
<1>4. CASE FundCheck(h) \/ FundCommit(h)
  BY <1>4 DEF FundCheck, FundCommit
<1>5. CASE RedeemCheck(h) \/ RedeemCommit(h)
  BY <1>5 DEF RedeemCheck, RedeemCommit
<1>6. CASE InvestReturn(h) \/ InvestAbort(h)
  BY <1>6 DEF InvestReturn, InvestAbort, InvestForget
<1> QED BY <1>1, <1>2, <1>3, <1>4, <1>5, <1>6 DEF InvestStep, InvestProgress

\* What a handler may find itself at after a step, and with what.
LocalsOK(h) ==
  /\ ipc[h] \in SubscribePcs => ijob[h] \in InvestInputs
  /\ ipc[h] \in FundPcs => ijob[h] \in FundJobs
  /\ ipc[h] \in RedeemPcs => ijob[h] \in RedeemJobs

LocalsTypeOK ==
  /\ ipc \in [InvestHandlers -> InvestPcs]
  /\ iseen \in [InvestHandlers -> Statuses \cup {NoRow}]
  /\ ianswer \in [InvestHandlers -> {"NONE", "OK", "REFUSED"}]
  /\ ijob \in [InvestHandlers ->
                InvestInputs \cup FundJobs \cup RedeemJobs \cup {NoInvestJob}]

LEMMA StepLocals ==
  ASSUME InvestTypeOK, JobsAreFiled, NEW h \in InvestHandlers, InvestStep(h)
  PROVE  LocalsTypeOK' /\ LocalsOK(h)'
<1> USE DEF LocalsTypeOK, LocalsOK, InvestPcs, SubscribePcs, FundPcs, RedeemPcs
<1>t. /\ ipc \in [InvestHandlers -> InvestPcs]
      /\ iseen \in [InvestHandlers -> Statuses \cup {NoRow}]
      /\ ianswer \in [InvestHandlers -> {"NONE", "OK", "REFUSED"}]
      /\ ijob \in [InvestHandlers ->
                    InvestInputs \cup FundJobs \cup RedeemJobs \cup {NoInvestJob}]
      /\ LocalsOK(h)
  BY DEF InvestTypeOK
<1>r. ASSUME NEW answer \in {"OK", "REFUSED"}, InvestReply(h, answer)
      PROVE  LocalsTypeOK' /\ LocalsOK(h)'
  BY <1>r, <1>t DEF InvestReply
<1>f. ASSUME InvestRefuse(h) PROVE LocalsTypeOK' /\ LocalsOK(h)'
  BY <1>f, <1>r DEF InvestRefuse
<1>s. ASSUME NEW pc \in {"subscribe-lookup", "fund-read", "redeem-read"}, NEW jobs,
             InvestArrive(h, pc, jobs),
             jobs \subseteq IF pc = "subscribe-lookup" THEN InvestInputs
                            ELSE IF pc = "fund-read" THEN FundJobs ELSE RedeemJobs
      PROVE  LocalsTypeOK' /\ LocalsOK(h)'
  <2>1. PICK job \in jobs : ijob' = [ijob EXCEPT ![h] = job]
    BY <1>s DEF InvestArrive
  <2> QED BY <1>s, <2>1, <1>t DEF InvestArrive
<1>1. CASE InvestStart(h)
  <2>1. CASE SubscribeStart(h)
    BY <2>1, <1>s DEF SubscribeStart
  <2>2. CASE FundStart(h)
    <3>1. {job \in FundJobs : subs[job.sub] # NoRow} \subseteq FundJobs
      OBVIOUS
    <3> QED BY <2>2, <3>1, <1>s DEF FundStart
  <2>3. CASE RedeemStart(h)
    <3>1. {job \in RedeemJobs : subs[job.sub] # NoRow} \subseteq RedeemJobs
      OBVIOUS
    <3> QED BY <2>3, <3>1, <1>s DEF RedeemStart
  <2> QED BY <1>1, <2>1, <2>2, <2>3 DEF InvestStart
<1>2. CASE SubscribeLookup(h)
  BY <1>2, <1>t, <1>r DEF SubscribeLookup, InvestGoto
<1>3. CASE SubscribeInsert(h)
  BY <1>3, <1>r, <1>f DEF SubscribeInsert
<1>4. CASE FundRead(h)
  BY <1>4, <1>t, <1>r DEF FundRead, InvestGoto, Statuses
<1>5. CASE FundLock(h) \/ RedeemLock(h)
  BY <1>5, <1>t DEF FundLock, RedeemLock, InvestLock, InvestGoto
<1>6. CASE FundCheck(h)
  BY <1>6, <1>t, <1>r, <1>f DEF FundCheck, InvestGoto
<1>7. CASE FundCommit(h)
  BY <1>7, <1>r, <1>f DEF FundCommit
<1>8. CASE RedeemRead(h)
  <2>1. Sub(h).status \in Statuses
    BY <1>8, JobTerms DEF RedeemRead, InvestGoto, Subscriptions
  <2> QED BY <1>8, <2>1, <1>t DEF RedeemRead, InvestGoto
<1>9. CASE RedeemCheck(h)
  BY <1>9, <1>t, <1>r, <1>f DEF RedeemCheck, InvestGoto
<1>10. CASE RedeemCommit(h)
  BY <1>10, <1>r, <1>f DEF RedeemCommit
<1>11. CASE InvestReturn(h) \/ InvestAbort(h)
  BY <1>11, <1>t DEF InvestReturn, InvestAbort, InvestForget
<1> QED BY <1>1, <1>2, <1>3, <1>4, <1>5, <1>6, <1>7, <1>8, <1>9, <1>10, <1>11
        DEF InvestStep, InvestProgress

\* A lock changes hands only between the handler that moves and nobody.
LEMMA InvestLocks ==
  ASSUME InvestTypeOK, JobsAreFiled, NEW h \in InvestHandlers, InvestStep(h)
  PROVE  /\ lock' \in [LockNames -> Handlers \cup {Nobody}]
         /\ \A l \in LockNames : lock[l] \notin {h, Nobody} => lock'[l] = lock[l]
<1> USE DEF InvestTypeOK, DbTypeOK, dbVars
<1>h. h \in Handlers
  BY InvestConstants
<1>r. ASSUME ReleaseLocks(h)
      PROVE  /\ lock' \in [LockNames -> Handlers \cup {Nobody}]
             /\ \A l \in LockNames : lock[l] \notin {h, Nobody} => lock'[l] = lock[l]
  BY <1>r DEF ReleaseLocks
<1>1. CASE InvestStart(h)
  BY <1>1 DEF InvestStart, SubscribeStart, FundStart, RedeemStart, InvestArrive
<1>2. CASE SubscribeLookup(h) \/ SubscribeInsert(h) \/ FundRead(h)
  BY <1>2, <1>r DEF SubscribeLookup, SubscribeInsert, FundRead, InvestReply, InvestRefuse
<1>3. CASE FundLock(h) \/ RedeemLock(h)
  <2>1. <<"investment", Sub(h).user>> \in LockNames
    BY <1>3, JobTerms DEF FundLock, RedeemLock, InvestLock, InvestGoto, FundPcs, RedeemPcs
  <2> QED BY <1>3, <1>h, <2>1 DEF FundLock, RedeemLock, InvestLock, TakeLock
<1>4. CASE FundCheck(h) \/ FundCommit(h)
  BY <1>4, <1>r DEF FundCheck, FundCommit, InvestReply, InvestRefuse
<1>5. CASE RedeemRead(h) \/ RedeemCheck(h) \/ RedeemCommit(h)
  BY <1>5, <1>r DEF RedeemRead, RedeemCheck, RedeemCommit, InvestReply, InvestRefuse
<1>6. CASE InvestReturn(h) \/ InvestAbort(h)
  BY <1>6, <1>r DEF InvestReturn, InvestAbort
<1> QED BY <1>1, <1>2, <1>3, <1>4, <1>5, <1>6 DEF InvestStep, InvestProgress

-----------------------------------------------------------------------------
(***************************************************************************)
(* The books: subscriptions, their transactions and their entries.         *)
(***************************************************************************)

BooksOK ==
  /\ FundingsAgree /\ FundedOnce
  /\ RedemptionsAgree /\ RedemptionKeyPaysOnce /\ RedeemedIsPaid

\* A subscription keeps its terms and does not become PENDING again, and
\* nothing that was written about money is unwritten.
BooksAge ==
  /\ \A s \in Keys :
       subs[s] # NoRow =>
         /\ subs'[s] # NoRow
         /\ subs'[s].user = subs[s].user
         /\ subs'[s].amount = subs[s].amount
         /\ subs'[s].ref = subs[s].ref
         /\ subs[s].status # "PENDING" => subs'[s].status # "PENDING"
  /\ \A k \in Keys : txn[Redeem(k)] # NoRow => txn'[Redeem(k)] = txn[Redeem(k)]
  /\ \A key : Posted(key) => Posted(key)'

\* Somebody else's writing: other subscriptions, rows and entries.
SameBooks ==
  /\ UNCHANGED subs
  /\ \A k \in Keys : txn'[Fund(k)] = txn[Fund(k)] /\ txn'[Redeem(k)] = txn[Redeem(k)]
  /\ \A k \in Keys : /\ EntriesUnder(Fund(k))' = EntriesUnder(Fund(k))
                     /\ EntriesUnder(Redeem(k))' = EntriesUnder(Redeem(k))

LEMMA SameBooksKeep == BooksOK /\ SameBooks => BooksOK'
<1> SUFFICES ASSUME BooksOK, SameBooks PROVE BooksOK'
  OBVIOUS
<1> USE DEF BooksOK, SameBooks
<1>1. FundingsAgree'
  BY DEF FundingsAgree, Funded, FundRow
<1>2. FundedOnce'
  BY DEF FundedOnce, FundEntry
<1>3. RedemptionsAgree'
  BY DEF RedemptionsAgree, Funded, RedeemRow
<1>4. RedemptionKeyPaysOnce'
  BY DEF RedemptionKeyPaysOnce, RedeemEntry
<1>5. RedeemedIsPaid'
  <2>1. \A k \in Keys : txn[Redeem(k)] # NoRow => txn[Redeem(k)].about \in Keys
    BY DEF RedemptionsAgree
  <2> QED BY <2>1 DEF RedeemedIsPaid
<1> QED BY <1>1, <1>2, <1>3, <1>4, <1>5

\* Posting adds the one entry, under the one key.
LEMMA PostAddsEntry ==
  ASSUME NEW key, NEW debit, NEW credit, NEW amount, Post(key, debit, credit, amount),
         NEW other
  PROVE  EntriesUnder(other)' = EntriesUnder(other) \cup
           IF other = key
           THEN {[key |-> key, amount |-> amount, debit |-> debit, credit |-> credit]}
           ELSE {}
<1> DEFINE new == [key |-> key, debit |-> debit, credit |-> credit, amount |-> amount]
<1>1. journal' = journal \cup {new} /\ new.key = key
  BY DEF Post
<1>2. new = [key |-> key, amount |-> amount, debit |-> debit, credit |-> credit]
  OBVIOUS
<1> HIDE DEF new
<1> QED BY <1>1, <1>2 DEF EntriesUnder

LEMMA UnpostedHasNoEntry == \A key : ~Posted(key) <=> EntriesUnder(key) = {}
  BY DEF Posted, EntriesUnder

\* A subscription's update leaves its terms and the other subscriptions.
LEMMA StatusEffect ==
  ASSUME InvestTypeOK, NEW s \in Keys, subs[s] # NoRow, NEW status \in Statuses,
         SetStatus(s, status)
  PROVE  /\ \A r \in Keys \ {s} : subs'[r] = subs[r]
         /\ subs'[s] \in Subscriptions /\ subs'[s] # NoRow
         /\ subs'[s].status = status
         /\ subs'[s].user = subs[s].user /\ subs'[s].amount = subs[s].amount
         /\ subs'[s].ref = subs[s].ref
         /\ subs' \in [Keys -> Subscriptions \cup {NoRow}]
<1>1. subs \in [Keys -> Subscriptions \cup {NoRow}] /\ subs[s] \in Subscriptions
  BY DEF InvestTypeOK
<1>2. subs'[s] = [subs[s] EXCEPT !.status = status]
  BY <1>1 DEF SetStatus
<1>3. subs'[s] \in Subscriptions
  BY <1>1, <1>2 DEF Subscriptions
<1>4. /\ subs'[s].status = status
      /\ subs'[s].user = subs[s].user /\ subs'[s].amount = subs[s].amount
      /\ subs'[s].ref = subs[s].ref
  BY <1>1, <1>2 DEF Subscriptions
<1> QED BY <1>1, <1>3, <1>4, InvestSentinels DEF SetStatus

LEMMA FilesEffect ==
  ASSUME InvestTypeOK, NEW h \in InvestHandlers, Files(h)
  PROVE  LET s == ijob[h].key IN
         /\ s \in Keys /\ subs[s] = NoRow
         /\ ijob[h] \in InvestInputs
         /\ \A r \in Keys \ {s} : subs'[r] = subs[r]
         /\ subs'[s] \in Subscriptions /\ subs'[s] # NoRow
         /\ subs'[s].status = "PENDING"
         /\ SameSubscription(subs'[s], ijob[h])
         /\ subs' \in [Keys -> Subscriptions \cup {NoRow}]
         /\ UNCHANGED <<balance, journal, txn>>
<1> DEFINE dto == ijob[h]
           new == [user |-> dto.user, amount |-> dto.amount, ref |-> dto.ref,
                   status |-> "PENDING"]
<1>1. dto \in InvestInputs
  BY DEF InvestTypeOK, Files, SubscribePcs
<1>2. dto.key \in Keys /\ dto.user \in Investors /\ dto.amount \in Amounts /\ dto.ref \in Refs
  BY <1>1, InvestConstants
<1>3. new \in Subscriptions
  BY <1>2 DEF Subscriptions, Statuses
<1>4. SameSubscription(new, dto) /\ new.status = "PENDING"
  BY DEF SameSubscription
<1>5. subs' = [subs EXCEPT ![dto.key] = new] /\ subs \in [Keys -> Subscriptions \cup {NoRow}]
  BY DEF InvestTypeOK, Files
<1> HIDE DEF new
<1> QED BY <1>1, <1>2, <1>3, <1>4, <1>5, InvestSentinels DEF Files

\* A new subscription is PENDING, and nothing speaks of it yet.
LEMMA FilesKeepsBooks ==
  ASSUME InvestTypeOK, BooksOK, NEW h \in InvestHandlers, Files(h)
  PROVE  BooksOK' /\ BooksAge
<1> DEFINE s == ijob[h].key
<1>1. /\ s \in Keys /\ subs[s] = NoRow
      /\ \A r \in Keys \ {s} : subs'[r] = subs[r]
      /\ subs'[s] # NoRow /\ subs'[s].status = "PENDING"
      /\ UNCHANGED <<balance, journal, txn>>
  BY FilesEffect
<1> HIDE DEF s
<1> USE DEF BooksOK
<1>2. \A r \in Keys : Funded(r) => r # s /\ subs'[r] = subs[r]
  BY <1>1 DEF Funded
<1>3. \A r \in Keys : Funded(r)' <=> Funded(r)
  BY <1>1 DEF Funded
<1>4. FundingsAgree'
  BY <1>1, <1>2, <1>3 DEF FundingsAgree, FundRow
<1>5. FundedOnce'
  <2>1. \A r \in Keys : EntriesUnder(Fund(r))' = EntriesUnder(Fund(r))
    BY <1>1 DEF EntriesUnder
  <2>2. \A r \in Keys : EntriesUnder(Fund(r)) = IF Funded(r) THEN {FundEntry(r, subs[r])} ELSE {}
    BY DEF FundedOnce, Funded
  <2>3. \A r \in Keys :
          EntriesUnder(Fund(r))' = IF Funded(r)' THEN {FundEntry(r, subs'[r])} ELSE {}
    BY <2>1, <2>2, <1>2, <1>3
  <2> QED BY <2>3 DEF FundedOnce, Funded, FundEntry
<1>6. RedemptionsAgree'
  BY <1>1, <1>2, <1>3 DEF RedemptionsAgree, RedeemRow
<1>7. RedemptionKeyPaysOnce'
  BY <1>1, <1>2 DEF RedemptionKeyPaysOnce, RedeemEntry, RedemptionsAgree, EntriesUnder
<1>8. RedeemedIsPaid'
  BY <1>1, <1>2 DEF RedeemedIsPaid
<1>9. BooksAge
  BY <1>1 DEF BooksAge, Posted
<1> QED BY <1>4, <1>5, <1>6, <1>7, <1>8, <1>9

\* fund marks only what is funded, so it changes no more than the status.
LEMMA RemarksKeepsBooks ==
  ASSUME InvestTypeOK, JobsAreFiled, BooksOK, NEW h \in InvestHandlers, Remarks(h)
  PROVE  /\ BooksOK' /\ BooksAge
         /\ subs' \in [Keys -> Subscriptions \cup {NoRow}]
         /\ Posted(Fund(SubKey(h)))
<1>d. PICK s : s = SubKey(h)
  OBVIOUS
<1>j. s \in Keys /\ subs[s] # NoRow
  BY <1>d, JobTerms DEF Remarks, FundPcs
<1>1. /\ \A r \in Keys \ {s} : subs'[r] = subs[r]
      /\ subs'[s] # NoRow /\ subs'[s].status = "COMPLETED"
      /\ subs'[s].user = subs[s].user /\ subs'[s].amount = subs[s].amount
      /\ subs'[s].ref = subs[s].ref
      /\ subs' \in [Keys -> Subscriptions \cup {NoRow}]
  BY <1>d, <1>j, StatusEffect DEF Remarks, Statuses
<1>2. UNCHANGED <<balance, journal, txn>> /\ txn[Fund(s)] # NoRow
  BY <1>d DEF Remarks
<1> USE DEF BooksOK
<1>3. Funded(s)
  BY <1>j, <1>2 DEF FundingsAgree
<1>4. \A r \in Keys : Funded(r)' <=> Funded(r)
  BY <1>j, <1>1, <1>3 DEF Funded
<1>5. \A r \in Keys : /\ subs'[r].user = subs[r].user /\ subs'[r].amount = subs[r].amount
                      /\ subs'[r].ref = subs[r].ref
  BY <1>1
<1>6. FundingsAgree'
  BY <1>2, <1>4, <1>5 DEF FundingsAgree, FundRow
<1>7. FundedOnce'
  <2>1. \A r \in Keys : EntriesUnder(Fund(r))' = EntriesUnder(Fund(r))
    BY <1>2 DEF EntriesUnder
  <2>2. \A r \in Keys : EntriesUnder(Fund(r)) = IF Funded(r) THEN {FundEntry(r, subs[r])} ELSE {}
    BY DEF FundedOnce, Funded
  <2>3. \A r \in Keys : FundEntry(r, subs'[r]) = FundEntry(r, subs[r])
    BY <1>5 DEF FundEntry
  <2>4. \A r \in Keys :
          EntriesUnder(Fund(r))' = IF Funded(r)' THEN {FundEntry(r, subs'[r])} ELSE {}
    BY <2>1, <2>2, <2>3, <1>4
  <2> QED BY <2>4 DEF FundedOnce, Funded, FundEntry
<1>8. RedemptionsAgree'
  BY <1>2, <1>4, <1>5 DEF RedemptionsAgree, RedeemRow
<1>9. RedemptionKeyPaysOnce'
  BY <1>2, <1>5 DEF RedemptionKeyPaysOnce, RedeemEntry, RedemptionsAgree, EntriesUnder
<1>10. RedeemedIsPaid'
  BY <1>1, <1>2, <1>j DEF RedeemedIsPaid
<1>11. BooksAge
  BY <1>1, <1>2, <1>j DEF BooksAge, Posted
<1>12. Posted(Fund(s))
  <2>1. EntriesUnder(Fund(s)) # {}
    BY <1>3, <1>j DEF FundedOnce, Funded
  <2> QED BY <2>1, UnpostedHasNoEntry
<1> QED BY <1>d, <1>1, <1>6, <1>7, <1>8, <1>9, <1>10, <1>11, <1>12

\* The one entry of a funding, and its one row, with the status that says so.
LEMMA PaysInKeepsBooks ==
  ASSUME InvestTypeOK, JobsAreFiled, BooksOK, NEW h \in InvestHandlers, PaysIn(h)
  PROVE  /\ BooksOK' /\ BooksAge
         /\ subs' \in [Keys -> Subscriptions \cup {NoRow}]
         /\ Posted(Fund(SubKey(h)))'
<1>d. PICK s, row, e : s = SubKey(h) /\ row = Sub(h) /\ e = FundEntry(s, row)
  OBVIOUS
<1>j. s \in Keys /\ subs[s] # NoRow /\ row = subs[s]
  BY <1>d, JobTerms DEF PaysIn, FundPcs
<1>1. /\ \A r \in Keys \ {s} : subs'[r] = subs[r]
      /\ subs'[s] # NoRow /\ subs'[s].status = "COMPLETED"
      /\ subs'[s].user = subs[s].user /\ subs'[s].amount = subs[s].amount
      /\ subs'[s].ref = subs[s].ref
      /\ subs' \in [Keys -> Subscriptions \cup {NoRow}]
  BY <1>d, <1>j, StatusEffect DEF PaysIn, Statuses
<1>2. /\ txn[Fund(s)] = NoRow /\ ~Posted(Fund(s))
      /\ txn' = [txn EXCEPT ![Fund(s)] = FundRow(s, row)]
      /\ Post(Fund(s), Deposits(row.user), Obligations(row.user), row.amount)
  BY <1>d DEF PaysIn, Insertable, PutTxn, FundEntry
<1>t. /\ txn'[Fund(s)] = FundRow(s, row)
      /\ \A r \in Keys \ {s} : txn'[Fund(r)] = txn[Fund(r)]
      /\ \A k \in Keys : txn'[Redeem(k)] = txn[Redeem(k)]
  BY <1>2, <1>j, InvestKeys DEF InvestTypeOK, DbTypeOK
<1>e. /\ EntriesUnder(Fund(s))' = {e}
      /\ \A r \in Keys \ {s} : EntriesUnder(Fund(r))' = EntriesUnder(Fund(r))
      /\ \A k \in Keys : EntriesUnder(Redeem(k))' = EntriesUnder(Redeem(k))
  <2>1. \A other : EntriesUnder(other)' = EntriesUnder(other) \cup
                     IF other = Fund(s) THEN {e} ELSE {}
    BY <1>d, <1>2, PostAddsEntry DEF FundEntry
  <2>2. EntriesUnder(Fund(s)) = {}
    BY <1>2, UnpostedHasNoEntry
  <2> QED BY <2>1, <2>2, InvestKeys
<1>u. SubKey(h)' = s
  BY <1>d DEF PaysIn, InvestReply, SubKey
<1>p. Posted(Fund(s))' /\ \A key : Posted(key) => Posted(key)'
  BY <1>2, PostRecordsKey
<1> USE DEF BooksOK
<1>3. ~Funded(s) /\ Funded(s)'
  <2>1. FundRow(s, subs[s]) # NoRow
    <3>1. subs[s] \in Subscriptions
      BY <1>j DEF InvestTypeOK
    <3>2. FundRow(s, subs[s]) \in Rows
      BY <1>j, <3>1 DEF FundRow, Rows, Subscriptions, Types
    <3> QED BY <3>2, SentinelsDistinct
  <2>2. ~Funded(s)
    BY <2>1, <1>2, <1>j DEF FundingsAgree
  <2> QED BY <2>2, <1>1 DEF Funded
<1>4. \A r \in Keys \ {s} : Funded(r)' <=> Funded(r)
  BY <1>1 DEF Funded
<1>5. \A r \in Keys : /\ subs'[r].user = subs[r].user /\ subs'[r].amount = subs[r].amount
                      /\ subs'[r].ref = subs[r].ref
  BY <1>1
<1>6. FundingsAgree'
  <2>1. \A r \in Keys : FundRow(r, subs'[r]) = FundRow(r, subs[r])
    BY <1>5 DEF FundRow
  <2>2. \A r \in Keys : txn'[Fund(r)] = IF Funded(r)' THEN FundRow(r, subs'[r]) ELSE NoRow
    BY <2>1, <1>t, <1>3, <1>4, <1>j DEF FundingsAgree
  <2> QED BY <2>2 DEF FundingsAgree, FundRow
<1>7. FundedOnce'
  <2>1. \A r \in Keys : EntriesUnder(Fund(r)) = IF Funded(r) THEN {FundEntry(r, subs[r])} ELSE {}
    BY DEF FundedOnce, Funded
  <2>2. \A r \in Keys : FundEntry(r, subs'[r]) = FundEntry(r, subs[r])
    BY <1>5 DEF FundEntry
  <2>3. \A r \in Keys :
          EntriesUnder(Fund(r))' = IF Funded(r)' THEN {FundEntry(r, subs'[r])} ELSE {}
    BY <2>1, <2>2, <1>d, <1>3, <1>4, <1>e, <1>j
  <2> QED BY <2>3 DEF FundedOnce, Funded, FundEntry
<1>8. RedemptionsAgree'
  <2>1. \A r \in Keys : RedeemRow(r, subs'[r]) = RedeemRow(r, subs[r])
    BY <1>5 DEF RedeemRow
  <2>2. ASSUME NEW j \in Keys, txn'[Redeem(j)] # NoRow, NEW r, r = txn'[Redeem(j)].about
        PROVE  r \in Keys /\ Funded(r)' /\ txn'[Redeem(j)] = RedeemRow(r, subs'[r])
    BY <2>1, <2>2, <1>t, <1>3, <1>4 DEF RedemptionsAgree
  <2> QED BY <2>2 DEF RedemptionsAgree, RedeemRow, Funded
<1>9. RedemptionKeyPaysOnce'
  <2>1. \A k \in Keys : RedeemEntry(k, subs'[txn'[Redeem(k)].about]) =
                        RedeemEntry(k, subs[txn[Redeem(k)].about]) \/ txn[Redeem(k)] = NoRow
    BY <1>t, <1>5 DEF RedeemEntry, RedemptionsAgree
  <2>2. \A k \in Keys :
          EntriesUnder(Redeem(k))' = IF txn'[Redeem(k)] = NoRow THEN {}
                                     ELSE {RedeemEntry(k, subs'[txn'[Redeem(k)].about])}
    BY <2>1, <1>t, <1>e DEF RedemptionKeyPaysOnce
  <2> QED BY <2>2 DEF RedemptionKeyPaysOnce, RedeemEntry
<1>10. RedeemedIsPaid'
  <2>1. \A r \in Keys : txn[Fund(r)] # NoRow => txn'[Fund(r)] # NoRow
    BY <1>t, <1>2
  <2>2. \A k \in Keys : txn[Redeem(k)] # NoRow => txn[Redeem(k)].about \in Keys
    BY DEF RedemptionsAgree
  <2> QED BY <2>1, <2>2, <1>1, <1>t, <1>j DEF RedeemedIsPaid
<1>11. BooksAge
  BY <1>1, <1>t, <1>p, <1>j DEF BooksAge
<1> QED BY <1>1, <1>6, <1>7, <1>8, <1>9, <1>10, <1>11, <1>p, <1>u

\* The one entry and the one row of a redemption, of what was funded.
LEMMA PaysOutKeepsBooks ==
  ASSUME InvestTypeOK, JobsAreFiled, BooksOK, NEW h \in InvestHandlers, PaysOut(h),
         Funded(SubKey(h))
  PROVE  /\ BooksOK' /\ BooksAge
         /\ subs' \in [Keys -> Subscriptions \cup {NoRow}]
         /\ Posted(Redeem(ijob[h].redemption))'
         /\ (txn[Redeem(ijob[h].redemption)].about = SubKey(h))'
<1>d. PICK s, row, k, e : /\ s = SubKey(h) /\ row = Sub(h)
                           /\ k = ijob[h].redemption /\ e = RedeemEntry(k, row)
  OBVIOUS
<1>j. s \in Keys /\ subs[s] # NoRow /\ row = subs[s] /\ k \in Keys
  BY <1>d, JobTerms DEF PaysOut, RedeemPcs
<1>1. /\ \A r \in Keys \ {s} : subs'[r] = subs[r]
      /\ subs'[s] # NoRow /\ subs'[s].status = "REDEEMED"
      /\ subs'[s].user = subs[s].user /\ subs'[s].amount = subs[s].amount
      /\ subs'[s].ref = subs[s].ref
      /\ subs' \in [Keys -> Subscriptions \cup {NoRow}]
  BY <1>d, <1>j, StatusEffect DEF PaysOut, Statuses
<1>2. /\ txn[Redeem(k)] = NoRow /\ ~Posted(Redeem(k))
      /\ txn' = [txn EXCEPT ![Redeem(k)] = RedeemRow(s, row)]
      /\ Post(Redeem(k), Obligations(row.user), Deposits(row.user), row.amount)
  BY <1>d DEF PaysOut, Insertable, PutTxn, RedeemEntry
<1>t. /\ txn'[Redeem(k)] = RedeemRow(s, row)
      /\ \A j \in Keys \ {k} : txn'[Redeem(j)] = txn[Redeem(j)]
      /\ \A r \in Keys : txn'[Fund(r)] = txn[Fund(r)]
  BY <1>2, <1>j, InvestKeys DEF InvestTypeOK, DbTypeOK
<1>e. /\ EntriesUnder(Redeem(k))' = {e}
      /\ \A j \in Keys \ {k} : EntriesUnder(Redeem(j))' = EntriesUnder(Redeem(j))
      /\ \A r \in Keys : EntriesUnder(Fund(r))' = EntriesUnder(Fund(r))
  <2>1. \A other : EntriesUnder(other)' = EntriesUnder(other) \cup
                     IF other = Redeem(k) THEN {e} ELSE {}
    BY <1>d, <1>2, PostAddsEntry DEF RedeemEntry
  <2>2. EntriesUnder(Redeem(k)) = {}
    BY <1>2, UnpostedHasNoEntry
  <2> QED BY <2>1, <2>2, InvestKeys
<1>u. SubKey(h)' = s /\ ijob'[h].redemption = k
  BY <1>d DEF PaysOut, InvestReply, SubKey
<1>p. Posted(Redeem(k))' /\ \A key : Posted(key) => Posted(key)'
  BY <1>2, PostRecordsKey
<1>f. Funded(s) /\ Funded(s)'
  BY <1>d, <1>1 DEF Funded
<1>r. RedeemRow(s, row) # NoRow /\ RedeemRow(s, row).about = s
  <2>1. subs[s] \in Subscriptions
    BY <1>j DEF InvestTypeOK
  <2>2. RedeemRow(s, row) \in Rows
    BY <1>j, <2>1 DEF RedeemRow, Rows, Subscriptions, Types
  <2> QED BY <2>2, SentinelsDistinct DEF RedeemRow
<1> USE DEF BooksOK
<1>4. \A r \in Keys : Funded(r)' <=> Funded(r)
  BY <1>1, <1>f DEF Funded
<1>5. \A r \in Keys : /\ subs'[r].user = subs[r].user /\ subs'[r].amount = subs[r].amount
                      /\ subs'[r].ref = subs[r].ref
  BY <1>1
<1>6. FundingsAgree'
  BY <1>t, <1>4, <1>5 DEF FundingsAgree, FundRow
<1>7. FundedOnce'
  <2>1. \A r \in Keys : EntriesUnder(Fund(r)) = IF Funded(r) THEN {FundEntry(r, subs[r])} ELSE {}
    BY DEF FundedOnce, Funded
  <2>2. \A r \in Keys : FundEntry(r, subs'[r]) = FundEntry(r, subs[r])
    BY <1>5 DEF FundEntry
  <2>3. \A r \in Keys :
          EntriesUnder(Fund(r))' = IF Funded(r)' THEN {FundEntry(r, subs'[r])} ELSE {}
    BY <2>1, <2>2, <1>4, <1>e
  <2> QED BY <2>3 DEF FundedOnce, Funded, FundEntry
<1>8. RedemptionsAgree'
  <2>1. \A r \in Keys : RedeemRow(r, subs'[r]) = RedeemRow(r, subs[r])
    BY <1>5 DEF RedeemRow
  <2>2. ASSUME NEW j \in Keys, txn'[Redeem(j)] # NoRow, NEW r, r = txn'[Redeem(j)].about
        PROVE  r \in Keys /\ Funded(r)' /\ txn'[Redeem(j)] = RedeemRow(r, subs'[r])
    <3>1. CASE j = k
      BY <2>1, <2>2, <3>1, <1>d, <1>t, <1>r, <1>j, <1>f
    <3>2. CASE j # k
      BY <2>1, <2>2, <3>2, <1>t, <1>4 DEF RedemptionsAgree
    <3> QED BY <3>1, <3>2
  <2> QED BY <2>2 DEF RedemptionsAgree, RedeemRow, Funded
<1>9. RedemptionKeyPaysOnce'
  <2>1. \A j \in Keys, r \in Keys : RedeemEntry(j, subs'[r]) = RedeemEntry(j, subs[r])
    BY <1>5 DEF RedeemEntry
  <2>2. EntriesUnder(Redeem(k))' = {RedeemEntry(k, subs'[txn'[Redeem(k)].about])}
    BY <2>1, <1>d, <1>t, <1>e, <1>r, <1>j
  <2>3. \A j \in Keys \ {k} :
          EntriesUnder(Redeem(j))' = IF txn'[Redeem(j)] = NoRow THEN {}
                                     ELSE {RedeemEntry(j, subs'[txn'[Redeem(j)].about])}
    BY <2>1, <1>t, <1>e DEF RedemptionKeyPaysOnce, RedemptionsAgree
  <2>4. \A j \in Keys :
          EntriesUnder(Redeem(j))' = IF txn'[Redeem(j)] = NoRow THEN {}
                                     ELSE {RedeemEntry(j, subs'[txn'[Redeem(j)].about])}
    BY <2>2, <2>3, <1>t, <1>r
  <2> QED BY <2>4 DEF RedemptionKeyPaysOnce, RedeemEntry
<1>10. RedeemedIsPaid'
  <2>1. txn[Fund(s)] # NoRow
    <3>1. subs[s] \in Subscriptions
      BY <1>j DEF InvestTypeOK
    <3>2. FundRow(s, subs[s]) \in Rows
      BY <1>j, <3>1 DEF FundRow, Rows, Subscriptions, Types
    <3> QED BY <3>2, <1>f, <1>j, SentinelsDistinct DEF FundingsAgree
  <2>2. \A j \in Keys : txn[Redeem(j)] # NoRow => txn'[Redeem(j)] = txn[Redeem(j)]
    BY <1>t, <1>2
  <2>3. \A j \in Keys : txn[Redeem(j)] # NoRow => txn[Redeem(j)].about \in Keys
    BY DEF RedemptionsAgree
  <2>4. ASSUME NEW r \in Keys, subs'[r] # NoRow, subs'[r].status = "REDEEMED"
        PROVE  \E j \in Keys : txn'[Redeem(j)] # NoRow /\ txn'[Redeem(j)].about = r
    <3>1. CASE r = s
      BY <3>1, <1>t, <1>r, <1>j
    <3>2. CASE r # s
      BY <3>2, <2>2, <2>4, <1>1 DEF RedeemedIsPaid
    <3> QED BY <3>1, <3>2
  <2>5. \A j \in Keys : txn'[Redeem(j)] # NoRow => txn'[Fund(txn'[Redeem(j)].about)] # NoRow
    BY <2>1, <2>3, <1>t, <1>r, <1>j DEF RedeemedIsPaid
  <2> QED BY <2>4, <2>5 DEF RedeemedIsPaid
<1>11. BooksAge
  BY <1>1, <1>t, <1>2, <1>p, <1>f, <1>j DEF BooksAge, Funded
<1> QED BY <1>1, <1>6, <1>7, <1>8, <1>9, <1>10, <1>11, <1>p, <1>t, <1>r, <1>d, <1>u

-----------------------------------------------------------------------------
(***************************************************************************)
(* Money.                                                                  *)
(***************************************************************************)

LEMMA AccountsDiffer ==
  /\ \A i, j \in Investors : Obligations(i) # Deposits(j)
  /\ \A i, j \in Investors : Obligations(i) = Obligations(j) <=> i = j
  /\ \A i, j \in Investors : Obligations(i) # Cash(j)
  BY DEF Obligations, Deposits, Cash

\* Funding takes the amount from the investor's cash into the position.
LEMMA PaysInMoves ==
  ASSUME InvestTypeOK, JobsAreFiled, NEW h \in InvestHandlers, PaysIn(h)
  PROVE  /\ balance' \in [Accounts -> Int] /\ journal' \subseteq Entries
         /\ txn' \in [TxnKeys -> Rows \cup {NoRow}]
         /\ \A i \in Investors :
              /\ Position(i)' = Position(i) + IF i = Sub(h).user THEN Sub(h).amount ELSE 0
              /\ Available(i)' = Available(i) - IF i = Sub(h).user THEN Sub(h).amount ELSE 0
<1>d. PICK s, row, e : s = SubKey(h) /\ row = Sub(h) /\ e = FundEntry(s, row)
  OBVIOUS
<1>j. /\ s \in Keys /\ row \in Subscriptions /\ row.user \in Investors
      /\ row.amount \in Amounts /\ row.amount \in Int /\ row.ref \in Refs
  BY <1>d, JobTerms DEF PaysIn, FundPcs
<1>2. /\ txn' = [txn EXCEPT ![Fund(s)] = FundRow(s, row)]
      /\ Post(Fund(s), Deposits(row.user), Obligations(row.user), row.amount)
  BY <1>d DEF PaysIn, PutTxn, FundEntry
<1>a. /\ Deposits(row.user) \in Accounts /\ Obligations(row.user) \in Accounts
      /\ Deposits(row.user) # Obligations(row.user)
  BY <1>j, AccountsOfInvestors, AccountsDiffer
<1>b. balance \in [Accounts -> Int]
  BY DEF InvestTypeOK, DbTypeOK
<1>3. /\ balance' \in [Accounts -> Int]
      /\ balance'[Deposits(row.user)] = balance[Deposits(row.user)] - row.amount
      /\ balance'[Obligations(row.user)] = balance[Obligations(row.user)] + row.amount
      /\ \A a \in Accounts \ {Deposits(row.user), Obligations(row.user)} : balance'[a] = balance[a]
  <2>1. PICK k, d, c, a : k = Fund(s) /\ d = Deposits(row.user) /\ c = Obligations(row.user)
                          /\ a = row.amount
    OBVIOUS
  <2>2. Post(k, d, c, a) /\ d \in Accounts /\ c \in Accounts /\ d # c /\ a \in Int
    BY <2>1, <1>a, <1>2, <1>j
  <2>3. /\ balance' \in [Accounts -> Int]
        /\ balance'[d] = balance[d] - a /\ balance'[c] = balance[c] + a
        /\ \A x \in Accounts \ {d, c} : balance'[x] = balance[x]
    BY <2>2, <1>b, PostMovesAmount
  <2> QED BY <2>1, <2>3
<1>4. journal' \subseteq Entries
  BY <1>2, <1>a, <1>j, InvestKeys DEF Post, Entries, InvestTypeOK, DbTypeOK
<1>5. txn' \in [TxnKeys -> Rows \cup {NoRow}]
  <2>1. FundRow(s, row) \in Rows
    BY <1>j DEF FundRow, Rows, Types
  <2> QED BY <2>1, <1>2 DEF InvestTypeOK, DbTypeOK
<1>6. ASSUME NEW i \in Investors
      PROVE  /\ Position(i)' = Position(i) + IF i = row.user THEN row.amount ELSE 0
             /\ Available(i)' = Available(i) - IF i = row.user THEN row.amount ELSE 0
  <2>1. Obligations(i) \in Accounts /\ Deposits(i) \in Accounts
    BY AccountsOfInvestors
  <2>2. balance[Obligations(i)] \in Int /\ balance[Deposits(i)] \in Int
    BY <2>1, <1>b
  <2>3. CASE i = row.user
    BY <2>3, <1>3 DEF Position, Available
  <2>4. CASE i # row.user
    <3>1. Obligations(i) \notin {Deposits(row.user), Obligations(row.user)}
          /\ Deposits(i) \notin {Deposits(row.user), Obligations(row.user)}
      BY <2>4, <1>j, AccountsDiffer, AccountsOfInvestors
    <3> QED BY <3>1, <2>1, <2>2, <2>4, <1>3 DEF Position, Available
  <2> QED BY <2>3, <2>4
<1> QED BY <1>d, <1>3, <1>4, <1>5, <1>6

\* Redeeming takes it back.
LEMMA PaysOutMoves ==
  ASSUME InvestTypeOK, JobsAreFiled, NEW h \in InvestHandlers, PaysOut(h)
  PROVE  /\ balance' \in [Accounts -> Int] /\ journal' \subseteq Entries
         /\ txn' \in [TxnKeys -> Rows \cup {NoRow}]
         /\ \A i \in Investors :
              /\ Position(i)' = Position(i) - IF i = Sub(h).user THEN Sub(h).amount ELSE 0
              /\ Available(i)' = Available(i) + IF i = Sub(h).user THEN Sub(h).amount ELSE 0
<1>d. PICK s, row, k : s = SubKey(h) /\ row = Sub(h) /\ k = ijob[h].redemption
  OBVIOUS
<1>j. /\ s \in Keys /\ row \in Subscriptions /\ row.user \in Investors /\ k \in Keys
      /\ row.amount \in Amounts /\ row.amount \in Int /\ row.ref \in Refs
  BY <1>d, JobTerms DEF PaysOut, RedeemPcs
<1>2. /\ txn' = [txn EXCEPT ![Redeem(k)] = RedeemRow(s, row)]
      /\ Post(Redeem(k), Obligations(row.user), Deposits(row.user), row.amount)
  BY <1>d DEF PaysOut, PutTxn, RedeemEntry
<1>a. /\ Deposits(row.user) \in Accounts /\ Obligations(row.user) \in Accounts
      /\ Deposits(row.user) # Obligations(row.user)
  BY <1>j, AccountsOfInvestors, AccountsDiffer
<1>b. balance \in [Accounts -> Int]
  BY DEF InvestTypeOK, DbTypeOK
<1>3. /\ balance' \in [Accounts -> Int]
      /\ balance'[Deposits(row.user)] = balance[Deposits(row.user)] + row.amount
      /\ balance'[Obligations(row.user)] = balance[Obligations(row.user)] - row.amount
      /\ \A a \in Accounts \ {Deposits(row.user), Obligations(row.user)} : balance'[a] = balance[a]
  <2>1. PICK e, d, c, a : e = Redeem(k) /\ d = Obligations(row.user) /\ c = Deposits(row.user)
                          /\ a = row.amount
    OBVIOUS
  <2>2. Post(e, d, c, a) /\ d \in Accounts /\ c \in Accounts /\ d # c /\ a \in Int
    BY <2>1, <1>a, <1>2, <1>j
  <2>3. /\ balance' \in [Accounts -> Int]
        /\ balance'[d] = balance[d] - a /\ balance'[c] = balance[c] + a
        /\ \A x \in Accounts \ {d, c} : balance'[x] = balance[x]
    BY <2>2, <1>b, PostMovesAmount
  <2> QED BY <2>1, <2>3
<1>4. journal' \subseteq Entries
  BY <1>2, <1>a, <1>j, InvestKeys DEF Post, Entries, InvestTypeOK, DbTypeOK
<1>5. txn' \in [TxnKeys -> Rows \cup {NoRow}]
  <2>1. RedeemRow(s, row) \in Rows
    BY <1>j DEF RedeemRow, Rows, Types
  <2> QED BY <2>1, <1>2 DEF InvestTypeOK, DbTypeOK
<1>6. ASSUME NEW i \in Investors
      PROVE  /\ Position(i)' = Position(i) - IF i = row.user THEN row.amount ELSE 0
             /\ Available(i)' = Available(i) + IF i = row.user THEN row.amount ELSE 0
  <2>1. Obligations(i) \in Accounts /\ Deposits(i) \in Accounts
    BY AccountsOfInvestors
  <2>2. balance[Obligations(i)] \in Int /\ balance[Deposits(i)] \in Int
    BY <2>1, <1>b
  <2>3. CASE i = row.user
    BY <2>3, <1>3 DEF Position, Available
  <2>4. CASE i # row.user
    <3>1. Obligations(i) \notin {Deposits(row.user), Obligations(row.user)}
          /\ Deposits(i) \notin {Deposits(row.user), Obligations(row.user)}
      BY <2>4, <1>j, AccountsDiffer, AccountsOfInvestors
    <3> QED BY <3>1, <2>1, <2>2, <2>4, <1>3 DEF Position, Available
  <2> QED BY <2>3, <2>4
<1> QED BY <1>d, <1>3, <1>4, <1>5, <1>6

-----------------------------------------------------------------------------
(***************************************************************************)
(* What is true of one handler.                                            *)
(***************************************************************************)

JobFiled(h) == ijob[h] \in FundJobs \cup RedeemJobs => Sub(h) # NoRow

SeenFunded(h) ==
  ipc[h] \in RedeemPcs \ {"redeem-read"} /\ iseen[h] = "COMPLETED" => Funded(SubKey(h))

LockHeld(h) ==
  ipc[h] \in {"fund-check", "fund-commit", "redeem-check", "redeem-commit"} =>
    lock[<<"investment", Sub(h).user>>] = h

PositionHeld(h) ==
  ipc[h] = "redeem-commit" =>
    iseen[h] = "COMPLETED" /\ Position(Sub(h).user) >= Sub(h).amount

DepositHeld(h) == ipc[h] = "fund-commit" => Available(Sub(h).user) >= Sub(h).amount

AnswerHolds(h) ==
  ipc[h] = "replied" /\ ianswer[h] = "OK" =>
    /\ ijob[h] \in FundJobs => Posted(Fund(SubKey(h)))
    /\ ijob[h] \in RedeemJobs =>
         /\ Posted(Redeem(ijob[h].redemption))
         /\ txn[Redeem(ijob[h].redemption)].about = SubKey(h)
    /\ ijob[h] \in InvestInputs =>
         subs[ijob[h].key] # NoRow /\ SameSubscription(subs[ijob[h].key], ijob[h])

HandlerOK(h) ==
  LocalsOK(h) /\ JobFiled(h) /\ SeenFunded(h) /\ LockHeld(h) /\ PositionHeld(h) /\ AnswerHolds(h)

CoreParts ==
  /\ DbTypeOK /\ subs \in [Keys -> Subscriptions \cup {NoRow}]
  /\ LocalsTypeOK /\ BooksOK /\ NoOverRedemption
  /\ \A h \in InvestHandlers : HandlerOK(h)

LEMMA CoreIsParts == InvestCore <=> CoreParts
<1>1. InvestTypeOK <=> /\ DbTypeOK /\ subs \in [Keys -> Subscriptions \cup {NoRow}]
                       /\ LocalsTypeOK /\ \A h \in InvestHandlers : LocalsOK(h)
  BY DEF InvestTypeOK, LocalsTypeOK, LocalsOK
<1>2. JobsAreFiled <=> \A h \in InvestHandlers : JobFiled(h)
  BY DEF JobsAreFiled, JobFiled
<1>3. SeenWasFunded <=> \A h \in InvestHandlers : SeenFunded(h)
  BY DEF SeenWasFunded, SeenFunded
<1>4. InvestLocksHold <=> \A h \in InvestHandlers : LockHeld(h)
  BY DEF InvestLocksHold, LockHeld
<1>5. PositionsSuffice <=> \A h \in InvestHandlers : PositionHeld(h)
  BY DEF PositionsSuffice, PositionHeld
<1>6. InvestAnswersAreTrue <=> \A h \in InvestHandlers : AnswerHolds(h)
  BY DEF InvestAnswersAreTrue, AnswerHolds
<1>7. BooksOK <=> /\ FundingsAgree /\ FundedOnce
                  /\ RedemptionsAgree /\ RedemptionKeyPaysOnce /\ RedeemedIsPaid
  BY DEF BooksOK
<1>8. (\A h \in InvestHandlers : HandlerOK(h)) <=>
        /\ \A h \in InvestHandlers : LocalsOK(h)
        /\ \A h \in InvestHandlers : JobFiled(h)
        /\ \A h \in InvestHandlers : SeenFunded(h)
        /\ \A h \in InvestHandlers : LockHeld(h)
        /\ \A h \in InvestHandlers : PositionHeld(h)
        /\ \A h \in InvestHandlers : AnswerHolds(h)
  BY DEF HandlerOK
<1> QED BY <1>1, <1>2, <1>3, <1>4, <1>5, <1>6, <1>7, <1>8 DEF InvestCore, CoreParts

\* A handler that does not move loses nothing while the books age, its locks
\* stay its own and nobody redeems from a position it has locked.
LEMMA HandlerFrame ==
  ASSUME InvestTypeOK, BooksOK, NEW h \in InvestHandlers, HandlerOK(h), BooksAge,
         ipc'[h] = ipc[h], ijob'[h] = ijob[h], iseen'[h] = iseen[h], ianswer'[h] = ianswer[h],
         \A l \in LockNames : lock[l] = h => lock'[l] = h,
         \A i \in Investors : lock[<<"investment", i>>] = h =>
           Position(i) \in Int /\ Position(i)' \in Int /\ Position(i)' >= Position(i)
  PROVE  HandlerOK(h)'
<1>k. SubKey(h)' = SubKey(h)
  BY DEF SubKey
<1>1. LocalsOK(h)'
  BY DEF HandlerOK, LocalsOK
<1>j. ASSUME ijob[h] \in FundJobs \cup RedeemJobs
      PROVE  /\ SubKey(h) \in Keys /\ Sub(h) # NoRow /\ Sub(h)' # NoRow
             /\ Sub(h).user \in Investors /\ Sub(h).amount \in Int
             /\ Sub(h)'.user = Sub(h).user /\ Sub(h)'.amount = Sub(h).amount
             /\ Funded(SubKey(h)) => Funded(SubKey(h))'
  <2>1. SubKey(h) \in Keys /\ Sub(h) # NoRow
    BY <1>j DEF HandlerOK, JobFiled, SubKey, FundJobs, RedeemJobs
  <2>2. Sub(h) = subs[SubKey(h)] /\ Sub(h)' = subs'[SubKey(h)]
    BY <1>k DEF Sub
  <2>3. Sub(h) \in Subscriptions
    BY <2>1, <2>2 DEF InvestTypeOK
  <2>4. Sub(h).user \in Investors /\ Sub(h).amount \in Int
    BY <2>3, AmountsAreNumbers DEF Subscriptions
  <2> QED BY <2>1, <2>2, <2>4, <1>k DEF BooksAge, Funded
<1>2. JobFiled(h)'
  BY <1>j DEF JobFiled
<1>p. /\ ipc[h] \in FundPcs => ijob[h] \in FundJobs
      /\ ipc[h] \in RedeemPcs => ijob[h] \in RedeemJobs
  BY DEF HandlerOK, LocalsOK
<1>3. SeenFunded(h)'
  BY <1>j, <1>k, <1>p DEF HandlerOK, SeenFunded
<1>4. LockHeld(h)'
  BY <1>j, <1>p, InvestLockNames DEF HandlerOK, LockHeld, FundPcs, RedeemPcs
<1>5. PositionHeld(h)'
  <2> SUFFICES ASSUME ipc[h] = "redeem-commit"
               PROVE  (Position(Sub(h).user) >= Sub(h).amount)'
    BY DEF HandlerOK, PositionHeld
  <2>1. PICK i : i = Sub(h).user
    OBVIOUS
  <2>2. i \in Investors /\ Sub(h)'.user = i /\ Sub(h)'.amount = Sub(h).amount /\ Sub(h).amount \in Int
    BY <2>1, <1>j, <1>p DEF RedeemPcs
  <2>3. lock[<<"investment", i>>] = h /\ Position(i) >= Sub(h).amount
    BY <2>1 DEF HandlerOK, LockHeld, PositionHeld
  <2>4. Position(i) \in Int /\ Position(i)' \in Int /\ Position(i)' >= Position(i)
    BY <2>2, <2>3
  <2>5. Position(i)' >= Sub(h)'.amount
    BY <2>2, <2>3, <2>4
  <2> QED BY <2>2, <2>5 DEF Position
<1>6. AnswerHolds(h)'
  <2> SUFFICES ASSUME ipc[h] = "replied", ianswer[h] = "OK"
               PROVE  AnswerHolds(h)'
    BY DEF AnswerHolds
  <2>0. PICK job : job = ijob[h]
    OBVIOUS
  <2>1. CASE job \in FundJobs
    BY <2>0, <2>1, <1>k, JobsDiffer DEF HandlerOK, AnswerHolds, BooksAge
  <2>2. CASE job \in RedeemJobs
    <3>1. PICK k \in Keys : k = job.redemption
      BY <2>2 DEF RedeemJobs
    <3>2. Posted(Redeem(k)) /\ txn[Redeem(k)].about = SubKey(h)
      BY <2>0, <2>2, <3>1 DEF HandlerOK, AnswerHolds
    <3>3. txn[Redeem(k)] # NoRow
      BY <3>2, UnpostedHasNoEntry DEF BooksOK, RedemptionKeyPaysOnce
    <3>4. Posted(Redeem(k))' /\ txn'[Redeem(k)].about = SubKey(h)
      BY <3>2, <3>3 DEF BooksAge
    <3> QED BY <2>0, <2>2, <3>1, <3>4, <1>k, JobsDiffer DEF AnswerHolds
  <2>3. CASE job \in InvestInputs
    BY <2>0, <2>3, <1>k, JobsDiffer, InvestConstants
    DEF HandlerOK, AnswerHolds, BooksAge, SameSubscription
  <2> QED BY <2>0, <2>1, <2>2, <2>3 DEF AnswerHolds
<1> QED BY <1>1, <1>2, <1>3, <1>4, <1>5, <1>6 DEF HandlerOK

\* InvestCore and what it says of the handler that moves.
LEMMA CoreOf ==
  ASSUME InvestCore, NEW h \in InvestHandlers
  PROVE  /\ InvestTypeOK /\ JobsAreFiled /\ BooksOK /\ NoOverRedemption
         /\ HandlerOK(h)
         /\ balance \in [Accounts -> Int]
         /\ \A i \in Investors : Position(i) \in Int /\ Available(i) \in Int
<1>1. /\ InvestTypeOK /\ JobsAreFiled /\ NoOverRedemption /\ balance \in [Accounts -> Int]
  BY DEF InvestCore, InvestTypeOK, DbTypeOK
<1>2. \A i \in Investors : Position(i) \in Int /\ Available(i) \in Int
  BY <1>1, AccountsOfInvestors DEF Position, Available
<1> QED BY <1>1, <1>2, CoreIsParts DEF CoreParts

\* Who pays out has seen the subscription funded and the position suffice.
LEMMA PaysOutIsCovered ==
  ASSUME InvestCore, NEW h \in InvestHandlers, PaysOut(h)
  PROVE  /\ Funded(SubKey(h))
         /\ Position(Sub(h).user) >= Sub(h).amount
         /\ lock[<<"investment", Sub(h).user>>] = h
<1>1. HandlerOK(h) /\ ipc[h] = "redeem-commit"
  BY CoreOf DEF PaysOut
<1> QED BY <1>1 DEF HandlerOK, SeenFunded, PositionHeld, LockHeld, RedeemPcs

\* What a step does to the tables and to the positions.
LEMMA TablesStep ==
  ASSUME InvestCore, NEW h \in InvestHandlers, InvestStep(h)
  PROVE  /\ BooksOK' /\ BooksAge
         /\ subs' \in [Keys -> Subscriptions \cup {NoRow}]
         /\ balance' \in [Accounts -> Int] /\ journal' \subseteq Entries
         /\ txn' \in [TxnKeys -> Rows \cup {NoRow}]
         /\ \A i \in Investors : Position(i)' >= Position(i)
                                 \/ lock[<<"investment", i>>] = h
         /\ NoOverRedemption'
<1>0. /\ InvestTypeOK /\ JobsAreFiled /\ BooksOK /\ NoOverRedemption
      /\ balance \in [Accounts -> Int]
      /\ \A i \in Investors : Position(i) \in Int
  BY CoreOf
<1>q. ASSUME UNCHANGED <<balance, journal, txn>>
      PROVE  /\ balance' \in [Accounts -> Int] /\ journal' \subseteq Entries
             /\ txn' \in [TxnKeys -> Rows \cup {NoRow}]
             /\ \A i \in Investors : Position(i)' >= Position(i)
             /\ NoOverRedemption'
  BY <1>0, <1>q DEF InvestTypeOK, DbTypeOK, NoOverRedemption, Position
<1>1. CASE UNCHANGED <<subs, balance, journal, txn>>
  <2>1. SameBooks
    BY <1>1 DEF SameBooks, EntriesUnder
  <2>2. BooksAge
    BY <1>1 DEF BooksAge, Posted
  <2> QED BY <1>0, <1>1, <1>q, <2>1, <2>2, SameBooksKeep DEF InvestTypeOK
<1>2. CASE Files(h)
  BY <1>0, <1>2, <1>q, FilesEffect, FilesKeepsBooks
<1>3. CASE Remarks(h)
  <2>1. UNCHANGED <<balance, journal, txn>>
    BY <1>3 DEF Remarks
  <2> QED BY <2>1, <1>0, <1>3, <1>q, RemarksKeepsBooks
<1>4. CASE PaysIn(h)
  <2>1. Sub(h).amount \in Int /\ Sub(h).amount > 0
    BY <1>0, <1>4, JobTerms DEF PaysIn, FundPcs
  <2>2. \A i \in Investors : Position(i)' >= Position(i)
    BY <1>0, <1>4, <2>1, PaysInMoves
  <2>3. NoOverRedemption'
    <3>1. \A i \in Investors : Position(i)' >= 0
      BY <1>0, <1>4, <2>1, PaysInMoves DEF NoOverRedemption
    <3> QED BY <3>1 DEF NoOverRedemption
  <2> QED BY <2>2, <2>3, <1>0, <1>4, PaysInKeepsBooks, PaysInMoves
<1>5. CASE PaysOut(h)
  <2>1. Sub(h).amount \in Int /\ Sub(h).amount > 0 /\ Sub(h).user \in Investors
    BY <1>0, <1>5, JobTerms DEF PaysOut, RedeemPcs
  <2>2. \A i \in Investors : Position(i)' >= Position(i) \/ lock[<<"investment", i>>] = h
    <3> SUFFICES ASSUME NEW i \in Investors, i # Sub(h).user
                 PROVE  Position(i)' >= Position(i)
      BY <1>5, PaysOutIsCovered
    <3> QED BY <1>0, <1>5, PaysOutMoves
  <2>3. NoOverRedemption'
    <3>1. ASSUME NEW i \in Investors PROVE Position(i)' >= 0
      <4>1. CASE i = Sub(h).user
        <5>1. PICK a : a = Sub(h).amount
          OBVIOUS
        <5>2. Position(i)' = Position(i) - a
          BY <1>0, <1>5, <4>1, <5>1, PaysOutMoves
        <5>3. Position(i) >= a /\ a \in Int
          BY <1>5, <2>1, <4>1, <5>1, PaysOutIsCovered
        <5> QED BY <5>2, <5>3, <1>0
      <4>2. CASE i # Sub(h).user
        BY <1>0, <1>5, <4>2, PaysOutMoves DEF NoOverRedemption
      <4> QED BY <4>1, <4>2
    <3> QED BY <3>1 DEF NoOverRedemption
  <2> QED BY <2>2, <2>3, <1>0, <1>5, PaysOutKeepsBooks, PaysOutMoves, PaysOutIsCovered
<1> QED BY <1>1, <1>2, <1>3, <1>4, <1>5, InvestWrites

\* The handler that moves.
LEMMA MoverHolds ==
  ASSUME InvestCore, NEW h \in InvestHandlers, InvestStep(h)
  PROVE  HandlerOK(h)'
<1>0. /\ InvestTypeOK /\ JobsAreFiled /\ BooksOK /\ HandlerOK(h) /\ BooksAge
      /\ LocalsOK(h) /\ LocalsOK(h)'
  BY CoreOf, TablesStep, StepLocals DEF HandlerOK
<1>t. /\ ipc \in [InvestHandlers -> InvestPcs]
      /\ iseen \in [InvestHandlers -> Statuses \cup {NoRow}]
      /\ ianswer \in [InvestHandlers -> {"NONE", "OK", "REFUSED"}]
      /\ ijob \in [InvestHandlers ->
                    InvestInputs \cup FundJobs \cup RedeemJobs \cup {NoInvestJob}]
  BY <1>0 DEF InvestTypeOK
<1>q. ASSUME UNCHANGED ijob PROVE JobFiled(h)' /\ SubKey(h)' = SubKey(h)
  <2>1. SubKey(h)' = SubKey(h)
    BY <1>q DEF SubKey
  <2>2. ijob[h] \in FundJobs \cup RedeemJobs =>
          SubKey(h) \in Keys /\ subs[SubKey(h)] # NoRow
    BY <1>0 DEF HandlerOK, JobFiled, SubKey, Sub, FundJobs, RedeemJobs
  <2>3. JobFiled(h)'
    BY <2>1, <2>2, <1>q, <1>0 DEF JobFiled, Sub, BooksAge
  <2> QED BY <2>1, <2>3
<1>r. ASSUME NEW answer, InvestReply(h, answer), answer = "OK" => AnswerHolds(h)'
      PROVE  HandlerOK(h)'
  <2>1. ipc'[h] = "replied" /\ ianswer'[h] = answer /\ UNCHANGED ijob
    BY <1>r, <1>t DEF InvestReply
  <2>2. SeenFunded(h)' /\ LockHeld(h)' /\ PositionHeld(h)'
    BY <2>1 DEF SeenFunded, LockHeld, PositionHeld, RedeemPcs
  <2>3. AnswerHolds(h)'
    BY <2>1, <1>r DEF AnswerHolds
  <2> QED BY <1>0, <1>q, <2>1, <2>2, <2>3 DEF HandlerOK
<1>f. ASSUME InvestRefuse(h) PROVE HandlerOK(h)'
  BY <1>f, <1>r DEF InvestRefuse
<1>1. CASE InvestStart(h)
  <2>1. ipc'[h] \in {"subscribe-lookup", "fund-read", "redeem-read"} /\ UNCHANGED subs
    BY <1>1, <1>t DEF InvestStart, SubscribeStart, FundStart, RedeemStart, InvestArrive
  <2>2. JobFiled(h)'
    <3>1. CASE SubscribeStart(h)
      BY <3>1, <1>t, JobsDiffer DEF SubscribeStart, InvestArrive, JobFiled
    <3>2. CASE FundStart(h) \/ RedeemStart(h)
      <4>1. PICK job : ijob'[h] = job /\ subs[job.sub] # NoRow
        BY <3>2, <1>t DEF FundStart, RedeemStart, InvestArrive
      <4> QED BY <4>1, <2>1 DEF JobFiled, Sub, SubKey
    <3> QED BY <1>1, <3>1, <3>2 DEF InvestStart
  <2>3. SeenFunded(h)' /\ LockHeld(h)' /\ PositionHeld(h)' /\ AnswerHolds(h)'
    BY <2>1 DEF SeenFunded, LockHeld, PositionHeld, AnswerHolds, RedeemPcs
  <2> QED BY <1>0, <2>2, <2>3 DEF HandlerOK
<1>2. CASE SubscribeLookup(h)
  <2>1. CASE subs[ijob[h].key] = NoRow
    <3>1. ipc'[h] = "subscribe-insert" /\ UNCHANGED ijob
      BY <1>2, <2>1, <1>t DEF SubscribeLookup, InvestGoto
    <3>2. SeenFunded(h)' /\ LockHeld(h)' /\ PositionHeld(h)' /\ AnswerHolds(h)'
      BY <3>1 DEF SeenFunded, LockHeld, PositionHeld, AnswerHolds, RedeemPcs
    <3> QED BY <1>0, <1>q, <3>1, <3>2 DEF HandlerOK
  <2>2. CASE subs[ijob[h].key] # NoRow
    <3>1. PICK answer : answer = IF SameSubscription(subs[ijob[h].key], ijob[h])
                                 THEN "OK" ELSE "REFUSED"
      OBVIOUS
    <3>2. InvestReply(h, answer) /\ UNCHANGED <<subs, ijob>> /\ ipc[h] = "subscribe-lookup"
      BY <1>2, <2>2, <3>1 DEF SubscribeLookup, InvestReply
    <3>3. ijob[h] \in InvestInputs
      BY <3>2, <1>0 DEF LocalsOK, SubscribePcs
    <3>4. answer = "OK" => AnswerHolds(h)'
      BY <2>2, <3>1, <3>2, <3>3, JobsDiffer DEF AnswerHolds, SameSubscription
    <3> QED BY <3>2, <3>4, <1>r
  <2> QED BY <2>1, <2>2
<1>3. CASE SubscribeInsert(h)
  <2>1. CASE Files(h)
    <3>1. InvestReply(h, "OK") /\ UNCHANGED ijob
      BY <2>1 DEF Files, InvestReply
    <3>2. /\ ijob[h] \in InvestInputs /\ subs'[ijob[h].key] # NoRow
          /\ SameSubscription(subs'[ijob[h].key], ijob[h])
      BY <2>1, <1>0, FilesEffect
    <3>3. AnswerHolds(h)'
      BY <3>1, <3>2, JobsDiffer DEF AnswerHolds, SameSubscription
    <3> QED BY <3>1, <3>3, <1>r
  <2>2. CASE InvestRefuse(h)
    BY <2>2, <1>f
  <2> QED BY <1>3, <2>1, <2>2 DEF SubscribeInsert, Files
<1>4. CASE FundRead(h)
  <2>1. CASE Sub(h).status = "PENDING"
    <3>1. ipc'[h] = "fund-lock" /\ UNCHANGED ijob
      BY <1>4, <2>1, <1>t DEF FundRead, InvestGoto
    <3>2. SeenFunded(h)' /\ LockHeld(h)' /\ PositionHeld(h)' /\ AnswerHolds(h)'
      BY <3>1 DEF SeenFunded, LockHeld, PositionHeld, AnswerHolds, RedeemPcs
    <3> QED BY <1>0, <1>q, <3>1, <3>2 DEF HandlerOK
  <2>2. CASE Sub(h).status # "PENDING"
    <3>1. PICK answer : answer = IF Sub(h).status = "COMPLETED" THEN "OK" ELSE "REFUSED"
      OBVIOUS
    <3>2. InvestReply(h, answer) /\ UNCHANGED <<ijob, journal>> /\ ipc[h] = "fund-read"
      BY <1>4, <2>2, <3>1 DEF FundRead, InvestReply
    <3>3. ijob[h] \in FundJobs /\ SubKey(h) \in Keys /\ subs[SubKey(h)] # NoRow
          /\ Sub(h) = subs[SubKey(h)]
      BY <3>2, <1>0, JobTerms DEF FundPcs
    <3>4. PICK s : s = SubKey(h)
      OBVIOUS
    <3>5. Posted(Fund(s))
      BY <3>3, <3>4, <2>2, <1>0, UnpostedHasNoEntry DEF BooksOK, FundedOnce
    <3>6. AnswerHolds(h)'
      BY <3>2, <3>3, <3>4, <3>5, <1>q, JobsDiffer DEF AnswerHolds, Posted
    <3> QED BY <3>2, <3>6, <1>r
  <2> QED BY <2>1, <2>2
<1>k. ASSUME FundLock(h) \/ RedeemLock(h)
      PROVE  lock'[<<"investment", Sub(h).user>>] = h /\ Sub(h)' = Sub(h) /\ UNCHANGED ijob
  <2>1. <<"investment", Sub(h).user>> \in LockNames
    BY <1>k, <1>0, JobTerms DEF FundLock, RedeemLock, InvestLock, InvestGoto, FundPcs, RedeemPcs
  <2>2. UNCHANGED <<subs, ijob>> /\ TakeLock(<<"investment", Sub(h).user>>, h)
    BY <1>k DEF FundLock, RedeemLock, InvestLock, InvestGoto
  <2> QED BY <2>1, <2>2, <1>0 DEF TakeLock, InvestTypeOK, DbTypeOK, Sub, SubKey
<1>5. CASE FundLock(h)
  <2>1. ipc'[h] = "fund-check"
    BY <1>5, <1>t DEF FundLock, InvestLock, InvestGoto
  <2>2. LockHeld(h)'
    BY <1>5, <1>k DEF LockHeld
  <2>3. SeenFunded(h)' /\ PositionHeld(h)' /\ AnswerHolds(h)'
    BY <2>1 DEF SeenFunded, PositionHeld, AnswerHolds, RedeemPcs
  <2> QED BY <1>0, <1>5, <1>k, <1>q, <2>2, <2>3 DEF HandlerOK
<1>6. CASE FundCheck(h)
  <2>1. CASE Remarks(h)
    <3>1. InvestReply(h, "OK") /\ UNCHANGED <<ijob, journal>> /\ ipc[h] = "fund-check"
      BY <2>1 DEF Remarks, InvestReply
    <3>2. PICK s : s = SubKey(h)
      OBVIOUS
    <3>3. Posted(Fund(s)) /\ ijob[h] \in FundJobs
      BY <2>1, <3>1, <3>2, <1>0, RemarksKeepsBooks DEF LocalsOK, FundPcs
    <3>4. AnswerHolds(h)'
      BY <3>1, <3>2, <3>3, <1>q, JobsDiffer DEF AnswerHolds, Posted
    <3> QED BY <3>1, <3>4, <1>r
  <2>2. CASE InvestGoto(h, "fund-check", "fund-commit") /\ UNCHANGED <<subs, lock>>
    <3>1. ipc'[h] = "fund-commit" /\ UNCHANGED <<ijob, lock>> /\ ipc[h] = "fund-check"
          /\ Sub(h)' = Sub(h)
      BY <2>2, <1>t DEF InvestGoto, Sub, SubKey
    <3>2. LockHeld(h)'
      BY <3>1, <1>0 DEF HandlerOK, LockHeld
    <3>3. SeenFunded(h)' /\ PositionHeld(h)' /\ AnswerHolds(h)'
      BY <3>1 DEF SeenFunded, PositionHeld, AnswerHolds, RedeemPcs
    <3> QED BY <1>0, <1>q, <3>1, <3>2, <3>3 DEF HandlerOK
  <2>3. CASE InvestRefuse(h)
    BY <2>3, <1>f
  <2> QED BY <1>6, <2>1, <2>2, <2>3 DEF FundCheck, Remarks, dbVars
<1>7. CASE FundCommit(h)
  <2>1. CASE PaysIn(h)
    <3>1. InvestReply(h, "OK") /\ UNCHANGED ijob /\ ipc[h] = "fund-commit"
      BY <2>1 DEF PaysIn, InvestReply
    <3>2. Posted(Fund(SubKey(h)))' /\ ijob[h] \in FundJobs
      BY <2>1, <3>1, <1>0, PaysInKeepsBooks DEF LocalsOK, FundPcs
    <3>3. AnswerHolds(h)'
      BY <3>1, <3>2, JobsDiffer DEF AnswerHolds
    <3> QED BY <3>1, <3>3, <1>r
  <2>2. CASE InvestRefuse(h)
    BY <2>2, <1>f
  <2> QED BY <1>7, <2>1, <2>2 DEF FundCommit, PaysIn
<1>8. CASE RedeemRead(h)
  <2>1. ipc'[h] = "redeem-lock" /\ UNCHANGED <<ijob, subs>> /\ iseen'[h] = Sub(h).status
    BY <1>8, <1>t DEF RedeemRead, InvestGoto
  <2>2. SeenFunded(h)'
    <3>1. SubKey(h) \in Keys /\ Sub(h) # NoRow /\ Sub(h) = subs[SubKey(h)]
      BY <1>8, <1>0, JobTerms DEF RedeemRead, InvestGoto, RedeemPcs
    <3> QED BY <2>1, <3>1, <1>q DEF SeenFunded, Funded
  <2>3. LockHeld(h)' /\ PositionHeld(h)' /\ AnswerHolds(h)'
    BY <2>1 DEF LockHeld, PositionHeld, AnswerHolds
  <2> QED BY <1>0, <1>q, <2>1, <2>2, <2>3 DEF HandlerOK
<1>9. CASE RedeemLock(h)
  <2>1. ipc[h] = "redeem-lock" /\ ipc'[h] = "redeem-check" /\ UNCHANGED <<iseen, subs, ijob>>
    BY <1>9, <1>t DEF RedeemLock, InvestLock, InvestGoto
  <2>2. LockHeld(h)'
    BY <1>9, <1>k DEF LockHeld
  <2>3. SeenFunded(h)'
    BY <2>1, <1>0, <1>q DEF HandlerOK, SeenFunded, Funded, RedeemPcs
  <2>4. PositionHeld(h)' /\ AnswerHolds(h)'
    BY <2>1 DEF PositionHeld, AnswerHolds
  <2> QED BY <1>0, <1>q, <2>1, <2>2, <2>3, <2>4 DEF HandlerOK
<1>10. CASE RedeemCheck(h)
  <2> DEFINE prior == txn[Redeem(ijob[h].redemption)]
             redeemable == iseen[h] = "COMPLETED" /\ Position(Sub(h).user) >= Sub(h).amount
  <2>0. ipc[h] = "redeem-check" /\ ijob[h] \in RedeemJobs /\ ijob[h].redemption \in Keys
    BY <1>10, <1>0, JobTerms DEF RedeemCheck, RedeemPcs
  <2>1. CASE prior # NoRow
    <3>1. PICK answer :
            answer = IF prior.about = SubKey(h) /\ prior.user = Sub(h).user
                     THEN "OK" ELSE "REFUSED"
      OBVIOUS
    <3>2. InvestReply(h, answer) /\ UNCHANGED <<ijob, txn, journal>>
      BY <1>10, <2>1, <3>1 DEF RedeemCheck, InvestReply
    <3>3. PICK k \in Keys : k = ijob[h].redemption
      BY <2>0
    <3>4. Posted(Redeem(k))
      BY <2>1, <3>3, <1>0, UnpostedHasNoEntry DEF BooksOK, RedemptionKeyPaysOnce
    <3>5. answer = "OK" => AnswerHolds(h)'
      BY <3>1, <3>2, <3>3, <3>4, <2>0, <1>q, JobsDiffer DEF AnswerHolds, Posted
    <3> QED BY <3>2, <3>5, <1>r
  <2>2. CASE prior = NoRow /\ redeemable
    <3>1. /\ ipc'[h] = "redeem-commit" /\ UNCHANGED <<ijob, iseen, subs, lock, balance>>
          /\ Sub(h)' = Sub(h)
      BY <1>10, <2>2, <1>t DEF RedeemCheck, InvestGoto, dbVars, Sub, SubKey
    <3>2. LockHeld(h)'
      BY <2>0, <3>1, <1>0 DEF HandlerOK, LockHeld
    <3>3. SeenFunded(h)'
      BY <2>0, <3>1, <1>0, <1>q DEF HandlerOK, SeenFunded, Funded, RedeemPcs
    <3>4. PositionHeld(h)'
      BY <2>2, <3>1 DEF PositionHeld, Position
    <3>5. AnswerHolds(h)'
      BY <3>1 DEF AnswerHolds
    <3> QED BY <1>0, <1>q, <3>1, <3>2, <3>3, <3>4, <3>5 DEF HandlerOK
  <2>3. CASE prior = NoRow /\ ~redeemable
    BY <1>10, <2>3, <1>f DEF RedeemCheck
  <2> QED BY <2>1, <2>2, <2>3
<1>11. CASE RedeemCommit(h)
  <2>1. CASE PaysOut(h)
    <3>1. InvestReply(h, "OK") /\ UNCHANGED ijob /\ ipc[h] = "redeem-commit"
      BY <2>1 DEF PaysOut, InvestReply
    <3>2. /\ Posted(Redeem(ijob[h].redemption))' /\ ijob[h] \in RedeemJobs
          /\ (txn[Redeem(ijob[h].redemption)].about = SubKey(h))'
      BY <2>1, <3>1, <1>0, PaysOutKeepsBooks, PaysOutIsCovered DEF LocalsOK, RedeemPcs
    <3>3. AnswerHolds(h)'
      BY <3>1, <3>2, JobsDiffer DEF AnswerHolds
    <3> QED BY <3>1, <3>3, <1>r
  <2>2. CASE InvestRefuse(h)
    BY <2>2, <1>f
  <2> QED BY <1>11, <2>1, <2>2 DEF RedeemCommit, PaysOut, RedeemEntry
<1>12. CASE InvestReturn(h) \/ InvestAbort(h)
  <2>1. ipc'[h] = "idle" /\ ijob'[h] = NoInvestJob
    BY <1>12, <1>t DEF InvestReturn, InvestAbort, InvestForget
  <2>2. JobFiled(h)'
    BY <2>1, JobsDiffer DEF JobFiled
  <2>3. SeenFunded(h)' /\ LockHeld(h)' /\ PositionHeld(h)' /\ AnswerHolds(h)'
    BY <2>1 DEF SeenFunded, LockHeld, PositionHeld, AnswerHolds, RedeemPcs
  <2> QED BY <1>0, <2>2, <2>3 DEF HandlerOK
<1> QED BY <1>1, <1>2, <1>3, <1>4, <1>5, <1>6, <1>7, <1>8, <1>9, <1>10, <1>11, <1>12
        DEF InvestStep, InvestProgress

-----------------------------------------------------------------------------
(***************************************************************************)
(* InvestCore is inductive.                                                *)
(***************************************************************************)

\* Investment handlers are handlers, and nobody is not one of them.
LEMMA InvestHandlersAreHandlers ==
  \A h \in InvestHandlers : h \in Handlers /\ h # Nobody
  BY InvestConstants, SentinelsDistinct

LEMMA StepKeepsCore ==
  ASSUME InvestCore, NEW h \in InvestHandlers, InvestStep(h)
  PROVE  InvestCore'
<1>0. InvestTypeOK /\ JobsAreFiled /\ BooksOK /\ \A g \in InvestHandlers : HandlerOK(g)
  BY CoreOf
<1>1. /\ BooksOK' /\ BooksAge
      /\ subs' \in [Keys -> Subscriptions \cup {NoRow}]
      /\ balance' \in [Accounts -> Int] /\ journal' \subseteq Entries
      /\ txn' \in [TxnKeys -> Rows \cup {NoRow}]
      /\ \A i \in Investors : Position(i)' >= Position(i) \/ lock[<<"investment", i>>] = h
      /\ NoOverRedemption'
  BY TablesStep
<1>2. /\ lock' \in [LockNames -> Handlers \cup {Nobody}]
      /\ \A l \in LockNames : lock[l] \notin {h, Nobody} => lock'[l] = lock[l]
  BY <1>0, InvestLocks
<1>3. DbTypeOK' /\ LocalsTypeOK'
  BY <1>0, <1>1, <1>2, StepLocals DEF DbTypeOK
<1>4. HandlerOK(h)'
  BY MoverHolds
<1>5. ASSUME NEW g \in InvestHandlers \ {h} PROVE HandlerOK(g)'
  <2>1. ipc'[g] = ipc[g] /\ ijob'[g] = ijob[g] /\ iseen'[g] = iseen[g] /\ ianswer'[g] = ianswer[g]
    BY <1>0, OthersKeepLocals
  <2>2. \A l \in LockNames : lock[l] = g => lock'[l] = g
    BY <1>2, InvestHandlersAreHandlers
  <2>3. \A i \in Investors : Position(i) \in Int /\ Position(i)' \in Int
    BY <1>1, CoreOf, AccountsOfInvestors DEF Position
  <2>4. \A i \in Investors : lock[<<"investment", i>>] = g => Position(i)' >= Position(i)
    BY <1>1
  <2> QED BY <1>0, <1>1, <2>1, <2>2, <2>3, <2>4, HandlerFrame
<1>6. \A g \in InvestHandlers : HandlerOK(g)'
  BY <1>4, <1>5
<1>7. CoreParts'
  BY <1>1, <1>3, <1>6 DEF CoreParts
<1> QED BY <1>7, CoreIsParts, PTL

LEMMA InvestStutters ==
  ASSUME InvestCore, UNCHANGED investSpecVars
  PROVE  InvestCore'
<1>u. UNCHANGED <<balance, journal, txn, lock, subs, ipc, ijob, iseen, ianswer>>
  BY DEF investSpecVars, investVars, dbVars
<1>0. InvestTypeOK /\ BooksOK /\ NoOverRedemption /\ \A g \in InvestHandlers : HandlerOK(g)
  BY CoreIsParts DEF CoreParts, InvestCore
<1>1. BooksOK'
  BY <1>u, <1>0, SameBooksKeep DEF SameBooks, EntriesUnder
<1>2. DbTypeOK' /\ LocalsTypeOK' /\ subs' \in [Keys -> Subscriptions \cup {NoRow}]
  BY <1>u, <1>0 DEF InvestTypeOK, DbTypeOK, LocalsTypeOK
<1>3. NoOverRedemption'
  BY <1>u, <1>0 DEF NoOverRedemption, Position
<1>4. BooksAge
  BY <1>u DEF BooksAge, Posted
<1>5. \A i \in Investors : Position(i) \in Int /\ Position(i)' = Position(i)
  BY <1>u, <1>0, AccountsOfInvestors DEF Position, InvestTypeOK, DbTypeOK
<1>6. ASSUME NEW g \in InvestHandlers PROVE HandlerOK(g)'
  BY <1>u, <1>0, <1>4, <1>5, HandlerFrame
<1>7. CoreParts'
  BY <1>1, <1>2, <1>3, <1>6 DEF CoreParts
<1> QED BY <1>7, CoreIsParts, PTL

LEMMA InvestNextCore ==
  ASSUME InvestCore, [InvestNext]_investSpecVars
  PROVE  InvestCore'
  BY StepKeepsCore, InvestStutters DEF InvestNext, InvestStep

LEMMA InvestInitCore == DbInit /\ InvestInit => InvestCore
<1> SUFFICES ASSUME DbInit, InvestInit PROVE InvestCore
  OBVIOUS
<1>1. balance \in [Accounts -> Int]
  <2>1. \A i \in Investors : Opening[i] \in Int /\ 0 - Opening[i] \in Int
    BY OpeningNat
  <2> QED BY <2>1 DEF DbInit, Accounts
<1>2. DbTypeOK
  BY <1>1 DEF DbInit, DbTypeOK, Entries
<1>3. LocalsTypeOK /\ subs \in [Keys -> Subscriptions \cup {NoRow}]
  BY DEF InvestInit, LocalsTypeOK, InvestPcs
<1>4. BooksOK
  <2>1. \A k \in Keys : txn[Fund(k)] = NoRow /\ txn[Redeem(k)] = NoRow
    BY InvestKeys DEF DbInit
  <2>2. \A k \in Keys : subs[k] = NoRow
    BY DEF InvestInit
  <2>3. \A key : EntriesUnder(key) = {}
    BY DEF DbInit, EntriesUnder
  <2> QED BY <2>1, <2>2, <2>3
      DEF BooksOK, FundingsAgree, Funded, FundedOnce, RedemptionsAgree,
          RedemptionKeyPaysOnce, RedeemedIsPaid
<1>5. NoOverRedemption
  <2>1. \A i \in Investors : balance[Obligations(i)] = 0
    BY AccountsOfInvestors DEF DbInit, Obligations, Accounts
  <2> QED BY <2>1 DEF NoOverRedemption, Position
<1>6. ASSUME NEW h \in InvestHandlers PROVE HandlerOK(h)
  <2>1. ipc[h] = "idle" /\ ijob[h] = NoInvestJob
    BY DEF InvestInit
  <2> QED BY <2>1, JobsDiffer
      DEF HandlerOK, LocalsOK, JobFiled, SeenFunded, LockHeld, PositionHeld, AnswerHolds,
          SubscribePcs, FundPcs, RedeemPcs
<1> QED BY <1>2, <1>3, <1>4, <1>5, <1>6, CoreIsParts DEF CoreParts

-----------------------------------------------------------------------------
(***************************************************************************)
(* Alone, investments do not overdraw the cash balance either.             *)
(***************************************************************************)

CashOK == DepositsSuffice /\ NoOverdraft

LEMMA CashStep ==
  ASSUME InvestCore, CashOK, NEW h \in InvestHandlers, InvestStep(h)
  PROVE  CashOK'
<1> USE DEF CashOK
<1>0. /\ InvestTypeOK /\ JobsAreFiled /\ BooksAge
      /\ \A i \in Investors : Available(i) \in Int
      /\ \A g \in InvestHandlers : HandlerOK(g)
  BY CoreOf, TablesStep
<1>1. /\ \A i \in Investors : Available(i)' >= Available(i) \/ lock[<<"investment", i>>] = h
      /\ \A i \in Investors : Available(i)' \in Int
      /\ NoOverdraft'
  <2>1. CASE UNCHANGED balance
    BY <1>0, <2>1 DEF Available, NoOverdraft
  <2>2. CASE PaysIn(h)
    <3>1. PICK u, a : u = Sub(h).user /\ a = Sub(h).amount
      OBVIOUS
    <3>2. /\ u \in Investors /\ a \in Int
          /\ Available(u) >= a /\ lock[<<"investment", u>>] = h
      BY <1>0, <2>2, <3>1, JobTerms DEF PaysIn, FundPcs, DepositsSuffice, HandlerOK, LockHeld
    <3>3. \A i \in Investors : Available(i)' = Available(i) - IF i = u THEN a ELSE 0
      BY <1>0, <2>2, <3>1, PaysInMoves
    <3>4. \A i \in Investors : Available(i)' >= Available(i) \/ lock[<<"investment", i>>] = h
      BY <1>0, <3>2, <3>3
    <3>5. \A i \in Investors : Available(i)' \in Int /\ Available(i)' >= 0
      BY <1>0, <3>2, <3>3 DEF NoOverdraft
    <3> QED BY <3>4, <3>5 DEF NoOverdraft
  <2>3. CASE PaysOut(h)
    <3>1. PICK u, a : u = Sub(h).user /\ a = Sub(h).amount
      OBVIOUS
    <3>2. a \in Int /\ a > 0
      BY <1>0, <2>3, <3>1, JobTerms DEF PaysOut, RedeemPcs
    <3>3. \A i \in Investors : Available(i)' = Available(i) + IF i = u THEN a ELSE 0
      BY <1>0, <2>3, <3>1, PaysOutMoves
    <3>4. \A i \in Investors : Available(i)' >= Available(i) /\ Available(i)' \in Int
      BY <1>0, <3>2, <3>3
    <3> QED BY <1>0, <3>4 DEF NoOverdraft
  <2> QED BY <2>1, <2>2, <2>3, InvestWrites DEF Files, Remarks
<1>2. ASSUME NEW g \in InvestHandlers \ {h} PROVE DepositHeld(g)'
  <2> SUFFICES ASSUME ipc[g] = "fund-commit" PROVE (Available(Sub(g).user) >= Sub(g).amount)'
    BY <1>0, OthersKeepLocals DEF DepositHeld
  <2>1. PICK u, a, s : u = Sub(g).user /\ a = Sub(g).amount /\ s = SubKey(g)
    OBVIOUS
  <2>2. /\ u \in Investors /\ a \in Int /\ s \in Keys /\ Sub(g) # NoRow /\ Sub(g) = subs[s]
    BY <1>0, <2>1, JobTerms DEF FundPcs
  <2>3. Available(u) >= a /\ lock[<<"investment", u>>] = g
    BY <1>0, <2>1 DEF DepositsSuffice, HandlerOK, LockHeld
  <2>4. Sub(g)'.user = u /\ Sub(g)'.amount = a
    BY <1>0, <2>1, <2>2, OthersKeepLocals DEF Sub, SubKey, BooksAge
  <2>5. Available(u)' >= a
    BY <1>0, <1>1, <2>2, <2>3
  <2> QED BY <2>4, <2>5 DEF Available
<1>3. DepositHeld(h)'
  <2> SUFFICES ASSUME ipc'[h] = "fund-commit" PROVE (Available(Sub(h).user) >= Sub(h).amount)'
    BY DEF DepositHeld
  <2>1. FundCheck(h) /\ Available(Sub(h).user) >= Sub(h).amount /\ UNCHANGED <<subs, ijob, balance>>
    BY <1>0
    DEF InvestStep, InvestStart, InvestProgress, SubscribeStart, FundStart, RedeemStart,
        InvestArrive, SubscribeLookup, SubscribeInsert, FundRead, FundLock, InvestLock,
        FundCheck, FundCommit, RedeemRead, RedeemLock, RedeemCheck, RedeemCommit,
        InvestReturn, InvestAbort, InvestForget, InvestReply, InvestRefuse, InvestGoto,
        InvestTypeOK, dbVars
  <2> QED BY <2>1 DEF Sub, SubKey, Available
<1>4. DepositsSuffice'
  BY <1>2, <1>3 DEF DepositsSuffice, DepositHeld
<1> QED BY <1>1, <1>4

LEMMA InvestInitInv == InvestSpecInit => InvestInv
<1> SUFFICES ASSUME InvestSpecInit PROVE InvestInv
  OBVIOUS
<1>1. InvestCore
  BY InvestInitCore DEF InvestSpecInit
<1>2. NoOverdraft
  <2>1. \A i \in Investors : balance[Deposits(i)] = Opening[i]
    BY AccountsOfInvestors DEF InvestSpecInit, DbInit, Deposits, Accounts
  <2> QED BY <2>1, OpeningNat DEF NoOverdraft, Available
<1>3. DepositsSuffice
  BY DEF InvestSpecInit, InvestInit, DepositsSuffice
<1> QED BY <1>1, <1>2, <1>3 DEF InvestInv

LEMMA InvestNextInv == InvestInv /\ [InvestNext]_investSpecVars => InvestInv'
<1> SUFFICES ASSUME InvestInv, [InvestNext]_investSpecVars PROVE InvestInv'
  OBVIOUS
<1>1. InvestCore'
  BY InvestNextCore DEF InvestInv
<1>2. CASE UNCHANGED investSpecVars
  BY <1>1, <1>2
  DEF InvestInv, investSpecVars, investVars, dbVars, DepositsSuffice, NoOverdraft, Available,
      Sub, SubKey
<1>3. ASSUME NEW h \in InvestHandlers, InvestStep(h) PROVE InvestInv'
  BY <1>1, <1>3, CashStep DEF InvestInv, CashOK
<1> QED BY <1>2, <1>3 DEF InvestNext, InvestStep

\* The inductive invariant of subscriptions that are created, funded and
\* redeemed by any number of handlers, for any investors, keys and amounts.
THEOREM InvestInvariant == InvestSpec => []InvestInv
  BY InvestInitInv, InvestNextInv, PTL DEF InvestSpec

\* fund pays a subscription in once, in its amount, whoever retries or races.
THEOREM SubscriptionsFundedOnce == InvestSpec => []FundedOnce
<1>1. InvestInv => FundedOnce
  BY DEF InvestInv, InvestCore
<1> QED BY <1>1, InvestInvariant, PTL

\* redeem pays a key out once, in the amount of the subscription it names,
\* although keys are shared by all subscriptions and investors.
THEOREM RedemptionsPayOnce == InvestSpec => []RedemptionKeyPaysOnce
<1>1. InvestInv => RedemptionKeyPaysOnce
  BY DEF InvestInv, InvestCore
<1> QED BY <1>1, InvestInvariant, PTL

\* A REDEEMED subscription was paid out, and whatever was paid out was paid in.
THEOREM RedeemedWasPaid == InvestSpec => []RedeemedIsPaid
<1>1. InvestInv => RedeemedIsPaid
  BY DEF InvestInv, InvestCore
<1> QED BY <1>1, InvestInvariant, PTL

\* redeem never pays out of a position that the investor does not have, and
\* fund never out of cash that is not there, as long as nobody else spends it.
THEOREM InvestmentsNeverOverdraw == InvestSpec => [](NoOverRedemption /\ NoOverdraft)
<1>1. InvestInv => NoOverRedemption /\ NoOverdraft
  BY DEF InvestInv, InvestCore
<1> QED BY <1>1, InvestInvariant, PTL

\* What create, fund and redeem answer is true of the books.
THEOREM InvestmentsAnswerTruly == InvestSpec => []InvestAnswersAreTrue
<1>1. InvestInv => InvestAnswersAreTrue
  BY DEF InvestInv, InvestCore
<1> QED BY <1>1, InvestInvariant, PTL

-----------------------------------------------------------------------------
(***************************************************************************)
(* Beside each other: payments leave investments their books, positions    *)
(* and locks, and investments leave payments their rows, entries and locks.*)
(***************************************************************************)

\* Posting spares every account it does not name.
LEMMA PostSpares ==
  ASSUME balance \in [Accounts -> Int], NEW key, NEW debit, NEW credit, NEW amount,
         Post(key, debit, credit, amount),
         NEW other \in Accounts, other # debit, other # credit
  PROVE  balance'[other] = balance[other]
  BY DEF Post

\* Wallet requests and transfers write rows under raw keys and entries between
\* acct_1100 and acct_2100.
LEMMA PaymentsSpareBooks ==
  ASSUME PaymentsCore, [PaymentsNext]_paymentVars
  PROVE  /\ \A k \in Keys : txn'[Fund(k)] = txn[Fund(k)] /\ txn'[Redeem(k)] = txn[Redeem(k)]
         /\ \A k \in Keys : /\ EntriesUnder(Fund(k))' = EntriesUnder(Fund(k))
                            /\ EntriesUnder(Redeem(k))' = EntriesUnder(Redeem(k))
         /\ \A key : Posted(key) => Posted(key)'
         /\ \A i \in Investors : Position(i)' = Position(i)
<1> DEFINE Spared ==
      /\ \A k \in Keys : /\ EntriesUnder(Fund(k))' = EntriesUnder(Fund(k))
                         /\ EntriesUnder(Redeem(k))' = EntriesUnder(Redeem(k))
      /\ \A key : Posted(key) => Posted(key)'
      /\ \A i \in Investors : Position(i)' = Position(i)
    RowsSpared ==
      \A k \in Keys : txn'[Fund(k)] = txn[Fund(k)] /\ txn'[Redeem(k)] = txn[Redeem(k)]
<1>b. balance \in [Accounts -> Int]
  BY DEF PaymentsCore, PaymentsTypeOK, DbTypeOK
<1>r. ASSUME NEW k \in Keys, NEW row, PutTxn(Raw(k), row) PROVE RowsSpared
  BY <1>r, OneRowChanges, InvestKeys
<1>q. ASSUME UNCHANGED <<balance, journal>> PROVE Spared
  BY <1>q DEF EntriesUnder, Posted, Position
<1>p. ASSUME NEW key, NEW d, NEW c, NEW a, Post(key, d, c, a),
             \A k \in Keys : key # Fund(k) /\ key # Redeem(k),
             \A i \in Investors : Obligations(i) # d /\ Obligations(i) # c
      PROVE  Spared
  <2>1. \A k \in Keys : /\ EntriesUnder(Fund(k))' = EntriesUnder(Fund(k))
                        /\ EntriesUnder(Redeem(k))' = EntriesUnder(Redeem(k))
    BY <1>p, PostAddsEntry
  <2>2. \A other : Posted(other) => Posted(other)'
    BY <1>p, PostRecordsKey
  <2>3. \A i \in Investors : Position(i)' = Position(i)
    BY <1>p, <1>b, PostSpares, AccountsOfInvestors DEF Position
  <2> QED BY <2>1, <2>2, <2>3
<1>1. CASE UNCHANGED <<balance, journal, txn>>
  BY <1>1, <1>q
<1>2. ASSUME NEW h \in WalletHandlers, Inserts(h) PROVE Spared /\ RowsSpared
  BY <1>2, <1>q, <1>r, InsertEffect
<1>3. ASSUME NEW h \in WalletHandlers, RejectCommit(h) PROVE Spared /\ RowsSpared
  <2>1. UNCHANGED <<balance, journal>>
    BY <1>3 DEF RejectCommit
  <2> QED BY <1>3, <2>1, <1>q, <1>r, VerdictEffect
<1>4. ASSUME NEW h \in WalletHandlers, Approves(h) PROVE Spared /\ RowsSpared
  <2>1. PICK e : e = WalletEntry(WalletKey(h), Request(h))
    OBVIOUS
  <2>2. /\ WalletKey(h) \in Keys /\ Request(h).user \in Investors
        /\ \E status : PutTxn(Raw(WalletKey(h)), [Request(h) EXCEPT !.status = status])
    <3>1. WalletKey(h) \in Keys /\ Request(h) \in Rows
      BY <1>4, VerdictEffect
    <3>2. \E status : PutTxn(Raw(WalletKey(h)), [Request(h) EXCEPT !.status = status])
      BY <1>4, VerdictEffect
    <3> QED BY <3>1, <3>2 DEF Rows
  <2>3. Post(e.key, e.debit, e.credit, e.amount)
    BY <1>4, <2>1 DEF Approves
  <2>4. e.key = <<"wallet:", WalletKey(h)>>
        /\ \A i \in Investors : Obligations(i) # e.debit /\ Obligations(i) # e.credit
    BY <2>1, <2>2, AccountsDiffer DEF WalletEntry
  <2>5. Spared
    BY <2>3, <2>4, <1>p, InvestKeys
  <2> QED BY <2>2, <2>5, <1>r
<1>5. ASSUME NEW h \in TransferHandlers, Moves(h) PROVE Spared /\ RowsSpared
  <2>1. PICK e : e = TransferEntry(tjob[h])
    OBVIOUS
  <2>2. /\ tjob[h].key \in Keys /\ tjob[h].src \in Investors /\ tjob[h].dst \in Investors
        /\ PutTxn(Raw(tjob[h].key), TransferRow(tjob[h]))
    BY <1>5, MoveEffect
  <2>3. Post(e.key, e.debit, e.credit, e.amount)
    BY <1>5, <2>1 DEF Moves
  <2>4. e.key = Raw(tjob[h].key)
        /\ \A i \in Investors : Obligations(i) # e.debit /\ Obligations(i) # e.credit
    BY <2>1, <2>2, AccountsDiffer DEF TransferEntry
  <2>5. Spared
    BY <2>3, <2>4, <1>p, InvestKeys
  <2> QED BY <2>2, <2>5, <1>r
<1> QED BY <1>1, <1>2, <1>3, <1>4, <1>5, WritingSteps

\* Neither service takes or gives back a lock that an investment handler holds.
LEMMA PaymentsSpareLocks ==
  ASSUME PaymentsCore, [PaymentsNext]_paymentVars
  PROVE  \A l \in LockNames : lock[l] \in InvestHandlers => lock'[l] = lock[l]
<1> DEFINE Spared == \A l \in LockNames : lock[l] \in InvestHandlers => lock'[l] = lock[l]
<1>b. lock \in [LockNames -> Handlers \cup {Nobody}] /\ PaymentsTypeOK
  BY DEF PaymentsCore, PaymentsTypeOK, DbTypeOK
<1>r. ASSUME NEW h \in WalletHandlers \cup TransferHandlers,
             \A l \in LockNames : lock[l] # h => lock'[l] = lock[l]
      PROVE  Spared
  BY <1>r, BankHandlersDisjoint
<1>e. ASSUME NEW h \in WalletHandlers \cup TransferHandlers, ReleaseLocks(h) PROVE Spared
  BY <1>e, <1>r DEF ReleaseLocks
<1>k. ASSUME NEW h, NEW name, TakeLock(name, h) PROVE Spared
  BY <1>k, <1>b, InvestHandlersAreHandlers DEF TakeLock
<1>u. ASSUME UNCHANGED lock PROVE Spared
  BY <1>u
<1> HIDE DEF Spared
<1>1. ASSUME NEW h \in WalletHandlers, WalletStep(h), UNCHANGED transferVars PROVE Spared
  <2>1. CASE WalletQuiet(h)
    BY <2>1, <1>r DEF WalletQuiet
  <2>2. CASE Inserts(h) \/ FindsEnough(h)
    BY <2>2, <1>u DEF Inserts, FindsEnough, dbVars
  <2>3. CASE \E from, to : Claims(h, from, to)
    BY <2>3, <1>u DEF Claims, dbVars
  <2>4. CASE ConfirmLock(h)
    BY <2>4, <1>k DEF ConfirmLock
  <2>5. CASE Approves(h) \/ RejectCommit(h)
    BY <2>5, <1>e DEF Approves, RejectCommit, WalletEndTx
  <2> QED BY <1>1, <1>b, <2>1, <2>2, <2>3, <2>4, <2>5, WalletStepKinds
<1>2. ASSUME NEW h \in TransferHandlers, UNCHANGED walletVars,
             TransferStart(h) \/ TransferProgress(h) \/ TransferAbort(h)
      PROVE  Spared
  <2>1. CASE TransferQuiet(h)
    BY <2>1, <1>r DEF TransferQuiet
  <2>2. CASE FindsFunds(h)
    BY <2>2, <1>u DEF FindsFunds, dbVars
  <2>3. CASE TransferLock(h)
    BY <2>3, <1>k DEF TransferLock
  <2>4. CASE Moves(h)
    BY <2>4, <1>e DEF Moves, TransferReply
  <2> QED BY <1>2, <2>1, <2>2, <2>3, <2>4, TransferStepKinds
<1>3. CASE UNCHANGED paymentVars
  BY <1>3, <1>u DEF paymentVars, dbVars
<1> QED BY <1>1, <1>2, <1>3 DEF PaymentsNext, WalletNext, TransferNext, Spared

\* What investments rely on survives every step of the other services.
LEMMA PaymentsKeepInvestCore ==
  ASSUME PaymentsCore, InvestCore, [PaymentsNext]_paymentVars, UNCHANGED investVars
  PROVE  InvestCore'
<1>u. UNCHANGED <<subs, ipc, ijob, iseen, ianswer>>
  BY DEF investVars
<1>0. /\ InvestTypeOK /\ BooksOK /\ NoOverRedemption /\ LocalsTypeOK
      /\ \A g \in InvestHandlers : HandlerOK(g)
  BY CoreIsParts DEF CoreParts, InvestCore
<1>1. BooksOK'
  BY <1>u, <1>0, PaymentsSpareBooks, SameBooksKeep DEF SameBooks
<1>2. DbTypeOK'
  BY NextType DEF PaymentsTypeOK
<1>3. LocalsTypeOK' /\ subs' \in [Keys -> Subscriptions \cup {NoRow}]
  BY <1>u, <1>0 DEF InvestTypeOK, LocalsTypeOK
<1>4. \A i \in Investors : Position(i) \in Int /\ Position(i)' = Position(i)
  BY <1>0, PaymentsSpareBooks, AccountsOfInvestors DEF Position, InvestTypeOK, DbTypeOK
<1>5. NoOverRedemption'
  <2>1. \A i \in Investors : Position(i)' >= 0
    BY <1>0, <1>4 DEF NoOverRedemption
  <2> QED BY <2>1 DEF NoOverRedemption
<1>6. BooksAge
  BY <1>u, PaymentsSpareBooks DEF BooksAge
<1>7. ASSUME NEW g \in InvestHandlers PROVE HandlerOK(g)'
  <2>1. \A l \in LockNames : lock[l] = g => lock'[l] = g
    BY PaymentsSpareLocks
  <2>2. ipc'[g] = ipc[g] /\ ijob'[g] = ijob[g] /\ iseen'[g] = iseen[g] /\ ianswer'[g] = ianswer[g]
    BY <1>u
  <2>3. \A i \in Investors :
          Position(i) \in Int /\ Position(i)' \in Int /\ Position(i)' >= Position(i)
    BY <1>4
  <2> QED BY <1>0, <1>6, <2>1, <2>2, <2>3, HandlerFrame
<1>8. CoreParts'
  BY <1>1, <1>2, <1>3, <1>5, <1>7 DEF CoreParts
<1> QED BY <1>8, CoreIsParts, PTL

\* Investments write rows and entries under keys of their own.
LEMMA InvestmentsSpareRows ==
  ASSUME InvestCore, NEW h \in InvestHandlers, InvestStep(h)
  PROVE  /\ \A k \in Keys : txn'[Raw(k)] = txn[Raw(k)]
         /\ \A k \in Keys : EntriesUnder(Raw(k))' = EntriesUnder(Raw(k))
         /\ \A k \in Keys : Posted(<<"wallet:", k>>)' <=> Posted(<<"wallet:", k>>)
<1> DEFINE Spared ==
      /\ \A k \in Keys : txn'[Raw(k)] = txn[Raw(k)]
      /\ \A k \in Keys : EntriesUnder(Raw(k))' = EntriesUnder(Raw(k))
      /\ \A k \in Keys : Posted(<<"wallet:", k>>)' <=> Posted(<<"wallet:", k>>)
<1>0. InvestTypeOK /\ JobsAreFiled /\ txn \in [TxnKeys -> Rows \cup {NoRow}]
  BY DEF InvestCore, InvestTypeOK, DbTypeOK
<1>q. ASSUME UNCHANGED <<journal, txn>> PROVE Spared
  BY <1>q DEF EntriesUnder, Posted
<1>p. ASSUME NEW key, NEW row, NEW d, NEW c, NEW a, Post(key, d, c, a), PutTxn(key, row),
             \A k \in Keys : key # Raw(k) /\ key # <<"wallet:", k>>
      PROVE  Spared
  <2>1. \A k \in Keys : txn'[Raw(k)] = txn[Raw(k)]
    BY <1>p, <1>0, RawKeys DEF PutTxn
  <2>2. \A k \in Keys : EntriesUnder(Raw(k))' = EntriesUnder(Raw(k))
    BY <1>p, PostAddsEntry
  <2>3. \A k \in Keys : Posted(<<"wallet:", k>>)' <=> Posted(<<"wallet:", k>>)
    BY <1>p, PostRecordsKey
  <2> QED BY <2>1, <2>2, <2>3
<1>1. CASE PaysIn(h)
  <2>1. PICK s, row, e : s = SubKey(h) /\ row = FundRow(s, Sub(h)) /\ e = FundEntry(s, Sub(h))
    OBVIOUS
  <2>2. PutTxn(Fund(s), row) /\ Post(Fund(s), e.debit, e.credit, e.amount)
    BY <1>1, <2>1 DEF PaysIn, FundEntry
  <2> QED BY <2>2, <1>p, InvestKeys
<1>2. CASE PaysOut(h)
  <2>1. PICK k, row, e : /\ k = ijob[h].redemption /\ row = RedeemRow(SubKey(h), Sub(h))
                         /\ e = RedeemEntry(k, Sub(h))
    OBVIOUS
  <2>2. PutTxn(Redeem(k), row) /\ Post(Redeem(k), e.debit, e.credit, e.amount)
    BY <1>2, <2>1 DEF PaysOut, RedeemEntry
  <2> QED BY <2>2, <1>p, InvestKeys
<1>3. CASE UNCHANGED <<journal, txn>>
  BY <1>3, <1>q
<1> QED BY <1>1, <1>2, <1>3, InvestWrites DEF Files, Remarks

\* What payments rely on survives every step of an investment handler.
LEMMA InvestmentsKeepPaymentsCore ==
  ASSUME PaymentsCore, InvestCore, NEW h \in InvestHandlers, InvestStep(h),
         UNCHANGED <<walletVars, transferVars>>
  PROVE  PaymentsCore'
<1>u. UNCHANGED <<wpc, wjob, wanswer, claim, audit, tpc, tjob, tanswer>>
  BY DEF walletVars, transferVars
<1>s. /\ \A k \in Keys : txn'[Raw(k)] = txn[Raw(k)]
      /\ \A k \in Keys : Posted(<<"wallet:", k>>)' <=> Posted(<<"wallet:", k>>)
  BY InvestmentsSpareRows
<1>l. \A l \in LockNames : lock[l] \in WalletHandlers \cup TransferHandlers => lock'[l] = lock[l]
  <2>1. \A g \in WalletHandlers \cup TransferHandlers : g \notin {h, Nobody}
    BY BankHandlersDisjoint, WalletConstants, TransferConstants, SentinelsDistinct
  <2> QED BY <2>1, InvestLocks DEF InvestCore
<1> USE DEF PaymentsCore
<1>1. PaymentsTypeOK'
  <2>1. DbTypeOK'
    BY StepKeepsCore DEF InvestCore, InvestTypeOK
  <2>2. WalletTypeOK' /\ TransferTypeOK'
    BY <1>u DEF PaymentsTypeOK, WalletTypeOK, TransferTypeOK
  <2> QED BY <2>1, <2>2 DEF PaymentsTypeOK
<1>k. ASSUME NEW g \in WalletHandlers, wpc[g] \in ClaimPcs
      PROVE  WalletKey(g) \in Keys /\ WalletKey(g)' = WalletKey(g) /\ Request(g)' = Request(g)
             /\ Request(g).user \in Investors
  <2>1. WalletKey(g) \in Keys /\ Request(g) \in Rows
    BY <1>k, ClaimedRow DEF Request
  <2>2. WalletKey(g)' = WalletKey(g)
    BY <1>u DEF WalletKey
  <2> QED BY <2>1, <2>2, <1>s DEF Request, Rows
<1>2. ClaimsHold'
  BY <1>u, <1>k DEF ClaimsHold
<1>3. LocksHold'
  <2>1. ASSUME NEW g \in WalletHandlers, wpc[g] \in {"confirm-check", "confirm-commit"}
        PROVE  lock'[<<"transfer", Request(g)'.user>>] = g
    <3>1. lock[<<"transfer", Request(g).user>>] = g
      BY <2>1 DEF LocksHold
    <3>2. Request(g)' = Request(g) /\ <<"transfer", Request(g).user>> \in LockNames
      BY <2>1, <1>k, LockNamesOfInvestors DEF ClaimPcs
    <3> QED BY <3>1, <3>2, <1>l
  <2>2. ASSUME NEW g \in TransferHandlers, tpc[g] \in {"check", "commit"}
        PROVE  lock'[<<"transfer", tjob[g].src>>] = g
    <3>1. lock[<<"transfer", tjob[g].src>>] = g
      BY <2>2 DEF LocksHold
    <3>2. <<"transfer", tjob[g].src>> \in LockNames
      BY <2>2, TransferTerms
    <3> QED BY <3>1, <3>2, <1>l
  <2> QED BY <2>1, <2>2, <1>u DEF LocksHold
<1>4. OnlyRequestsPend'
  BY <1>s DEF OnlyRequestsPend
<1>5. TransfersMove'
  BY <1>u DEF TransfersMove
<1>6. OneVerdict'
  BY <1>u, <1>s DEF OneVerdict
<1> QED BY <1>1, <1>2, <1>3, <1>4, <1>5, <1>6

\* No two rows with a reference share it: fund checks the unique column that
\* createRequest and createTransfer check, and a redemption has none.
LEMMA InvestmentsKeepReferences ==
  ASSUME InvestCore, OneRowPerReference, NEW h \in InvestHandlers, InvestStep(h)
  PROVE  OneRowPerReference'
<1>0. InvestTypeOK /\ JobsAreFiled /\ txn \in [TxnKeys -> Rows \cup {NoRow}]
  BY DEF InvestCore, InvestTypeOK, DbTypeOK
<1>1. CASE PaysIn(h)
  <2>1. PICK key, row : key = Fund(SubKey(h)) /\ row = FundRow(SubKey(h), Sub(h))
    OBVIOUS
  <2>2. /\ key \in TxnKeys
        /\ txn' = [txn EXCEPT ![key] = row] /\ Insertable(key, row) /\ row.ref = Sub(h).ref
        /\ Sub(h).ref \in Refs
    BY <1>0, <1>1, <2>1, JobTerms, InvestKeys DEF PaysIn, FundPcs, PutTxn, FundRow
  <2>3. row.ref # NoRow /\ \A j \in TxnKeys : txn[j] # NoRow => txn[j].ref # row.ref
    BY <2>2, AnswersDistinct DEF Insertable, RefTaken
  <2>4. txn'[key] = row /\ \A j \in TxnKeys \ {key} : txn'[j] = txn[j]
    BY <2>2, <1>0
  <2> QED BY <2>3, <2>4 DEF OneRowPerReference
<1>2. CASE PaysOut(h)
  <2>1. PICK key, row : /\ key = Redeem(ijob[h].redemption)
                        /\ row = RedeemRow(SubKey(h), Sub(h))
    OBVIOUS
  <2>2. /\ key \in TxnKeys
        /\ txn' = [txn EXCEPT ![key] = row] /\ row.ref = NoRow
    BY <1>0, <1>2, <2>1, JobTerms, InvestKeys DEF PaysOut, RedeemPcs, PutTxn, RedeemRow
  <2>3. txn'[key] = row /\ \A j \in TxnKeys \ {key} : txn'[j] = txn[j]
    BY <2>2, <1>0
  <2> QED BY <2>2, <2>3 DEF OneRowPerReference
<1>3. CASE UNCHANGED txn
  BY <1>3 DEF OneRowPerReference
<1> QED BY <1>1, <1>2, <1>3, InvestWrites DEF Files, Remarks

\* What createTransfer told stays true: rows are never taken out again.
LEMMA InvestmentsKeepAnswers ==
  ASSUME PaymentsCore, InvestCore, TransferAnswersAreTrue, NEW h \in InvestHandlers,
         InvestStep(h), UNCHANGED transferVars
  PROVE  TransferAnswersAreTrue'
<1>0. InvestTypeOK /\ JobsAreFiled /\ txn \in [TxnKeys -> Rows \cup {NoRow}]
  BY DEF InvestCore, InvestTypeOK, DbTypeOK
<1>1. \A k \in TxnKeys : txn[k] # NoRow => txn'[k] = txn[k]
  <2>1. ASSUME NEW key, NEW row, txn[key] = NoRow, PutTxn(key, row)
        PROVE  \A k \in TxnKeys : txn[k] # NoRow => txn'[k] = txn[k]
    BY <1>0, <2>1 DEF PutTxn
  <2>2. CASE PaysIn(h)
    <3>1. PICK key, row : key = Fund(SubKey(h)) /\ row = FundRow(SubKey(h), Sub(h))
      OBVIOUS
    <3> QED BY <2>1, <2>2, <3>1 DEF PaysIn, Insertable
  <2>3. CASE PaysOut(h)
    <3>1. PICK key, row : key = Redeem(ijob[h].redemption) /\ row = RedeemRow(SubKey(h), Sub(h))
      OBVIOUS
    <3> QED BY <2>1, <2>3, <3>1 DEF PaysOut, Insertable
  <2>4. CASE UNCHANGED txn
    BY <2>4
  <2> QED BY <2>2, <2>3, <2>4, InvestWrites DEF Files, Remarks
<1>2. \A k \in Keys : txn'[Raw(k)] = txn[Raw(k)]
  BY InvestmentsSpareRows
<1>u. UNCHANGED <<tpc, tjob, tanswer>>
  BY DEF transferVars
<1> SUFFICES ASSUME NEW g \in TransferHandlers, tpc[g] = "replied"
             PROVE  IsTrue(tjob[g], tanswer[g])'
  BY <1>u DEF TransferAnswersAreTrue, IsTrue, Own
<1>3. PICK dto, answer : dto = tjob[g] /\ answer = tanswer[g]
  OBVIOUS
<1>4. IsTrue(dto, answer)
  BY <1>3 DEF TransferAnswersAreTrue, IsTrue, Own
<1>5. dto.key \in Keys /\ Raw(dto.key) \in TxnKeys
  BY <1>3, InputRow DEF PaymentsCore, PaymentsTypeOK, TransferTypeOK
<1>6. ~Insertable(Raw(dto.key), TransferRow(dto)) =>
        ~Insertable(Raw(dto.key), TransferRow(dto))'
  BY <1>1, <1>2, <1>5 DEF Insertable, RefTaken, TransferRow
<1>7. IsTrue(dto, answer)'
  BY <1>2, <1>4, <1>5, <1>6 DEF IsTrue, Own, FoundTransfer, TransferRow
<1> QED BY <1>3, <1>7, <1>u DEF IsTrue, Own, FoundTransfer, Insertable, RefTaken, TransferRow

-----------------------------------------------------------------------------
(***************************************************************************)
(* The whole bank.  CashSuffices and DepositsSuffice are not part of it:   *)
(* two locks guard one balance, and the run MCBankOverdraft shows the loss.*)
(***************************************************************************)

BankInv ==
  /\ PaymentsCore /\ InvestCore
  /\ TransferIsItsEntry /\ TransfersDiffer /\ TransferAnswersAreTrue
  /\ OneRowPerReference

LEMMA BankInitHolds == BankInit => BankInv
<1> SUFFICES ASSUME BankInit PROVE BankInv
  OBVIOUS
<1>1. PaymentsCore /\ TransferIsItsEntry /\ TransfersDiffer /\ TransferAnswersAreTrue
  BY InitInv, TransfersInitHolds DEF BankInit, PaymentsInit, PaymentsInv, TransfersInv
<1>2. InvestCore
  BY InvestInitCore DEF BankInit
<1>3. OneRowPerReference
  BY DEF BankInit, DbInit, OneRowPerReference
<1> QED BY <1>1, <1>2, <1>3 DEF BankInv

LEMMA BankStepHolds == BankInv /\ [BankNext]_bankVars => BankInv'
<1> SUFFICES ASSUME BankInv, [BankNext]_bankVars PROVE BankInv'
  OBVIOUS
<1> USE DEF BankInv
<1>1. CASE [PaymentsNext]_paymentVars /\ UNCHANGED investVars
  BY <1>1, NextCore, PaymentsKeepInvestCore, EntriesFollow, TableStaysUnique, AnswersStayTrue
<1>2. CASE InvestNext /\ UNCHANGED <<walletVars, transferVars>>
  <2>1. PICK h \in InvestHandlers : InvestStep(h)
    BY <1>2 DEF InvestNext, InvestStep
  <2>2. PaymentsCore' /\ InvestCore' /\ OneRowPerReference'
    BY <1>2, <2>1, InvestmentsKeepPaymentsCore, StepKeepsCore, InvestmentsKeepReferences
  <2>3. /\ \A k \in Keys : txn'[Raw(k)] = txn[Raw(k)]
        /\ \A k \in Keys : EntriesUnder(Raw(k))' = EntriesUnder(Raw(k))
    BY <2>1, InvestmentsSpareRows
  <2>4. TransfersDiffer'
    BY <2>3 DEF TransfersDiffer, FoundTransfer
  <2>5. TransferIsItsEntry'
    BY <2>3 DEF TransferIsItsEntry, FoundTransfer, EntriesUnder
  <2>6. TransferAnswersAreTrue'
    BY <1>2, <2>1, InvestmentsKeepAnswers
  <2> QED BY <2>2, <2>4, <2>5, <2>6
<1>3. CASE UNCHANGED bankVars
  BY <1>1, <1>3 DEF bankVars, paymentVars
<1> QED BY <1>1, <1>2, <1>3 DEF BankNext

\* The invariants of the three services hold beside each other.
THEOREM BankInvariant == BankSpec => []BankInv
  BY BankInitHolds, BankStepHolds, PTL DEF BankSpec

\* createTransfer, fund and redeem keep what they promise whatever the others
\* do to the same balances and however references and keys collide.
THEOREM ServicesKeepPromises == BankSpec => []ServicesKeepTheirPromises
<1>1. BankInv => ServicesKeepTheirPromises
  BY DEF BankInv, InvestCore, ServicesKeepTheirPromises
<1> QED BY <1>1, BankInvariant, PTL

\* A client's reference names one movement of money, whichever of
\* createRequest, createTransfer and fund it was sent to.
THEOREM ReferencesNameOne == BankSpec => []ReferenceNamesOneTransaction
<1>1. BankInv => ReferenceNamesOneTransaction
  BY DEF BankInv, OneRowPerReference, ReferenceNamesOneTransaction
<1> QED BY <1>1, BankInvariant, PTL

\* The verdicts on wallet requests and the answers of transfers and
\* investments stay as true as they are when each service runs alone, and a
\* redemption is still of what was funded, once per key.
THEOREM BankAnswersTruly ==
  BankSpec => [](/\ OneVerdict /\ TransferAnswersAreTrue /\ InvestAnswersAreTrue
                 /\ RedemptionKeyPaysOnce /\ RedeemedIsPaid)
<1>1. BankInv => /\ OneVerdict /\ TransferAnswersAreTrue /\ InvestAnswersAreTrue
                 /\ RedemptionKeyPaysOnce /\ RedeemedIsPaid
  BY DEF BankInv, PaymentsCore, InvestCore
<1> QED BY <1>1, BankInvariant, PTL

=============================================================================
