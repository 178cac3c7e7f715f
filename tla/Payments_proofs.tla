-------------------------- MODULE Payments_proofs --------------------------
(***************************************************************************)
(* PaymentsInv is an inductive invariant of Payments, for any number of    *)
(* investors, handlers, keys and amounts; the safety properties follow.    *)
(* Each lemma says of a step that it keeps PaymentsCore, and keeps         *)
(* CashSuffices if that held too: Investments_proofs needs only the first. *)
(***************************************************************************)
EXTENDS Payments, FiniteSetTheorems, TLAPS

-----------------------------------------------------------------------------
(***************************************************************************)
(* Lemmas about the tables.                                                *)
(***************************************************************************)

\* Every account of an investor is an account, and the accounts are distinct.
LEMMA AccountsOfInvestors ==
  ASSUME NEW i \in Investors
  PROVE  /\ Cash(i) \in Accounts /\ Deposits(i) \in Accounts
         /\ Obligations(i) \in Accounts
         /\ Cash(i) # Deposits(i)
         /\ \A j \in Investors : Deposits(j) # Cash(i)
         /\ \A j \in Investors : Deposits(j) = Deposits(i) <=> j = i
  BY DEF Cash, Deposits, Obligations, Accounts

\* Raw keys and the advisory lock of an investor's cash are well-typed names.
LEMMA RawKeys ==
  /\ \A k \in Keys : Raw(k) \in TxnKeys
  /\ \A j, k \in Keys : Raw(j) = Raw(k) <=> j = k
  /\ \A k \in Keys : Raw(k) \in EntryKeys /\ <<"wallet:", k>> \in EntryKeys
  BY DEF Raw, TxnKeys, EntryKeys

LEMMA LockNamesOfInvestors ==
  \A i \in Investors : <<"transfer", i>> \in LockNames
  BY DEF LockNames

LEMMA AmountsAreNumbers == \A a \in Amounts : a \in Int /\ a > 0
  BY AmountsPositive

\* Posting keeps balances integral and changes only the two accounts named:
\* the debited one falls by the amount, the credited one rises by it.
LEMMA PostMovesAmount ==
  ASSUME balance \in [Accounts -> Int],
         NEW key, NEW debit \in Accounts, NEW credit \in Accounts, debit # credit,
         NEW amount \in Int, Post(key, debit, credit, amount)
  PROVE  /\ balance' \in [Accounts -> Int]
         /\ balance'[debit] = balance[debit] - amount
         /\ balance'[credit] = balance[credit] + amount
         /\ \A a \in Accounts \ {debit, credit} : balance'[a] = balance[a]
  BY DEF Post

\* Posting records exactly the key it is given.
LEMMA PostRecordsKey ==
  ASSUME NEW key, NEW debit, NEW credit, NEW amount, Post(key, debit, credit, amount),
         NEW other
  PROVE  Posted(other)' <=> Posted(other) \/ other = key
<1> DEFINE new == [key |-> key, debit |-> debit, credit |-> credit, amount |-> amount]
<1>1. journal' = journal \cup {new} /\ new.key = key
  BY DEF Post
<1> HIDE DEF new
<1> QED BY <1>1 DEF Posted

\* The type invariant holds initially.
LEMMA InitType == PaymentsInit => PaymentsTypeOK
<1> SUFFICES ASSUME PaymentsInit PROVE PaymentsTypeOK
  OBVIOUS
<1> USE DEF PaymentsInit
<1>1. balance \in [Accounts -> Int]
  <2>1. \A i \in Investors : Opening[i] \in Int /\ 0 - Opening[i] \in Int
    BY OpeningNat
  <2> QED BY <2>1 DEF DbInit, Accounts
<1>2. DbTypeOK
  BY <1>1 DEF DbInit, DbTypeOK, Entries
<1>3. WalletTypeOK
  BY DEF WalletInit, WalletTypeOK, WalletPcs, Jobs, NoJob, Answers, Events, CreatePcs
<1>4. TransferTypeOK
  BY DEF TransferInit, TransferTypeOK, TransferPcs, TransferAnswers
<1> QED BY <1>2, <1>3, <1>4 DEF PaymentsTypeOK

-----------------------------------------------------------------------------
(***************************************************************************)
(* Steps preserve types.                                                   *)
(***************************************************************************)

\* Giving locks back, or taking a free one, keeps the lock table well typed.
LEMMA LocksType ==
  ASSUME lock \in [LockNames -> Handlers \cup {Nobody}], NEW h \in Handlers,
         \/ ReleaseLocks(h)
         \/ \E name \in LockNames : TakeLock(name, h)
         \/ UNCHANGED lock
  PROVE  lock' \in [LockNames -> Handlers \cup {Nobody}]
  BY DEF ReleaseLocks, TakeLock

\* The end of a settlement transaction resets the handler's locals.
LEMMA WalletEndTxType ==
  ASSUME WalletTypeOK, DbTypeOK, NEW h \in WalletHandlers, WalletEndTx(h),
         audit' \subseteq Events
  PROVE  WalletTypeOK' /\ lock' \in [LockNames -> Handlers \cup {Nobody}]
<1>1. wpc' \in [WalletHandlers -> WalletPcs] /\ wjob' \in [WalletHandlers -> Jobs]
      /\ wanswer' \in [WalletHandlers -> Answers]
      /\ claim' \in [Keys -> WalletHandlers \cup {Nobody}]
  BY DEF WalletTypeOK, WalletEndTx, WalletFinish, WalletPcs, Jobs, NoJob, Answers
<1>2. ASSUME NEW g \in WalletHandlers
      PROVE  /\ wpc'[g] # "idle" => wjob'[g].key \in Keys
             /\ wpc'[g] \in CreatePcs => wjob'[g] \in WalletInputs
  BY DEF WalletTypeOK, WalletEndTx, WalletFinish, CreatePcs
<1>3. lock' \in [LockNames -> Handlers \cup {Nobody}]
  BY LocksType, WalletConstants DEF WalletEndTx, DbTypeOK
<1> QED BY <1>1, <1>2, <1>3 DEF WalletTypeOK

LEMMA WalletRollbackType ==
  ASSUME WalletTypeOK, DbTypeOK, NEW h \in WalletHandlers, WalletRollback(h)
  PROVE  WalletTypeOK' /\ DbTypeOK'
  BY WalletEndTxType DEF WalletRollback, DbTypeOK, WalletTypeOK

\* The steps of createRequest.
LEMMA CreateType ==
  ASSUME WalletTypeOK, DbTypeOK, NEW h \in WalletHandlers, WalletCreate(h)
  PROVE  WalletTypeOK' /\ DbTypeOK'
<1> USE DEF WalletTypeOK, WalletGoto, WalletPcs, CreatePcs, SettlePcs
<1>r. ASSUME NEW answer \in Answers, WalletReply(h, answer),
             wpc[h] \in CreatePcs
      PROVE  WalletTypeOK' /\ DbTypeOK'
  BY <1>r DEF WalletReply, dbVars, DbTypeOK
<1>k. ASSUME NEW k \in Keys, ReplyWithRow(h, k), wpc[h] \in CreatePcs
      PROVE  WalletTypeOK' /\ DbTypeOK'
  BY <1>k, <1>r DEF ReplyWithRow, Answers
<1>1. CASE CreateStart(h)
  <2>1. PICK dto \in WalletInputs : wjob' = [wjob EXCEPT ![h] = dto]
    BY <1>1 DEF CreateStart
  <2>2. dto.key \in Keys
    BY WalletConstants DEF Inputs
  <2>3. WalletTypeOK'
    BY <1>1, <2>1, <2>2 DEF CreateStart, Jobs
  <2> QED BY <1>1, <2>3 DEF CreateStart, dbVars, DbTypeOK
<1>2. CASE CreateLookup(h)
  BY <1>2, <1>k DEF CreateLookup, WalletKey, dbVars, DbTypeOK
<1>3. CASE CreateInsert(h)
  <2>1. wjob[h] \in WalletInputs /\ wjob[h] \in Inputs
    BY <1>3, WalletConstants DEF CreateInsert
  <2>2. CASE PutTxn(Raw(wjob[h].key), NewRequest(wjob[h]))
             /\ wpc' = [wpc EXCEPT ![h] = "replied"]
             /\ wanswer' = [wanswer EXCEPT ![h] = wjob[h].key]
             /\ UNCHANGED <<wjob, claim, audit, balance, journal, lock>>
    <3>1. NewRequest(wjob[h]) \in Rows
      BY <2>1 DEF NewRequest, Rows, Types, Inputs
    <3>2. txn' \in [TxnKeys -> Rows \cup {NoRow}]
      BY <2>1, <2>2, <3>1, RawKeys DEF PutTxn, DbTypeOK, Inputs
    <3>3. WalletTypeOK'
      BY <1>3, <2>1, <2>2 DEF CreateInsert, Answers, Inputs
    <3> QED BY <2>2, <3>2, <3>3 DEF DbTypeOK
  <2>3. CASE /\ WalletGoto(h, "insert", "key-conflict")
             /\ UNCHANGED <<wjob, wanswer, claim, audit, dbVars>>
    BY <2>3, <2>1 DEF dbVars, DbTypeOK
  <2>4. CASE /\ WalletGoto(h, "insert", "ref-conflict")
             /\ UNCHANGED <<wjob, wanswer, claim, audit, dbVars>>
    BY <2>4, <2>1 DEF dbVars, DbTypeOK
  <2> QED BY <1>3, <2>2, <2>3, <2>4 DEF CreateInsert
<1>4. CASE CreateRecover(h)
  <2>1. "P2002" \in Answers
    BY DEF Answers
  <2> QED BY <1>4, <2>1, <1>k, <1>r DEF CreateRecover, WalletKey, dbVars, DbTypeOK
<1>5. CASE CreateRecoverByRef(h)
  <2>1. \A k \in TxnKeys : k[2] \in Keys
    BY DEF TxnKeys
  <2>2. "P2002" \in Answers /\ "IDEMPOTENCY_CONFLICT" \in Answers /\ Keys \subseteq Answers
    BY DEF Answers
  <2> QED BY <1>5, <2>1, <2>2, <1>r DEF CreateRecoverByRef
<1>6. CASE CreateReturn(h)
  <2>1. WalletTypeOK'
    BY <1>6 DEF CreateReturn, WalletFinish, Jobs, NoJob, Answers
  <2> QED BY <1>6, <2>1 DEF CreateReturn, dbVars, DbTypeOK
<1> QED BY <1>1, <1>2, <1>3, <1>4, <1>5, <1>6 DEF WalletCreate

\* A claimed row is a wallet request, and its entry is well typed.
LEMMA ClaimedRow ==
  ASSUME PaymentsCore, NEW h \in WalletHandlers, wpc[h] \in ClaimPcs
  PROVE  /\ WalletKey(h) \in Keys
         /\ Raw(WalletKey(h)) \in TxnKeys
         /\ Request(h) \in Rows
         /\ Request(h).type \in {"DEPOSIT", "WITHDRAWAL"}
         /\ Request(h).status = "PENDING"
         /\ Request(h).user \in Investors
         /\ Request(h).amount \in Amounts
<1>1. WalletKey(h) \in Keys
  BY DEF PaymentsCore, PaymentsTypeOK, WalletTypeOK, WalletKey, ClaimPcs
<1>2. Raw(WalletKey(h)) \in TxnKeys
  BY <1>1, RawKeys
<1>3. Request(h) \in Rows \cup {NoRow}
  BY <1>2 DEF PaymentsCore, PaymentsTypeOK, DbTypeOK, Request
<1>4. Pending(Request(h))
  BY DEF PaymentsCore, ClaimsHold
<1>5. IsWalletRow(Request(h))
  BY <1>1, <1>4 DEF PaymentsCore, OnlyRequestsPend, Request
<1> QED BY <1>1, <1>2, <1>3, <1>4, <1>5 DEF Pending, IsWalletRow, Rows

LEMMA WalletEntryType ==
  ASSUME NEW k \in Keys, NEW row \in Rows
  PROVE  LET e == WalletEntry(k, row) IN
         /\ e \in Entries
         /\ e.key = <<"wallet:", k>> /\ e.amount = row.amount
         /\ e.debit \in Accounts /\ e.credit \in Accounts /\ e.debit # e.credit
<1>1. row.user \in Investors /\ row.amount \in Amounts
  BY DEF Rows
<1>2. <<"wallet:", k>> \in EntryKeys
  BY RawKeys
<1> QED BY <1>1, <1>2, AccountsOfInvestors DEF WalletEntry, Entries

\* The steps of confirmRequest and rejectRequest.
LEMMA SettleType ==
  ASSUME PaymentsCore, NEW h \in WalletHandlers, WalletConfirm(h) \/ WalletReject(h)
  PROVE  WalletTypeOK' /\ DbTypeOK'
<1> USE DEF WalletGoto, WalletPcs, CreatePcs, SettlePcs
<1>t. WalletTypeOK /\ DbTypeOK
  BY DEF PaymentsCore, PaymentsTypeOK
<1>g. ASSUME NEW from, NEW to \in SettlePcs, WalletGoto(h, from, to), from \in SettlePcs,
             UNCHANGED <<wjob, wanswer, audit>>,
             claim' \in [Keys -> WalletHandlers \cup {Nobody}]
      PROVE  WalletTypeOK'
  BY <1>t, <1>g DEF WalletTypeOK
<1>s. ASSUME NEW to \in SettlePcs, WalletGoto(h, "idle", to),
             \E k \in Keys : wjob' = [wjob EXCEPT ![h] = [key |-> k]],
             UNCHANGED <<wanswer, claim, audit, dbVars>>
      PROVE  WalletTypeOK' /\ DbTypeOK'
  BY <1>t, <1>s DEF WalletTypeOK, Jobs, dbVars, DbTypeOK
<1>r. ASSUME WalletRollback(h) PROVE WalletTypeOK' /\ DbTypeOK'
  BY <1>t, <1>r, WalletRollbackType
<1>1. CASE ConfirmStart(h)
  BY <1>1, <1>s DEF ConfirmStart
<1>2. CASE ConfirmRead(h)
  BY <1>2, <1>t, <1>g, <1>r DEF ConfirmRead, WalletTypeOK, dbVars, DbTypeOK
<1>3. CASE ConfirmClaim(h)
  <2>1. CASE WalletRollback(h)
    BY <2>1, <1>r
  <2>2. CASE /\ WalletGoto(h, "confirm-claim", "confirm-lock")
             /\ claim' = [claim EXCEPT ![WalletKey(h)] = h]
             /\ UNCHANGED <<wjob, wanswer, audit, dbVars>>
    <3>1. claim' \in [Keys -> WalletHandlers \cup {Nobody}]
      BY <1>t, <2>2 DEF WalletTypeOK
    <3> QED BY <1>t, <2>2, <3>1, <1>g DEF dbVars, DbTypeOK
  <2> QED BY <1>3, <2>1, <2>2 DEF ConfirmClaim
<1>4. CASE ConfirmLock(h)
  <2>1. Request(h).user \in Investors
    BY <1>4, ClaimedRow DEF ConfirmLock, ClaimPcs
  <2>2. lock' \in [LockNames -> Handlers \cup {Nobody}]
    BY <1>4, <1>t, <2>1, LocksType, LockNamesOfInvestors, WalletConstants
    DEF ConfirmLock, DbTypeOK
  <2>3. WalletTypeOK'
    BY <1>4, <1>t, <1>g DEF ConfirmLock, WalletTypeOK
  <2> QED BY <1>4, <1>t, <2>2, <2>3 DEF ConfirmLock, DbTypeOK
<1>5. CASE ConfirmCheck(h)
  BY <1>5, <1>t, <1>g, <1>r DEF ConfirmCheck, WalletTypeOK, dbVars, DbTypeOK
<1>6. CASE ConfirmCommit(h)
  <2> DEFINE e == WalletEntry(WalletKey(h), Request(h))
  <2>1. CASE WalletRollback(h)
    BY <2>1, <1>r
  <2>2. CASE /\ Post(e.key, e.debit, e.credit, e.amount)
             /\ PutTxn(Raw(WalletKey(h)), [Request(h) EXCEPT !.status = "COMPLETED"])
             /\ audit' = audit \cup {<<"WALLET_REQUEST_APPROVED", WalletKey(h)>>}
             /\ WalletEndTx(h)
    <3>1. WalletKey(h) \in Keys /\ Raw(WalletKey(h)) \in TxnKeys /\ Request(h) \in Rows
      BY <1>6, ClaimedRow DEF ConfirmCommit, ClaimPcs
    <3>2. e \in Entries /\ e.debit \in Accounts /\ e.credit \in Accounts
          /\ e.debit # e.credit
      BY <3>1, WalletEntryType
    <3>3. balance' \in [Accounts -> Int]
      <4>1. e.amount = Request(h).amount
        BY <3>1, WalletEntryType
      <4>2. e.amount \in Int
        BY <1>6, <4>1, ClaimedRow, AmountsAreNumbers DEF ConfirmCommit, ClaimPcs
      <4> QED BY <1>t, <2>2, <3>2, <4>2, PostMovesAmount DEF DbTypeOK
    <3>4. journal' \subseteq Entries
      <4>1. e = [key |-> e.key, debit |-> e.debit, credit |-> e.credit, amount |-> e.amount]
        BY DEF WalletEntry
      <4> QED BY <1>t, <2>2, <3>2, <4>1 DEF DbTypeOK, Post
    <3>5. txn' \in [TxnKeys -> Rows \cup {NoRow}]
      <4>1. [Request(h) EXCEPT !.status = "COMPLETED"] \in Rows
        BY <3>1 DEF Rows
      <4> QED BY <1>t, <2>2, <3>1, <4>1 DEF DbTypeOK, PutTxn
    <3>6. audit' \subseteq Events
      BY <1>t, <2>2, <3>1 DEF WalletTypeOK, Events
    <3>7. WalletTypeOK' /\ lock' \in [LockNames -> Handlers \cup {Nobody}]
      BY <1>t, <2>2, <3>6, WalletEndTxType
    <3> QED BY <3>3, <3>4, <3>5, <3>7 DEF DbTypeOK
  <2> QED BY <1>6, <2>1, <2>2 DEF ConfirmCommit
<1>7. CASE RejectStart(h)
  BY <1>7, <1>s DEF RejectStart
<1>8. CASE RejectRead(h)
  BY <1>8, <1>t, <1>g, <1>r DEF RejectRead, WalletTypeOK, dbVars, DbTypeOK
<1>9. CASE RejectClaim(h)
  <2>1. CASE WalletRollback(h)
    BY <2>1, <1>r
  <2>2. CASE /\ WalletGoto(h, "reject-claim", "reject-commit")
             /\ claim' = [claim EXCEPT ![WalletKey(h)] = h]
             /\ UNCHANGED <<wjob, wanswer, audit, dbVars>>
    <3>1. claim' \in [Keys -> WalletHandlers \cup {Nobody}]
      BY <1>t, <2>2 DEF WalletTypeOK
    <3> QED BY <1>t, <2>2, <3>1, <1>g DEF dbVars, DbTypeOK
  <2> QED BY <1>9, <2>1, <2>2 DEF RejectClaim
<1>10. CASE RejectCommit(h)
  <2>1. WalletKey(h) \in Keys /\ Raw(WalletKey(h)) \in TxnKeys /\ Request(h) \in Rows
    BY <1>10, ClaimedRow DEF RejectCommit, ClaimPcs
  <2>2. [Request(h) EXCEPT !.status = "CANCELLED"] \in Rows
    BY <2>1 DEF Rows
  <2>3. txn' \in [TxnKeys -> Rows \cup {NoRow}]
    BY <1>t, <1>10, <2>1, <2>2 DEF RejectCommit, PutTxn, DbTypeOK
  <2>4. audit' \subseteq Events
    BY <1>t, <1>10, <2>1 DEF RejectCommit, WalletTypeOK, Events
  <2>5. WalletTypeOK' /\ lock' \in [LockNames -> Handlers \cup {Nobody}]
    BY <1>t, <1>10, <2>4, WalletEndTxType DEF RejectCommit
  <2> QED BY <1>t, <1>10, <2>3, <2>5 DEF RejectCommit, DbTypeOK
<1> QED BY <1>1, <1>2, <1>3, <1>4, <1>5, <1>6, <1>7, <1>8, <1>9, <1>10
        DEF WalletConfirm, WalletReject

\* The steps of createTransfer.
LEMMA TransferType ==
  ASSUME PaymentsTypeOK, NEW h \in TransferHandlers,
         TransferStart(h) \/ TransferProgress(h) \/ TransferAbort(h)
  PROVE  TransferTypeOK' /\ DbTypeOK'
<1> USE DEF TransferTypeOK, TransferPcs, TransferAnswers, TransferGoto
<1>t. TransferTypeOK /\ DbTypeOK /\ h \in Handlers
  BY TransferConstants DEF PaymentsTypeOK
<1>j. ASSUME tpc[h] # "idle"
      PROVE  /\ tjob[h] \in TransferInputs
             /\ tjob[h].key \in Keys /\ Raw(tjob[h].key) \in TxnKeys
             /\ tjob[h].src \in Investors /\ tjob[h].dst \in Investors
             /\ tjob[h].amount \in Amounts /\ tjob[h].ref \in Refs
  BY <1>t, <1>j, TransferConstants, RawKeys
<1>l. ReleaseLocks(h) => lock' \in [LockNames -> Handlers \cup {Nobody}]
  BY <1>t, LocksType DEF DbTypeOK
<1>g. ASSUME NEW from \in TransferPcs \ {"idle"}, NEW to \in TransferPcs,
             TransferGoto(h, from, to)
      PROVE  TransferTypeOK'
  BY <1>t, <1>g
<1>a. ASSUME NEW answer \in TransferAnswers, TransferReply(h, answer), tpc[h] # "idle"
      PROVE  TransferTypeOK'
  BY <1>t, <1>a DEF TransferReply
<1>r. ASSUME NEW answer \in TransferAnswers, TransferRefuse(h, answer), tpc[h] # "idle"
      PROVE  TransferTypeOK' /\ DbTypeOK'
  <2>1. TransferTypeOK'
    BY <1>r, <1>a DEF TransferRefuse
  <2> QED BY <1>t, <1>r, <2>1, <1>l DEF TransferRefuse, TransferReply, DbTypeOK
<1>y. ASSUME TransferReplay(h), tpc[h] # "idle" PROVE TransferTypeOK' /\ DbTypeOK'
  BY <1>y, <1>r DEF TransferReplay, TransferRefuse
<1>1. CASE TransferStart(h)
  BY <1>1, <1>t DEF TransferStart, dbVars, DbTypeOK
<1>2. CASE TransferLookup(h)
  BY <1>2, <1>t, <1>g, <1>r, <1>y DEF TransferLookup, dbVars, DbTypeOK
<1>3. CASE TransferBegin(h)
  BY <1>3, <1>t, <1>g, <1>r, <1>y DEF TransferBegin, dbVars, DbTypeOK
<1>4. CASE TransferLock(h)
  <2>1. lock' \in [LockNames -> Handlers \cup {Nobody}]
    BY <1>4, <1>t, <1>j, LocksType, LockNamesOfInvestors DEF TransferLock, DbTypeOK
  <2> QED BY <1>4, <1>t, <1>g, <2>1 DEF TransferLock, DbTypeOK
<1>5. CASE TransferCheck(h)
  BY <1>5, <1>t, <1>g, <1>r DEF TransferCheck, dbVars, DbTypeOK
<1>6. CASE TransferCommit(h)
  <2> DEFINE dto == tjob[h]
             e == TransferEntry(dto)
  <2>1. CASE TransferRefuse(h, "P2002")
    BY <1>6, <2>1, <1>r DEF TransferCommit
  <2>2. CASE /\ PutTxn(Raw(dto.key), TransferRow(dto))
             /\ Post(e.key, e.debit, e.credit, e.amount)
             /\ TransferReply(h, "CREATED")
    <3>1. TransferRow(dto) \in Rows
      BY <1>6, <1>j DEF TransferCommit, TransferRow, Rows, Types
    <3>2. e.debit \in Accounts /\ e.credit \in Accounts /\ e.amount \in Amounts
          /\ e.key \in EntryKeys
      BY <1>6, <1>j, AccountsOfInvestors, RawKeys DEF TransferCommit, TransferEntry
    <3>3. balance' \in [Accounts -> Int]
      BY <1>t, <2>2, <3>2, AmountsAreNumbers DEF DbTypeOK, Post
    <3>4. journal' \subseteq Entries
      BY <1>t, <2>2, <3>2 DEF DbTypeOK, Post, Entries
    <3>5. txn' \in [TxnKeys -> Rows \cup {NoRow}]
      BY <1>6, <1>t, <1>j, <2>2, <3>1 DEF DbTypeOK, PutTxn, TransferCommit
    <3>6. lock' \in [LockNames -> Handlers \cup {Nobody}]
      BY <2>2, <1>l DEF TransferReply
    <3>7. TransferTypeOK'
      BY <1>6, <2>2, <1>a DEF TransferCommit
    <3> QED BY <3>3, <3>4, <3>5, <3>6, <3>7 DEF DbTypeOK
  <2> QED BY <1>6, <2>1, <2>2 DEF TransferCommit
<1>7. CASE TransferReturn(h)
  BY <1>7, <1>t DEF TransferReturn, dbVars, DbTypeOK
<1>8. CASE TransferAbort(h)
  <2>1. TransferTypeOK'
    BY <1>8, <1>t DEF TransferAbort
  <2> QED BY <1>8, <1>t, <2>1, <1>l DEF TransferAbort, DbTypeOK
<1> QED BY <1>1, <1>2, <1>3, <1>4, <1>5, <1>6, <1>7, <1>8 DEF TransferProgress

\* Type correctness is preserved by every step of either service.
LEMMA NextType == PaymentsCore /\ [PaymentsNext]_paymentVars => PaymentsTypeOK'
<1> SUFFICES ASSUME PaymentsCore, [PaymentsNext]_paymentVars PROVE PaymentsTypeOK'
  OBVIOUS
<1> USE DEF PaymentsTypeOK
<1>t. PaymentsTypeOK
  BY DEF PaymentsCore
<1>1. CASE WalletNext /\ UNCHANGED transferVars
  <2>1. PICK h \in WalletHandlers : WalletStep(h)
    BY <1>1 DEF WalletNext
  <2>2. WalletTypeOK' /\ DbTypeOK'
    BY <1>t, <2>1, CreateType, SettleType, WalletRollbackType DEF WalletStep, WalletAbort
  <2>3. TransferTypeOK'
    BY <1>t, <1>1 DEF transferVars, TransferTypeOK
  <2> QED BY <2>2, <2>3
<1>2. CASE TransferNext /\ UNCHANGED walletVars
  <2>1. TransferTypeOK' /\ DbTypeOK'
    BY <1>t, <1>2, TransferType DEF TransferNext
  <2>2. WalletTypeOK'
    BY <1>t, <1>2 DEF walletVars, WalletTypeOK
  <2> QED BY <2>1, <2>2
<1>3. CASE UNCHANGED paymentVars
  BY <1>t, <1>3 DEF paymentVars, dbVars, walletVars, transferVars,
       DbTypeOK, WalletTypeOK, TransferTypeOK
<1> QED BY <1>1, <1>2, <1>3 DEF PaymentsNext

-----------------------------------------------------------------------------
(***************************************************************************)
(* Most steps are quiet: they leave the tables alone, and the handler ends *)
(* up holding nothing the invariant speaks of.                             *)
(***************************************************************************)

\* What a quiet step of wallet handler h may do: give up its own locks.
WalletQuiet(h) ==
  /\ UNCHANGED <<balance, journal, txn, audit, tpc, tjob, tanswer>>
  /\ \A g \in WalletHandlers \ {h} : wpc'[g] = wpc[g] /\ wjob'[g] = wjob[g]
  /\ wpc'[h] \notin ClaimPcs
  /\ \A k \in Keys : claim[k] # h => claim'[k] = claim[k]
  /\ \A l \in LockNames : lock[l] # h => lock'[l] = lock[l]

\* The same for a transfer handler; it may also be past its lookup.
TransferQuiet(h) ==
  /\ UNCHANGED <<balance, journal, txn, walletVars>>
  /\ \A g \in TransferHandlers \ {h} : tpc'[g] = tpc[g] /\ tjob'[g] = tjob[g]
  /\ tpc'[h] \notin {"check", "commit"}
  /\ tpc'[h] \in {"begin", "lock"} => tjob'[h].src # tjob'[h].dst
  /\ \A l \in LockNames : lock[l] # h => lock'[l] = lock[l]

\* A rollback is quiet.
LEMMA RollbackIsQuiet ==
  ASSUME PaymentsTypeOK, NEW h \in WalletHandlers, WalletRollback(h),
         UNCHANGED transferVars
  PROVE  WalletQuiet(h)
  BY DEF PaymentsTypeOK, WalletTypeOK, DbTypeOK, WalletRollback, WalletEndTx,
     WalletFinish, ReleaseLocks, WalletQuiet, ClaimPcs, transferVars

\* So is every step of createRequest but the insertion itself.
LEMMA CreateIsQuiet ==
  ASSUME PaymentsTypeOK, NEW h \in WalletHandlers, WalletCreate(h),
         UNCHANGED <<txn, transferVars>>
  PROVE  WalletQuiet(h)
<1> USE DEF PaymentsTypeOK, WalletTypeOK, WalletQuiet, ClaimPcs, transferVars, dbVars,
        WalletGoto
<1>r. ASSUME NEW answer, WalletReply(h, answer) PROVE WalletQuiet(h)
  BY <1>r DEF WalletReply
<1>1. CASE CreateStart(h)
  BY <1>1 DEF CreateStart
<1>2. CASE CreateLookup(h)
  BY <1>2, <1>r DEF CreateLookup, ReplyWithRow
<1>3. CASE CreateInsert(h)
  BY <1>3 DEF CreateInsert
<1>4. CASE CreateRecover(h)
  BY <1>4, <1>r DEF CreateRecover, ReplyWithRow
<1>5. CASE CreateRecoverByRef(h)
  BY <1>5, <1>r DEF CreateRecoverByRef
<1>6. CASE CreateReturn(h)
  BY <1>6 DEF CreateReturn, WalletFinish
<1> QED BY <1>1, <1>2, <1>3, <1>4, <1>5, <1>6 DEF WalletCreate

\* The loud steps of a wallet handler.
Inserts(h) ==
  /\ wpc[h] = "insert"
  /\ Insertable(Raw(WalletKey(h)), NewRequest(wjob[h]))
  /\ PutTxn(Raw(WalletKey(h)), NewRequest(wjob[h]))
  /\ wpc' = [wpc EXCEPT ![h] = "replied"]
  /\ UNCHANGED <<wjob, claim, audit, balance, journal, lock>>

Claims(h, from, to) ==
  /\ wpc[h] = from /\ wpc' = [wpc EXCEPT ![h] = to]
  /\ claim[WalletKey(h)] = Nobody
  /\ Pending(Request(h))
  /\ claim' = [claim EXCEPT ![WalletKey(h)] = h]
  /\ UNCHANGED <<wjob, audit, dbVars>>

FindsEnough(h) ==
  /\ wpc[h] = "confirm-check" /\ wpc' = [wpc EXCEPT ![h] = "confirm-commit"]
  /\ Request(h).type = "WITHDRAWAL" => Available(Request(h).user) >= Request(h).amount
  /\ UNCHANGED <<wjob, claim, audit, dbVars>>

Approves(h) ==
  LET e == WalletEntry(WalletKey(h), Request(h)) IN
    /\ wpc[h] = "confirm-commit"
    /\ Post(e.key, e.debit, e.credit, e.amount)
    /\ PutTxn(Raw(WalletKey(h)), [Request(h) EXCEPT !.status = "COMPLETED"])
    /\ audit' = audit \cup {<<"WALLET_REQUEST_APPROVED", WalletKey(h)>>}
    /\ WalletEndTx(h)

\* A step of a wallet handler is quiet or one of the loud ones.
LEMMA WalletStepKinds ==
  ASSUME PaymentsTypeOK, NEW h \in WalletHandlers, WalletStep(h), UNCHANGED transferVars
  PROVE  \/ WalletQuiet(h)
         \/ Inserts(h)
         \/ Claims(h, "confirm-claim", "confirm-lock")
         \/ Claims(h, "reject-claim", "reject-commit")
         \/ ConfirmLock(h)
         \/ FindsEnough(h)
         \/ Approves(h)
         \/ RejectCommit(h)
<1>r. ASSUME WalletRollback(h) PROVE WalletQuiet(h)
  BY <1>r, RollbackIsQuiet
<1>g. ASSUME NEW from, NEW to \in SettlePcs \ ClaimPcs, WalletGoto(h, from, to),
             UNCHANGED <<claim, audit, dbVars>>,
             \A g \in WalletHandlers \ {h} : wjob'[g] = wjob[g]
      PROVE  WalletQuiet(h)
  BY <1>g DEF PaymentsTypeOK, WalletTypeOK, WalletQuiet, WalletGoto, dbVars, transferVars
<1>p. "confirm-read" \in SettlePcs \ ClaimPcs /\ "confirm-claim" \in SettlePcs \ ClaimPcs
      /\ "reject-read" \in SettlePcs \ ClaimPcs /\ "reject-claim" \in SettlePcs \ ClaimPcs
  BY DEF SettlePcs, ClaimPcs
<1>s. ASSUME \E k \in Keys : wjob' = [wjob EXCEPT ![h] = [key |-> k]]
      PROVE  \A g \in WalletHandlers \ {h} : wjob'[g] = wjob[g]
  BY <1>s DEF PaymentsTypeOK, WalletTypeOK
<1>1. CASE WalletCreate(h)
  <2>1. CASE UNCHANGED txn
    BY <1>1, <2>1, CreateIsQuiet
  <2>2. CASE ~UNCHANGED txn
    BY <1>1, <2>2 DEF WalletCreate, CreateStart, CreateLookup, CreateInsert, CreateRecover,
       CreateRecoverByRef, CreateReturn, ReplyWithRow, WalletReply, dbVars, Inserts,
       WalletKey
  <2> QED BY <2>1, <2>2
<1>2. CASE ConfirmStart(h)
  BY <1>2, <1>g, <1>p, <1>s DEF ConfirmStart
<1>3. CASE ConfirmRead(h)
  BY <1>3, <1>g, <1>p, <1>r DEF ConfirmRead
<1>4. CASE ConfirmClaim(h)
  BY <1>4, <1>r DEF ConfirmClaim, Claims, WalletGoto
<1>5. CASE ConfirmCheck(h)
  BY <1>5, <1>r DEF ConfirmCheck, FindsEnough, WalletGoto
<1>6. CASE ConfirmCommit(h)
  BY <1>6, <1>r DEF ConfirmCommit, Approves
<1>7. CASE RejectStart(h)
  BY <1>7, <1>g, <1>p, <1>s DEF RejectStart
<1>8. CASE RejectRead(h)
  BY <1>8, <1>g, <1>p, <1>r DEF RejectRead
<1>9. CASE RejectClaim(h)
  BY <1>9, <1>r DEF RejectClaim, Claims, WalletGoto
<1>10. CASE WalletAbort(h)
  BY <1>10, <1>r DEF WalletAbort
<1> QED BY <1>1, <1>2, <1>3, <1>4, <1>5, <1>6, <1>7, <1>8, <1>9, <1>10
        DEF WalletStep, WalletConfirm, WalletReject

-----------------------------------------------------------------------------
(***************************************************************************)
(* Each kind of wallet step preserves the invariant.                       *)
(***************************************************************************)

LEMMA WalletQuietKeeps ==
  ASSUME PaymentsCore, PaymentsTypeOK', NEW h \in WalletHandlers, WalletQuiet(h)
  PROVE  PaymentsCore' /\ (CashSuffices => CashSuffices')
<1> USE DEF WalletQuiet, PaymentsCore
<1>1. \A g \in WalletHandlers \ {h} :
        Request(g)' = Request(g) /\ WalletKey(g)' = WalletKey(g) /\ wpc'[g] = wpc[g]
  BY DEF Request, WalletKey
<1>2. ClaimsHold'
  <2> SUFFICES ASSUME NEW g \in WalletHandlers, wpc'[g] \in ClaimPcs
               PROVE  claim'[WalletKey(g)'] = g /\ Pending(Request(g)')
    BY DEF ClaimsHold
  <2>1. g # h
    OBVIOUS
  <2>2. claim[WalletKey(g)] = g /\ Pending(Request(g)) /\ WalletKey(g) \in Keys
    BY <1>1, <2>1, ClaimedRow DEF ClaimsHold
  <2> QED BY <1>1, <2>1, <2>2
<1>3. LocksHold'
  <2>1. ASSUME NEW g \in WalletHandlers, wpc'[g] \in {"confirm-check", "confirm-commit"}
        PROVE  lock'[<<"transfer", Request(g).user>>'] = g
    <3>1. g # h /\ wpc[g] \in ClaimPcs
      BY <2>1, <1>1 DEF ClaimPcs
    <3>2. <<"transfer", Request(g).user>> \in LockNames
      BY <3>1, ClaimedRow, LockNamesOfInvestors
    <3> QED BY <1>1, <2>1, <3>1, <3>2 DEF LocksHold
  <2>2. ASSUME NEW g \in TransferHandlers, tpc'[g] \in {"check", "commit"}
        PROVE  lock'[<<"transfer", tjob[g].src>>'] = g
    <3>1. tjob[g].src \in Investors /\ g # h
      BY <2>2, TransferConstants, PaymentHandlersDisjoint
      DEF PaymentsTypeOK, TransferTypeOK
    <3>2. <<"transfer", tjob[g].src>> \in LockNames
      BY <3>1, LockNamesOfInvestors
    <3> QED BY <2>2, <3>1, <3>2 DEF LocksHold
  <2> QED BY <2>1, <2>2 DEF LocksHold
<1>4. ChecksHold => ChecksHold'
  BY <1>1 DEF ChecksHold, Available, ClaimPcs
<1>5. OnlyRequestsPend' /\ TransfersMove' /\ OneVerdict' /\ (NoOverdraft => NoOverdraft')
  BY DEF OnlyRequestsPend, TransfersMove, NoOverdraft, OneVerdict, Available, Posted
<1> QED BY <1>2, <1>3, <1>4, <1>5 DEF CashSuffices

\* A new request is PENDING under a key nobody can have claimed.
LEMMA InsertKeeps ==
  ASSUME PaymentsCore, PaymentsTypeOK', NEW h \in WalletHandlers, Inserts(h),
         UNCHANGED transferVars
  PROVE  PaymentsCore' /\ (CashSuffices => CashSuffices')
<1> USE DEF Inserts, PaymentsCore, transferVars
<1> DEFINE k0 == WalletKey(h)
<1>1. k0 \in Keys /\ wjob[h] \in Inputs
  BY WalletConstants DEF PaymentsTypeOK, WalletTypeOK, CreatePcs, WalletKey
<1>2. /\ txn[Raw(k0)] = NoRow
      /\ txn'[Raw(k0)] = NewRequest(wjob[h])
      /\ \A k \in Keys \ {k0} : txn'[Raw(k)] = txn[Raw(k)]
  BY <1>1, RawKeys DEF Insertable, PutTxn, PaymentsTypeOK, DbTypeOK
<1>3. IsWalletRow(NewRequest(wjob[h])) /\ NewRequest(wjob[h]).status = "PENDING"
  <2>1. NewRequest(wjob[h]) \in Rows
    BY <1>1 DEF NewRequest, Rows, Types, Inputs
  <2> QED BY <1>1, <2>1, SentinelsDistinct DEF IsWalletRow, NewRequest, Inputs
<1>4. ASSUME NEW g \in WalletHandlers, wpc'[g] \in ClaimPcs
      PROVE  /\ wpc[g] = wpc'[g] /\ WalletKey(g)' = WalletKey(g)
             /\ Request(g)' = Request(g)
  <2>1. g # h /\ wpc[g] = wpc'[g]
    BY <1>4 DEF ClaimPcs, PaymentsTypeOK, WalletTypeOK
  <2>2. WalletKey(g) \in Keys /\ Request(g) # NoRow
    BY <1>4, <2>1, ClaimedRow, SentinelsDistinct
  <2>3. WalletKey(g) # k0
    BY <1>2, <2>2 DEF Request
  <2> QED BY <1>2, <2>1, <2>2, <2>3 DEF Request, WalletKey
<1>5. ClaimsHold' /\ LocksHold' /\ (ChecksHold => ChecksHold')
  BY <1>4 DEF ClaimsHold, LocksHold, ChecksHold, Available, ClaimPcs
<1>6. OnlyRequestsPend'
  BY <1>2, <1>3 DEF OnlyRequestsPend
<1>7. OneVerdict'
  <2> SUFFICES ASSUME NEW k \in Keys
               PROVE  LET row == txn'[Raw(k)]
                          has(status) == IsWalletRow(row) /\ row.status = status
                      IN /\ has("COMPLETED") <=> <<"WALLET_REQUEST_APPROVED", k>> \in audit
                         /\ has("COMPLETED") <=> Posted(<<"wallet:", k>>)
                         /\ has("CANCELLED") <=> <<"WALLET_REQUEST_REJECTED", k>> \in audit
    BY DEF OneVerdict, Posted
  <2>1. CASE k = k0
    BY <1>2, <1>3, <2>1 DEF OneVerdict, IsWalletRow
  <2>2. CASE k # k0
    BY <1>2, <2>2 DEF OneVerdict
  <2> QED BY <2>1, <2>2
<1>8. TransfersMove' /\ (NoOverdraft => NoOverdraft')
  BY DEF TransfersMove, NoOverdraft, Available
<1> QED BY <1>5, <1>6, <1>7, <1>8 DEF CashSuffices

\* Claiming a free row takes it from nobody.
LEMMA ClaimKeeps ==
  ASSUME PaymentsCore, PaymentsTypeOK', NEW h \in WalletHandlers,
         NEW from, NEW to \in {"confirm-lock", "reject-commit"}, Claims(h, from, to),
         from \in {"confirm-claim", "reject-claim"}, UNCHANGED transferVars
  PROVE  PaymentsCore' /\ (CashSuffices => CashSuffices')
<1> USE DEF Claims, PaymentsCore, transferVars, dbVars
<1>1. WalletKey(h) \in Keys
  BY DEF PaymentsTypeOK, WalletTypeOK, WalletKey
<1>2. \A g \in WalletHandlers : WalletKey(g)' = WalletKey(g) /\ Request(g)' = Request(g)
  BY DEF WalletKey, Request
<1>3. \A g \in WalletHandlers \ {h} : wpc'[g] = wpc[g]
  BY DEF PaymentsTypeOK, WalletTypeOK
<1>4. wpc'[h] = to
  BY DEF PaymentsTypeOK, WalletTypeOK
<1>5. ClaimsHold'
  <2> SUFFICES ASSUME NEW g \in WalletHandlers, wpc'[g] \in ClaimPcs
               PROVE  claim'[WalletKey(g)] = g /\ Pending(Request(g))
    BY <1>2 DEF ClaimsHold
  <2>1. CASE g = h
    BY <1>1, <2>1 DEF PaymentsTypeOK, WalletTypeOK
  <2>2. CASE g # h
    <3>1. claim[WalletKey(g)] = g /\ Pending(Request(g))
      BY <1>3, <2>2 DEF ClaimsHold
    <3>2. g # Nobody
      BY WalletConstants, SentinelsDistinct
    <3> QED BY <1>1, <3>1, <3>2 DEF PaymentsTypeOK, WalletTypeOK
  <2> QED BY <2>1, <2>2
<1>6. LocksHold' /\ (ChecksHold => ChecksHold')
  BY <1>2, <1>3, <1>4 DEF LocksHold, ChecksHold, Available
<1>7. OnlyRequestsPend' /\ TransfersMove' /\ OneVerdict' /\ (NoOverdraft => NoOverdraft')
  BY DEF OnlyRequestsPend, TransfersMove, NoOverdraft, OneVerdict, Available, Posted
<1> QED BY <1>5, <1>6, <1>7 DEF CashSuffices

\* Taking the investor's free lock takes it from nobody.
LEMMA LockKeeps ==
  ASSUME PaymentsCore, PaymentsTypeOK', NEW h \in WalletHandlers, ConfirmLock(h),
         UNCHANGED transferVars
  PROVE  PaymentsCore' /\ (CashSuffices => CashSuffices')
<1> USE DEF ConfirmLock, WalletGoto, TakeLock, PaymentsCore, transferVars
<1> DEFINE name == <<"transfer", Request(h).user>>
<1>1. name \in LockNames
  BY ClaimedRow, LockNamesOfInvestors DEF ClaimPcs
<1>2. /\ lock[name] = Nobody /\ lock'[name] = h
      /\ \A l \in LockNames \ {name} : lock'[l] = lock[l]
  BY <1>1 DEF PaymentsTypeOK, DbTypeOK
<1>3. \A g \in WalletHandlers : WalletKey(g)' = WalletKey(g) /\ Request(g)' = Request(g)
  BY DEF WalletKey, Request
<1>4. /\ wpc[h] = "confirm-lock" /\ wpc'[h] = "confirm-check"
      /\ \A g \in WalletHandlers \ {h} : wpc'[g] = wpc[g]
  BY DEF PaymentsTypeOK, WalletTypeOK
<1>5. ClaimsHold'
  BY <1>3, <1>4 DEF ClaimsHold, ClaimPcs
<1>6. LocksHold'
  <2>1. ASSUME NEW g \in WalletHandlers, wpc'[g] \in {"confirm-check", "confirm-commit"}
        PROVE  lock'[<<"transfer", Request(g).user>>] = g
    <3>1. CASE g = h
      BY <1>2, <3>1
    <3>2. CASE g # h
      <4>1. <<"transfer", Request(g).user>> \in LockNames
        BY <1>4, <2>1, <3>2, ClaimedRow, LockNamesOfInvestors DEF ClaimPcs
      <4>2. lock[<<"transfer", Request(g).user>>] = g /\ g # Nobody
        BY <1>4, <2>1, <3>2, WalletConstants, SentinelsDistinct DEF LocksHold
      <4> QED BY <1>2, <4>1, <4>2
    <3> QED BY <3>1, <3>2
  <2>2. ASSUME NEW g \in TransferHandlers, tpc[g] \in {"check", "commit"}
        PROVE  lock'[<<"transfer", tjob[g].src>>] = g
    <3>1. <<"transfer", tjob[g].src>> \in LockNames
      BY <2>2, TransferConstants, LockNamesOfInvestors
      DEF PaymentsTypeOK, TransferTypeOK
    <3>2. lock[<<"transfer", tjob[g].src>>] = g /\ g # Nobody
      BY <2>2, TransferConstants, SentinelsDistinct DEF LocksHold
    <3> QED BY <1>2, <3>1, <3>2
  <2> QED BY <1>3, <2>1, <2>2 DEF LocksHold
<1>7. ChecksHold => ChecksHold'
  BY <1>3, <1>4 DEF ChecksHold, Available
<1>8. OnlyRequestsPend' /\ TransfersMove' /\ OneVerdict' /\ (NoOverdraft => NoOverdraft')
  BY DEF OnlyRequestsPend, TransfersMove, NoOverdraft, OneVerdict, Available, Posted
<1> QED BY <1>5, <1>6, <1>7, <1>8 DEF CashSuffices

\* The sufficient balance found is the one the invariant speaks of.
LEMMA CheckKeeps ==
  ASSUME PaymentsCore, PaymentsTypeOK', NEW h \in WalletHandlers, FindsEnough(h),
         UNCHANGED transferVars
  PROVE  PaymentsCore' /\ (CashSuffices => CashSuffices')
<1> USE DEF FindsEnough, PaymentsCore, transferVars, dbVars
<1>1. \A g \in WalletHandlers : WalletKey(g)' = WalletKey(g) /\ Request(g)' = Request(g)
  BY DEF WalletKey, Request
<1>2. /\ wpc[h] = "confirm-check" /\ wpc'[h] = "confirm-commit"
      /\ \A g \in WalletHandlers \ {h} : wpc'[g] = wpc[g]
  BY DEF PaymentsTypeOK, WalletTypeOK
<1>3. ClaimsHold' /\ LocksHold' /\ (ChecksHold => ChecksHold')
  BY <1>1, <1>2 DEF ClaimsHold, ClaimPcs, LocksHold, ChecksHold, Available
<1>4. OnlyRequestsPend' /\ TransfersMove' /\ OneVerdict' /\ (NoOverdraft => NoOverdraft')
  BY DEF OnlyRequestsPend, TransfersMove, NoOverdraft, OneVerdict, Available, Posted
<1> QED BY <1>3, <1>4 DEF CashSuffices

\* What both verdicts share: the claimed row changes under everybody else's
\* feet, but nobody else's request is that row, and locks that were not the
\* handler's stay where they are.
LEMMA VerdictSpares ==
  ASSUME PaymentsCore, PaymentsTypeOK', NEW h \in WalletHandlers, wpc[h] \in ClaimPcs,
         NEW row, PutTxn(Raw(WalletKey(h)), row), WalletEndTx(h)
  PROVE  /\ txn'[Raw(WalletKey(h))] = row
         /\ \A k \in Keys \ {WalletKey(h)} : txn'[Raw(k)] = txn[Raw(k)]
         /\ wpc'[h] = "idle"
         /\ \A g \in WalletHandlers :
              wpc'[g] \in ClaimPcs =>
                /\ g # h /\ wpc[g] = wpc'[g] /\ WalletKey(g)' = WalletKey(g)
                /\ Request(g)' = Request(g) /\ claim'[WalletKey(g)] = claim[WalletKey(g)]
         /\ \A l \in LockNames : lock[l] # h => lock'[l] = lock[l]
<1> USE DEF PaymentsCore
<1>1. WalletKey(h) \in Keys
  BY ClaimedRow
<1>2. /\ txn'[Raw(WalletKey(h))] = row
      /\ \A k \in Keys \ {WalletKey(h)} : txn'[Raw(k)] = txn[Raw(k)]
  BY <1>1, RawKeys DEF PutTxn, PaymentsTypeOK, DbTypeOK
<1>3. /\ wpc'[h] = "idle"
      /\ \A g \in WalletHandlers \ {h} : wpc'[g] = wpc[g] /\ wjob'[g] = wjob[g]
  BY DEF WalletEndTx, WalletFinish, PaymentsTypeOK, WalletTypeOK
<1>4. ASSUME NEW g \in WalletHandlers, wpc'[g] \in ClaimPcs
      PROVE  /\ g # h /\ wpc[g] = wpc'[g] /\ WalletKey(g)' = WalletKey(g)
             /\ Request(g)' = Request(g) /\ claim'[WalletKey(g)] = claim[WalletKey(g)]
  <2>1. g # h /\ wpc[g] = wpc'[g] /\ wjob'[g] = wjob[g]
    BY <1>3, <1>4 DEF ClaimPcs
  <2>2. WalletKey(g) \in Keys
    BY <1>4, <2>1, ClaimedRow
  <2>3. claim[WalletKey(g)] = g /\ claim[WalletKey(h)] = h
    BY <1>4, <2>1 DEF ClaimsHold
  <2>4. WalletKey(g) # WalletKey(h)
    BY <2>1, <2>3
  <2>5. claim'[WalletKey(g)] = claim[WalletKey(g)]
    BY <2>1, <2>2, <2>3 DEF WalletEndTx
  <2> QED BY <1>2, <2>1, <2>2, <2>4, <2>5 DEF WalletKey, Request
<1>5. \A l \in LockNames : lock[l] # h => lock'[l] = lock[l]
  BY DEF WalletEndTx, ReleaseLocks
<1> QED BY <1>2, <1>3, <1>4, <1>5

\* The claims and locks of the other handlers survive a verdict.
LEMMA VerdictKeepsLocks ==
  ASSUME PaymentsCore, PaymentsTypeOK', NEW h \in WalletHandlers, wpc[h] \in ClaimPcs,
         NEW row, PutTxn(Raw(WalletKey(h)), row), WalletEndTx(h), UNCHANGED transferVars
  PROVE  ClaimsHold' /\ LocksHold'
<1> USE DEF PaymentsCore, transferVars
<1>1. ASSUME NEW g \in WalletHandlers, wpc'[g] \in ClaimPcs
      PROVE  /\ g # h /\ wpc[g] = wpc'[g] /\ WalletKey(g)' = WalletKey(g)
             /\ Request(g)' = Request(g) /\ claim'[WalletKey(g)] = claim[WalletKey(g)]
  BY <1>1, VerdictSpares
<1>2. \A l \in LockNames : lock[l] # h => lock'[l] = lock[l]
  BY VerdictSpares
<1>3. ClaimsHold'
  BY <1>1 DEF ClaimsHold
<1>4. ASSUME NEW g \in WalletHandlers, wpc'[g] \in {"confirm-check", "confirm-commit"}
      PROVE  lock'[<<"transfer", Request(g).user>>'] = g
  <2>1. wpc'[g] \in ClaimPcs
    BY <1>4 DEF ClaimPcs
  <2>2. <<"transfer", Request(g).user>> \in LockNames
    BY <1>1, <2>1, ClaimedRow, LockNamesOfInvestors
  <2> QED BY <1>1, <1>2, <1>4, <2>1, <2>2 DEF LocksHold
<1>5. ASSUME NEW g \in TransferHandlers, tpc[g] \in {"check", "commit"}
      PROVE  lock'[<<"transfer", tjob[g].src>>] = g
  <2>1. <<"transfer", tjob[g].src>> \in LockNames /\ g # h
    BY <1>5, TransferConstants, LockNamesOfInvestors, PaymentHandlersDisjoint
    DEF PaymentsTypeOK, TransferTypeOK
  <2> QED BY <1>2, <1>5, <2>1 DEF LocksHold
<1> QED BY <1>3, <1>4, <1>5 DEF LocksHold

\* A rejection cancels the row it claimed and says so in the audit trail.
LEMMA RejectKeeps ==
  ASSUME PaymentsCore, PaymentsTypeOK', NEW h \in WalletHandlers, RejectCommit(h),
         UNCHANGED transferVars
  PROVE  PaymentsCore' /\ (CashSuffices => CashSuffices')
<1> USE DEF PaymentsCore, transferVars, RejectCommit
<1> DEFINE k0 == WalletKey(h)
           row == [Request(h) EXCEPT !.status = "CANCELLED"]
<1>0. wpc[h] \in ClaimPcs
  BY DEF ClaimPcs
<1>1. k0 \in Keys /\ Request(h) \in Rows /\ Request(h).status = "PENDING"
      /\ IsWalletRow(Request(h)) /\ IsWalletRow(row) /\ row.status = "CANCELLED"
  BY <1>0, ClaimedRow, SentinelsDistinct DEF IsWalletRow, Rows
<1>2. /\ txn'[Raw(k0)] = row
      /\ \A k \in Keys \ {k0} : txn'[Raw(k)] = txn[Raw(k)]
  BY <1>0, VerdictSpares
<1>3. ClaimsHold' /\ LocksHold'
  BY <1>0, VerdictKeepsLocks
<1>4. CashSuffices => ChecksHold'
  <2> SUFFICES ASSUME CashSuffices PROVE ChecksHold'
    OBVIOUS
  <2> USE DEF CashSuffices
  <2>1. ASSUME NEW g \in WalletHandlers, wpc'[g] = "confirm-commit"
        PROVE  Request(g)' = Request(g) /\ wpc[g] = "confirm-commit"
    BY <1>0, <2>1, VerdictSpares DEF ClaimPcs
  <2> QED BY <2>1 DEF ChecksHold, Available
<1>5. OnlyRequestsPend'
  BY <1>1, <1>2 DEF OnlyRequestsPend, Pending
<1>6. OneVerdict'
  <2> SUFFICES ASSUME NEW k \in Keys
               PROVE  LET has(status) == IsWalletRow(txn'[Raw(k)])
                                         /\ txn'[Raw(k)].status = status
                      IN /\ has("COMPLETED") <=> <<"WALLET_REQUEST_APPROVED", k>> \in audit'
                         /\ has("COMPLETED") <=> Posted(<<"wallet:", k>>)
                         /\ has("CANCELLED") <=> <<"WALLET_REQUEST_REJECTED", k>> \in audit'
    BY DEF OneVerdict, Posted
  <2>1. CASE k = k0
    BY <1>1, <1>2, <2>1 DEF OneVerdict, Request
  <2>2. CASE k # k0
    BY <1>2, <2>2 DEF OneVerdict
  <2> QED BY <2>1, <2>2
<1>7. TransfersMove' /\ (NoOverdraft => NoOverdraft')
  BY DEF TransfersMove, NoOverdraft, Available
<1> QED BY <1>3, <1>4, <1>5, <1>6, <1>7 DEF CashSuffices

\* An approval spends a balance nobody else can be counting on: the debited
\* investor's lock is the handler's own until it commits.
LEMMA ApproveKeeps ==
  ASSUME PaymentsCore, PaymentsTypeOK', NEW h \in WalletHandlers, Approves(h),
         UNCHANGED transferVars
  PROVE  PaymentsCore' /\ (CashSuffices => CashSuffices')
<1> USE DEF PaymentsCore, transferVars, Approves
<1> DEFINE k0 == WalletKey(h)
           u == Request(h).user
           row == [Request(h) EXCEPT !.status = "COMPLETED"]
           e == WalletEntry(k0, Request(h))
<1>0. wpc[h] \in ClaimPcs
  BY DEF ClaimPcs
<1>1. k0 \in Keys /\ Request(h) \in Rows /\ Request(h).status = "PENDING"
      /\ Request(h).type \in {"DEPOSIT", "WITHDRAWAL"} /\ u \in Investors
      /\ IsWalletRow(Request(h)) /\ IsWalletRow(row) /\ row.status = "COMPLETED"
  BY <1>0, ClaimedRow, SentinelsDistinct DEF IsWalletRow, Rows
<1>2. /\ txn'[Raw(k0)] = row
      /\ \A k \in Keys \ {k0} : txn'[Raw(k)] = txn[Raw(k)]
  BY <1>0, VerdictSpares
<1>3. ClaimsHold' /\ LocksHold'
  BY <1>0, VerdictKeepsLocks
<1>4. /\ Request(h).amount \in Int /\ Request(h).amount > 0
      /\ balance'[e.debit] = balance[e.debit] - Request(h).amount
      /\ balance'[e.credit] = balance[e.credit] + Request(h).amount
      /\ \A a \in Accounts \ {e.debit, e.credit} : balance'[a] = balance[a]
  <2>1. Request(h).amount \in Int /\ Request(h).amount > 0
    BY <1>0, ClaimedRow, AmountsAreNumbers
  <2>2. e.debit \in Accounts /\ e.credit \in Accounts /\ e.debit # e.credit
        /\ e.amount = Request(h).amount
    BY <1>1, WalletEntryType
  <2> QED BY <2>1, <2>2, PostMovesAmount DEF PaymentsTypeOK, DbTypeOK
<1>5. \A i \in Investors \ {u} : Available(i)' = Available(i)
  <2>1. {e.debit, e.credit} = {Cash(u), Deposits(u)}
    BY <1>1 DEF WalletEntry
  <2>2. \A i \in Investors \ {u} : Deposits(i) \in Accounts \ {Cash(u), Deposits(u)}
    BY <1>1, AccountsOfInvestors
  <2>3. \A i \in Investors \ {u} : balance'[Deposits(i)] = balance[Deposits(i)]
    BY <1>4, <2>1, <2>2
  <2> QED BY <2>3 DEF Available
<1>6. lock[<<"transfer", u>>] = h
  BY DEF LocksHold
<1>7. CashSuffices => ChecksHold'
  <2> SUFFICES ASSUME CashSuffices PROVE ChecksHold'
    OBVIOUS
  <2> USE DEF CashSuffices
  <2>1. ASSUME NEW g \in WalletHandlers, wpc'[g] = "confirm-commit",
               Request(g)'.type = "WITHDRAWAL"
        PROVE  Available(Request(g).user)' >= Request(g)'.amount
    <3>1. g # h /\ wpc[g] = "confirm-commit" /\ Request(g)' = Request(g)
      BY <1>0, <2>1, VerdictSpares DEF ClaimPcs
    <3>2. lock[<<"transfer", Request(g).user>>] = g /\ Request(g).user \in Investors
      BY <3>1, ClaimedRow DEF LocksHold, ClaimPcs
    <3>3. Request(g).user \in Investors \ {u}
      BY <1>6, <3>1, <3>2
    <3>4. Available(Request(g).user) >= Request(g).amount
      BY <2>1, <3>1 DEF ChecksHold
    <3> HIDE DEF Approves
    <3> QED BY <1>5, <3>1, <3>3, <3>4 DEF Available
  <2>2. ASSUME NEW g \in TransferHandlers, tpc[g] = "commit"
        PROVE  Available(tjob[g].src)' >= tjob[g].amount
    <3>1. tjob[g].src \in Investors /\ g # h
      BY <2>2, TransferConstants, PaymentHandlersDisjoint
      DEF PaymentsTypeOK, TransferTypeOK
    <3>2. tjob[g].src \in Investors \ {u}
      BY <1>6, <2>2, <3>1 DEF LocksHold
    <3> QED BY <1>5, <2>2, <3>2 DEF ChecksHold, Available
  <2> QED BY <2>1, <2>2 DEF ChecksHold, Available
<1>8. OnlyRequestsPend'
  BY <1>1, <1>2 DEF OnlyRequestsPend, Pending
<1>9. CashSuffices => NoOverdraft'
  <2> SUFFICES ASSUME CashSuffices PROVE NoOverdraft'
    OBVIOUS
  <2> USE DEF CashSuffices
  <2>1. Available(u) \in Int /\ Available(u) >= 0
    BY <1>1, AccountsOfInvestors DEF NoOverdraft, Available, PaymentsTypeOK, DbTypeOK
  <2>2. CASE Request(h).type = "DEPOSIT"
    <3>1. e.credit = Deposits(u)
      BY <2>2 DEF WalletEntry
    <3>2. balance'[Deposits(u)] >= 0
      BY <1>4, <2>1, <3>1 DEF Available
    <3> QED BY <1>1, <1>5, <3>2 DEF NoOverdraft, Available
  <2>3. CASE Request(h).type = "WITHDRAWAL"
    <3>1. e.debit = Deposits(u)
      BY <2>3 DEF WalletEntry
    <3>2. Available(u) >= Request(h).amount
      BY <2>3 DEF ChecksHold
    <3>3. balance'[Deposits(u)] >= 0
      BY <1>4, <2>1, <3>1, <3>2 DEF Available
    <3> QED BY <1>1, <1>5, <3>3 DEF NoOverdraft, Available
  <2> QED BY <1>1, <2>2, <2>3
<1>10. OneVerdict'
  <2>1. /\ \A key : Posted(key)' <=> Posted(key) \/ key = <<"wallet:", k0>>
        /\ \A ev : ev \in audit' <=> ev \in audit \/ ev = <<"WALLET_REQUEST_APPROVED", k0>>
    <3>1. e.key = <<"wallet:", k0>>
      BY DEF WalletEntry
    <3>2. ASSUME NEW key
          PROVE  Posted(key)' <=> Posted(key) \/ key = e.key
      BY PostRecordsKey
    <3>3. \A key : Posted(key)' <=> Posted(key) \/ key = <<"wallet:", k0>>
      BY <3>1, <3>2
    <3>4. \A ev : ev \in audit' <=> ev \in audit \/ ev = <<"WALLET_REQUEST_APPROVED", k0>>
      OBVIOUS
    <3> QED BY <3>3, <3>4
  <2> SUFFICES ASSUME NEW k \in Keys
               PROVE  LET has(status) == IsWalletRow(txn'[Raw(k)])
                                         /\ txn'[Raw(k)].status = status
                      IN /\ has("COMPLETED") <=> <<"WALLET_REQUEST_APPROVED", k>> \in audit'
                         /\ has("COMPLETED") <=> Posted(<<"wallet:", k>>)'
                         /\ has("CANCELLED") <=> <<"WALLET_REQUEST_REJECTED", k>> \in audit'
    BY DEF OneVerdict, Posted
  <2> HIDE DEF Approves
  <2>2. CASE k = k0
    BY <1>1, <1>2, <2>1, <2>2 DEF OneVerdict, Request
  <2>3. CASE k # k0
    BY <1>2, <2>1, <2>3 DEF OneVerdict
  <2> QED BY <2>2, <2>3
<1>11. TransfersMove'
  BY DEF TransfersMove
<1> QED BY <1>3, <1>7, <1>8, <1>9, <1>10, <1>11 DEF CashSuffices

-----------------------------------------------------------------------------
(***************************************************************************)
(* Each kind of transfer step preserves the invariant.                     *)
(***************************************************************************)

\* The loud steps of a transfer handler, besides TransferLock.
FindsFunds(h) ==
  /\ tpc[h] = "check" /\ tpc' = [tpc EXCEPT ![h] = "commit"]
  /\ Available(tjob[h].src) >= tjob[h].amount
  /\ UNCHANGED <<tjob, dbVars>>

Moves(h) ==
  LET e == TransferEntry(tjob[h]) IN
    /\ tpc[h] = "commit"
    /\ Insertable(Raw(tjob[h].key), TransferRow(tjob[h]))
    /\ PutTxn(Raw(tjob[h].key), TransferRow(tjob[h]))
    /\ Post(e.key, e.debit, e.credit, e.amount)
    /\ TransferReply(h, "CREATED")

\* A step of a transfer handler is quiet or one of the loud ones.
LEMMA TransferStepKinds ==
  ASSUME PaymentsCore, NEW h \in TransferHandlers,
         TransferStart(h) \/ TransferProgress(h) \/ TransferAbort(h),
         UNCHANGED walletVars
  PROVE  TransferQuiet(h) \/ TransferLock(h) \/ FindsFunds(h) \/ Moves(h)
<1> USE DEF PaymentsCore, PaymentsTypeOK, TransferTypeOK, TransferQuiet, TransferGoto, dbVars
<1>r. ASSUME NEW answer, TransferRefuse(h, answer) PROVE TransferQuiet(h)
  BY <1>r DEF TransferRefuse, TransferReply, ReleaseLocks
<1>y. ASSUME TransferReplay(h) PROVE TransferQuiet(h)
  BY <1>y, <1>r DEF TransferReplay, TransferRefuse
<1>1. CASE TransferStart(h)
  BY <1>1 DEF TransferStart
<1>2. CASE TransferLookup(h)
  BY <1>2, <1>r, <1>y DEF TransferLookup
<1>3. CASE TransferBegin(h)
  <2>1. CASE TransferReplay(h)
    BY <2>1, <1>y
  <2>2. CASE TransferGoto(h, "begin", "lock") /\ UNCHANGED dbVars
    BY <2>2 DEF TransfersMove
  <2> QED BY <1>3, <2>1, <2>2 DEF TransferBegin
<1>4. CASE TransferCheck(h)
  BY <1>4, <1>r DEF TransferCheck, FindsFunds
<1>5. CASE TransferCommit(h)
  BY <1>5, <1>r DEF TransferCommit, Moves
<1>6. CASE TransferReturn(h)
  BY <1>6 DEF TransferReturn
<1>7. CASE TransferAbort(h)
  BY <1>7 DEF TransferAbort, ReleaseLocks
<1> QED BY <1>1, <1>2, <1>3, <1>4, <1>5, <1>6, <1>7 DEF TransferProgress

\* A transfer handler past its lock has well-typed terms, and no wallet
\* handler is the same handler.
LEMMA TransferTerms ==
  ASSUME PaymentsTypeOK, NEW g \in TransferHandlers, tpc[g] # "idle"
  PROVE  /\ tjob[g].key \in Keys /\ tjob[g].src \in Investors /\ tjob[g].dst \in Investors
         /\ tjob[g].amount \in Int /\ tjob[g].amount > 0
         /\ <<"transfer", tjob[g].src>> \in LockNames
         /\ g # Nobody /\ \A h \in WalletHandlers : g # h /\ h # Nobody
  BY TransferConstants, WalletConstants, SentinelsDistinct, PaymentHandlersDisjoint,
     LockNamesOfInvestors, AmountsAreNumbers
  DEF PaymentsTypeOK, TransferTypeOK

LEMMA TransferQuietKeeps ==
  ASSUME PaymentsCore, PaymentsTypeOK', NEW h \in TransferHandlers, TransferQuiet(h)
  PROVE  PaymentsCore' /\ (CashSuffices => CashSuffices')
<1> USE DEF TransferQuiet, PaymentsCore, walletVars
<1>1. \A g \in WalletHandlers : WalletKey(g)' = WalletKey(g) /\ Request(g)' = Request(g)
  BY DEF WalletKey, Request
<1>2. ClaimsHold'
  BY <1>1 DEF ClaimsHold
<1>3. LocksHold'
  <2>1. ASSUME NEW g \in WalletHandlers, wpc[g] \in {"confirm-check", "confirm-commit"}
        PROVE  lock'[<<"transfer", Request(g).user>>] = g
    <3>1. g # h /\ wpc[g] \in ClaimPcs
      BY <2>1, PaymentHandlersDisjoint DEF ClaimPcs
    <3>2. <<"transfer", Request(g).user>> \in LockNames
      BY <3>1, ClaimedRow, LockNamesOfInvestors
    <3> QED BY <2>1, <3>1, <3>2 DEF LocksHold
  <2>2. ASSUME NEW g \in TransferHandlers, tpc'[g] \in {"check", "commit"}
        PROVE  lock'[<<"transfer", tjob'[g].src>>] = g
    <3>1. g # h /\ tpc[g] = tpc'[g] /\ tjob[g] = tjob'[g]
      BY <2>2
    <3>2. <<"transfer", tjob[g].src>> \in LockNames
      BY <2>2, <3>1, TransferTerms
    <3> QED BY <2>2, <3>1, <3>2 DEF LocksHold
  <2> QED BY <1>1, <2>1, <2>2 DEF LocksHold
<1>4. ChecksHold => ChecksHold'
  BY <1>1 DEF ChecksHold, Available
<1>5. TransfersMove'
  <2> SUFFICES ASSUME NEW g \in TransferHandlers,
                      tpc'[g] \in {"begin", "lock", "check", "commit"}
               PROVE  tjob'[g].src # tjob'[g].dst
    BY DEF TransfersMove
  <2> QED BY DEF TransfersMove
<1>6. OnlyRequestsPend' /\ OneVerdict' /\ (NoOverdraft => NoOverdraft')
  BY DEF OnlyRequestsPend, NoOverdraft, OneVerdict, Available, Posted
<1> QED BY <1>2, <1>3, <1>4, <1>5, <1>6 DEF CashSuffices

\* Taking the source's free lock takes it from nobody.
LEMMA TransferLockKeeps ==
  ASSUME PaymentsCore, PaymentsTypeOK', NEW h \in TransferHandlers, TransferLock(h),
         UNCHANGED walletVars
  PROVE  PaymentsCore' /\ (CashSuffices => CashSuffices')
<1> USE DEF TransferLock, TransferGoto, TakeLock, PaymentsCore, walletVars
<1> DEFINE name == <<"transfer", tjob[h].src>>
<1>1. name \in LockNames
  BY TransferTerms
<1>2. /\ lock[name] = Nobody /\ lock'[name] = h
      /\ \A l \in LockNames \ {name} : lock'[l] = lock[l]
  BY <1>1 DEF PaymentsTypeOK, DbTypeOK
<1>3. \A g \in WalletHandlers : WalletKey(g)' = WalletKey(g) /\ Request(g)' = Request(g)
  BY DEF WalletKey, Request
<1>4. /\ tpc[h] = "lock" /\ tpc'[h] = "check"
      /\ \A g \in TransferHandlers \ {h} : tpc'[g] = tpc[g]
  BY DEF PaymentsTypeOK, TransferTypeOK
<1>5. ClaimsHold'
  BY <1>3 DEF ClaimsHold
<1>6. LocksHold'
  <2>1. ASSUME NEW g \in WalletHandlers, wpc[g] \in {"confirm-check", "confirm-commit"}
        PROVE  lock'[<<"transfer", Request(g).user>>] = g
    <3>1. <<"transfer", Request(g).user>> \in LockNames
      BY <2>1, ClaimedRow, LockNamesOfInvestors DEF ClaimPcs
    <3>2. lock[<<"transfer", Request(g).user>>] = g /\ g # Nobody
      BY <2>1, WalletConstants, SentinelsDistinct DEF LocksHold
    <3> QED BY <1>2, <3>1, <3>2
  <2>2. ASSUME NEW g \in TransferHandlers, tpc'[g] \in {"check", "commit"}
        PROVE  lock'[<<"transfer", tjob[g].src>>] = g
    <3>1. CASE g = h
      BY <1>2, <3>1
    <3>2. CASE g # h
      <4>1. <<"transfer", tjob[g].src>> \in LockNames /\ g # Nobody
        BY <1>4, <2>2, <3>2, TransferTerms
      <4> QED BY <1>2, <1>4, <2>2, <3>2, <4>1 DEF LocksHold
    <3> QED BY <3>1, <3>2
  <2> QED BY <1>3, <2>1, <2>2 DEF LocksHold
<1>7. ChecksHold => ChecksHold'
  BY <1>3, <1>4 DEF ChecksHold, Available
<1>8. TransfersMove'
  BY <1>4 DEF TransfersMove
<1>9. OnlyRequestsPend' /\ OneVerdict' /\ (NoOverdraft => NoOverdraft')
  BY DEF OnlyRequestsPend, NoOverdraft, OneVerdict, Available, Posted
<1> QED BY <1>5, <1>6, <1>7, <1>8, <1>9 DEF CashSuffices

LEMMA FundsKeep ==
  ASSUME PaymentsCore, PaymentsTypeOK', NEW h \in TransferHandlers, FindsFunds(h),
         UNCHANGED walletVars
  PROVE  PaymentsCore' /\ (CashSuffices => CashSuffices')
<1> USE DEF FindsFunds, PaymentsCore, walletVars, dbVars
<1>1. \A g \in WalletHandlers : WalletKey(g)' = WalletKey(g) /\ Request(g)' = Request(g)
  BY DEF WalletKey, Request
<1>2. /\ tpc[h] = "check" /\ tpc'[h] = "commit"
      /\ \A g \in TransferHandlers \ {h} : tpc'[g] = tpc[g]
  BY DEF PaymentsTypeOK, TransferTypeOK
<1>3. ClaimsHold'
  BY <1>1 DEF ClaimsHold
<1>4. LocksHold' /\ (ChecksHold => ChecksHold') /\ TransfersMove'
  BY <1>1, <1>2 DEF LocksHold, ChecksHold, TransfersMove, Available
<1>5. OnlyRequestsPend' /\ OneVerdict' /\ (NoOverdraft => NoOverdraft')
  BY DEF OnlyRequestsPend, NoOverdraft, OneVerdict, Available, Posted
<1> QED BY <1>3, <1>4, <1>5 DEF CashSuffices

\* A transfer files its row under a free key, so under nobody's request, and
\* spends a balance whose lock is its own; everybody else's only grows.
LEMMA MovesKeep ==
  ASSUME PaymentsCore, PaymentsTypeOK', NEW h \in TransferHandlers, Moves(h),
         UNCHANGED walletVars
  PROVE  PaymentsCore' /\ (CashSuffices => CashSuffices')
<1> USE DEF PaymentsCore, walletVars
<1> DEFINE dto == tjob[h]
           k0 == dto.key
           e == TransferEntry(dto)
<1>1. tpc[h] = "commit" /\ PutTxn(Raw(k0), TransferRow(dto)) /\ txn[Raw(k0)] = NoRow
      /\ Post(e.key, e.debit, e.credit, e.amount) /\ TransferReply(h, "CREATED")
  BY DEF Moves, Insertable
<1>2. /\ k0 \in Keys /\ dto.src \in Investors /\ dto.dst \in Investors /\ dto.src # dto.dst
      /\ dto.amount \in Int /\ dto.amount > 0
      /\ h # Nobody /\ \A g \in WalletHandlers : g # h /\ g # Nobody
  BY <1>1, TransferTerms DEF TransfersMove
<1>3. /\ txn'[Raw(k0)] = TransferRow(dto)
      /\ \A k \in Keys \ {k0} : txn'[Raw(k)] = txn[Raw(k)]
  BY <1>1, <1>2, RawKeys DEF PutTxn, PaymentsTypeOK, DbTypeOK
<1>4. /\ tpc'[h] = "replied" /\ tjob' = tjob
      /\ \A g \in TransferHandlers \ {h} : tpc'[g] = tpc[g]
      /\ \A l \in LockNames : lock[l] # h => lock'[l] = lock[l]
  BY <1>1 DEF TransferReply, ReleaseLocks, PaymentsTypeOK, TransferTypeOK
<1>5. \A g \in WalletHandlers :
        wpc[g] \in ClaimPcs => Request(g)' = Request(g) /\ WalletKey(g)' = WalletKey(g)
  <2> SUFFICES ASSUME NEW g \in WalletHandlers, wpc[g] \in ClaimPcs
               PROVE  Request(g)' = Request(g) /\ WalletKey(g)' = WalletKey(g)
    OBVIOUS
  <2>1. WalletKey(g)' = WalletKey(g)
    BY DEF WalletKey
  <2>2. WalletKey(g) \in Keys /\ Request(g) # NoRow
    BY ClaimedRow, SentinelsDistinct
  <2>3. WalletKey(g) # k0
    BY <1>1, <2>2 DEF Request
  <2> QED BY <1>3, <2>1, <2>2, <2>3 DEF Request
<1>6. /\ balance'[Deposits(dto.src)] = balance[Deposits(dto.src)] - dto.amount
      /\ \A i \in Investors \ {dto.src} :
           balance[Deposits(i)] \in Int /\ balance'[Deposits(i)] >= balance[Deposits(i)]
  <2>1. e.debit = Deposits(dto.src) /\ e.credit = Deposits(dto.dst) /\ e.amount = dto.amount
    BY DEF TransferEntry
  <2>2. /\ Deposits(dto.src) \in Accounts /\ Deposits(dto.dst) \in Accounts
        /\ Deposits(dto.src) # Deposits(dto.dst)
        /\ \A i \in Investors : Deposits(i) \in Accounts
        /\ \A i \in Investors : Deposits(i) = Deposits(dto.src) <=> i = dto.src
        /\ \A i \in Investors : Deposits(i) = Deposits(dto.dst) <=> i = dto.dst
    BY <1>2, AccountsOfInvestors
  <2>3. balance \in [Accounts -> Int]
    BY DEF PaymentsTypeOK, DbTypeOK
  <2>4. /\ balance'[Deposits(dto.src)] = balance[Deposits(dto.src)] - dto.amount
        /\ balance'[Deposits(dto.dst)] = balance[Deposits(dto.dst)] + dto.amount
        /\ \A a \in Accounts \ {Deposits(dto.src), Deposits(dto.dst)} :
             balance'[a] = balance[a]
    BY <1>1, <1>2, <2>1, <2>2, <2>3, PostMovesAmount
  <2> HIDE DEF dto, e
  <2> QED BY <1>2, <2>2, <2>3, <2>4
<1>7. ClaimsHold'
  BY <1>5 DEF ClaimsHold
<1>8. LocksHold'
  <2>1. ASSUME NEW g \in WalletHandlers, wpc[g] \in {"confirm-check", "confirm-commit"}
        PROVE  lock'[<<"transfer", Request(g).user>>'] = g
    <3>1. wpc[g] \in ClaimPcs
      BY <2>1 DEF ClaimPcs
    <3>2. <<"transfer", Request(g).user>> \in LockNames
      BY <3>1, ClaimedRow, LockNamesOfInvestors
    <3> QED BY <1>2, <1>4, <1>5, <2>1, <3>1, <3>2 DEF LocksHold
  <2>2. ASSUME NEW g \in TransferHandlers, tpc'[g] \in {"check", "commit"}
        PROVE  lock'[<<"transfer", tjob'[g].src>>] = g
    <3>1. g # h /\ tpc[g] = tpc'[g]
      BY <1>4, <2>2
    <3>2. <<"transfer", tjob[g].src>> \in LockNames
      BY <2>2, <3>1, TransferTerms
    <3> QED BY <1>4, <2>2, <3>1, <3>2 DEF LocksHold
  <2> QED BY <2>1, <2>2 DEF LocksHold
<1>9. lock[<<"transfer", dto.src>>] = h
  BY <1>1 DEF LocksHold
<1>10. CashSuffices => ChecksHold'
  <2> SUFFICES ASSUME CashSuffices PROVE ChecksHold'
    OBVIOUS
  <2> USE DEF CashSuffices
  <2>1. ASSUME NEW g \in WalletHandlers, wpc[g] = "confirm-commit",
               Request(g)'.type = "WITHDRAWAL"
        PROVE  Available(Request(g).user)' >= Request(g)'.amount
    <3>1. /\ Request(g)' = Request(g) /\ Request(g).user \in Investors
          /\ Request(g).amount \in Int
      BY <1>5, <2>1, ClaimedRow, AmountsAreNumbers DEF ClaimPcs
    <3>2. Request(g).user \in Investors \ {dto.src}
      BY <1>2, <1>9, <2>1, <3>1 DEF LocksHold
    <3>3. balance[Deposits(Request(g).user)] >= Request(g).amount
      BY <2>1, <3>1 DEF ChecksHold, Available
    <3>4. /\ balance[Deposits(Request(g).user)] \in Int
          /\ balance'[Deposits(Request(g).user)] >= balance[Deposits(Request(g).user)]
      BY <1>6, <3>2
    <3>5. balance'[Deposits(Request(g).user)] \in Int
      BY <3>1, AccountsOfInvestors DEF PaymentsTypeOK, DbTypeOK
    <3> QED BY <3>1, <3>3, <3>4, <3>5 DEF Available
  <2>2. ASSUME NEW g \in TransferHandlers, tpc'[g] = "commit"
        PROVE  Available(tjob[g].src)' >= tjob'[g].amount
    <3>1. /\ g # h /\ tpc[g] = "commit" /\ tjob[g].src \in Investors
          /\ tjob[g].amount \in Int
      BY <1>4, <2>2, TransferTerms
    <3>2. tjob[g].src \in Investors \ {dto.src}
      BY <1>9, <3>1 DEF LocksHold
    <3>3. balance[Deposits(tjob[g].src)] >= tjob[g].amount
      BY <3>1 DEF ChecksHold, Available
    <3>4. /\ balance[Deposits(tjob[g].src)] \in Int
          /\ balance'[Deposits(tjob[g].src)] >= balance[Deposits(tjob[g].src)]
      BY <1>6, <3>2
    <3>5. balance'[Deposits(tjob[g].src)] \in Int
      BY <3>1, AccountsOfInvestors DEF PaymentsTypeOK, DbTypeOK
    <3> QED BY <1>4, <3>1, <3>3, <3>4, <3>5 DEF Available
  <2> QED BY <2>1, <2>2 DEF ChecksHold
<1>11. OnlyRequestsPend'
  BY <1>3 DEF OnlyRequestsPend, Pending, TransferRow
<1>12. TransfersMove'
  BY <1>2, <1>4 DEF TransfersMove
<1>13. CashSuffices => NoOverdraft'
  <2> SUFFICES ASSUME CashSuffices PROVE NoOverdraft'
    OBVIOUS
  <2> USE DEF CashSuffices
  <2>1. balance[Deposits(dto.src)] \in Int /\ balance[Deposits(dto.src)] >= dto.amount
    BY <1>1, <1>2, AccountsOfInvestors DEF ChecksHold, Available, PaymentsTypeOK, DbTypeOK
  <2>2. \A i \in Investors : balance[Deposits(i)] >= 0
    BY DEF NoOverdraft, Available
  <2>3. \A i \in Investors : balance'[Deposits(i)] \in Int
    BY AccountsOfInvestors DEF PaymentsTypeOK, DbTypeOK
  <2> HIDE DEF dto
  <2>4. \A i \in Investors : balance'[Deposits(i)] >= 0
    BY <1>2, <1>6, <2>1, <2>2, <2>3
  <2> QED BY <2>4 DEF NoOverdraft, Available
<1>14. OneVerdict'
  <2>1. \A k \in Keys : Posted(<<"wallet:", k>>)' <=> Posted(<<"wallet:", k>>)
    <3>1. e.key = Raw(k0) /\ \A k \in Keys : e.key # <<"wallet:", k>>
      BY DEF TransferEntry, Raw
    <3> QED BY <1>1, <3>1, PostRecordsKey
  <2>2. ~IsWalletRow(txn[Raw(k0)]) /\ ~IsWalletRow(txn'[Raw(k0)])
    BY <1>1, <1>3 DEF IsWalletRow, TransferRow
  <2> SUFFICES ASSUME NEW k \in Keys
               PROVE  LET has(status) == IsWalletRow(txn'[Raw(k)])
                                         /\ txn'[Raw(k)].status = status
                      IN /\ has("COMPLETED") <=> <<"WALLET_REQUEST_APPROVED", k>> \in audit
                         /\ has("COMPLETED") <=> Posted(<<"wallet:", k>>)'
                         /\ has("CANCELLED") <=> <<"WALLET_REQUEST_REJECTED", k>> \in audit
    BY DEF OneVerdict, Posted
  <2>3. CASE k = k0
    BY <2>1, <2>2, <2>3 DEF OneVerdict
  <2>4. CASE k # k0
    BY <1>3, <2>1, <2>4 DEF OneVerdict
  <2> QED BY <2>3, <2>4
<1> QED BY <1>7, <1>8, <1>10, <1>11, <1>12, <1>13, <1>14 DEF CashSuffices

-----------------------------------------------------------------------------
(***************************************************************************)
(* Sums.  SumFunctionOnSet is a fold over a finite set in an order CHOOSE  *)
(* fixes; the lemmas argue by a least counterexample, as the library's     *)
(* induction theorems cannot be instantiated.                              *)
(***************************************************************************)

\* Every set of natural numbers has a least one.
LEMMA LeastNat ==
  ASSUME NEW T \in SUBSET Nat, T # {}
  PROVE  \E n \in T : \A m \in T : n <= m
<1>1. \E n \in T : \A m \in T : ~ (<<m, n>> \in OpToRel(<, Nat))
  BY NatLessThanWellFounded, WFMin
<1>2. PICK n \in T : \A m \in T : ~ (<<m, n>> \in OpToRel(<, Nat))
  BY <1>1
<1>3. \A m \in T : ~(m < n)
  BY <1>2 DEF OpToRel
<1> QED BY <1>3

\* The element that the fold takes first, and the rest.
First(s) == CHOOSE x \in s : TRUE
Others(s) == s \ {First(s)}

LEMMA FirstAndOthers ==
  ASSUME NEW s, IsFiniteSet(s)
  PROVE  /\ Cardinality(s) \in Nat
         /\ Cardinality(s) = 0 <=> s = {}
         /\ s # {} => /\ First(s) \in s /\ Others(s) \subseteq s /\ Others(s) # s
                      /\ IsFiniteSet(Others(s))
                      /\ Cardinality(Others(s)) = Cardinality(s) - 1
<1>1. Cardinality(s) \in Nat /\ (Cardinality(s) = 0 <=> s = {})
  BY FS_CardinalityType, FS_EmptySet
<1>2. ASSUME s # {} PROVE First(s) \in s
  BY <1>2 DEF First
<1>3. ASSUME s # {}
      PROVE  IsFiniteSet(Others(s)) /\ Cardinality(Others(s)) = Cardinality(s) - 1
  BY <1>2, <1>3, FS_RemoveElement DEF Others
<1> QED BY <1>1, <1>2, <1>3 DEF Others

\* The sums of f over the sets of D, defined from smaller sets.
IsSumOn(g, f, D) ==
  g = [s \in D |-> IF s = {} THEN 0 ELSE f[First(s)] + g[Others(s)]]

LEMMA SumIsChosen ==
  ASSUME NEW f, NEW S
  PROVE  SumFunctionOnSet(f, S) = (CHOOSE g : IsSumOn(g, f, SUBSET S))[S]
  BY DEF SumFunctionOnSet, FoldFunctionOnSet, MapThenFoldSet, IsSumOn, First, Others

\* There are such sums over the subsets of a finite set.
LEMMA SumsExist ==
  ASSUME NEW f, NEW S, IsFiniteSet(S)
  PROVE  \E g : IsSumOn(g, f, SUBSET S)
<1> DEFINE Small(n) == {s \in SUBSET S : Cardinality(s) <= n}
           T == {n \in Nat : ~ \E g : IsSumOn(g, f, Small(n))}
<1>f. \A s \in SUBSET S : IsFiniteSet(s)
  BY FS_Subset
<1>1. ASSUME T # {} PROVE FALSE
  <2>1. PICK n \in T : \A m \in T : n <= m
    BY <1>1, LeastNat
  <2>2. n # 0
    <3>1. SUFFICES ASSUME n = 0 PROVE FALSE
      OBVIOUS
    <3>2. \A s \in Small(0) : s = {}
      BY <1>f, FirstAndOthers
    <3> DEFINE g == [s \in Small(0) |-> 0]
    <3>3. IsSumOn(g, f, Small(0))
      BY <3>2 DEF IsSumOn
    <3> QED BY <2>1, <3>1, <3>3
  <2>3. n - 1 \in Nat /\ n - 1 \notin T
    <3>1. n \in Nat /\ n - 1 \in Nat
      BY <2>1, <2>2
    <3> HIDE DEF T
    <3>2. n - 1 \notin T
      BY <2>1, <3>1
    <3> QED BY <3>1, <3>2
  <2>4. PICK g : IsSumOn(g, f, Small(n - 1))
    BY <2>3
  <2> DEFINE h == [s \in Small(n) |-> IF s = {} THEN 0 ELSE f[First(s)] + g[Others(s)]]
  <2>5. ASSUME NEW s \in Small(n), s # {}
        PROVE  Others(s) \in Small(n - 1) /\ Others(s) \in Small(n)
    <3>1. s \in SUBSET S /\ Cardinality(s) <= n /\ IsFiniteSet(s)
      BY <1>f
    <3>2. Cardinality(s) \in Nat /\ Others(s) \subseteq s /\ Cardinality(Others(s)) = Cardinality(s) - 1
      BY <3>1, <2>5, FirstAndOthers
    <3>3. Others(s) \in SUBSET S /\ Cardinality(Others(s)) <= n - 1 /\ Cardinality(Others(s)) <= n
      BY <3>1, <3>2, <2>3
    <3> QED BY <3>3
  <2>6. ASSUME NEW s \in Small(n - 1) PROVE h[s] = g[s]
    <3>1. s \in Small(n)
      BY <2>1, <1>f, FirstAndOthers
    <3>2. g[s] = IF s = {} THEN 0 ELSE f[First(s)] + g[Others(s)]
      BY <2>4 DEF IsSumOn
    <3> QED BY <3>1, <3>2
  <2>7. \A s \in Small(n) : (IF s = {} THEN 0 ELSE f[First(s)] + g[Others(s)])
                              = (IF s = {} THEN 0 ELSE f[First(s)] + h[Others(s)])
    <3> HIDE DEF h, Small
    <3> QED BY <2>5, <2>6
  <2>8. IsSumOn(h, f, Small(n))
    <3>1. \A s \in Small(n) : h[s] = IF s = {} THEN 0 ELSE f[First(s)] + h[Others(s)]
      BY <2>7
    <3>2. h = [s \in Small(n) |-> h[s]]
      OBVIOUS
    <3> HIDE DEF h
    <3> QED BY <3>1, <3>2 DEF IsSumOn
  <2> QED BY <2>1, <2>8
<1>2. Cardinality(S) \in Nat /\ Small(Cardinality(S)) = SUBSET S
  <2>1. Cardinality(S) \in Nat
    BY FirstAndOthers
  <2>2. \A s \in SUBSET S : Cardinality(s) <= Cardinality(S)
    BY FS_Subset
  <2> QED BY <2>1, <2>2
<1> QED BY <1>1, <1>2

IsSum(g, f, S) == IsSumOn(g, f, SUBSET S)

AgreeOn(f, e, S) == \A x \in S : f[x] = e[x]

\* They are equal wherever two of them are defined.
LEMMA SumsAreUnique ==
  ASSUME NEW f, NEW e, NEW S, IsFiniteSet(S), NEW T, T \subseteq S,
         AgreeOn(f, e, T),
         NEW g, IsSum(g, f, S), NEW h, IsSum(h, e, T)
  PROVE  g[T] = h[T]
<1> DEFINE Wrong == {n \in Nat : \E s \in SUBSET T : Cardinality(s) = n /\ g[s] # h[s]}
<1>f. \A s \in SUBSET T : IsFiniteSet(s) /\ s \in SUBSET S
  BY FS_Subset
<1>1. ASSUME Wrong # {} PROVE FALSE
  <2>1. PICK n \in Wrong : \A m \in Wrong : n <= m
    BY <1>1, LeastNat
  <2>2. PICK s \in SUBSET T : Cardinality(s) = n /\ g[s] # h[s]
    BY <2>1
  <2>3. /\ g[s] = IF s = {} THEN 0 ELSE f[First(s)] + g[Others(s)]
        /\ h[s] = IF s = {} THEN 0 ELSE e[First(s)] + h[Others(s)]
    BY <1>f DEF IsSum, IsSumOn
  <2>4. s # {}
    BY <2>2, <2>3
  <2>5. /\ First(s) \in T /\ Others(s) \in SUBSET T
        /\ Cardinality(Others(s)) \in Nat /\ Cardinality(Others(s)) < n
    BY <2>1, <2>2, <2>4, <1>f, FirstAndOthers
  <2>6. g[Others(s)] = h[Others(s)]
    <3>1. Cardinality(Others(s)) \notin Wrong
      BY <2>1, <2>5
    <3> QED BY <2>5, <3>1
  <2> QED BY <2>2, <2>3, <2>4, <2>5, <2>6 DEF AgreeOn
<1>2. Cardinality(T) \in Nat
  BY <1>f, FirstAndOthers
<1> QED BY <1>1, <1>2

\* What a sum is: nothing over no indices, else the first value and the rest.
LEMMA SumUnfolds ==
  ASSUME NEW f, NEW S, IsFiniteSet(S)
  PROVE  /\ S = {} => SumFunctionOnSet(f, S) = 0
         /\ S # {} => SumFunctionOnSet(f, S) = f[First(S)] + SumFunctionOnSet(f, Others(S))
<1>1. PICK g : /\ IsSum(g, f, S) /\ SumFunctionOnSet(f, S) = g[S]
  BY SumsExist, SumIsChosen DEF IsSum
<1>2. g[S] = IF S = {} THEN 0 ELSE f[First(S)] + g[Others(S)]
  BY <1>1 DEF IsSum, IsSumOn
<1>3. ASSUME S # {} PROVE g[Others(S)] = SumFunctionOnSet(f, Others(S))
  <2>1. Others(S) \subseteq S /\ IsFiniteSet(Others(S))
    BY <1>3, FirstAndOthers
  <2>2. PICK h : /\ IsSum(h, f, Others(S))
                 /\ SumFunctionOnSet(f, Others(S)) = h[Others(S)]
    BY <2>1, SumsExist, SumIsChosen DEF IsSum
  <2>3. AgreeOn(f, f, Others(S))
    BY DEF AgreeOn
  <2> QED BY <2>1, <2>2, <2>3, <1>1, SumsAreUnique
<1> QED BY <1>1, <1>2, <1>3

\* Sums over equal values are equal.
LEMMA SumsAgree ==
  ASSUME NEW f, NEW e, NEW S, IsFiniteSet(S), \A x \in S : f[x] = e[x]
  PROVE  SumFunctionOnSet(f, S) = SumFunctionOnSet(e, S)
<1>1. PICK g : /\ IsSum(g, f, S) /\ SumFunctionOnSet(f, S) = g[S]
  BY SumsExist, SumIsChosen DEF IsSum
<1>2. PICK h : /\ IsSum(h, e, S) /\ SumFunctionOnSet(e, S) = h[S]
  BY SumsExist, SumIsChosen DEF IsSum
<1>3. S \subseteq S /\ AgreeOn(f, e, S)
  BY DEF AgreeOn
<1>4. g[S] = h[S]
  BY <1>1, <1>2, <1>3, SumsAreUnique
<1> QED BY <1>1, <1>2, <1>4

\* Whatever unfolds so over the subsets of S may begin with any element.
LEMMA AnyFirst ==
  ASSUME NEW f, NEW S, IsFiniteSet(S), \A x \in S : f[x] \in Int,
         NEW sum, sum[{}] = 0,
         \A s \in SUBSET S : s # {} => sum[s] = f[First(s)] + sum[Others(s)]
  PROVE  sum[S] \in Int /\ \A x \in S : sum[S] = f[x] + sum[S \ {x}]
<1> DEFINE Good(s) == sum[s] \in Int /\ \A x \in s : sum[s] = f[x] + sum[s \ {x}]
           Wrong == {n \in Nat : \E s \in SUBSET S : Cardinality(s) = n /\ ~Good(s)}
<1>f. \A s \in SUBSET S : IsFiniteSet(s) /\ Cardinality(s) \in Nat
  BY FS_Subset, FirstAndOthers
<1>0. Good({})
  OBVIOUS
<1>g. \A s : Good(s) => sum[s] \in Int /\ \A x \in s : sum[s] = f[x] + sum[s \ {x}]
  OBVIOUS
<1>1. ASSUME Wrong # {} PROVE FALSE
  <2>1. PICK n \in Wrong : \A m \in Wrong : n <= m
    BY <1>1, LeastNat
  <2>2. n \in Nat /\ \E s \in SUBSET S : Cardinality(s) = n /\ ~Good(s)
    BY <2>1
  <2>3. PICK s \in SUBSET S : Cardinality(s) = n /\ ~Good(s)
    BY <2>2
  <2>4. ASSUME NEW t \in SUBSET S, Cardinality(t) < n PROVE Good(t)
    <3>1. Cardinality(t) \in Nat /\ Cardinality(t) \notin Wrong
      <4> HIDE DEF Wrong
      <4> QED BY <2>1, <2>2, <2>4, <1>f
    <3> QED BY <3>1
  <2>g. Good(s) <=> (sum[s] \in Int /\ \A x \in s : sum[s] = f[x] + sum[s \ {x}])
    OBVIOUS
  <2> HIDE DEF Good, Wrong
  <2>5. s # {}
    BY <2>3, <1>0
  <2>r. ASSUME NEW x \in s
        PROVE  s \ {x} \in SUBSET S /\ Cardinality(s \ {x}) = n - 1 /\ Good(s \ {x})
    <3>1. Cardinality(s \ {x}) = n - 1 /\ s \ {x} \in SUBSET S
      BY <2>3, <1>f, FS_RemoveElement
    <3>2. Cardinality(s \ {x}) < n
      BY <3>1, <2>2
    <3> QED BY <3>1, <3>2, <2>4
  <2>6. PICK c \in s : c = First(s) /\ Others(s) = s \ {c}
    BY <2>5, <1>f, FirstAndOthers DEF Others
  <2>7. sum[s] = f[c] + sum[s \ {c}] /\ f[c] \in Int
    BY <2>5, <2>6
  <2>8. sum[s \ {c}] \in Int
    BY <2>r, <1>g
  <2>9. sum[s] \in Int
    BY <2>7, <2>8
  <2>10. ASSUME NEW x \in s, x # c PROVE sum[s] = f[x] + sum[s \ {x}]
    <3>1. (s \ {c}) \ {x} = (s \ {x}) \ {c} /\ x \in s \ {c} /\ c \in s \ {x}
      BY <2>6, <2>10
    <3>2. sum[s \ {c}] = f[x] + sum[(s \ {c}) \ {x}]
      BY <3>1, <2>r, <1>g
    <3>3. sum[s \ {x}] = f[c] + sum[(s \ {x}) \ {c}]
      BY <3>1, <2>r, <1>g
    <3>4. sum[(s \ {x}) \ {c}] \in Int
      <4>1. /\ IsFiniteSet(s \ {x}) /\ (s \ {x}) \ {c} \in SUBSET S
            /\ Cardinality(s \ {x}) = n - 1
        BY <1>f, <2>r
      <4>2. Cardinality((s \ {x}) \ {c}) = Cardinality(s \ {x}) - 1
        BY <4>1, <3>1, FS_RemoveElement
      <4>3. Cardinality((s \ {x}) \ {c}) < n
        BY <4>1, <4>2, <2>2
      <4> QED BY <4>1, <4>3, <2>4, <1>g
    <3>5. f[x] \in Int /\ f[c] \in Int
      OBVIOUS
    <3>6. PICK r \in Int : r = sum[(s \ {x}) \ {c}]
      BY <3>4
    <3>7. sum[s] = f[c] + (f[x] + r) /\ sum[s \ {x}] = f[c] + r
      BY <3>1, <3>2, <3>3, <3>6, <2>7
    <3> HIDE <1>f
    <3> QED BY <3>5, <3>6, <3>7
  <2>11. \A x \in s : sum[s] = f[x] + sum[s \ {x}]
    BY <2>7, <2>10
  <2> QED BY <2>3, <2>9, <2>11, <2>g
<1>2. Good(S)
  BY <1>1, <1>f
<1> QED BY <1>2

\* A sum of integers is one, and may begin with any of them.
LEMMA SumTakesAny ==
  ASSUME NEW f, NEW S, IsFiniteSet(S), \A x \in S : f[x] \in Int
  PROVE  /\ SumFunctionOnSet(f, S) \in Int
         /\ \A x \in S : SumFunctionOnSet(f, S) = f[x] + SumFunctionOnSet(f, S \ {x})
<1>1. PICK sum : sum = [s \in SUBSET S |-> SumFunctionOnSet(f, s)]
  OBVIOUS
<1>2. \A s \in SUBSET S : sum[s] = SumFunctionOnSet(f, s) /\ IsFiniteSet(s)
  BY <1>1, FS_Subset
<1>3. sum[{}] = 0
  BY <1>2, SumUnfolds
<1>4. ASSUME NEW s \in SUBSET S, s # {} PROVE sum[s] = f[First(s)] + sum[Others(s)]
  <2>1. SumFunctionOnSet(f, s) = f[First(s)] + SumFunctionOnSet(f, Others(s))
    BY <1>2, <1>4, SumUnfolds
  <2>2. Others(s) \in SUBSET S
    BY DEF Others
  <2> QED BY <1>2, <2>1, <2>2
<1>5. sum[S] \in Int /\ \A x \in S : sum[S] = f[x] + sum[S \ {x}]
  BY <1>3, <1>4, AnyFirst
<1>6. \A x \in S : S \ {x} \in SUBSET S
  OBVIOUS
<1> QED BY <1>2, <1>5, <1>6

\* One value changed changes the sum by as much.
LEMMA SumMoves ==
  ASSUME NEW f, NEW e, NEW S, IsFiniteSet(S), NEW x \in S,
         \A y \in S : f[y] \in Int /\ e[y] \in Int,
         \A y \in S \ {x} : e[y] = f[y]
  PROVE  SumFunctionOnSet(e, S) = SumFunctionOnSet(f, S) - f[x] + e[x]
<1>1. IsFiniteSet(S \ {x})
  BY FS_Subset
<1>2. SumFunctionOnSet(e, S \ {x}) = SumFunctionOnSet(f, S \ {x})
  BY <1>1, SumsAgree
<1>3. SumFunctionOnSet(f, S \ {x}) \in Int
  BY <1>1, SumTakesAny
<1>4. /\ SumFunctionOnSet(f, S) = f[x] + SumFunctionOnSet(f, S \ {x})
      /\ SumFunctionOnSet(e, S) = e[x] + SumFunctionOnSet(e, S \ {x})
  BY SumTakesAny
<1> QED BY <1>2, <1>3, <1>4

Column(x, J) == {x} \X J

\* The balances of one account, and how they lose one investor.
LEMMA Columns ==
  ASSUME NEW x, NEW J, IsFiniteSet(J)
  PROVE  /\ IsFiniteSet(Column(x, J))
         /\ Column(x, {}) = {}
         /\ \A y \in Column(x, J) : \E i \in J : y = <<x, i>>
         /\ \A i \in J : /\ <<x, i>> \in Column(x, J)
                         /\ Column(x, J) \ {<<x, i>>} = Column(x, J \ {i})
<1>1. IsFiniteSet(Column(x, J))
  BY FS_Singleton, FS_Product DEF Column
<1>2. Column(x, {}) = {} /\ \A y \in Column(x, J) : \E i \in J : y = <<x, i>>
  BY DEF Column
<1>3. ASSUME NEW i \in J
      PROVE  <<x, i>> \in Column(x, J) /\ Column(x, J) \ {<<x, i>>} = Column(x, J \ {i})
  BY DEF Column
<1> QED BY <1>1, <1>2, <1>3

\* Balances that are opposite investor by investor have opposite sums.
LEMMA SumsOpposed ==
  ASSUME NEW f, NEW I, IsFiniteSet(I), NEW a, NEW c,
         \A i \in I : f[<<a, i>>] \in Int /\ f[<<c, i>>] = 0 - f[<<a, i>>]
  PROVE  SumFunctionOnSet(f, Column(a, I)) = 0 - SumFunctionOnSet(f, Column(c, I))
<1> DEFINE Over(x, J) == SumFunctionOnSet(f, Column(x, J))
           Good(J) == Over(a, J) = 0 - Over(c, J)
           Wrong == {n \in Nat : \E J \in SUBSET I : Cardinality(J) = n /\ ~Good(J)}
<1>f. \A J \in SUBSET I : IsFiniteSet(J) /\ Cardinality(J) \in Nat
  BY FS_Subset, FS_CardinalityType
<1>u. ASSUME NEW x \in {a, c}, NEW J \in SUBSET I
      PROVE  /\ Over(x, J) \in Int
             /\ \A i \in J : Over(x, J) = f[<<x, i>>] + Over(x, J \ {i})
  <2>1. IsFiniteSet(Column(x, J)) /\ \A y \in Column(x, J) : f[y] \in Int
    <3>1. ASSUME NEW i \in J PROVE f[<<x, i>>] \in Int
      <4>1. f[<<a, i>>] \in Int /\ f[<<c, i>>] = 0 - f[<<a, i>>]
        OBVIOUS
      <4> QED BY <4>1
    <3> QED BY <3>1, <1>f, Columns
  <2>2. /\ Over(x, J) \in Int
        /\ \A y \in Column(x, J) :
             Over(x, J) = f[y] + SumFunctionOnSet(f, Column(x, J) \ {y})
    BY <2>1, SumTakesAny
  <2>3. \A i \in J : /\ <<x, i>> \in Column(x, J)
                     /\ Column(x, J) \ {<<x, i>>} = Column(x, J \ {i})
    <3>1. IsFiniteSet(J)
      BY <1>f
    <3> SUFFICES ASSUME NEW i \in J
                 PROVE  /\ <<x, i>> \in Column(x, J)
                        /\ Column(x, J) \ {<<x, i>>} = Column(x, J \ {i})
      OBVIOUS
    <3> QED BY DEF Column
  <2> QED BY <2>2, <2>3
<1>0. Over(a, {}) = 0 /\ Over(c, {}) = 0
  <2>1. SumFunctionOnSet(f, {}) = 0
    BY FS_EmptySet, SumUnfolds
  <2>2. Column(a, {}) = {} /\ Column(c, {}) = {}
    BY FS_EmptySet, Columns
  <2> QED BY <2>1, <2>2
<1> HIDE DEF Over
<1>1. ASSUME Wrong # {} PROVE FALSE
  <2>1. PICK n \in Wrong : \A m \in Wrong : n <= m
    BY <1>1, LeastNat
  <2>2. n \in Nat /\ \E J \in SUBSET I : Cardinality(J) = n /\ ~Good(J)
    BY <2>1
  <2>3. PICK J \in SUBSET I : Cardinality(J) = n /\ ~Good(J)
    BY <2>2
  <2>4. PICK i \in J : TRUE
    BY <1>0, <2>3
  <2>5. /\ J \ {i} \in SUBSET I /\ Cardinality(J \ {i}) \in Nat
        /\ Cardinality(J \ {i}) < n
    BY <2>2, <2>3, <2>4, <1>f, FS_RemoveElement
  <2>6. Good(J \ {i})
    <3>1. Cardinality(J \ {i}) \notin Wrong
      <4> HIDE DEF Wrong
      <4> QED BY <2>1, <2>2, <2>5
    <3> QED BY <2>5, <3>1
  <2>7. Over(a, J) = f[<<a, i>>] + Over(a, J \ {i}) /\ Over(a, J \ {i}) \in Int
    BY <2>5, <1>u
  <2>8. Over(c, J) = f[<<c, i>>] + Over(c, J \ {i}) /\ Over(c, J \ {i}) \in Int
    BY <2>5, <1>u
  <2>9. f[<<a, i>>] \in Int /\ f[<<c, i>>] = 0 - f[<<a, i>>]
    BY <2>4
  <2>10. Over(a, J) = 0 - Over(c, J)
    <3> HIDE <1>f, <1>u
    <3> QED BY <2>6, <2>7, <2>8, <2>9
  <2> QED BY <2>3, <2>10
<1>2. Good(I)
  BY <1>1, <1>f
<1> QED BY <1>2 DEF Over

\* What is added to, or taken from, one balance moves its account's total.
Gain(account, a, amount) == IF a \in {account} \X Investors THEN amount ELSE 0

LEMMA TotalMoves ==
  ASSUME NEW f \in [Accounts -> Int], NEW e, NEW a \in Accounts, NEW amount \in Int,
         NEW account, {account} \X Investors \subseteq Accounts,
         e[a] = f[a] + amount, \A x \in Accounts \ {a} : e[x] = f[x]
  PROVE  /\ SumFunctionOnSet(f, {account} \X Investors) \in Int
         /\ SumFunctionOnSet(e, {account} \X Investors)
              = SumFunctionOnSet(f, {account} \X Investors) + Gain(account, a, amount)
<1> DEFINE S == {account} \X Investors
<1>1. IsFiniteSet(S)
  BY InvestorsFinite, FS_Singleton, FS_Product
<1>2. \A x \in S : f[x] \in Int /\ x \in Accounts
  OBVIOUS
<1>3. Gain(account, a, amount) = IF a \in S THEN amount ELSE 0
  BY DEF Gain
<1> HIDE DEF S
<1>4. SumFunctionOnSet(f, S) \in Int
  BY <1>1, <1>2, SumTakesAny
<1>5. CASE a \in S
  <2>1. SumFunctionOnSet(e, S) = SumFunctionOnSet(f, S) - f[a] + e[a]
    <3>1. \A y \in S : f[y] \in Int /\ e[y] \in Int
      BY <1>2
    <3>2. \A y \in S \ {a} : e[y] = f[y]
      BY <1>2
    <3> QED BY <1>1, <1>5, <3>1, <3>2, SumMoves
  <2> QED BY <2>1, <1>3, <1>4, <1>5 DEF S
<1>6. CASE a \notin S
  <2>1. \A x \in S : e[x] = f[x]
    BY <1>2, <1>6
  <2>2. SumFunctionOnSet(e, S) = SumFunctionOnSet(f, S)
    BY <1>1, <2>1, SumsAgree
  <2> QED BY <2>2, <1>3, <1>4, <1>6 DEF S
<1> QED BY <1>5, <1>6

-----------------------------------------------------------------------------
(***************************************************************************)
(* The totals of acct_1100 and acct_2100.                                  *)
(***************************************************************************)

\* Posting moves the amount from one total to another, or within one.
LEMMA PostMovesTotals ==
  ASSUME balance \in [Accounts -> Int],
         NEW key, NEW debit \in Accounts, NEW credit \in Accounts, debit # credit,
         NEW amount \in Int, Post(key, debit, credit, amount),
         NEW account \in {"acct_1100", "acct_2100", "acct_2200"}
  PROVE  /\ Total(account) \in Int
         /\ Total(account)' = Total(account) + Gain(account, debit, 0 - amount)
                                             + Gain(account, credit, amount)
<1>1. PICK f \in [Accounts -> Int] : f = balance
  OBVIOUS
<1>2. PICK e : e = balance'
  OBVIOUS
<1>3. PICK mid \in [Accounts -> Int] : mid = [f EXCEPT ![debit] = @ - amount]
  <2>1. f[debit] - amount \in Int
    OBVIOUS
  <2> QED BY <2>1
<1>4. {account} \X Investors \subseteq Accounts
  BY DEF Accounts
<1>5. mid[debit] = f[debit] + (0 - amount) /\ \A x \in Accounts \ {debit} : mid[x] = f[x]
  BY <1>3
<1>6. e[credit] = mid[credit] + amount /\ \A x \in Accounts \ {credit} : e[x] = mid[x]
  BY <1>1, <1>2, <1>3 DEF Post
<1> DEFINE S == {account} \X Investors
<1>7. /\ SumFunctionOnSet(f, S) \in Int
      /\ SumFunctionOnSet(mid, S) = SumFunctionOnSet(f, S) + Gain(account, debit, 0 - amount)
  BY <1>4, <1>5, TotalMoves
<1>8. SumFunctionOnSet(e, S) = SumFunctionOnSet(mid, S) + Gain(account, credit, amount)
  BY <1>4, <1>6, TotalMoves
<1>9. Total(account) = SumFunctionOnSet(f, S) /\ Total(account)' = SumFunctionOnSet(e, S)
  BY <1>1, <1>2 DEF Total
<1> QED BY <1>7, <1>8, <1>9

\* The books start even: what is on deposit came in as cash.
LEMMA BooksStartEven == PaymentsInit => CashMatchesDeposits
<1> SUFFICES ASSUME PaymentsInit PROVE CashMatchesDeposits
  OBVIOUS
<1>1. PICK f : f = balance
  OBVIOUS
<1>2. ASSUME NEW i \in Investors
      PROVE  f[<<"acct_2100", i>>] \in Int /\ f[<<"acct_1100", i>>] = 0 - f[<<"acct_2100", i>>]
  <2>1. <<"acct_2100", i>> \in Accounts /\ <<"acct_1100", i>> \in Accounts
    BY DEF Accounts
  <2>2. f[<<"acct_2100", i>>] = Opening[i] /\ f[<<"acct_1100", i>>] = 0 - Opening[i]
    BY <1>1, <2>1 DEF PaymentsInit, DbInit
  <2> QED BY <2>2, OpeningNat
<1>3. SumFunctionOnSet(f, Column("acct_2100", Investors))
        = 0 - SumFunctionOnSet(f, Column("acct_1100", Investors))
  BY <1>2, InvestorsFinite, SumsOpposed
<1> QED BY <1>1, <1>3 DEF CashMatchesDeposits, Total, Column

\* A step changes balances only by posting, between an investor's cash and
\* its deposits or between two investors' deposits.
BooksMove(debit, credit) ==
  \/ \E i \in Investors : debit = Cash(i) /\ credit = Deposits(i)
  \/ \E i \in Investors : debit = Deposits(i) /\ credit = Cash(i)
  \/ \E i, j \in Investors : i # j /\ debit = Deposits(i) /\ credit = Deposits(j)

LEMMA StepsPost ==
  ASSUME PaymentsCore, [PaymentsNext]_paymentVars
  PROVE  \/ UNCHANGED balance
         \/ \E key, debit, credit : \E amount \in Amounts :
              Post(key, debit, credit, amount) /\ BooksMove(debit, credit)
<1>t. PaymentsTypeOK
  BY DEF PaymentsCore
<1>1. ASSUME NEW h \in WalletHandlers, WalletStep(h), UNCHANGED transferVars,
             ~UNCHANGED balance
      PROVE  \E key, debit, credit : \E amount \in Amounts :
               Post(key, debit, credit, amount) /\ BooksMove(debit, credit)
  <2>1. Approves(h)
    BY <1>1, <1>t, WalletStepKinds
    DEF WalletQuiet, Inserts, Claims, ConfirmLock, FindsEnough, RejectCommit, dbVars
  <2> DEFINE e == WalletEntry(WalletKey(h), Request(h))
  <2>2. Post(e.key, e.debit, e.credit, e.amount) /\ wpc[h] \in ClaimPcs
    BY <2>1 DEF Approves, ClaimPcs
  <2>3. e.amount \in Amounts /\ BooksMove(e.debit, e.credit)
    BY <2>2, ClaimedRow DEF WalletEntry, BooksMove
  <2> HIDE DEF e
  <2> QED BY <2>2, <2>3
<1>2. ASSUME NEW h \in TransferHandlers, UNCHANGED walletVars,
             TransferStart(h) \/ TransferProgress(h) \/ TransferAbort(h),
             ~UNCHANGED balance
      PROVE  \E key, debit, credit : \E amount \in Amounts :
               Post(key, debit, credit, amount) /\ BooksMove(debit, credit)
  <2>1. Moves(h)
    BY <1>2, TransferStepKinds
    DEF TransferQuiet, TransferLock, FindsFunds, dbVars
  <2> DEFINE e == TransferEntry(tjob[h])
  <2>2. Post(e.key, e.debit, e.credit, e.amount) /\ tpc[h] = "commit"
    BY <2>1 DEF Moves
  <2>3. tjob[h] \in TransferInputs /\ tjob[h].src # tjob[h].dst
    BY <2>2 DEF PaymentsCore, TransfersMove, PaymentsTypeOK, TransferTypeOK
  <2>4. e.amount \in Amounts /\ BooksMove(e.debit, e.credit)
    BY <2>3, TransferConstants DEF TransferEntry, BooksMove
  <2> HIDE DEF e
  <2> QED BY <2>2, <2>4
<1>3. CASE WalletNext /\ UNCHANGED transferVars
  BY <1>1, <1>3 DEF WalletNext
<1>4. CASE TransferNext /\ UNCHANGED walletVars
  BY <1>2, <1>4 DEF TransferNext
<1>5. CASE UNCHANGED paymentVars
  BY <1>5 DEF paymentVars, dbVars
<1> QED BY <1>3, <1>4, <1>5 DEF PaymentsNext

\* Every posting adds to both totals, takes from both, or moves within one.
LEMMA BooksStayEven ==
  ASSUME PaymentsCore, [PaymentsNext]_paymentVars, CashMatchesDeposits
  PROVE  CashMatchesDeposits'
<1>1. CASE UNCHANGED balance
  BY <1>1 DEF CashMatchesDeposits, Total
<1>2. ASSUME NEW key, NEW debit, NEW credit, NEW amount \in Amounts,
             Post(key, debit, credit, amount), BooksMove(debit, credit)
      PROVE  CashMatchesDeposits'
  <2>1. amount \in Int /\ 0 - amount \in Int
    BY AmountsAreNumbers
  <2>2. debit \in Accounts /\ credit \in Accounts /\ debit # credit
    BY <1>2, AccountsOfInvestors DEF BooksMove
  <2>3. \A account \in {"acct_1100", "acct_2100", "acct_2200"} :
          /\ Total(account) \in Int
          /\ Total(account)' = Total(account) + Gain(account, debit, 0 - amount)
                                              + Gain(account, credit, amount)
    BY <1>2, <2>1, <2>2, PostMovesTotals DEF PaymentsCore, PaymentsTypeOK, DbTypeOK
  <2>4. Gain("acct_2100", debit, 0 - amount) + Gain("acct_2100", credit, amount)
          = 0 - (Gain("acct_1100", debit, 0 - amount) + Gain("acct_1100", credit, amount))
        /\ \A account \in {"acct_1100", "acct_2100"} :
             Gain(account, debit, 0 - amount) \in Int /\ Gain(account, credit, amount) \in Int
    BY <1>2, <2>1 DEF BooksMove, Gain, Cash, Deposits
  <2> QED BY <2>3, <2>4 DEF CashMatchesDeposits
<1> QED BY <1>1, <1>2, StepsPost

-----------------------------------------------------------------------------
(***************************************************************************)
(* The theorems.                                                           *)
(***************************************************************************)

\* Opening balances are deposits already confirmed, and nothing is under way.
LEMMA InitInv == PaymentsInit => PaymentsInv
<1> SUFFICES ASSUME PaymentsInit PROVE PaymentsInv
  OBVIOUS
<1> USE DEF PaymentsInit
<1>1. PaymentsTypeOK
  BY InitType
<1>2. ClaimsHold /\ LocksHold /\ ChecksHold /\ TransfersMove
  BY DEF WalletInit, TransferInit, ClaimsHold, ClaimPcs, LocksHold, ChecksHold, TransfersMove
<1>3. OnlyRequestsPend /\ OneVerdict
  BY RawKeys DEF DbInit, WalletInit, OnlyRequestsPend, OneVerdict, Pending, IsWalletRow, Posted
<1>4. NoOverdraft
  <2>1. \A i \in Investors : balance[Deposits(i)] = Opening[i]
    BY AccountsOfInvestors DEF DbInit, Deposits
  <2> QED BY <2>1, OpeningNat DEF NoOverdraft, Available
<1> QED BY <1>1, <1>2, <1>3, <1>4 DEF PaymentsInv, PaymentsCore, CashSuffices

\* Every step of either service preserves the invariant.
LEMMA NextCore ==
  ASSUME PaymentsCore, [PaymentsNext]_paymentVars
  PROVE  PaymentsCore' /\ (CashSuffices => CashSuffices')
<1>t. PaymentsTypeOK' /\ PaymentsTypeOK
  BY NextType DEF PaymentsCore
<1>1. CASE WalletNext /\ UNCHANGED transferVars
  <2>1. PICK h \in WalletHandlers : WalletStep(h)
    BY <1>1 DEF WalletNext
  <2>2. CASE WalletQuiet(h)
    BY <2>2, <1>t, WalletQuietKeeps
  <2>3. CASE Inserts(h)
    BY <1>1, <2>3, <1>t, InsertKeeps
  <2>4. CASE Claims(h, "confirm-claim", "confirm-lock")
             \/ Claims(h, "reject-claim", "reject-commit")
    BY <1>1, <2>4, <1>t, ClaimKeeps
  <2>5. CASE ConfirmLock(h)
    BY <1>1, <2>5, <1>t, LockKeeps
  <2>6. CASE FindsEnough(h)
    BY <1>1, <2>6, <1>t, CheckKeeps
  <2>7. CASE Approves(h)
    BY <1>1, <2>7, <1>t, ApproveKeeps
  <2>8. CASE RejectCommit(h)
    BY <1>1, <2>8, <1>t, RejectKeeps
  <2> QED BY <1>1, <1>t, <2>1, <2>2, <2>3, <2>4, <2>5, <2>6, <2>7, <2>8, WalletStepKinds
<1>2. CASE TransferNext /\ UNCHANGED walletVars
  <2>1. PICK h \in TransferHandlers :
          TransferStart(h) \/ TransferProgress(h) \/ TransferAbort(h)
    BY <1>2 DEF TransferNext
  <2>2. CASE TransferQuiet(h)
    BY <2>2, <1>t, TransferQuietKeeps
  <2>3. CASE TransferLock(h)
    BY <1>2, <2>3, <1>t, TransferLockKeeps
  <2>4. CASE FindsFunds(h)
    BY <1>2, <2>4, <1>t, FundsKeep
  <2>5. CASE Moves(h)
    BY <1>2, <2>5, <1>t, MovesKeep
  <2> QED BY <1>2, <2>1, <2>2, <2>3, <2>4, <2>5, TransferStepKinds
<1>3. CASE UNCHANGED paymentVars
  BY <1>3, <1>t DEF paymentVars, dbVars, walletVars, transferVars, PaymentsCore,
     CashSuffices, ClaimsHold, LocksHold, ChecksHold, OnlyRequestsPend, TransfersMove, NoOverdraft,
     OneVerdict, WalletKey, Request, Available, Posted
<1> QED BY <1>1, <1>2, <1>3 DEF PaymentsNext

LEMMA NextInv == PaymentsInv /\ [PaymentsNext]_paymentVars => PaymentsInv'
  BY NextCore DEF PaymentsInv

\* PaymentsInv holds in every reachable state of the two services, however
\* many handlers of either interleave.
THEOREM PaymentsInvariant == PaymentsSpec => []PaymentsInv
  BY InitInv, NextInv, PTL DEF PaymentsSpec

\* Whatever handlers, accounts and requests there are, every row, entry, lock
\* and local of the two services keeps its type.
THEOREM PaymentsTypeCorrect == PaymentsSpec => []PaymentsTypeOK
<1>1. PaymentsInv => PaymentsTypeOK
  BY DEF PaymentsInv, PaymentsCore
<1> QED BY <1>1, PaymentsInvariant, PTL

\* Confirmed withdrawals and transfers together never spend an investor's
\* cash balance twice.
THEOREM PaymentsNeverOverdraw == PaymentsSpec => []NoOverdraft
<1>1. PaymentsInv => NoOverdraft
  BY DEF PaymentsInv, CashSuffices
<1> QED BY <1>1, PaymentsInvariant, PTL

\* However many operators settle a request at once, it gets at most one
\* verdict, and row, journal and audit trail agree on it.
THEOREM PaymentsOneVerdict == PaymentsSpec => []OneVerdict
<1>1. PaymentsInv => OneVerdict
  BY DEF PaymentsInv, PaymentsCore
<1> QED BY <1>1, PaymentsInvariant, PTL

\* Fund-wide, what the investors have on deposit is what came in as cash
\* (docs/chart-of-accounts-v1.md), however confirmations of wallet requests
\* and transfers interleave.
THEOREM CashIsOnDeposit == PaymentsSpec => []CashMatchesDeposits
<1>1. PaymentsInit => PaymentsInv /\ CashMatchesDeposits
  BY InitInv, BooksStartEven
<1>2. (PaymentsInv /\ CashMatchesDeposits) /\ [PaymentsNext]_paymentVars
        => (PaymentsInv /\ CashMatchesDeposits)'
  BY NextInv, BooksStayEven DEF PaymentsInv
<1> QED BY <1>1, <1>2, PTL DEF PaymentsSpec

=============================================================================
