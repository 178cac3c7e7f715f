-------------------------- MODULE Services_proofs --------------------------
(***************************************************************************)
(* What wallet requests and transfers promise together, proved from the    *)
(* inductive invariant of Payments_proofs.                                 *)
(*                                                                         *)
(* 1. They implement CustomerFunds, and what they wrote stays written:     *)
(*    every step that changes the database files, settles or declines a    *)
(*    request, or moves money by a transfer, and every other step of a     *)
(*    handler is invisible to investors.                                   *)
(* 2. A transfer is its journal entry, and what createTransfer answers is  *)
(*    true, while wallet requests use the same keys, references and rows.  *)
(* 3. What createRequest answers is true, whatever it raced: identical     *)
(*    calls are told of one row, and only what really conflicts is refused.*)
(***************************************************************************)
EXTENDS Payments_proofs

-----------------------------------------------------------------------------
(***************************************************************************)
(* The steps that write to the tables.                                     *)
(***************************************************************************)

LEMMA WritingSteps ==
  ASSUME PaymentsCore, [PaymentsNext]_paymentVars
  PROVE  \/ UNCHANGED <<balance, journal, txn>>
         \/ \E h \in WalletHandlers : Inserts(h) \/ Approves(h) \/ RejectCommit(h)
         \/ \E h \in TransferHandlers : TransferCommit(h) /\ Moves(h)
<1> USE DEF PaymentsCore
<1>1. CASE UNCHANGED paymentVars
  BY <1>1 DEF paymentVars, dbVars
<1>2. ASSUME NEW h \in WalletHandlers, WalletStep(h), UNCHANGED transferVars
      PROVE  \/ UNCHANGED <<balance, journal, txn>>
             \/ Inserts(h) \/ Approves(h) \/ RejectCommit(h)
  BY <1>2, WalletStepKinds DEF WalletQuiet, Claims, ConfirmLock, FindsEnough, dbVars
<1>3. ASSUME NEW h \in TransferHandlers, UNCHANGED walletVars,
             TransferStart(h) \/ TransferProgress(h) \/ TransferAbort(h)
      PROVE  UNCHANGED <<balance, journal, txn>> \/ (TransferCommit(h) /\ Moves(h))
  <2>1. CASE TransferCommit(h)
    BY <2>1 DEF TransferCommit, TransferRefuse, Moves
  <2>2. CASE TransferStart(h) \/ TransferAbort(h) \/ TransferReturn(h) \/ TransferLock(h)
    BY <2>2 DEF TransferStart, TransferAbort, TransferReturn, TransferLock, dbVars
  <2>3. CASE TransferLookup(h) \/ TransferBegin(h) \/ TransferCheck(h)
    BY <2>3 DEF TransferLookup, TransferBegin, TransferCheck, TransferReplay,
       TransferRefuse, dbVars
  <2> QED BY <1>3, <2>1, <2>2, <2>3 DEF TransferProgress
<1> QED BY <1>1, <1>2, <1>3 DEF PaymentsNext, WalletNext, TransferNext

\* A row is put under one raw key; the other rows stay.
LEMMA OneRowChanges ==
  ASSUME PaymentsCore, NEW k \in Keys, NEW row, PutTxn(Raw(k), row)
  PROVE  /\ txn'[Raw(k)] = row
         /\ \A j \in TxnKeys \ {Raw(k)} : txn'[j] = txn[j]
         /\ \A j \in Keys \ {k} : txn'[Raw(j)] = txn[Raw(j)]
  BY RawKeys DEF PutTxn, PaymentsCore, PaymentsTypeOK, DbTypeOK

\* createRequest files a well-formed request under a free key.
LEMMA InsertEffect ==
  ASSUME PaymentsCore, NEW h \in WalletHandlers, Inserts(h)
  PROVE  LET k == WalletKey(h) row == NewRequest(wjob[h]) IN
         /\ k \in Keys /\ txn[Raw(k)] = NoRow
         /\ row \in Rows /\ row.type \in {"DEPOSIT", "WITHDRAWAL"} /\ row.status = "PENDING"
         /\ PutTxn(Raw(k), row)
         /\ UNCHANGED <<balance, journal>>
<1>1. WalletKey(h) \in Keys /\ wjob[h] \in Inputs
  BY WalletConstants
  DEF Inserts, PaymentsCore, PaymentsTypeOK, WalletTypeOK, CreatePcs, WalletKey
<1>2. NewRequest(wjob[h]) \in Rows
  BY <1>1 DEF NewRequest, Rows, Types, Inputs
<1> QED BY <1>1, <1>2 DEF Inserts, Insertable, NewRequest, Inputs

\* A verdict changes the status of a PENDING wallet request, and nothing else
\* of it.
LEMMA VerdictEffect ==
  ASSUME PaymentsCore, NEW h \in WalletHandlers, Approves(h) \/ RejectCommit(h)
  PROVE  LET k == WalletKey(h) row == Request(h) IN
         /\ k \in Keys /\ row = txn[Raw(k)] /\ row \in Rows
         /\ row.type \in {"DEPOSIT", "WITHDRAWAL"} /\ row.status = "PENDING"
         /\ \E status \in {"COMPLETED", "CANCELLED"} :
              PutTxn(Raw(k), [row EXCEPT !.status = status])
<1>1. wpc[h] \in ClaimPcs
  BY DEF Approves, RejectCommit, ClaimPcs
<1> QED BY <1>1, ClaimedRow DEF Approves, RejectCommit, Request

\* createTransfer files a completed transfer under a free key.
LEMMA MoveEffect ==
  ASSUME PaymentsCore, NEW h \in TransferHandlers, Moves(h)
  PROVE  LET dto == tjob[h] IN
         /\ dto.key \in Keys /\ dto.src \in Investors /\ dto.dst \in Investors
         /\ dto.src # dto.dst /\ dto.amount \in Amounts /\ dto.ref \in Refs
         /\ txn[Raw(dto.key)] = NoRow /\ TransferRow(dto) \in Rows
         /\ PutTxn(Raw(dto.key), TransferRow(dto))
<1>1. tpc[h] = "commit" /\ tjob[h] \in TransferInputs
  BY DEF Moves, PaymentsCore, PaymentsTypeOK, TransferTypeOK
<1>2. /\ tjob[h].key \in Keys /\ tjob[h].src \in Investors /\ tjob[h].dst \in Investors
      /\ tjob[h].amount \in Amounts /\ tjob[h].ref \in Refs
  BY <1>1, TransferConstants
<1>3. tjob[h].src # tjob[h].dst
  BY <1>1 DEF PaymentsCore, TransfersMove
<1>4. TransferRow(tjob[h]) \in Rows
  BY <1>2 DEF TransferRow, Rows, Types
<1> QED BY <1>2, <1>3, <1>4 DEF Moves, Insertable

-----------------------------------------------------------------------------
(***************************************************************************)
(* The steps of CustomerFunds they map to.                                 *)
(***************************************************************************)

LEMMA RequestTerms ==
  ASSUME NEW row \in Rows, row.type = "TRANSFER" => row.about \in Investors
  PROVE  /\ RequestOf(row) # NoRow
         /\ RequestOf(row).terms \in Promise!Terms
         /\ RequestOf(row).terms.amount = row.amount
<1>1. row # NoRow
  BY SentinelsDistinct
<1>2. row.user \in Investors /\ row.amount \in Amounts
  BY DEF Rows
<1>3. RequestOf(row) \in [terms: Promise!Terms, state: {"open", "settled", "declined"}]
  BY <1>1, <1>2 DEF RequestOf, Promise!Terms, Promise!Parties
<1> QED BY <1>1, <1>3, RequestsDistinct DEF RequestOf

\* A key whose row changes is the only one under which the abstract request
\* does.
LEMMA OneRequestChanges ==
  ASSUME PaymentsCore, NEW k \in Keys, NEW row, PutTxn(Raw(k), row)
  PROVE  Filed' = [Filed EXCEPT ![k] = RequestOf(row)]
<1>1. /\ txn'[Raw(k)] = row
      /\ \A j \in Keys \ {k} : txn'[Raw(j)] = txn[Raw(j)]
  BY OneRowChanges
<1>2. Filed' = [j \in Keys |-> RequestOf(txn'[Raw(j)])]
  BY DEF Filed, RequestOf
<1> QED BY <1>1, <1>2 DEF Filed

LEMMA FundsFollow == UNCHANGED balance => UNCHANGED Funds
  BY DEF Funds, Available

\* createRequest files.
LEMMA InsertFiles ==
  ASSUME PaymentsCore, NEW h \in WalletHandlers, Inserts(h)
  PROVE  \E k \in Keys, t \in Promise!Terms : Promise!File(k, t)
<1> DEFINE k == WalletKey(h)
           row == NewRequest(wjob[h])
           t == RequestOf(row).terms
<1>1. /\ k \in Keys /\ txn[Raw(k)] = NoRow /\ row \in Rows
      /\ row.type \in {"DEPOSIT", "WITHDRAWAL"} /\ row.status = "PENDING"
      /\ PutTxn(Raw(k), row) /\ UNCHANGED <<balance, journal>>
  BY InsertEffect
<1>2. t \in Promise!Terms
  BY <1>1, RequestTerms
<1>3. Filed' = [Filed EXCEPT ![k] = RequestOf(row)]
  BY <1>1, OneRequestChanges
<1>4. RequestOf(row) = [terms |-> t, state |-> "open"]
  BY <1>1, SentinelsDistinct DEF RequestOf
<1>5. Filed[k] = NoRow
  BY <1>1 DEF Filed, RequestOf
<1>6. Promise!File(k, t)
  BY <1>1, <1>3, <1>4, <1>5, FundsFollow DEF Promise!File, Promise!Record
<1> QED BY <1>1, <1>2, <1>6

\* The abstract request behind a row that waits for a verdict.
LEMMA OpenRequest ==
  ASSUME NEW k \in Keys, NEW row \in Rows, row = txn[Raw(k)],
         row.type \in {"DEPOSIT", "WITHDRAWAL"}, row.status = "PENDING"
  PROVE  /\ Promise!Open(k)
         /\ Filed[k].terms = [from   |-> IF row.type = "DEPOSIT" THEN Nobody ELSE row.user,
                              to     |-> IF row.type = "DEPOSIT" THEN row.user ELSE Nobody,
                              amount |-> row.amount]
<1>1. Filed[k] = RequestOf(row) /\ row # NoRow
  BY SentinelsDistinct DEF Filed
<1>2. RequestOf(row) # NoRow
  BY RequestTerms
<1> QED BY <1>1, <1>2 DEF Promise!Open, RequestOf

\* rejectRequest declines.
LEMMA RejectDeclines ==
  ASSUME PaymentsCore, NEW h \in WalletHandlers, RejectCommit(h)
  PROVE  \E k \in Keys : Promise!Decline(k)
<1> DEFINE k == WalletKey(h)
           row == Request(h)
           new == [row EXCEPT !.status = "CANCELLED"]
<1>1. /\ k \in Keys /\ row = txn[Raw(k)] /\ row \in Rows
      /\ row.type \in {"DEPOSIT", "WITHDRAWAL"} /\ row.status = "PENDING"
  BY VerdictEffect
<1>2. PutTxn(Raw(k), new) /\ UNCHANGED balance
  BY DEF RejectCommit
<1>3. Filed' = [Filed EXCEPT ![k] = RequestOf(new)]
  BY <1>1, <1>2, OneRequestChanges
<1>4. row # NoRow /\ new # NoRow
  <2>1. new \in Rows
    BY <1>1 DEF Rows
  <2> QED BY <1>1, <2>1, SentinelsDistinct
<1>5. RequestOf(new) = [terms |-> Filed[k].terms, state |-> "declined"]
  <2>1. Filed[k].terms = RequestOf(row).terms
    BY <1>1 DEF Filed
  <2> QED BY <1>1, <1>4, <2>1 DEF RequestOf, Rows
<1>6. Promise!Decline(k)
  BY <1>1, <1>2, <1>3, <1>5, OpenRequest, FundsFollow DEF Promise!Decline, Promise!Record
<1> QED BY <1>1, <1>6

\* An entry between an investor's cash account and the till moves his funds
\* alone; one between two investors moves both.
LEMMA FundsMove ==
  ASSUME PaymentsCore, NEW e \in Entries, e.debit # e.credit,
         Post(e.key, e.debit, e.credit, e.amount)
  PROVE  Funds' = [i \in Investors |->
           Funds[i] - (IF e.debit = Deposits(i) THEN e.amount ELSE 0)
                    + (IF e.credit = Deposits(i) THEN e.amount ELSE 0)]
<1>1. e.debit \in Accounts /\ e.credit \in Accounts /\ e.amount \in Int
  BY AmountsAreNumbers DEF Entries
<1>2. balance \in [Accounts -> Int]
  BY DEF PaymentsCore, PaymentsTypeOK, DbTypeOK
<1>3. /\ balance'[e.debit] = balance[e.debit] - e.amount
      /\ balance'[e.credit] = balance[e.credit] + e.amount
      /\ \A a \in Accounts \ {e.debit, e.credit} : balance'[a] = balance[a]
  BY <1>1, <1>2 DEF Post
<1>4. ASSUME NEW i \in Investors
      PROVE  balance'[Deposits(i)] =
               balance[Deposits(i)] - (IF e.debit = Deposits(i) THEN e.amount ELSE 0)
                                    + (IF e.credit = Deposits(i) THEN e.amount ELSE 0)
  <2>1. Deposits(i) \in Accounts
    BY AccountsOfInvestors
  <2>2. balance[Deposits(i)] \in Int
    BY <1>2, <2>1
  <2> QED BY <1>1, <1>3, <2>1, <2>2
<1> QED BY <1>4 DEF Funds, Available

\* confirmRequest settles: a deposit is covered from outside, a withdrawal by
\* the balance that was checked under the investor's lock.
LEMMA ApproveSettles ==
  ASSUME PaymentsCore, CashSuffices, NEW h \in WalletHandlers, Approves(h)
  PROVE  \E k \in Keys : Promise!Settle(k)
<1> DEFINE k == WalletKey(h)
           row == Request(h)
           new == [row EXCEPT !.status = "COMPLETED"]
           e == WalletEntry(k, row)
           t == Filed[k].terms
<1>1. /\ k \in Keys /\ row = txn[Raw(k)] /\ row \in Rows
      /\ row.type \in {"DEPOSIT", "WITHDRAWAL"} /\ row.status = "PENDING"
  BY VerdictEffect
<1>2. row.user \in Investors /\ row.amount \in Int /\ Nobody \notin Investors
  BY <1>1, AmountsAreNumbers, SentinelsDistinct DEF Rows
<1>3. Promise!Open(k)
      /\ t = [from   |-> IF row.type = "DEPOSIT" THEN Nobody ELSE row.user,
              to     |-> IF row.type = "DEPOSIT" THEN row.user ELSE Nobody,
              amount |-> row.amount]
  BY <1>1, OpenRequest
<1>4. Promise!Covered(t)
  <2>1. row.type = "WITHDRAWAL" => Available(row.user) >= row.amount
    BY DEF CashSuffices, ChecksHold, Approves
  <2> QED BY <1>1, <1>2, <1>3, <2>1 DEF Promise!Covered, Funds
<1>5. Promise!Pay(t)
  <2>1. e \in Entries /\ e.debit # e.credit /\ e.amount = row.amount
    BY <1>1, WalletEntryType
  <2>2. Post(e.key, e.debit, e.credit, e.amount)
    BY DEF Approves
  <2>3. Funds' = [i \in Investors |->
                    Funds[i] - (IF e.debit = Deposits(i) THEN e.amount ELSE 0)
                             + (IF e.credit = Deposits(i) THEN e.amount ELSE 0)]
    BY <2>1, <2>2, FundsMove
  <2>4. ASSUME NEW i \in Investors
        PROVE  (e.debit = Deposits(i) <=> i = t.from)
               /\ (e.credit = Deposits(i) <=> i = t.to)
    <3>1. e.debit = IF row.type = "DEPOSIT" THEN Cash(row.user) ELSE Deposits(row.user)
      BY DEF WalletEntry
    <3>2. e.credit = IF row.type = "DEPOSIT" THEN Deposits(row.user) ELSE Cash(row.user)
      BY DEF WalletEntry
    <3>3. Deposits(i) # Cash(row.user) /\ (Deposits(i) = Deposits(row.user) <=> i = row.user)
      BY <1>2, AccountsOfInvestors
    <3> QED BY <1>1, <1>2, <1>3, <3>1, <3>2, <3>3
  <2>5. t.amount = e.amount
    BY <1>3, <2>1
  <2> HIDE DEF e, t
  <2>6. Funds' = [i \in Investors |->
                    Funds[i] - (IF i = t.from THEN t.amount ELSE 0)
                             + (IF i = t.to THEN t.amount ELSE 0)]
    BY <2>3, <2>4, <2>5
  <2> QED BY <2>6 DEF Promise!Pay
<1>6. Promise!Record(k, t, "settled")
  <2>1. PutTxn(Raw(k), new)
    BY DEF Approves
  <2>2. Filed' = [Filed EXCEPT ![k] = RequestOf(new)]
    BY <1>1, <2>1, OneRequestChanges
  <2>3. row # NoRow /\ new # NoRow
    <3>1. new \in Rows
      BY <1>1 DEF Rows
    <3> QED BY <1>1, <3>1, SentinelsDistinct
  <2>4. t = RequestOf(row).terms
    BY <1>1 DEF Filed
  <2>5. RequestOf(new) = [terms |-> t, state |-> "settled"]
    BY <1>1, <2>3, <2>4 DEF RequestOf, Rows
  <2> QED BY <2>2, <2>5 DEF Promise!Record
<1>7. Promise!Settle(k)
  BY <1>3, <1>4, <1>5, <1>6 DEF Promise!Settle
<1> QED BY <1>1, <1>7

\* createTransfer files and settles in one go.
LEMMA MoveTransfers ==
  ASSUME PaymentsCore, CashSuffices, NEW h \in TransferHandlers, Moves(h)
  PROVE  \E k \in Keys, t \in Promise!Terms : Promise!Transfer(k, t)
<1> DEFINE dto == tjob[h]
           k == dto.key
           row == TransferRow(dto)
           e == TransferEntry(dto)
           t == [from |-> dto.src, to |-> dto.dst, amount |-> dto.amount]
<1>1. /\ k \in Keys /\ dto.src \in Investors /\ dto.dst \in Investors
      /\ dto.src # dto.dst /\ dto.amount \in Amounts
      /\ txn[Raw(k)] = NoRow /\ row \in Rows /\ PutTxn(Raw(k), row)
  BY MoveEffect
<1>2. t \in Promise!Terms
  BY <1>1 DEF Promise!Terms, Promise!Parties
<1>3. Filed[k] = NoRow
  BY <1>1 DEF Filed, RequestOf
<1>4. Promise!Covered(t)
  BY <1>1 DEF Moves, CashSuffices, ChecksHold, Promise!Covered, Funds
<1>5. Promise!Record(k, t, "settled")
  <2>1. Filed' = [Filed EXCEPT ![k] = RequestOf(row)]
    BY <1>1, OneRequestChanges
  <2>2. RequestOf(row) = [terms |-> t, state |-> "settled"]
    BY <1>1, SentinelsDistinct DEF RequestOf, TransferRow
  <2> QED BY <2>1, <2>2 DEF Promise!Record
<1>6. Promise!Pay(t)
  <2>1. /\ e.debit = Deposits(dto.src) /\ e.credit = Deposits(dto.dst)
        /\ e.amount = dto.amount /\ e.key = Raw(k)
    BY DEF TransferEntry
  <2>2. \A i \in Investors : /\ Deposits(i) \in Accounts
                             /\ Deposits(i) = Deposits(dto.src) <=> i = dto.src
                             /\ Deposits(i) = Deposits(dto.dst) <=> i = dto.dst
    BY <1>1, AccountsOfInvestors
  <2>3. e \in Entries /\ e.debit # e.credit
    BY <1>1, <2>1, <2>2, RawKeys DEF TransferEntry, Entries
  <2>4. Post(e.key, e.debit, e.credit, e.amount)
    BY DEF Moves
  <2>5. Funds' = [i \in Investors |->
                    Funds[i] - (IF e.debit = Deposits(i) THEN e.amount ELSE 0)
                             + (IF e.credit = Deposits(i) THEN e.amount ELSE 0)]
    BY <2>3, <2>4, FundsMove
  <2>6. Funds' = [i \in Investors |->
                    Funds[i] - (IF i = t.from THEN t.amount ELSE 0)
                             + (IF i = t.to THEN t.amount ELSE 0)]
    BY <2>1, <2>2, <2>5
  <2> QED BY <2>6 DEF Promise!Pay
<1>7. Promise!Transfer(k, t)
  BY <1>1, <1>3, <1>4, <1>5, <1>6 DEF Promise!Transfer
<1> QED BY <1>1, <1>2, <1>7

LEMMA InitMaps == PaymentsInit => Promise!Init
<1> SUFFICES ASSUME PaymentsInit PROVE Promise!Init
  OBVIOUS
<1>1. Funds = Opening
  <2>1. \A i \in Investors : balance[Deposits(i)] = Opening[i]
    BY AccountsOfInvestors DEF PaymentsInit, DbInit, Deposits, Accounts
  <2> QED BY <2>1, OpeningNat DEF Funds, Available
<1>2. Filed = [k \in Keys |-> NoRow]
  BY RawKeys DEF PaymentsInit, DbInit, Filed, RequestOf
<1> QED BY <1>1, <1>2 DEF Promise!Init

LEMMA StepMaps == PaymentsInv /\ [PaymentsNext]_paymentVars => [Promise!Next]_(Promise!vars)
<1> SUFFICES ASSUME PaymentsInv, [PaymentsNext]_paymentVars
             PROVE  Promise!Next \/ UNCHANGED <<Funds, Filed>>
  BY DEF Promise!vars
<1> USE DEF PaymentsInv
<1>1. CASE UNCHANGED <<balance, journal, txn>>
  BY <1>1 DEF Funds, Available, Filed, RequestOf
<1>2. ASSUME NEW h \in WalletHandlers, Inserts(h) \/ Approves(h) \/ RejectCommit(h)
      PROVE  Promise!Next
  BY <1>2, InsertFiles, ApproveSettles, RejectDeclines DEF Promise!Next
<1>3. ASSUME NEW h \in TransferHandlers, Moves(h) PROVE Promise!Next
  BY <1>3, MoveTransfers DEF Promise!Next
<1> QED BY <1>1, <1>2, <1>3, WritingSteps

\* Confirmations, rejections, creations and transfers, with all their retries,
\* races and rollbacks, are together an implementation of CustomerFunds.
THEOREM PaymentsKeepTheirPromise == PaymentsSpec => KeepsPromise
  BY InitMaps, StepMaps, PaymentsInvariant, PTL
  DEF PaymentsSpec, KeepsPromise, Promise!Spec

-----------------------------------------------------------------------------
(***************************************************************************)
(* What stays written.                                                     *)
(***************************************************************************)

\* A row keeps its terms, and once it is not PENDING any more it keeps
\* everything.
Ages(k) ==
  txn[k] # NoRow =>
    /\ txn'[k] \in Rows
    /\ txn'[k].user = txn[k].user /\ txn'[k].amount = txn[k].amount
    /\ txn'[k].type = txn[k].type /\ txn'[k].ref = txn[k].ref
    /\ ~Pending(txn[k]) => txn'[k] = txn[k]

LEMMA RowsAge ==
  ASSUME PaymentsCore, [PaymentsNext]_paymentVars
  PROVE  \A k \in TxnKeys : Ages(k)
<1>0. \A k \in TxnKeys : txn[k] # NoRow => txn[k] \in Rows
  BY DEF PaymentsCore, PaymentsTypeOK, DbTypeOK
<1>1. ASSUME NEW k \in Keys, txn[Raw(k)] = NoRow, NEW row, PutTxn(Raw(k), row)
      PROVE  \A j \in TxnKeys : Ages(j)
  BY <1>0, <1>1, OneRowChanges DEF Ages
<1>2. CASE UNCHANGED <<balance, journal, txn>>
  BY <1>0, <1>2 DEF Ages
<1>3. ASSUME NEW h \in WalletHandlers, Inserts(h) PROVE \A j \in TxnKeys : Ages(j)
  BY <1>1, <1>3, InsertEffect
<1>4. ASSUME NEW h \in TransferHandlers, Moves(h) PROVE \A j \in TxnKeys : Ages(j)
  BY <1>1, <1>4, MoveEffect
<1>5. ASSUME NEW h \in WalletHandlers, Approves(h) \/ RejectCommit(h)
      PROVE  \A j \in TxnKeys : Ages(j)
  <2> DEFINE k == WalletKey(h)
             row == Request(h)
  <2>1. /\ k \in Keys /\ row = txn[Raw(k)] /\ row \in Rows /\ row.status = "PENDING"
        /\ \E status \in {"COMPLETED", "CANCELLED"} :
             PutTxn(Raw(k), [row EXCEPT !.status = status])
    BY <1>5, VerdictEffect
  <2>2. PICK status \in {"COMPLETED", "CANCELLED"} :
          PutTxn(Raw(k), [row EXCEPT !.status = status])
    BY <2>1
  <2>3. /\ txn'[Raw(k)] = [row EXCEPT !.status = status]
        /\ \A j \in TxnKeys \ {Raw(k)} : txn'[j] = txn[j]
    BY <2>1, <2>2, OneRowChanges
  <2>4. /\ [row EXCEPT !.status = status] \in Rows
        /\ [row EXCEPT !.status = status].user = row.user
        /\ [row EXCEPT !.status = status].amount = row.amount
        /\ [row EXCEPT !.status = status].type = row.type
        /\ [row EXCEPT !.status = status].ref = row.ref
    BY <2>1 DEF Rows
  <2>5. Pending(row)
    BY <2>1, SentinelsDistinct DEF Pending
  <2>6. Ages(Raw(k))
    BY <2>1, <2>3, <2>4, <2>5 DEF Ages
  <2>7. ASSUME NEW j \in TxnKeys, j # Raw(k) PROVE Ages(j)
    BY <1>0, <2>3, <2>7 DEF Ages
  <2> QED BY <2>6, <2>7
<1> QED BY <1>2, <1>3, <1>4, <1>5, WritingSteps

\* The body of VerdictIsFinal.
SettledStay ==
  \A k \in Keys :
    IsWalletRow(txn[Raw(k)]) /\ ~Pending(txn[Raw(k)]) => txn'[Raw(k)] = txn[Raw(k)]

\* However many operators confirm and reject a request, and whatever transfers
\* run beside them, no step touches it again once it has its verdict.
THEOREM PaymentsVerdictIsFinal == PaymentsSpec => VerdictIsFinal
<1>c. PaymentsInv => PaymentsCore
  BY DEF PaymentsInv
<1>1. PaymentsCore /\ [PaymentsNext]_paymentVars => [SettledStay]_walletSpecVars
  BY RowsAge, RawKeys DEF SettledStay, Ages, IsWalletRow
<1>2. PaymentsSpec => [][SettledStay]_walletSpecVars
  BY <1>c, <1>1, PaymentsInvariant, PTL DEF PaymentsSpec
<1> QED BY <1>2 DEF VerdictIsFinal, SettledStay

-----------------------------------------------------------------------------
(***************************************************************************)
(* Transfers and their entries.                                            *)
(***************************************************************************)

\* Money is transferred between two investors.
TransfersDiffer ==
  \A k \in Keys : FoundTransfer(k) => txn[Raw(k)].user # txn[Raw(k)].about

\* The entries under a transfer's key.
EntriesOf(k) == {e \in journal : e.key = Raw(k)}

\* The transfer that a row of the table stands for.
TransferOf(k, row) ==
  [key |-> k, src |-> row.user, dst |-> row.about, amount |-> row.amount, ref |-> row.ref]

\* A wallet entry's key is never a transfer's.
LEMMA WalletKeysAreOthers == \A j, k : <<"wallet:", j>> # Raw(k)
  BY DEF Raw

\* createTransfer adds the one entry of its row; nothing else writes under a
\* key that is a transfer's, or a transfer under a key that has entries.
LEMMA EntriesFollow ==
  ASSUME PaymentsCore, [PaymentsNext]_paymentVars, TransferIsItsEntry, TransfersDiffer
  PROVE  TransferIsItsEntry' /\ TransfersDiffer'
<1> DEFINE Good(k) ==
      EntriesOf(k) = IF FoundTransfer(k) THEN {TransferEntry(TransferOf(k, txn[Raw(k)]))}
                     ELSE {}
    Differ(k) == FoundTransfer(k) => txn[Raw(k)].user # txn[Raw(k)].about
<1>0. \A k \in Keys : Good(k) /\ Differ(k)
  BY DEF TransferIsItsEntry, TransfersDiffer, EntriesOf, TransferOf
<1>s. SUFFICES ASSUME NEW k \in Keys PROVE Good(k)' /\ Differ(k)'
  BY DEF TransferIsItsEntry, TransfersDiffer, EntriesOf, TransferOf
<1>u. ASSUME EntriesOf(k)' = EntriesOf(k), txn'[Raw(k)] = txn[Raw(k)]
      PROVE  Good(k)' /\ Differ(k)'
  BY <1>0, <1>u DEF FoundTransfer
<1>w. ASSUME EntriesOf(k)' = EntriesOf(k), ~FoundTransfer(k), ~FoundTransfer(k)'
      PROVE  Good(k)' /\ Differ(k)'
  BY <1>0, <1>w
<1>1. CASE UNCHANGED <<balance, journal, txn>>
  BY <1>1, <1>u DEF EntriesOf
<1>2. ASSUME NEW h \in WalletHandlers, Inserts(h) PROVE Good(k)' /\ Differ(k)'
  <2>1. /\ WalletKey(h) \in Keys /\ txn[Raw(WalletKey(h))] = NoRow
        /\ NewRequest(wjob[h]).type \in {"DEPOSIT", "WITHDRAWAL"}
        /\ PutTxn(Raw(WalletKey(h)), NewRequest(wjob[h])) /\ UNCHANGED journal
    BY <1>2, InsertEffect
  <2>2. CASE k = WalletKey(h)
    BY <1>w, <2>1, <2>2, OneRowChanges DEF EntriesOf, FoundTransfer
  <2>3. CASE k # WalletKey(h)
    BY <1>u, <2>1, <2>3, OneRowChanges DEF EntriesOf
  <2> QED BY <2>2, <2>3
<1>3. ASSUME NEW h \in WalletHandlers, Approves(h) \/ RejectCommit(h)
      PROVE  Good(k)' /\ Differ(k)'
  <2>1. EntriesOf(k)' = EntriesOf(k)
    <3>1. CASE RejectCommit(h)
      BY <3>1 DEF RejectCommit, EntriesOf
    <3>2. CASE Approves(h)
      <4> DEFINE e == WalletEntry(WalletKey(h), Request(h))
                 new == [key |-> e.key, debit |-> e.debit, credit |-> e.credit,
                         amount |-> e.amount]
      <4>1. journal' = journal \cup {new}
        BY <3>2 DEF Approves, Post
      <4>2. new.key = <<"wallet:", WalletKey(h)>>
        BY DEF WalletEntry
      <4>3. new.key # Raw(k)
        BY <4>2, WalletKeysAreOthers
      <4> HIDE DEF new
      <4> QED BY <4>1, <4>3 DEF EntriesOf
    <3> QED BY <1>3, <3>1, <3>2
  <2>2. /\ WalletKey(h) \in Keys /\ Request(h) = txn[Raw(WalletKey(h))]
        /\ Request(h).type \in {"DEPOSIT", "WITHDRAWAL"} /\ Request(h) # NoRow
    BY <1>3, VerdictEffect, SentinelsDistinct
  <2>3. CASE k = WalletKey(h)
    <3>1. Ages(Raw(k))
      BY RowsAge, RawKeys
    <3> QED BY <1>w, <2>1, <2>2, <2>3, <3>1 DEF Ages, FoundTransfer
  <2>4. CASE k # WalletKey(h)
    <3>1. txn'[Raw(k)] = txn[Raw(k)]
      <4>1. PICK status : PutTxn(Raw(WalletKey(h)), [Request(h) EXCEPT !.status = status])
        BY <1>3, VerdictEffect
      <4> QED BY <2>2, <2>4, <4>1, OneRowChanges
    <3> QED BY <1>u, <2>1, <3>1
  <2> QED BY <2>3, <2>4
<1>4. ASSUME NEW h \in TransferHandlers, Moves(h) PROVE Good(k)' /\ Differ(k)'
  <2> DEFINE dto == tjob[h]
             e == TransferEntry(dto)
             new == [key |-> e.key, debit |-> e.debit, credit |-> e.credit,
                     amount |-> e.amount]
  <2>1. /\ dto.key \in Keys /\ dto.src # dto.dst /\ txn[Raw(dto.key)] = NoRow
        /\ TransferRow(dto) \in Rows /\ PutTxn(Raw(dto.key), TransferRow(dto))
    BY <1>4, MoveEffect
  <2>2. journal' = journal \cup {new}
    BY <1>4 DEF Moves, Post
  <2>3. new = e /\ new.key = Raw(dto.key)
    BY DEF TransferEntry
  <2>4. CASE k = dto.key
    <3>1. txn'[Raw(k)] = TransferRow(dto)
      BY <2>1, <2>4, OneRowChanges
    <3>2. FoundTransfer(k)' /\ txn'[Raw(k)].user # txn'[Raw(k)].about
      BY <2>1, <3>1, SentinelsDistinct DEF FoundTransfer, TransferRow
    <3>3. EntriesOf(k) = {}
      BY <1>0, <2>1, <2>4 DEF FoundTransfer
    <3>4. EntriesOf(k)' = {new}
      <4> HIDE DEF new
      <4> QED BY <2>2, <2>3, <2>4, <3>3 DEF EntriesOf
    <3>5. TransferEntry(TransferOf(k, txn'[Raw(k)])) = e
      BY <2>4, <3>1 DEF TransferEntry, TransferOf, TransferRow
    <3> HIDE DEF new, e
    <3> QED BY <2>3, <3>2, <3>4, <3>5 DEF TransferEntry, TransferOf
  <2>5. CASE k # dto.key
    <3>1. txn'[Raw(k)] = txn[Raw(k)]
      BY <2>1, <2>5, OneRowChanges
    <3>2. new.key # Raw(k)
      BY <2>1, <2>3, <2>5, RawKeys
    <3>3. EntriesOf(k)' = EntriesOf(k)
      <4> HIDE DEF new
      <4> QED BY <2>2, <3>2 DEF EntriesOf
    <3> QED BY <1>u, <3>1, <3>3
  <2> QED BY <2>4, <2>5
<1> QED BY <1>1, <1>2, <1>3, <1>4, WritingSteps

-----------------------------------------------------------------------------
(***************************************************************************)
(* The answers of createTransfer.                                          *)
(***************************************************************************)

Own(dto) == txn[Raw(dto.key)] = TransferRow(dto)

\* What an answer says of a transfer.
IsTrue(dto, answer) ==
  /\ answer \in {"CREATED", "REPLAYED"} => Own(dto) /\ dto.src # dto.dst
  /\ answer = "IDEMPOTENCY_CONFLICT" => FoundTransfer(dto.key) /\ ~Own(dto)
  /\ answer = "P2002" => ~Insertable(Raw(dto.key), TransferRow(dto))

LEMMA AnswersMeanThis ==
  TransferAnswersAreTrue <=>
    \A h \in TransferHandlers : tpc[h] = "replied" => IsTrue(tjob[h], tanswer[h])
  BY DEF TransferAnswersAreTrue, IsTrue, Own

\* A transfer that may be asked for is a row that may be put.
LEMMA InputRow ==
  ASSUME NEW dto \in TransferInputs
  PROVE  /\ dto.key \in Keys /\ Raw(dto.key) \in TxnKeys
         /\ TransferRow(dto) \in Rows /\ TransferRow(dto) # NoRow
<1>1. /\ dto.key \in Keys /\ dto.src \in Investors /\ dto.dst \in Investors
      /\ dto.amount \in Amounts /\ dto.ref \in Refs
  BY TransferConstants
<1>2. TransferRow(dto) \in Rows
  BY <1>1 DEF TransferRow, Rows, Types
<1> QED BY <1>1, <1>2, RawKeys, SentinelsDistinct

\* Whatever was true when it was answered stays true: rows keep their terms.
LEMMA TruthStays ==
  ASSUME PaymentsCore, [PaymentsNext]_paymentVars,
         NEW dto \in TransferInputs, NEW answer, IsTrue(dto, answer)
  PROVE  IsTrue(dto, answer)'
<1> DEFINE k == Raw(dto.key)
<1>1. dto.key \in Keys /\ k \in TxnKeys /\ TransferRow(dto) # NoRow
  BY InputRow
<1>2. \A j \in TxnKeys : Ages(j)
  BY RowsAge
<1>3. txn[k] # NoRow => txn'[k] # NoRow
  BY <1>1, <1>2, SentinelsDistinct DEF Ages
<1>4. FoundTransfer(dto.key) => txn'[k] = txn[k]
  <2>1. FoundTransfer(dto.key) => ~Pending(txn[k])
    BY <1>1 DEF FoundTransfer, PaymentsCore, OnlyRequestsPend, IsWalletRow
  <2> QED BY <1>1, <1>2, <2>1 DEF Ages, FoundTransfer
<1>5. Own(dto) => FoundTransfer(dto.key)
  BY <1>1 DEF Own, FoundTransfer, TransferRow
<1>6. Own(dto) => Own(dto)'
  BY <1>4, <1>5 DEF Own
<1>7. FoundTransfer(dto.key) /\ ~Own(dto) => FoundTransfer(dto.key)' /\ ~Own(dto)'
  BY <1>4 DEF FoundTransfer, Own
<1>8. \A r : RefTaken(r) => RefTaken(r)'
  BY <1>2, SentinelsDistinct DEF RefTaken, Ages
<1>9. ~Insertable(k, TransferRow(dto)) => ~Insertable(k, TransferRow(dto))'
  BY <1>3, <1>8 DEF Insertable, TransferRow
<1> QED BY <1>6, <1>7, <1>9 DEF IsTrue

\* An answer is true when it is given: a replay was compared with the row
\* that was found, a transfer that was carried out is the row it inserted, and
\* a P2002 has a row in the way, as an entry never stands without one.
LEMMA AnswerIsTrue ==
  ASSUME PaymentsCore, TransferIsItsEntry, TransfersDiffer,
         NEW h \in TransferHandlers, tpc'[h] = "replied", tpc[h] # "replied",
         TransferProgress(h)
  PROVE  IsTrue(tjob[h], tanswer[h])'
<1> DEFINE dto == tjob[h]
<1>t. tanswer \in [TransferHandlers -> TransferAnswers] /\ tpc \in [TransferHandlers -> TransferPcs]
  BY DEF PaymentsCore, PaymentsTypeOK, TransferTypeOK
<1>0. tpc[h] # "idle" /\ dto \in TransferInputs
  BY <1>t DEF TransferProgress, TransferLookup, TransferBegin, TransferLock,
     TransferCheck, TransferCommit, TransferReturn, TransferGoto, PaymentsCore,
     PaymentsTypeOK, TransferTypeOK
<1>1. /\ dto.key \in Keys /\ Raw(dto.key) \in TxnKeys /\ TransferRow(dto) # NoRow
  BY <1>0, InputRow
<1>r. ASSUME NEW answer, TransferReply(h, answer)
      PROVE  tanswer'[h] = answer /\ tjob' = tjob
  BY <1>r, <1>t DEF TransferReply
<1>y. ASSUME FoundTransfer(dto.key), TransferReplay(h)
      PROVE  IsTrue(tjob[h], tanswer[h])'
  <2>1. tanswer'[h] = (IF Own(dto) THEN "REPLAYED" ELSE "IDEMPOTENCY_CONFLICT")
        /\ tjob' = tjob /\ txn' = txn
    BY <1>y, <1>r DEF TransferReplay, Own
  <2>2. Own(dto) => dto.src # dto.dst
    BY <1>1, <1>y DEF Own, TransferRow, TransfersDiffer
  <2> QED BY <1>y, <2>1, <2>2 DEF IsTrue, Own, FoundTransfer
<1>f. ASSUME NEW answer \in {"SAME_USER", "INSUFFICIENT"}, TransferRefuse(h, answer)
      PROVE  IsTrue(tjob[h], tanswer[h])'
  BY <1>f, <1>r DEF TransferRefuse, IsTrue
<1>2. CASE TransferLookup(h)
  BY <1>2, <1>y, <1>f, <1>t DEF TransferLookup, TransferGoto
<1>3. CASE TransferBegin(h)
  BY <1>3, <1>y, <1>t DEF TransferBegin, TransferGoto
<1>4. CASE TransferCheck(h)
  BY <1>4, <1>f, <1>t DEF TransferCheck, TransferGoto
<1>5. CASE TransferCommit(h)
  <2> DEFINE row == TransferRow(dto)
  <2>1. CASE TransferReply(h, "CREATED") /\ PutTxn(Raw(dto.key), row)
    <3>1. txn'[Raw(dto.key)] = row
      BY <1>1, <2>1, OneRowChanges
    <3>2. dto.src # dto.dst
      BY <1>5 DEF TransferCommit, PaymentsCore, TransfersMove
    <3>3. tanswer'[h] = "CREATED" /\ tjob' = tjob
      BY <2>1, <1>r
    <3> QED BY <3>1, <3>2, <3>3 DEF IsTrue, Own
  <2>2. CASE /\ TransferRefuse(h, "P2002")
             /\ ~(Insertable(Raw(dto.key), row) /\ ~Posted(TransferEntry(dto).key))
    <3>1. Posted(Raw(dto.key)) => FoundTransfer(dto.key)
      BY <1>1 DEF Posted, TransferIsItsEntry
    <3>2. ~Insertable(Raw(dto.key), row)
      BY <2>2, <3>1 DEF TransferEntry, FoundTransfer, Insertable
    <3>3. tanswer'[h] = "P2002" /\ tjob' = tjob /\ txn' = txn
      BY <2>2, <1>r DEF TransferRefuse
    <3> QED BY <3>2, <3>3 DEF IsTrue, Insertable, RefTaken
  <2> QED BY <1>5, <2>1, <2>2 DEF TransferCommit
<1>6. CASE TransferReturn(h) \/ TransferLock(h)
  BY <1>6, <1>t DEF TransferReturn, TransferLock, TransferGoto
<1> QED BY <1>2, <1>3, <1>4, <1>5, <1>6 DEF TransferProgress

LEMMA AnswersStayTrue ==
  ASSUME PaymentsCore, [PaymentsNext]_paymentVars, TransferIsItsEntry, TransfersDiffer,
         TransferAnswersAreTrue
  PROVE  TransferAnswersAreTrue'
<1> SUFFICES ASSUME NEW h \in TransferHandlers, tpc'[h] = "replied"
             PROVE  IsTrue(tjob[h], tanswer[h])'
  BY DEF TransferAnswersAreTrue, IsTrue, Own
<1>t. TransferTypeOK
  BY DEF PaymentsCore, PaymentsTypeOK
<1>1. CASE tpc'[h] = tpc[h] /\ tjob'[h] = tjob[h] /\ tanswer'[h] = tanswer[h]
  <2>1. IsTrue(tjob[h], tanswer[h]) /\ tjob[h] \in TransferInputs
    BY <1>1, <1>t, AnswersMeanThis DEF TransferTypeOK
  <2>2. \A dto, answer : dto = tjob[h] /\ answer = tanswer[h] => IsTrue(dto, answer)'
    BY <2>1, TruthStays
  <2> QED BY <1>1, <2>2 DEF IsTrue, Own, FoundTransfer, Insertable, RefTaken
<1>2. ASSUME NEW g \in TransferHandlers \ {h},
             TransferStart(g) \/ TransferProgress(g) \/ TransferAbort(g)
      PROVE  tpc'[h] = tpc[h] /\ tjob'[h] = tjob[h] /\ tanswer'[h] = tanswer[h]
  BY <1>2, <1>t DEF TransferTypeOK, TransferStart, TransferProgress, TransferAbort,
     TransferLookup, TransferBegin, TransferLock, TransferCheck, TransferCommit,
     TransferReturn, TransferReplay, TransferRefuse, TransferReply, TransferGoto
<1>3. CASE TransferStart(h) \/ TransferAbort(h)
  BY <1>3, <1>t DEF TransferTypeOK, TransferStart, TransferAbort
<1>4. CASE TransferProgress(h)
  <2>1. tpc[h] # "replied"
    BY <1>4, <1>t DEF TransferTypeOK, TransferProgress, TransferLookup, TransferBegin,
       TransferLock, TransferCheck, TransferCommit, TransferReturn, TransferGoto
  <2> QED BY <1>4, <2>1, AnswerIsTrue DEF IsTrue, Own, FoundTransfer, Insertable, RefTaken
<1> QED BY <1>1, <1>2, <1>3, <1>4
        DEF PaymentsNext, TransferNext, paymentVars, transferVars

-----------------------------------------------------------------------------

TransfersInv == TransferIsItsEntry /\ TransfersDiffer /\ TransferAnswersAreTrue

LEMMA TransfersInitHolds == PaymentsInit => TransfersInv
  BY RawKeys
  DEF PaymentsInit, DbInit, TransferInit, TransfersInv, TransferIsItsEntry,
      TransfersDiffer, TransferAnswersAreTrue, FoundTransfer

\* Transfers, entries, rows and answers agree, in every reachable state.
THEOREM TransfersInvariant == PaymentsSpec => []TransfersInv
<1>c. PaymentsInv => PaymentsCore
  BY DEF PaymentsInv
<1>1. PaymentsCore /\ TransfersInv /\ [PaymentsNext]_paymentVars => TransfersInv'
  BY EntriesFollow, AnswersStayTrue DEF TransfersInv
<1> QED BY <1>c, <1>1, TransfersInitHolds, PaymentsInvariant, PTL DEF PaymentsSpec

\* However often a transfer is retried or raced under its key, it is in the
\* books with exactly one entry, from its source to its destination.
THEOREM TransfersAreEntries == PaymentsSpec => []TransferIsItsEntry
<1>1. TransfersInv => TransferIsItsEntry
  BY DEF TransfersInv
<1> QED BY <1>1, TransfersInvariant, PTL

\* What createTransfer answers is true: of the transfer that was asked for, of
\* a different one under its key, of a row in its way.
THEOREM TransfersAnswerTruly == PaymentsSpec => []TransferAnswersAreTrue
<1>1. TransfersInv => TransferAnswersAreTrue
  BY DEF TransfersInv
<1> QED BY <1>1, TransfersInvariant, PTL

-----------------------------------------------------------------------------
(***************************************************************************)
(* The answers of createRequest.                                           *)
(***************************************************************************)

\* Wallet requests and transfers use the client's keys as they are.
OnlyRawKeys == \A k \in TxnKeys : txn[k] # NoRow => k[2] \in Keys /\ k = Raw(k[2])

\* The unique reference column, which may be null.
OneRowPerReference ==
  \A j, k \in TxnKeys :
    /\ txn[j] # NoRow /\ txn[k] # NoRow
    /\ txn[j].ref = txn[k].ref /\ txn[j].ref # NoRow
    => j = k

\* A call that lost its insert knows which index refused it, and the row that
\* was in its way is still there.
Knows(h) ==
  /\ wpc[h] = "key-conflict" => Request(h) # NoRow
  /\ wpc[h] \in {"ref-conflict", "find-ref"} => RefTaken(wjob[h].ref)

\* What an answer says of a request.
IsTrueOf(dto, answer) ==
  \/ /\ answer \in Keys
     /\ IsWalletRow(txn[Raw(answer)]) /\ SameRequest(txn[Raw(answer)], dto)
  \/ /\ answer \notin Keys /\ answer = "IDEMPOTENCY_CONFLICT"
     /\ \E k \in TxnKeys :
          /\ txn[k] # NoRow
          /\ k = Raw(dto.key) \/ txn[k].ref = dto.ref
          /\ ~SameRequest(txn[k], dto)

Answered(h) == wpc[h] = "replied" => IsTrueOf(wjob[h], wanswer[h])

WalletAnswersInv ==
  /\ OnlyRawKeys
  /\ OneRowPerReference
  /\ \A h \in WalletHandlers : Knows(h) /\ Answered(h)

-----------------------------------------------------------------------------

\* Rows are inserted under raw keys and free references, by both services.
LEMMA TableStaysUnique ==
  ASSUME PaymentsCore, [PaymentsNext]_paymentVars, OneRowPerReference
  PROVE  (OnlyRawKeys => OnlyRawKeys') /\ OneRowPerReference'
<1>i. ASSUME NEW k \in Keys, NEW row \in Rows, row.ref # NoRow,
             Insertable(Raw(k), row), PutTxn(Raw(k), row)
      PROVE  (OnlyRawKeys => OnlyRawKeys') /\ OneRowPerReference'
  <2>1. /\ txn'[Raw(k)] = row /\ Raw(k) \in TxnKeys
        /\ \A j \in TxnKeys \ {Raw(k)} : txn'[j] = txn[j]
    BY <1>i, OneRowChanges, RawKeys
  <2>2. OnlyRawKeys => OnlyRawKeys'
    <3> SUFFICES ASSUME OnlyRawKeys PROVE OnlyRawKeys'
      OBVIOUS
    <3>1. Raw(k)[2] = k
      BY DEF Raw
    <3>2. ASSUME NEW j \in TxnKeys, txn'[j] # NoRow PROVE j[2] \in Keys /\ j = Raw(j[2])
      BY <2>1, <3>1, <3>2 DEF OnlyRawKeys
    <3> QED BY <3>2 DEF OnlyRawKeys
  <2>3. \A j \in TxnKeys : txn[j] # NoRow => txn[j].ref # row.ref
    BY <1>i DEF Insertable, RefTaken
  <2>4. OneRowPerReference'
    BY <2>1, <2>3 DEF OneRowPerReference
  <2> QED BY <2>2, <2>4
<1>k. ASSUME \A k \in TxnKeys : txn[k] = NoRow => txn'[k] = NoRow
      PROVE  (OnlyRawKeys => OnlyRawKeys') /\ OneRowPerReference'
  <2>1. \A k \in TxnKeys : txn'[k] # NoRow => txn[k] # NoRow /\ txn'[k].ref = txn[k].ref
    BY <1>k, RowsAge DEF Ages
  <2>2. OneRowPerReference'
    BY <2>1 DEF OneRowPerReference
  <2> QED BY <1>k, <2>2 DEF OnlyRawKeys
<1>1. CASE UNCHANGED <<balance, journal, txn>>
  BY <1>1, <1>k
<1>2. ASSUME NEW h \in WalletHandlers, Inserts(h)
      PROVE  (OnlyRawKeys => OnlyRawKeys') /\ OneRowPerReference'
  <2>1. NewRequest(wjob[h]).ref # NoRow
    BY <1>2, WalletConstants, AnswersDistinct
    DEF Inserts, PaymentsCore, PaymentsTypeOK, WalletTypeOK, CreatePcs, Inputs, NewRequest
  <2>2. Insertable(Raw(WalletKey(h)), NewRequest(wjob[h]))
    BY <1>2 DEF Inserts
  <2> QED BY <1>2, <1>i, <2>1, <2>2, InsertEffect
<1>3. ASSUME NEW h \in TransferHandlers, Moves(h)
      PROVE  (OnlyRawKeys => OnlyRawKeys') /\ OneRowPerReference'
  <2>1. TransferRow(tjob[h]).ref # NoRow
    BY <1>3, MoveEffect, AnswersDistinct DEF TransferRow
  <2>2. Insertable(Raw(tjob[h].key), TransferRow(tjob[h]))
    BY <1>3 DEF Moves
  <2> QED BY <1>3, <1>i, <2>1, <2>2, MoveEffect
<1>4. ASSUME NEW h \in WalletHandlers, Approves(h) \/ RejectCommit(h)
      PROVE  (OnlyRawKeys => OnlyRawKeys') /\ OneRowPerReference'
  <2>1. /\ WalletKey(h) \in Keys /\ txn[Raw(WalletKey(h))] # NoRow
        /\ \E status \in {"COMPLETED", "CANCELLED"} :
             PutTxn(Raw(WalletKey(h)), [Request(h) EXCEPT !.status = status])
    BY <1>4, VerdictEffect, SentinelsDistinct
  <2>2. \A j \in TxnKeys \ {Raw(WalletKey(h))} : txn'[j] = txn[j]
    BY <2>1, OneRowChanges
  <2> QED BY <1>k, <2>1, <2>2
<1> QED BY <1>1, <1>2, <1>3, <1>4, WritingSteps

\* What a call knows and what it was told stay so: rows keep their terms.
LEMMA RowsKeepTerms ==
  ASSUME PaymentsCore, [PaymentsNext]_paymentVars
  PROVE  /\ \A k \in TxnKeys : txn[k] # NoRow => txn'[k] # NoRow
         /\ \A k \in TxnKeys : \A dto :
              txn[k] # NoRow => (SameRequest(txn'[k], dto) <=> SameRequest(txn[k], dto))
         /\ \A k \in TxnKeys : IsWalletRow(txn[k]) => IsWalletRow(txn'[k])
         /\ \A r : RefTaken(r) => RefTaken(r)'
<1>1. \A k \in TxnKeys : Ages(k)
  BY RowsAge
<1>2. \A k \in TxnKeys : txn[k] # NoRow => txn'[k] # NoRow
  BY <1>1, SentinelsDistinct DEF Ages
<1> QED BY <1>1, <1>2 DEF Ages, SameRequest, IsWalletRow, RefTaken

LEMMA QuietCallsKeep ==
  ASSUME PaymentsCore, [PaymentsNext]_paymentVars, NEW h \in WalletHandlers,
         wpc'[h] = wpc[h], wjob'[h] = wjob[h], wanswer'[h] = wanswer[h],
         Knows(h), Answered(h)
  PROVE  Knows(h)' /\ Answered(h)'
<1>t. wpc[h] # "idle" => WalletKey(h) \in Keys /\ Raw(WalletKey(h)) \in TxnKeys
  BY RawKeys DEF PaymentsCore, PaymentsTypeOK, WalletTypeOK, WalletKey
<1>1. Knows(h)'
  BY <1>t, RowsKeepTerms DEF Knows, Request, WalletKey
<1>2. ASSUME wpc[h] = "replied" PROVE IsTrueOf(wjob[h], wanswer[h])'
  <2>1. CASE wanswer[h] \in Keys
    <3>1. /\ IsWalletRow(txn[Raw(wanswer[h])]) /\ SameRequest(txn[Raw(wanswer[h])], wjob[h])
          /\ Raw(wanswer[h]) \in TxnKeys
      BY <1>2, <2>1, RawKeys DEF Answered, IsTrueOf
    <3> QED BY <2>1, <3>1, RowsKeepTerms DEF IsTrueOf, IsWalletRow
  <2>2. CASE wanswer[h] \notin Keys
    <3>1. PICK k \in TxnKeys : /\ txn[k] # NoRow
                               /\ k = Raw(wjob[h].key) \/ txn[k].ref = wjob[h].ref
                               /\ ~SameRequest(txn[k], wjob[h])
      BY <1>2, <2>2 DEF Answered, IsTrueOf
    <3>2. /\ txn'[k] # NoRow /\ txn'[k].ref = txn[k].ref
          /\ ~SameRequest(txn'[k], wjob[h])
      BY <3>1, RowsKeepTerms, RowsAge DEF Ages
    <3> QED BY <1>2, <2>2, <3>1, <3>2 DEF Answered, IsTrueOf
  <2> QED BY <2>1, <2>2
<1> QED BY <1>1, <1>2 DEF Answered

-----------------------------------------------------------------------------
(***************************************************************************)
(* A call's own steps.                                                     *)
(***************************************************************************)

\* Where a call is, when it is neither in its recovery nor answered.
LEMMA ElsewhereIsFine ==
  ASSUME NEW h \in WalletHandlers,
         wpc'[h] \notin {"key-conflict", "ref-conflict", "find-ref", "replied"}
  PROVE  Knows(h)' /\ Answered(h)'
  BY DEF Knows, Answered

\* A call that is answered with what it is told is told the truth.
LEMMA ReplyIsFine ==
  ASSUME PaymentsCore, NEW h \in WalletHandlers, NEW answer, WalletReply(h, answer),
         IsTrueOf(wjob[h], answer)
  PROVE  Knows(h)' /\ Answered(h)'
<1>1. wpc'[h] = "replied" /\ wanswer'[h] = answer /\ wjob' = wjob /\ txn' = txn
  BY DEF WalletReply, dbVars, PaymentsCore, PaymentsTypeOK, WalletTypeOK
<1>2. IsTrueOf(wjob[h], wanswer[h])'
  BY <1>1 DEF IsTrueOf
<1> QED BY <1>1, <1>2 DEF Knows, Answered

\* A row found by key is the caller's own, or a conflict.
LEMMA RowAnswers ==
  ASSUME PaymentsCore, NEW h \in WalletHandlers, wpc[h] \in CreatePcs,
         Request(h) # NoRow, ReplyWithRow(h, WalletKey(h))
  PROVE  Knows(h)' /\ Answered(h)'
<1> DEFINE k == WalletKey(h)
<1>1. k \in Keys /\ Raw(k) \in TxnKeys /\ wjob[h] \in Inputs /\ k = wjob[h].key
  BY WalletConstants, RawKeys DEF PaymentsCore, PaymentsTypeOK, WalletTypeOK, CreatePcs, WalletKey
<1>2. CASE SameRequest(txn[Raw(k)], wjob[h])
  <2>1. IsTrueOf(wjob[h], k)
    BY <1>1, <1>2 DEF IsTrueOf, IsWalletRow, SameRequest, Request, Inputs
  <2> QED BY <1>2, <2>1, ReplyIsFine DEF ReplyWithRow
<1>3. CASE ~SameRequest(txn[Raw(k)], wjob[h])
  <2>1. IsTrueOf(wjob[h], "IDEMPOTENCY_CONFLICT")
    BY <1>1, <1>3, AnswersDistinct DEF IsTrueOf, Request
  <2> QED BY <1>3, <2>1, ReplyIsFine DEF ReplyWithRow
<1> QED BY <1>2, <1>3

LEMMA CallStepKeeps ==
  ASSUME PaymentsCore, OnlyRawKeys, NEW h \in WalletHandlers, Knows(h), WalletStep(h)
  PROVE  Knows(h)' /\ Answered(h)'
<1>t. /\ wpc \in [WalletHandlers -> WalletPcs] /\ wanswer \in [WalletHandlers -> Answers]
      /\ wpc[h] \in CreatePcs => WalletKey(h) \in Keys /\ wjob[h] \in Inputs
                                 /\ Raw(WalletKey(h)) \in TxnKeys
                                 /\ WalletKey(h) = wjob[h].key
  BY WalletConstants, RawKeys
  DEF PaymentsCore, PaymentsTypeOK, WalletTypeOK, CreatePcs, WalletKey
<1>r. ASSUME WalletRollback(h) PROVE Knows(h)' /\ Answered(h)'
  BY <1>r, <1>t, ElsewhereIsFine DEF WalletRollback, WalletEndTx, WalletFinish
<1>1. CASE CreateStart(h) \/ CreateReturn(h)
  BY <1>1, <1>t, ElsewhereIsFine DEF CreateStart, CreateReturn, WalletGoto, WalletFinish
<1>2. CASE CreateLookup(h)
  BY <1>2, <1>t, RowAnswers, ElsewhereIsFine DEF CreateLookup, CreatePcs, WalletGoto
<1>3. CASE CreateInsert(h)
  <2> DEFINE dto == wjob[h]
  <2>1. CASE /\ PutTxn(Raw(dto.key), NewRequest(dto))
             /\ wpc' = [wpc EXCEPT ![h] = "replied"]
             /\ wanswer' = [wanswer EXCEPT ![h] = dto.key] /\ wjob' = wjob
    <3>1. dto \in Inputs /\ dto.key \in Keys
      BY <1>3, <1>t DEF CreateInsert, CreatePcs, Inputs
    <3>2. txn'[Raw(dto.key)] = NewRequest(dto)
      BY <2>1, <3>1, OneRowChanges
    <3>3. NewRequest(dto) # NoRow
      <4>1. NewRequest(dto) \in Rows
        BY <3>1 DEF NewRequest, Rows, Types, Inputs
      <4> QED BY <4>1, SentinelsDistinct
    <3>4. SameRequest(NewRequest(dto), dto) /\ IsWalletRow(NewRequest(dto))
      BY <3>1, <3>3 DEF SameRequest, NewRequest, IsWalletRow, Inputs
    <3>5. wpc'[h] = "replied" /\ wanswer'[h] = dto.key
      BY <2>1, <1>t
    <3>6. IsTrueOf(wjob[h], wanswer[h])'
      BY <2>1, <3>1, <3>2, <3>4, <3>5 DEF IsTrueOf
    <3> QED BY <3>5, <3>6 DEF Knows, Answered
  <2>2. CASE /\ Request(h) # NoRow /\ WalletGoto(h, "insert", "key-conflict")
             /\ UNCHANGED <<wjob, wanswer, claim, audit, dbVars>>
    <3>1. wpc'[h] = "key-conflict" /\ Request(h)' = Request(h)
      BY <2>2, <1>t DEF WalletGoto, Request, WalletKey, dbVars
    <3> QED BY <2>2, <3>1 DEF Knows, Answered
  <2>3. CASE /\ RefTaken(dto.ref) /\ WalletGoto(h, "insert", "ref-conflict")
             /\ UNCHANGED <<wjob, wanswer, claim, audit, dbVars>>
    <3>1. wpc'[h] = "ref-conflict" /\ RefTaken(wjob[h].ref)'
      BY <2>3, <1>t DEF WalletGoto, RefTaken, dbVars
    <3> QED BY <3>1 DEF Knows, Answered
  <2> QED BY <1>3, <2>1, <2>2, <2>3 DEF CreateInsert
<1>4. CASE CreateRecover(h)
  <2>1. wpc[h] \in CreatePcs
    BY <1>4 DEF CreateRecover, CreatePcs
  <2>2. CASE Request(h) # NoRow /\ ReplyWithRow(h, WalletKey(h))
    BY <2>1, <2>2, RowAnswers
  <2>3. CASE /\ Request(h) = NoRow /\ WalletGoto(h, "ref-conflict", "find-ref")
             /\ UNCHANGED <<wjob, wanswer, claim, audit, dbVars>>
    <3>1. wpc[h] = "ref-conflict" /\ wpc'[h] = "find-ref" /\ RefTaken(wjob[h].ref)'
      BY <2>3, <1>t DEF WalletGoto, RefTaken, dbVars, Knows
    <3> QED BY <3>1 DEF Knows, Answered
  <2>4. ~(Request(h) = NoRow /\ wpc[h] = "key-conflict")
    BY DEF Knows
  <2> QED BY <1>4, <2>2, <2>3, <2>4 DEF CreateRecover
<1>5. CASE CreateRecoverByRef(h)
  <2>1. wpc[h] = "find-ref" /\ RefTaken(wjob[h].ref) /\ wjob[h] \in Inputs
    BY <1>5, <1>t DEF CreateRecoverByRef, Knows, CreatePcs
  <2>2. PICK k \in TxnKeys :
          /\ txn[k] # NoRow /\ txn[k].ref = wjob[h].ref
          /\ WalletReply(h, IF SameRequest(txn[k], wjob[h]) THEN k[2]
                            ELSE "IDEMPOTENCY_CONFLICT")
    BY <1>5, <2>1 DEF CreateRecoverByRef
  <2>3. CASE SameRequest(txn[k], wjob[h])
    <3>1. k[2] \in Keys /\ k = Raw(k[2])
      BY <2>2 DEF OnlyRawKeys
    <3>2. IsTrueOf(wjob[h], k[2])
      BY <2>1, <2>2, <2>3, <3>1 DEF IsTrueOf, IsWalletRow, SameRequest, Inputs
    <3> QED BY <2>2, <2>3, <3>2, ReplyIsFine
  <2>4. CASE ~SameRequest(txn[k], wjob[h])
    <3>1. IsTrueOf(wjob[h], "IDEMPOTENCY_CONFLICT")
      BY <2>2, <2>4, AnswersDistinct DEF IsTrueOf
    <3> QED BY <2>2, <2>4, <3>1, ReplyIsFine
  <2> QED BY <2>3, <2>4
<1>6. CASE WalletConfirm(h)
  BY <1>6, <1>r, <1>t, ElsewhereIsFine
  DEF WalletConfirm, ConfirmStart, ConfirmRead, ConfirmClaim, ConfirmLock, ConfirmCheck,
      ConfirmCommit, WalletGoto, WalletEndTx, WalletFinish
<1>7. CASE WalletReject(h)
  BY <1>7, <1>r, <1>t, ElsewhereIsFine
  DEF WalletReject, RejectStart, RejectRead, RejectClaim, RejectCommit, WalletGoto,
      WalletEndTx, WalletFinish
<1>8. CASE WalletAbort(h)
  BY <1>8, <1>r DEF WalletAbort
<1> QED BY <1>1, <1>2, <1>3, <1>4, <1>5, <1>6, <1>7, <1>8 DEF WalletStep, WalletCreate

\* No handler touches another's locals.
LEMMA OthersAreQuiet ==
  ASSUME PaymentsCore, [PaymentsNext]_paymentVars, NEW h \in WalletHandlers,
         ~(WalletStep(h) /\ UNCHANGED transferVars)
  PROVE  wpc'[h] = wpc[h] /\ wjob'[h] = wjob[h] /\ wanswer'[h] = wanswer[h]
<1>t. WalletTypeOK
  BY DEF PaymentsCore, PaymentsTypeOK
<1>1. ASSUME NEW g \in WalletHandlers \ {h}, WalletStep(g)
      PROVE  wpc'[h] = wpc[h] /\ wjob'[h] = wjob[h] /\ wanswer'[h] = wanswer[h]
  <2> USE <1>t DEF WalletTypeOK, WalletGoto, WalletReply, ReplyWithRow, WalletRollback,
          WalletEndTx, WalletFinish
  <2>1. CASE WalletCreate(g)
    BY <2>1 DEF WalletCreate, CreateStart, CreateLookup, CreateInsert, CreateRecover,
       CreateRecoverByRef, CreateReturn
  <2>2. CASE WalletConfirm(g)
    BY <2>2 DEF WalletConfirm, ConfirmStart, ConfirmRead, ConfirmClaim, ConfirmLock,
       ConfirmCheck, ConfirmCommit
  <2>3. CASE WalletReject(g) \/ WalletAbort(g)
    BY <2>3 DEF WalletReject, RejectStart, RejectRead, RejectClaim, RejectCommit,
       WalletAbort
  <2> QED BY <1>1, <2>1, <2>2, <2>3 DEF WalletStep
<1> QED BY <1>1 DEF PaymentsNext, WalletNext, paymentVars, walletVars

-----------------------------------------------------------------------------

LEMMA WalletAnswersInit == PaymentsInit => WalletAnswersInv
  BY DEF PaymentsInit, DbInit, WalletInit, WalletAnswersInv, OnlyRawKeys,
     OneRowPerReference, Knows, Answered

\* Keys are raw, references unique, and every answer is true when it is
\* delivered, in every reachable state.
THEOREM WalletAnswersInvariant == PaymentsSpec => []WalletAnswersInv
<1>c. PaymentsInv => PaymentsCore
  BY DEF PaymentsInv
<1>1. ASSUME PaymentsCore, WalletAnswersInv, [PaymentsNext]_paymentVars
      PROVE  WalletAnswersInv'
  <2>1. OnlyRawKeys' /\ OneRowPerReference'
    BY <1>1, TableStaysUnique DEF WalletAnswersInv
  <2>2. ASSUME NEW h \in WalletHandlers PROVE Knows(h)' /\ Answered(h)'
    <3>1. CASE WalletStep(h)
      BY <1>1, <3>1, CallStepKeeps DEF WalletAnswersInv
    <3>2. CASE ~WalletStep(h)
      BY <1>1, <3>2, OthersAreQuiet, QuietCallsKeep DEF WalletAnswersInv
    <3> QED BY <3>1, <3>2
  <2> QED BY <2>1, <2>2 DEF WalletAnswersInv
<1> QED BY <1>c, <1>1, WalletAnswersInit, PaymentsInvariant, PTL DEF PaymentsSpec

\* A row createRequest answers with is the caller's own request.
THEOREM WalletAnswersAreTheRequest == PaymentsSpec => []AnswersAreTheRequest
<1>1. WalletAnswersInv => AnswersAreTheRequest
  BY DEF WalletAnswersInv, Answered, IsTrueOf, AnswersAreTheRequest
<1> QED BY <1>1, WalletAnswersInvariant, PTL

\* Only what really conflicts is refused, and never as the raw P2002.
THEOREM WalletRefusesOnlyConflicts == PaymentsSpec => []OnlyConflictsAreRefused
<1>1. WalletAnswersInv => OnlyConflictsAreRefused
  BY DEF WalletAnswersInv, Answered, IsTrueOf, OnlyConflictsAreRefused, WalletKey
<1> QED BY <1>1, WalletAnswersInvariant, PTL

\* Identical calls that succeed are told of one row: its reference is theirs,
\* and no two rows have one.
THEOREM WalletCallsShareARow == PaymentsSpec => []IdenticalCallsShareARow
<1>1. ASSUME PaymentsInv, WalletAnswersInv, NEW g \in WalletHandlers, NEW h \in WalletHandlers,
             wpc[g] = "replied", wanswer[g] \in Keys,
             wpc[h] = "replied", wanswer[h] \in Keys, wjob[g] = wjob[h]
      PROVE  wanswer[g] = wanswer[h]
  <2>1. /\ IsWalletRow(txn[Raw(wanswer[g])]) /\ SameRequest(txn[Raw(wanswer[g])], wjob[h])
        /\ IsWalletRow(txn[Raw(wanswer[h])]) /\ SameRequest(txn[Raw(wanswer[h])], wjob[h])
    BY <1>1 DEF WalletAnswersInv, Answered, IsTrueOf
  <2>2. wjob[h].ref # NoRow
    BY <1>1, WalletConstants, AnswersDistinct
    DEF PaymentsInv, PaymentsCore, PaymentsTypeOK, WalletTypeOK, CreatePcs, Inputs
  <2>3. Raw(wanswer[g]) = Raw(wanswer[h])
    BY <1>1, <2>1, <2>2, RawKeys DEF WalletAnswersInv, OneRowPerReference, IsWalletRow, SameRequest
  <2> QED BY <1>1, <2>3, RawKeys
<1>2. PaymentsInv /\ WalletAnswersInv => IdenticalCallsShareARow
  BY <1>1 DEF IdenticalCallsShareARow
<1> QED BY <1>2, PaymentsInvariant, WalletAnswersInvariant, PTL

=============================================================================
