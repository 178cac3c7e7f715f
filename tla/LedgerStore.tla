---------------------------- MODULE LedgerStore ----------------------------
(***************************************************************************)
(* The PostgreSQL state the money-moving handlers of apps/api share: the   *)
(* append-only journal with the balances it derives, the Transaction table *)
(* with its two unique indexes, and the transaction-scoped advisory locks. *)
(*                                                                         *)
(* The database runs at READ COMMITTED, so a handler's writes are unseen   *)
(* until it commits.  The handlers' modules therefore apply all writes of  *)
(* an interactive transaction in its commit step; what other transactions  *)
(* can observe earlier (row locks, advisory locks) has variables of its    *)
(* own.  One currency is modelled: locks and balance queries are both      *)
(* scoped by (user, currency), so an "investor" below is such a pair.      *)
(***************************************************************************)
EXTENDS Integers, FiniteSets

CONSTANTS
  Investors,  \* (user, currency) pairs
  Keys,       \* idempotency keys clients send
  Refs,       \* transaction references
  Amounts,    \* amounts in minor units; parseAmountKobo rejects <= 0
  Handlers,   \* request handlers of every component
  Nobody,     \* holder of a free lock
  NoRow,      \* an absent row
  Opening     \* deposits already confirmed when the behaviour starts

ASSUME AmountsPositive == Amounts \subseteq Nat \ {0}
ASSUME OpeningNat == Opening \in [Investors -> Nat]
VARIABLES
  balance,  \* credits minus debits of the POSTED lines, per account and investor
  journal,  \* JournalEntry rows posted since the start
  txn,      \* Transaction rows by idempotency key
  lock      \* holder of each pg_advisory_xact_lock

dbVars == <<balance, journal, txn, lock>>

-----------------------------------------------------------------------------
(***************************************************************************)
(* Tables.                                                                 *)
(***************************************************************************)

Cash(i)        == <<"acct_1100", i>>
Deposits(i)    == <<"acct_2100", i>>
Obligations(i) == <<"acct_2200", i>>
Accounts == {"acct_1100", "acct_2100", "acct_2200"} \X Investors

\* The unique idempotencyKey column of Transaction: handlers prefix the
\* client's key, except that wallet and transfer requests use it raw.
TxnKeys == {"", "INVEST-FUND-", "INVEST-REDEEM-"} \X Keys
Raw(k)    == <<"", k>>
Fund(s)   == <<"INVEST-FUND-", s>>
Redeem(k) == <<"INVEST-REDEEM-", k>>

\* "ref" is NoRow for redemptions, whose reference is a function of the key;
\* "about" is the metadata a handler reads back: the destination of a
\* transfer, the subscription of a fund or redeem, NoRow otherwise.
Types == {"DEPOSIT", "WITHDRAWAL", "TRANSFER", "INVESTMENT_PURCHASE", "REDEMPTION"}
Rows == [user: Investors, type: Types, amount: Amounts, ref: Refs \cup {NoRow},
         about: Investors \cup Keys \cup {NoRow},
         status: {"PENDING", "COMPLETED", "CANCELLED"}]

ASSUME SentinelsDistinct ==
  Nobody \notin Handlers \cup Investors /\ NoRow \notin Rows

\* The unique idempotencyKey column of JournalEntry.
EntryKeys == {"", "wallet:", "INVEST-FUND-", "INVEST-REDEEM-"} \X Keys
Entries == [key: EntryKeys, debit: Accounts, credit: Accounts, amount: Amounts]

LockNames == {"transfer", "investment"} \X Investors

DbTypeOK ==
  /\ balance \in [Accounts -> Int]
  /\ journal \subseteq Entries
  /\ txn \in [TxnKeys -> Rows \cup {NoRow}]
  /\ lock \in [LockNames -> Handlers \cup {Nobody}]

DbInit ==
  /\ balance = [a \in Accounts |->
                  IF a[1] = "acct_2100" THEN Opening[a[2]]
                  ELSE IF a[1] = "acct_1100" THEN 0 - Opening[a[2]] ELSE 0]
  /\ journal = {}
  /\ txn = [k \in TxnKeys |-> NoRow]
  /\ lock = [l \in LockNames |-> Nobody]

-----------------------------------------------------------------------------
(***************************************************************************)
(* Queries.                                                                *)
(***************************************************************************)

\* assertSufficientBalance: the sum over the POSTED lines of acct_2100.
Available(i) == balance[Deposits(i)]

\* redeem's position query: the same sum over acct_2200, all subscriptions.
Position(i) == balance[Obligations(i)]

Posted(key) == \E e \in journal : e.key = key

RefTaken(r) == \E k \in TxnKeys : txn[k] # NoRow /\ txn[k].ref = r

\* Mutant: the reference column loses its unique index.
InsertableByKey(key, row) == txn[key] = NoRow

\* A Transaction row can be inserted: neither unique index refuses it.
Insertable(key, row) ==
  /\ txn[key] = NoRow
  /\ row.ref # NoRow => ~RefTaken(row.ref)

-----------------------------------------------------------------------------
(***************************************************************************)
(* Writes.                                                                 *)
(***************************************************************************)

PutTxn(key, row) == txn' = [txn EXCEPT ![key] = row]

\* saveEntry of a two-line entry: DR debit, CR credit.  A second entry with
\* the key is refused by the unique index (callers guard with ~Posted(key):
\* the P2002 poisons the transaction, which then cannot commit).
Post(key, debit, credit, amount) ==
  /\ journal' = journal \cup
       {[key |-> key, debit |-> debit, credit |-> credit, amount |-> amount]}
  /\ balance' = [balance EXCEPT ![debit] = @ - amount, ![credit] = @ + amount]

\* Mutant: the advisory lock is requested but not waited for.
TakeLockAnyway(name, h) == lock' = [lock EXCEPT ![name] = h]

TakeLock(name, h) ==
  /\ lock[name] = Nobody
  /\ lock' = [lock EXCEPT ![name] = h]

\* Mutant: session-level locks, which outlive the transaction.
ReleaseLocksNever(h) == UNCHANGED lock

\* pg_advisory_xact_lock is given back when the transaction ends, either way.
ReleaseLocks(h) ==
  lock' = [l \in LockNames |-> IF lock[l] = h THEN Nobody ELSE lock[l]]

-----------------------------------------------------------------------------

\* No investor's cash balance is ever spent twice: assertSufficientBalance
\* and the posting it allows are separate statements, and still acct_2100
\* never falls below zero.
NoOverdraft == \A i \in Investors : Available(i) >= 0

=============================================================================
