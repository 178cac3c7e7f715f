------------------------------ MODULE Payments ------------------------------
(***************************************************************************)
(* Wallet requests and transfers against one database: the two services    *)
(* that spend acct_2100 under the advisory lock transfer:<user>:<currency>.*)
(***************************************************************************)
EXTENDS Wallet, Transfers, Functions

ASSUME PaymentHandlersDisjoint == WalletHandlers \cap TransferHandlers = {}

paymentVars == <<dbVars, walletVars, transferVars>>

PaymentsTypeOK == DbTypeOK /\ WalletTypeOK /\ TransferTypeOK

PaymentsInit == DbInit /\ WalletInit /\ TransferInit

PaymentsNext ==
  \/ WalletNext /\ UNCHANGED transferVars
  \/ TransferNext /\ UNCHANGED walletVars

\* As WalletFairness; a transfer's only wait is for its source's lock.
PaymentsFairness ==
  /\ \A h \in WalletHandlers :
       /\ WF_paymentVars(WalletProgress(h) /\ UNCHANGED transferVars)
       /\ SF_paymentVars(ConfirmClaim(h) /\ UNCHANGED transferVars)
       /\ SF_paymentVars(ConfirmLock(h) /\ UNCHANGED transferVars)
       /\ SF_paymentVars(RejectClaim(h) /\ UNCHANGED transferVars)
  /\ \A h \in TransferHandlers :
       /\ WF_paymentVars(TransferProgress(h) /\ UNCHANGED walletVars)
       /\ SF_paymentVars(TransferLock(h) /\ UNCHANGED walletVars)

PaymentsSpec == PaymentsInit /\ [][PaymentsNext]_paymentVars /\ PaymentsFairness

-----------------------------------------------------------------------------
(***************************************************************************)
(* The inductive invariant.                                                *)
(***************************************************************************)

\* Past its conditional update, a settling handler alone holds the row, and
\* the row is still PENDING to everybody else.
ClaimPcs == {"confirm-lock", "confirm-check", "confirm-commit", "reject-commit"}
ClaimsHold ==
  \A h \in WalletHandlers :
    wpc[h] \in ClaimPcs => claim[WalletKey(h)] = h /\ Pending(Request(h))

\* Whoever is about to check a balance, or has, holds its lock.
LocksHold ==
  /\ \A h \in WalletHandlers :
       wpc[h] \in {"confirm-check", "confirm-commit"} =>
         lock[<<"transfer", Request(h).user>>] = h
  /\ \A h \in TransferHandlers :
       tpc[h] \in {"check", "commit"} => lock[<<"transfer", tjob[h].src>>] = h

\* A balance that was found sufficient still is: other handlers may have
\* credited the investor since, none can have debited it.
ChecksHold ==
  /\ \A h \in WalletHandlers :
       wpc[h] = "confirm-commit" /\ Request(h).type = "WITHDRAWAL" =>
         Available(Request(h).user) >= Request(h).amount
  /\ \A h \in TransferHandlers :
       tpc[h] = "commit" => Available(tjob[h].src) >= tjob[h].amount

\* Only wallet requests wait for a verdict; confirmRequest relies on it when
\* it treats whatever is not a deposit as a withdrawal.
OnlyRequestsPend == \A k \in Keys : Pending(txn[Raw(k)]) => IsWalletRow(txn[Raw(k)])

\* A transfer past its lookup is between two investors.
TransfersMove ==
  \A h \in TransferHandlers :
    tpc[h] \in {"begin", "lock", "check", "commit"} => tjob[h].src # tjob[h].dst

\* What holds whoever else spends the investors' cash, and what is lost when
\* somebody does so under another lock.
PaymentsCore ==
  /\ PaymentsTypeOK
  /\ ClaimsHold
  /\ LocksHold
  /\ OnlyRequestsPend
  /\ TransfersMove
  /\ OneVerdict

CashSuffices == ChecksHold /\ NoOverdraft

PaymentsInv == PaymentsCore /\ CashSuffices

-----------------------------------------------------------------------------
(***************************************************************************)
(* Properties.                                                             *)
(***************************************************************************)

\* The users of a database are finitely many: their balances have a sum.
ASSUME InvestorsFinite == IsFiniteSet(Investors)

Total(account) == SumFunctionOnSet(balance, {account} \X Investors)

\* docs/chart-of-accounts-v1.md: fund-wide, acct_2100 equals acct_1100 in
\* magnitude and is opposite in sign.  Deposits, withdrawals and transfers
\* in any interleaving keep it so.
CashMatchesDeposits == Total("acct_2100") = 0 - Total("acct_1100")

\* The refinement mapping: an investor's funds are its acct_2100 balance, and
\* the request under a key is the committed Transaction row.
RequestOf(row) ==
  IF row = NoRow THEN NoRow
  ELSE [terms |-> [from |-> IF row.type = "DEPOSIT" THEN Nobody ELSE row.user,
                   to   |-> IF row.type = "DEPOSIT" THEN row.user
                            ELSE IF row.type = "TRANSFER" THEN row.about
                            ELSE Nobody,
                   amount |-> row.amount],
        state |-> IF row.status = "PENDING" THEN "open"
                  ELSE IF row.status = "COMPLETED" THEN "settled"
                  ELSE "declined"]

Funds == [i \in Investors |-> Available(i)]
Filed == [k \in Keys |-> RequestOf(txn[Raw(k)])]

Promise == INSTANCE CustomerFunds WITH
  Ids <- Keys, Outside <- Nobody, NoRequest <- NoRow,
  funds <- Funds, request <- Filed

ASSUME RequestsDistinct ==
  NoRow \notin [terms: Promise!Terms, state: {"open", "settled", "declined"}]

\* The two services together implement the promise of CustomerFunds.
KeepsPromise == Promise!Spec

\* Confirmations, rejections and transfers that wait for each other's locks
\* all come to an end.
PaymentHandlersFinish ==
  /\ \A h \in WalletHandlers : wpc[h] # "idle" ~> wpc[h] = "idle"
  /\ \A h \in TransferHandlers : tpc[h] # "idle" ~> tpc[h] = "idle"

=============================================================================
