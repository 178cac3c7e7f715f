-------------------------------- MODULE Bank --------------------------------
(***************************************************************************)
(* The whole money-moving API over one database.  Wallet and transfers     *)
(* serialise an investor's cash on the lock transfer:<user>:<currency>,    *)
(* investments on investment:<user>:<currency>; both spend acct_2100.      *)
(***************************************************************************)
EXTENDS Payments, Investments

ASSUME BankHandlersDisjoint ==
  InvestHandlers \cap (WalletHandlers \cup TransferHandlers) = {}

bankVars == <<dbVars, walletVars, transferVars, investVars>>

BankInit == DbInit /\ WalletInit /\ TransferInit /\ InvestInit

BankNext ==
  \/ PaymentsNext /\ UNCHANGED investVars
  \/ InvestNext /\ UNCHANGED <<walletVars, transferVars>>

BankSpec == BankInit /\ [][BankNext]_bankVars

-----------------------------------------------------------------------------

\* What transfers and investments promise alone survives each other's company
\* and shared references: a completed transfer is its one balanced entry, a
\* subscription takes the investor's money once, and no more is redeemed than
\* acct_2200 holds.
ServicesKeepTheirPromises == TransferIsItsEntry /\ FundedOnce /\ NoOverRedemption

\* A client's reference names one movement of money, across services: the
\* unique reference column arbitrates between wallet requests, transfers and
\* the funding of a subscription that was created with that reference.
ReferenceNamesOneTransaction ==
  \A j, k \in TxnKeys :
    /\ txn[j] # NoRow /\ txn[k] # NoRow
    /\ txn[j].ref = txn[k].ref /\ txn[j].ref # NoRow
    => j = k

=============================================================================
