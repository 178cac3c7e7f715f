------------------------------ MODULE Platform ------------------------------
(***************************************************************************)
(* What surrounds the money-moving services: who is registered and signed  *)
(* in, the pages investors and operators work with, the audit trail and    *)
(* the statements drawn from the ledger, beside wallet requests and        *)
(* transfers themselves.  The parts share no variable: each takes the      *)
(* others' effect on it as an environment, and a behaviour is one part's.  *)
(* So a state of this module is a state of one of them, and each of the    *)
(* properties below speaks of one.                                         *)
(***************************************************************************)
EXTENDS Payments, AuditChain, Statements, ClientApp, WalletDesk, Onboarding

VARIABLE part  \* the part whose behaviour this is; it never changes

Parts == {"payments", "audit", "statements", "client", "desk", "onboarding"}

platformVars ==
  <<part, paymentVars, auditVars, statementVars, clientVars, deskVars, onboardVars>>

PlatformInit ==
  /\ part \in Parts
  /\ PaymentsInit /\ AuditInit /\ StatementsInit
  /\ ClientInit /\ DeskInit /\ OnboardInit

NoPayment    == UNCHANGED paymentVars
NoAudit      == UNCHANGED auditVars
NoStatement  == UNCHANGED statementVars
NoClient     == UNCHANGED clientVars
NoDesk       == UNCHANGED deskVars
NoOnboarding == UNCHANGED onboardVars

PlatformNext ==
  /\ UNCHANGED part
  /\ \/ /\ part = "payments" /\ PaymentsNext
        /\ NoAudit /\ NoStatement /\ NoClient /\ NoDesk /\ NoOnboarding
     \/ /\ part = "audit" /\ AuditNext
        /\ NoPayment /\ NoStatement /\ NoClient /\ NoDesk /\ NoOnboarding
     \/ /\ part = "statements" /\ StatementsNext
        /\ NoPayment /\ NoAudit /\ NoClient /\ NoDesk /\ NoOnboarding
     \/ /\ part = "client" /\ ClientNext
        /\ NoPayment /\ NoAudit /\ NoStatement /\ NoDesk /\ NoOnboarding
     \/ /\ part = "desk" /\ DeskNext
        /\ NoPayment /\ NoAudit /\ NoStatement /\ NoClient /\ NoOnboarding
     \/ /\ part = "onboarding" /\ OnboardNext
        /\ NoPayment /\ NoAudit /\ NoStatement /\ NoClient /\ NoDesk

PlatformSpec == PlatformInit /\ [][PlatformNext]_platformVars

-----------------------------------------------------------------------------

(***************************************************************************)
(* Properties.  Each is asked of its own part; the others leave it alone.  *)
(***************************************************************************)

\* The inductive invariant of Payments: claims, locks and checked balances
\* hold from one step of a verdict or transfer to the next.
PaymentsHold == part = "payments" => PaymentsInv

\* Every step of wallet requests and transfers is one of CustomerFunds or
\* changes nothing the investors can see.
PaymentsKeepPromise ==
  /\ part = "payments" => Promise!Init
  /\ [][part = "payments" => Promise!Next]_(Promise!vars)

\* The audit trail can be replayed: verify accepts what is in memory, and an
\* entity's rows, appended under its row lock, are one chain of hashes.
AuditHolds == part = "audit" => AuditTrailHolds

\* Balances, statements, positions and totals are views of one journal and
\* agree with each other.
StatementsHold == part = "statements" => StatementsAddUp

\* A client page that reports success is right, retries buy at most as often
\* as the investor clicked, and money is neither made nor lost.
ClientHolds == part = "client" => ClientInv

\* Requests reported as submitted exist, and no operator loses sight of one
\* that waits.
DeskHolds == part = "desk" => DeskInv

\* Whoever was told that he is registered is, the seed's log speaks of
\* finished work, and a browser shows the account whose session it holds.
OnboardHolds == part = "onboarding" => OnboardingHolds

=============================================================================
