----------------------------- MODULE ClientApp -----------------------------
(***************************************************************************)
(* apps/client: an investor's browser tabs, the pages and route handlers   *)
(* of the Next.js server, and the API calls these make, any of which may   *)
(* fail before or after the API has done its work.  A submit is two API    *)
(* calls, create and fund, and every click sends a fresh idempotency key.  *)
(* The API's calls are taken as Investments models them: create and fund   *)
(* at their commit, redeem with the status it read before.                 *)
(***************************************************************************)
EXTENDS Integers, Sequences, FiniteSets, Functions

CONSTANTS
  Tabs,        \* tabs of one browser, which share its cookie
  Products,    \* FinancialProduct rows
  Catalogue,   \* their status and minimum; nothing in the program changes them
  KycApproved, \* whether the investor's latest KYC record is APPROVED
  Typed,       \* amounts the investor types
  RefsTyped,   \* references he types
  NoRef,       \* the field left empty: the API derives one from the key
  Deposit,     \* his balance of acct_2100 when he arrives
  MaxClicks    \* bound: submits

ASSUME ClientConstants ==
  /\ Catalogue \in [Products -> [active: BOOLEAN, minimum: Nat]]
  /\ KycApproved \in BOOLEAN
  /\ Typed \subseteq Nat
  /\ NoRef \notin RefsTyped
  /\ Deposit \in Nat /\ MaxClicks \in Nat

VARIABLES
  cookie,   \* the browser has the access cookie, and its token is valid
  tab,      \* what each tab shows and waits for
  bought,   \* InvestmentSubscription rows, in the order of their creation
  cash,     \* the investor's acct_2100 balance
  clicks    \* history: submits so far

clientVars == <<cookie, tab, bought, cash, clicks>>

\* "at" is a page, or the API call a page's button is waiting for.
Blank == [at |-> "away", product |-> NoRef, sub |-> 0, amount |-> 0,
          ref |-> NoRef, seen |-> "", items |-> {}, error |-> FALSE]

ClientInit ==
  /\ cookie = FALSE
  /\ tab = [t \in Tabs |-> Blank]
  /\ bought = <<>>
  /\ cash = Deposit
  /\ clicks = 0

-----------------------------------------------------------------------------

\* check: the reason comes with an answer, eligible or not.
Eligibility(p) ==
  IF ~Catalogue[p].active THEN "PRODUCT_NOT_ACTIVE"
  ELSE IF ~KycApproved THEN "KYC_NOT_APPROVED" ELSE "ELIGIBLE"

ListActive == {p \in Products : Catalogue[p].active}

\* The cards with a "Start investment" link.
Startable == {p \in ListActive : Eligibility(p) = "ELIGIBLE"}

Invested(s) == bought[s].status # "PENDING"
\* Redeeming a subscription twice makes its position negative.
Held(row) == IF row.status = "PENDING" THEN 0 ELSE row.amount * (1 - row.paid)
HeldInAll == SumFunction([s \in DOMAIN bought |-> Held(bought[s])])

Show(t, fields) == tab' = [tab EXCEPT ![t] = fields]
Stay == UNCHANGED <<bought, cash, clicks>>

\* An API call that is answered 401, or a page without a cookie.
ToLogin(t) == Show(t, [Blank EXCEPT !.at = "login"])

\* Every page asks for the cookie before anything else.
Visit(t, pages, page) ==
  /\ tab[t].at \in pages
  /\ \/ cookie /\ Show(t, page)
     \/ ~cookie /\ ToLogin(t)
  /\ UNCHANGED cookie /\ Stay

Resting == {"away", "login", "products", "unavailable", "form", "invested",
            "portfolio", "redeemed"}

LogIn(t) ==
  /\ tab[t].at \in {"away", "login"}
  /\ cookie' = TRUE
  /\ Show(t, Blank)
  /\ Stay

\* The cookie lives 15 minutes; the client has no refresh.
CookieExpires ==
  /\ cookie
  /\ cookie' = FALSE
  /\ UNCHANGED tab /\ Stay

-----------------------------------------------------------------------------
(***************************************************************************)
(* Investing.                                                              *)
(***************************************************************************)

ShowProducts(t) ==
  Visit(t, Resting, [Blank EXCEPT !.at = "products", !.items = Startable])

LoadProduct(p) ==
  IF Catalogue[p].active
  THEN [Blank EXCEPT !.at = "form", !.product = p, !.amount = Catalogue[p].minimum]
  ELSE [Blank EXCEPT !.at = "unavailable"]

\* By a card's link, or by the address of any product.
OpenForm(t) ==
  \/ \E p \in tab[t].items : Visit(t, {"products"}, LoadProduct(p))
  \/ \E p \in Products : Visit(t, {"away"}, LoadProduct(p))

\* The button is disabled while a submit is under way.
CanSubmit(t) == tab[t].at = "form"

\* The form checks the amount; the server is not asked about a bad one.
Submit(t) ==
  /\ CanSubmit(t)
  /\ clicks < MaxClicks
  /\ \E a \in Typed, r \in RefsTyped \cup {NoRef} :
       LET good == a > 0 /\ a >= Catalogue[tab[t].product].minimum IN
       Show(t, [tab[t] EXCEPT !.at = IF good THEN "create" ELSE @,
                              !.amount = a, !.ref = r, !.error = ~good])
  /\ clicks' = clicks + 1
  /\ UNCHANGED <<cookie, bought, cash>>

\* The form is usable again, with what was typed and a message.
FormFails(t) == Show(t, [tab[t] EXCEPT !.at = "form", !.sub = 0, !.error = TRUE])

\* The API's create under a fresh key: the reference may be taken.
Creatable(t) ==
  /\ Eligibility(tab[t].product) = "ELIGIBLE"
  /\ tab[t].ref # NoRef => \A s \in DOMAIN bought : bought[s].ref # tab[t].ref

\* POST /api/investments, first call.  The answer may be lost.
RouteCreate(t) ==
  /\ tab[t].at = "create"
  /\ \/ /\ cookie /\ Creatable(t)
        /\ bought' = Append(bought,
             [product |-> tab[t].product, amount |-> tab[t].amount,
              ref |-> tab[t].ref, status |-> "PENDING", paid |-> 0])
        /\ \/ Show(t, [tab[t] EXCEPT !.at = "fund", !.sub = Len(bought) + 1])
           \/ FormFails(t)
     \/ FormFails(t) /\ UNCHANGED bought
  /\ UNCHANGED <<cookie, cash, clicks>>

\* Mutant: the second answer is not looked at.
RouteFundUnread(t) ==
  /\ tab[t].at = "fund"
  /\ Show(t, [tab[t] EXCEPT !.at = "invested"])
  /\ \/ /\ bought[tab[t].sub].amount <= cash
        /\ bought' = [bought EXCEPT ![tab[t].sub].status = "COMPLETED"]
        /\ cash' = cash - bought[tab[t].sub].amount
     \/ UNCHANGED <<bought, cash>>
  /\ UNCHANGED <<cookie, clicks>>

\* Second call, with the token read before the first.  A row that could not
\* be funded stays PENDING, and no page offers to fund it again.
RouteFund(t) ==
  /\ tab[t].at = "fund"
  /\ \/ /\ bought[tab[t].sub].amount <= cash
        /\ bought' = [bought EXCEPT ![tab[t].sub].status = "COMPLETED"]
        /\ cash' = cash - bought[tab[t].sub].amount
        /\ \/ Show(t, [tab[t] EXCEPT !.at = "invested"])
           \/ FormFails(t)
     \/ FormFails(t) /\ UNCHANGED <<bought, cash>>
  /\ UNCHANGED <<cookie, clicks>>

-----------------------------------------------------------------------------
(***************************************************************************)
(* Redeeming.                                                              *)
(***************************************************************************)

ShowPortfolio(t) ==
  Visit(t, Resting,
    [Blank EXCEPT !.at = "portfolio", !.items = {s \in DOMAIN bought : Held(bought[s]) > 0}])

AskRedeem(t) ==
  /\ tab[t].at = "portfolio"
  /\ \E s \in tab[t].items :
       Show(t, [tab[t] EXCEPT !.at = "confirming", !.sub = s])
  /\ UNCHANGED cookie /\ Stay

CancelRedeem(t) ==
  /\ tab[t].at = "confirming"
  /\ Show(t, [tab[t] EXCEPT !.at = "portfolio", !.sub = 0])
  /\ UNCHANGED cookie /\ Stay

RedeemFails(t) ==
  Show(t, [tab[t] EXCEPT !.at = "portfolio", !.sub = 0, !.seen = "", !.error = TRUE])

\* The click: a fresh key; the route; the API reads the status, unlocked.
RouteRedeem(t) ==
  /\ tab[t].at = "confirming"
  /\ \/ /\ cookie
        /\ Show(t, [tab[t] EXCEPT !.at = "redeem", !.seen = bought[tab[t].sub].status])
     \/ RedeemFails(t)
  /\ UNCHANGED cookie /\ Stay

\* The API's commit, if the status read and acct_2200 allow it; the page's
\* refresh, or a message.
RedeemAnswer(t) ==
  /\ tab[t].at = "redeem"
  /\ LET row == bought[tab[t].sub] IN
     \/ /\ tab[t].seen = "COMPLETED"
        /\ row.amount <= HeldInAll
        /\ bought' = [bought EXCEPT ![tab[t].sub].status = "REDEEMED",
                                    ![tab[t].sub].paid = @ + 1]
        /\ cash' = cash + row.amount
        /\ \/ Show(t, [tab[t] EXCEPT !.at = "redeemed"])
           \/ RedeemFails(t)
     \/ RedeemFails(t) /\ UNCHANGED <<bought, cash>>
  /\ UNCHANGED <<cookie, clicks>>

ClientNext ==
  \/ CookieExpires
  \/ \E t \in Tabs :
       \/ LogIn(t) \/ ShowProducts(t) \/ OpenForm(t) \/ Submit(t)
       \/ RouteCreate(t) \/ RouteFund(t)
       \/ ShowPortfolio(t) \/ AskRedeem(t) \/ CancelRedeem(t)
       \/ RouteRedeem(t) \/ RedeemAnswer(t)

ClientSpec == ClientInit /\ [][ClientNext]_clientVars

-----------------------------------------------------------------------------

\* A screen that reports success is right: the investment of that very submit
\* is funded, the redemption of that very position paid.
SuccessIsTrue ==
  \A t \in Tabs :
    /\ tab[t].at = "invested" =>
         /\ Invested(tab[t].sub)
         /\ bought[tab[t].sub].amount = tab[t].amount
         /\ bought[tab[t].sub].product = tab[t].product
    /\ tab[t].at = "redeemed" => bought[tab[t].sub].paid > 0

\* A submit that seems to fail may have gone through, and a retry pays again:
\* the key is new each time.  What does hold: a submit buys at most once, and
\* under one reference, retried as often as one likes, at most once in all.
RetriesAreBounded ==
  /\ Len(bought) <= clicks
  /\ \A r \in RefsTyped : Cardinality({s \in DOMAIN bought : bought[s].ref = r}) <= 1

\* Only what the catalogue offers is bought, and money is neither made nor
\* lost, however calls fail and tabs race.
MoneyIsConserved ==
  /\ \A s \in DOMAIN bought :
       /\ bought[s].product \in Startable
       /\ bought[s].amount >= Catalogue[bought[s].product].minimum
  /\ cash >= 0
  /\ cash + HeldInAll = Deposit

\* The client's promises to the investor.
ClicksAreHonoured == SuccessIsTrue /\ RetriesAreBounded /\ MoneyIsConserved

-----------------------------------------------------------------------------
(***************************************************************************)
(* The inductive invariant.                                                *)
(***************************************************************************)

Pages == Resting \cup {"create", "fund", "confirming", "redeem"}
RowStatuses == {"PENDING", "COMPLETED", "REDEEMED"}

ClientTypeOK ==
  /\ cookie \in BOOLEAN
  /\ bought \in Seq([product: Products, amount: Nat, ref: RefsTyped \cup {NoRef},
                    status: RowStatuses, paid: Nat])
  /\ tab \in [Tabs -> [at: Pages, product: Products \cup {NoRef},
                      sub: DOMAIN bought \cup {0}, amount: Nat,
                      ref: RefsTyped \cup {NoRef}, seen: RowStatuses \cup {""},
                      items: SUBSET (Products \cup DOMAIN bought), error: BOOLEAN]]
  /\ cash \in Int
  /\ clicks \in Nat

\* What a tab shows is about what its page is about.
TabsMakeSense ==
  \A t \in Tabs :
    LET c == tab[t] IN
    /\ c.at = "products" => c.items \subseteq Products
    /\ c.at \in {"form", "create", "fund", "invested"} => c.product \in Products
    /\ c.at = "create" => c.amount >= Catalogue[c.product].minimum
    /\ c.at \in {"portfolio", "confirming", "redeem"} => c.items \subseteq DOMAIN bought
    /\ c.at \in {"fund", "invested", "confirming", "redeem", "redeemed"} =>
         c.sub \in DOMAIN bought

\* A submit between its two calls owns the row it made, which nobody else
\* funds, and nobody redeems: a status that was read as COMPLETED may be stale,
\* but is never PENDING again.
RowsAreOwned ==
  /\ \A s \in DOMAIN bought : bought[s].status = "PENDING" => bought[s].paid = 0
  /\ \A t \in Tabs :
       tab[t].at = "fund" =>
         LET row == bought[tab[t].sub] IN
         /\ row.status = "PENDING"
         /\ row.amount = tab[t].amount /\ row.product = tab[t].product
         /\ \A q \in Tabs \ {t} : tab[q].at = "fund" => tab[q].sub # tab[t].sub
  /\ \A t \in Tabs :
       tab[t].at = "redeem" /\ tab[t].seen = "COMPLETED" => Invested(tab[t].sub)

\* A submit that waits for its first call has not bought yet, and a reference
\* is taken once.
Creating == {t \in Tabs : tab[t].at = "create"}
ClicksPayForRows ==
  /\ IsFiniteSet(Creating)
  /\ Len(bought) + Cardinality(Creating) <= clicks
  /\ \A r, s \in DOMAIN bought :
       bought[r].ref # NoRef /\ bought[r].ref = bought[s].ref => r = s

ClientInv ==
  /\ ClientTypeOK /\ TabsMakeSense /\ RowsAreOwned /\ ClicksPayForRows
  /\ ClicksAreHonoured

=============================================================================
