----------------------------- MODULE WalletDesk -----------------------------
(***************************************************************************)
(* Both ends of a wallet request: the panel of apps/web in which an        *)
(* investor asks for a deposit or a withdrawal, and the consoles of        *)
(* apps/admin in which operators confirm them.  A console works on the     *)
(* list it was loaded with.  The API's verdicts are taken at their commit  *)
(* (Wallet has their steps); any answer may be lost on its way.  The       *)
(* dashboard shows the panel beside a balance only, and at this commit it  *)
(* gets none, as it asks for no currency: this is the panel's behaviour    *)
(* where it is rendered, and that of its server actions.                   *)
(***************************************************************************)
EXTENDS Integers, Sequences, FiniteSets, Functions

CONSTANTS
  Consoles,    \* browser tabs with the operations console
  Entered,     \* what is typed as an amount: major units and two decimals
  Malformed,   \* text the amount's pattern refuses
  PanelSize,   \* 8 in the code: requests the investor's dashboard lists
  ConsoleSize, \* 50 in the code: requests a console lists
  MaxAsked     \* bound: clicks on the panel

ASSUME DeskConstants ==
  /\ Entered \subseteq [major: Nat, minor: 0..99]
  /\ Malformed \notin Entered
  /\ PanelSize \in Nat \ {0} /\ ConsoleSize \in Nat \ {0}
  /\ MaxAsked \in Nat

Kinds == {"DEPOSIT", "WITHDRAWAL"}

VARIABLES
  signedIn,  \* the investor's browser has the access cookie
  requests,  \* Transaction rows in the order of createdAt, taken as that of commits
  form,      \* of each kind: waiting or not, the amount sent, the last answer
  panel,     \* the requests the dashboard was rendered with
  console,   \* of each console: its list, whom it waits for, its message
  tally      \* history, of each kind: clicks, "submitted" messages, and those
             \* of them given without a cookie

deskVars == <<signedIn, requests, form, panel, console, tally>>

Closed == [at |-> "closed", items |-> {}, loaded |-> {}, id |-> 0,
           message |-> "", done |-> {}]

DeskInit ==
  /\ signedIn = TRUE
  /\ requests = <<>>
  /\ form = [k \in Kinds |-> [sending |-> FALSE, amount |-> 0, message |-> ""]]
  /\ panel = <<>>
  /\ console = [o \in Consoles |-> Closed]
  /\ tally = [k \in Kinds |-> [clicks |-> 0, said |-> 0, blind |-> 0]]

-----------------------------------------------------------------------------
(***************************************************************************)
(* The investor's panel.                                                   *)
(***************************************************************************)

\* toKobo; zero and malformed text throw.
ToKobo(text) ==
  IF text = Malformed THEN 0 ELSE text.major * 100 + text.minor

SmallerOf(m, n) == IF m < n THEN m ELSE n

\* GET wallet/requests through getWalletRequests: newest first, and nothing at
\* all without a cookie.
Recent(rows, cookie) ==
  IF ~cookie THEN <<>>
  ELSE [i \in 1..SmallerOf(PanelSize, Len(rows)) |->
          [id |-> Len(rows) + 1 - i, status |-> rows[Len(rows) + 1 - i].status]]

LoadDashboard ==
  /\ panel' = Recent(requests, signedIn)
  /\ UNCHANGED <<signedIn, requests, form, console, tally>>

\* The cookie's 15 minutes pass, or the investor signs in again.
CookieChanges ==
  /\ signedIn' = ~signedIn
  /\ UNCHANGED <<requests, form, panel, console, tally>>

Asked == tally["DEPOSIT"].clicks + tally["WITHDRAWAL"].clicks

\* The button; it is disabled until the action returns.
Ask(k) ==
  /\ ~form[k].sending
  /\ Asked < MaxAsked
  /\ \E text \in Entered \cup {Malformed} :
       form' = [form EXCEPT ![k] =
         IF ToKobo(text) > 0 THEN [sending |-> TRUE, amount |-> ToKobo(text), message |-> @.message]
         ELSE [sending |-> FALSE, amount |-> 0, message |-> "error"]]
  /\ tally' = [tally EXCEPT ![k].clicks = @ + 1]
  /\ UNCHANGED <<signedIn, requests, panel, console>>

Reply(k, message) == form' = [form EXCEPT ![k].sending = FALSE, ![k].message = message]

\* The request is in the table, under a fresh key; its answer may be lost, and
\* then the page is not revalidated.
Accepted(k) ==
  /\ form[k].sending
  /\ signedIn
  /\ requests' = Append(requests, [kind |-> k, amount |-> form[k].amount, status |-> "PENDING"])
  /\ \/ /\ Reply(k, "submitted")
        /\ panel' = Recent(requests', signedIn)
        /\ tally' = [tally EXCEPT ![k].said = @ + 1]
     \/ Reply(k, "error") /\ UNCHANGED <<panel, tally>>
  /\ UNCHANGED <<signedIn, console>>

\* The API refuses (an inactive or staff account) or is not reached.
Refused(k) ==
  /\ form[k].sending
  /\ signedIn
  /\ Reply(k, "error")
  /\ UNCHANGED <<signedIn, requests, panel, console, tally>>

\* walletRequest returns null without a cookie, and the action reports success.
AnsweredBlind(k) ==
  /\ form[k].sending
  /\ ~signedIn
  /\ Reply(k, "submitted")
  /\ panel' = Recent(requests, signedIn)
  /\ tally' = [tally EXCEPT ![k].said = @ + 1, ![k].blind = @ + 1]
  /\ UNCHANGED <<signedIn, requests, console>>

-----------------------------------------------------------------------------
(***************************************************************************)
(* The consoles.                                                           *)
(***************************************************************************)

Awaiting == {i \in DOMAIN requests : requests[i].status = "PENDING"}

\* getOperatorRequests: PENDING only, oldest first.
OldestPending ==
  {i \in Awaiting : Cardinality({j \in Awaiting : j < i}) < ConsoleSize}

\* The page is loaded again, or its error page is, for a session that is not
\* an operator's.  A reload starts the panel's state anew; the refresh a
\* confirmation asks for does not, as useState keeps the first list.
LoadConsole(o) ==
  /\ console[o].at # "sending"
  /\ \/ console' = [console EXCEPT ![o] =
          [Closed EXCEPT !.at = "open", !.items = OldestPending,
                         !.loaded = OldestPending, !.done = console[o].done]]
     \/ console' = [console EXCEPT ![o] = [Closed EXCEPT !.done = console[o].done]]
  /\ UNCHANGED <<signedIn, requests, form, panel, tally>>

\* The button of an item, after the browser's own question; while the call is
\* under way every button is disabled.
Confirm(o) ==
  /\ console[o].at = "open"
  /\ \E i \in console[o].items :
       console' = [console EXCEPT ![o].at = "sending", ![o].id = i, ![o].message = ""]
  /\ UNCHANGED <<signedIn, requests, form, panel, tally>>

\* acct_2100: confirmed deposits count for it, confirmed withdrawals against.
Worth(row) ==
  IF row.status # "COMPLETED" THEN 0
  ELSE IF row.kind = "DEPOSIT" THEN row.amount ELSE 0 - row.amount
Balance == SumFunction([i \in DOMAIN requests |-> Worth(requests[i])])

\* confirmRequest commits for a PENDING request that the balance covers.
Confirmable(i) ==
  /\ requests[i].status = "PENDING"
  /\ requests[i].kind = "WITHDRAWAL" => requests[i].amount <= Balance

Complete(i) == requests' = [requests EXCEPT ![i].status = "COMPLETED"]

\* approveWalletRequest's answer; only a good one takes the item off the list.
ConsoleAnswer(o, ok) ==
  console' = [console EXCEPT
    ![o].at = "open", ![o].id = 0,
    ![o].message = IF ok THEN "posted" ELSE "error",
    ![o].items = IF ok THEN @ \ {console[o].id} ELSE @,
    ![o].done = IF ok THEN @ \cup {console[o].id} ELSE @]

\* Mutant: the item is taken off the list whatever the answer.
ApproveAlwaysFilters(o) ==
  /\ console[o].at = "sending"
  /\ console' = [console EXCEPT ![o].at = "open", ![o].id = 0, ![o].message = "error",
                                ![o].items = @ \ {console[o].id}]
  /\ \/ Confirmable(console[o].id) /\ Complete(console[o].id)
     \/ UNCHANGED requests
  /\ UNCHANGED <<signedIn, form, panel, tally>>

Approve(o) ==
  /\ console[o].at = "sending"
  /\ \/ /\ Confirmable(console[o].id)
        /\ Complete(console[o].id)
        /\ \E answered \in BOOLEAN : ConsoleAnswer(o, answered)
     \/ ConsoleAnswer(o, FALSE) /\ UNCHANGED requests
  /\ UNCHANGED <<signedIn, form, panel, tally>>

\* An operator without a console: the API's confirm, or its reject, which no
\* page calls.
VerdictByApi ==
  /\ \E i \in DOMAIN requests :
       \/ Confirmable(i) /\ Complete(i)
       \/ /\ requests[i].status = "PENDING"
          /\ requests' = [requests EXCEPT ![i].status = "CANCELLED"]
  /\ UNCHANGED <<signedIn, form, panel, console, tally>>

DeskNext ==
  \/ LoadDashboard \/ CookieChanges \/ VerdictByApi
  \/ \E k \in Kinds : Ask(k) \/ Accepted(k) \/ Refused(k) \/ AnsweredBlind(k)
  \/ \E o \in Consoles : LoadConsole(o) \/ Confirm(o) \/ Approve(o)

DeskSpec == DeskInit /\ [][DeskNext]_deskVars

-----------------------------------------------------------------------------

HasStatus(i, s) == requests[i].status = s
OfKind(k) == {i \in DOMAIN requests : requests[i].kind = k}

\* "Submitted for review" is said for a request of its own, except where there
\* was no cookie to send it with; and a click makes one request at most,
\* though an investor who sees an error may have made one.
EveryRequestIsAsked ==
  \A k \in Kinds :
    /\ tally[k].said <= Cardinality(OfKind(k)) + tally[k].blind
    /\ Cardinality(OfKind(k)) <= tally[k].clicks

\* What leaves a console's list is COMPLETED: nothing an operator still has to
\* decide is ever taken out of his sight.  Nor does the list show a request
\* and leave out an older one that waits.
NothingIsHidden ==
  \A o \in Consoles :
    LET c == console[o] IN
    /\ \A i \in c.loaded \ c.items : HasStatus(i, "COMPLETED")
    /\ \A i \in c.items, j \in Awaiting : j < i => j \in c.items

\* Two consoles never both report that they posted one request.
PostedByOne ==
  /\ \A o \in Consoles : \A i \in console[o].done : HasStatus(i, "COMPLETED")
  /\ \A o, q \in Consoles : o # q => console[o].done \cap console[q].done = {}

\* A verdict the dashboard shows is the row's for good, and withdrawals that
\* were confirmed were covered, whoever confirmed them and in what order.
VerdictsStand ==
  /\ \A n \in DOMAIN panel :
       panel[n].status # "PENDING" => HasStatus(panel[n].id, panel[n].status)
  /\ Balance >= 0

\* What the investor and the operators are told, whichever answers are lost.
DeskTellsTheTruth ==
  EveryRequestIsAsked /\ NothingIsHidden /\ PostedByOne /\ VerdictsStand

-----------------------------------------------------------------------------
(***************************************************************************)
(* The inductive invariant.                                                *)
(***************************************************************************)

RequestStatuses == {"PENDING", "COMPLETED", "CANCELLED"}
Messages == {"", "submitted", "error", "posted"}

DeskTypeOK ==
  /\ signedIn \in BOOLEAN
  /\ requests \in Seq([kind: Kinds, amount: Nat, status: RequestStatuses])
  /\ form \in [Kinds -> [sending: BOOLEAN, amount: Nat, message: Messages]]
  /\ panel \in Seq([id: DOMAIN requests, status: RequestStatuses])
  /\ console \in [Consoles ->
       [at: {"closed", "open", "sending"}, items: SUBSET DOMAIN requests,
        loaded: SUBSET DOMAIN requests, id: DOMAIN requests \cup {0},
        message: Messages, done: SUBSET DOMAIN requests]]
  /\ tally \in [Kinds -> [clicks: Nat, said: Nat, blind: Nat]]

\* A click that waits for its answer has not made its request yet.
ClicksAreEnough ==
  \A k \in Kinds :
    Cardinality(OfKind(k)) + (IF form[k].sending THEN 1 ELSE 0) <= tally[k].clicks

\* A console waits for an item of its own list.
ConsolesAsk ==
  \A o \in Consoles : console[o].at = "sending" => console[o].id \in console[o].items

DeskInv == DeskTypeOK /\ ClicksAreEnough /\ ConsolesAsk /\ DeskTellsTheTruth

=============================================================================
