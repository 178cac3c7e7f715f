---------------------------- MODULE CustomerFunds ----------------------------
(***************************************************************************)
(* What the payment services promise an investor, free of handlers, locks, *)
(* tables and retries: a request is filed under an id once, is settled on  *)
(* the terms it was filed with at most once or declined, never both, and   *)
(* money leaves an investor only if it is there.                           *)
(***************************************************************************)
EXTENDS Integers

CONSTANTS
  Investors,
  Ids,        \* request ids
  Amounts,
  Outside,    \* the party on the other side of deposits and withdrawals
  NoRequest,  \* an id nothing was filed under
  Opening     \* funds at the start

VARIABLES
  funds,   \* cash of each investor
  request  \* the request filed under each id

vars == <<funds, request>>

Parties == Investors \cup {Outside}
Terms == [from: Parties, to: Parties, amount: Amounts]

Init ==
  /\ funds = Opening
  /\ request = [id \in Ids |-> NoRequest]

Covered(t) == t.from \in Investors => funds[t.from] >= t.amount

Pay(t) ==
  funds' = [i \in Investors |->
              funds[i] - (IF i = t.from THEN t.amount ELSE 0)
                       + (IF i = t.to THEN t.amount ELSE 0)]

Record(id, t, state) ==
  request' = [request EXCEPT ![id] = [terms |-> t, state |-> state]]

File(id, t) ==
  /\ request[id] = NoRequest
  /\ Record(id, t, "open")
  /\ UNCHANGED funds

Open(id) == request[id] # NoRequest /\ request[id].state = "open"

Settle(id) ==
  /\ Open(id)
  /\ Covered(request[id].terms)
  /\ Pay(request[id].terms)
  /\ Record(id, request[id].terms, "settled")

Decline(id) ==
  /\ Open(id)
  /\ Record(id, request[id].terms, "declined")
  /\ UNCHANGED funds

\* A transfer between investors is filed and settled in one go.
Transfer(id, t) ==
  /\ request[id] = NoRequest
  /\ t.from \in Investors /\ t.to \in Investors /\ t.from # t.to
  /\ Covered(t)
  /\ Pay(t)
  /\ Record(id, t, "settled")

Next ==
  \E id \in Ids :
    \/ \E t \in Terms : File(id, t) \/ Transfer(id, t)
    \/ Settle(id)
    \/ Decline(id)

Spec == Init /\ [][Next]_vars

=============================================================================
