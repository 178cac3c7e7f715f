--------------------------- MODULE Platform_proofs ---------------------------
(***************************************************************************)
(* Platform's invariant is that of its parts, each of which keeps it: the  *)
(* invariants of Payments, Statements, AuditChain and Onboarding are       *)
(* proved in modules of their own; those of the pages, WalletDesk and      *)
(* ClientApp, here first. Their sums of requests and of rows rest on the   *)
(* lemmas about sums in Payments_proofs.                                   *)
(***************************************************************************)
EXTENDS Platform, Services_proofs, Statements_proofs, Records_proofs

-----------------------------------------------------------------------------
(***************************************************************************)
(* Sums of sequences.                                                      *)
(***************************************************************************)

\* The sum of a sequence: an element more, or one that changes.
LEMMA SequenceSums ==
  ASSUME NEW f \in Seq(Int), NEW x \in Int
  PROVE  /\ SumFunction(f) \in Int
         /\ SumFunction(Append(f, x)) = SumFunction(f) + x
         /\ \A i \in DOMAIN f :
              SumFunction([f EXCEPT ![i] = x]) = SumFunction(f) - f[i] + x
<1> DEFINE n == Len(f)
<1>1. n \in Nat /\ DOMAIN f = 1..n /\ \A i \in 1..n : f[i] \in Int
  OBVIOUS
<1>2. IsFiniteSet(1..n) /\ IsFiniteSet(1..n + 1)
  BY <1>1, FS_Interval
<1>3. SumFunction(f) = SumFunctionOnSet(f, 1..n)
  BY <1>1 DEF SumFunction
<1>4. SumFunction(f) \in Int
  BY <1>1, <1>2, <1>3, SumTakesAny
<1>5. SumFunction(Append(f, x)) = SumFunction(f) + x
  <2>1. PICK g : g = Append(f, x)
    OBVIOUS
  <2>2. /\ DOMAIN g = 1..n + 1 /\ g[n + 1] = x /\ \A i \in 1..n : g[i] = f[i]
        /\ \A i \in 1..n + 1 : g[i] \in Int
    BY <1>1, <2>1
  <2>3. SumFunction(g) = SumFunctionOnSet(g, 1..n + 1)
    BY <2>2 DEF SumFunction
  <2>4. n + 1 \in 1..n + 1 /\ (1..n + 1) \ {n + 1} = 1..n
    BY <1>1
  <2>5. SumFunctionOnSet(g, 1..n + 1) = g[n + 1] + SumFunctionOnSet(g, (1..n + 1) \ {n + 1})
    BY <1>2, <2>2, <2>4, SumTakesAny
  <2>6. SumFunctionOnSet(g, 1..n) = SumFunctionOnSet(f, 1..n)
    BY <1>2, <2>2, SumsAgree
  <2>7. SumFunction(g) = x + SumFunctionOnSet(g, 1..n)
    BY <2>2, <2>3, <2>4, <2>5
  <2>8. SumFunction(g) = x + SumFunction(f)
    BY <1>3, <2>6, <2>7
  <2>9. SumFunction(g) = SumFunction(f) + x
    BY <1>4, <2>8
  <2> QED BY <2>1, <2>9
<1>6. ASSUME NEW i \in DOMAIN f
      PROVE  SumFunction([f EXCEPT ![i] = x]) = SumFunction(f) - f[i] + x
  <2>1. PICK g : g = [f EXCEPT ![i] = x]
    OBVIOUS
  <2>2. /\ DOMAIN g = 1..n /\ g[i] = x /\ i \in 1..n
        /\ \A j \in (1..n) \ {i} : g[j] = f[j]
        /\ \A j \in 1..n : f[j] \in Int /\ g[j] \in Int
    BY <1>1, <2>1
  <2>3. SumFunction(g) = SumFunctionOnSet(g, 1..n)
    BY <2>2 DEF SumFunction
  <2>4. SumFunctionOnSet(g, 1..n) = SumFunctionOnSet(f, 1..n) - f[i] + g[i]
    BY SMTT(30), <1>2, <2>2, SumMoves
  <2> QED BY <1>3, <2>1, <2>2, <2>3, <2>4
<1> QED BY <1>4, <1>5, <1>6

-----------------------------------------------------------------------------
(***************************************************************************)
(* The requests of a desk, and the worth of them.                          *)
(***************************************************************************)

RequestRows == [kind: Kinds, amount: Nat, status: RequestStatuses]

\* A request has a worth, and the requests' worths have a sum.
LEMMA WorthIsInt == \A row \in RequestRows : Worth(row) \in Int
  BY DEF Worth, RequestRows

LEMMA RequestsHaveWorth ==
  ASSUME DeskTypeOK
  PROVE  /\ [i \in DOMAIN requests |-> Worth(requests[i])] \in Seq(Int)
         /\ Balance \in Int
         /\ Len(requests) \in Nat /\ DOMAIN requests = 1..Len(requests)
         /\ \A i \in DOMAIN requests : requests[i] \in RequestRows
         /\ IsFiniteSet(DOMAIN requests)
<1>1. requests \in Seq(RequestRows)
  BY DEF DeskTypeOK, RequestRows
<1>2. Len(requests) \in Nat /\ DOMAIN requests = 1..Len(requests)
      /\ \A i \in DOMAIN requests : requests[i] \in RequestRows
  BY <1>1
<1>3. \A i \in 1..Len(requests) : Worth(requests[i]) \in Int
  BY <1>2, WorthIsInt
<1>4. [i \in 1..Len(requests) |-> Worth(requests[i])] \in Seq(Int)
  BY <1>2, <1>3, IsASeq
<1>5. Balance \in Int
  <2>1. PICK f : f = [i \in DOMAIN requests |-> Worth(requests[i])]
    OBVIOUS
  <2>2. f \in Seq(Int)
    BY <1>2, <1>4, <2>1
  <2>3. Balance = SumFunction(f)
    BY <2>1, Zenon DEF Balance
  <2> QED BY <2>2, <2>3, SequenceSums
<1> QED BY <1>2, <1>4, <1>5, FS_Interval

\* What a new row changes.
LEMMA RowAdded ==
  ASSUME DeskTypeOK, NEW k \in Kinds, NEW a \in Nat,
         requests' = Append(requests, [kind |-> k, amount |-> a, status |-> "PENDING"])
  PROVE  /\ requests' \in Seq(RequestRows)
         /\ DOMAIN requests' = 1..Len(requests) + 1
         /\ \A i \in DOMAIN requests : requests'[i] = requests[i]
         /\ Awaiting' = Awaiting \cup {Len(requests) + 1}
         /\ OfKind(k)' = OfKind(k) \cup {Len(requests) + 1}
         /\ \A j \in Kinds \ {k} : OfKind(j)' = OfKind(j)
         /\ Balance' = Balance
<1> DEFINE row == [kind |-> k, amount |-> a, status |-> "PENDING"]
           n == Len(requests)
<1>1. row \in RequestRows /\ Worth(row) = 0
  BY DEF RequestRows, RequestStatuses, Worth
<1>2. requests \in Seq(RequestRows) /\ n \in Nat /\ DOMAIN requests = 1..n
  BY RequestsHaveWorth DEF DeskTypeOK, RequestRows
<1>3. /\ requests' \in Seq(RequestRows)
      /\ DOMAIN requests' = 1..n + 1
      /\ \A i \in 1..n : requests'[i] = requests[i]
      /\ requests'[n + 1] = row
  BY <1>1, <1>2
<1>4. row.status = "PENDING" /\ row.kind = k
  OBVIOUS
<1> HIDE DEF row, n
<1>5. Awaiting' = Awaiting \cup {n + 1}
  BY <1>2, <1>3, <1>4 DEF Awaiting
<1>6. OfKind(k)' = OfKind(k) \cup {n + 1}
  BY <1>2, <1>3, <1>4 DEF OfKind
<1>7. \A j \in Kinds \ {k} : OfKind(j)' = OfKind(j)
  BY <1>2, <1>3, <1>4 DEF OfKind
<1>8. Balance' = Balance
  <2>1. PICK f \in Seq(Int) : f = [i \in DOMAIN requests |-> Worth(requests[i])]
    BY RequestsHaveWorth
  <2>2. PICK g : g = [i \in DOMAIN requests' |-> Worth(requests'[i])]
    OBVIOUS
  <2>3. g = Append(f, 0)
    <3>1. DOMAIN f = 1..n /\ Len(f) = n
      BY <1>2, <2>1
    <3>2. \A i \in 1..n + 1 : g[i] = IF i = n + 1 THEN 0 ELSE f[i]
      BY <1>1, <1>2, <1>3, <2>1, <2>2
    <3>3. g = [i \in 1..n + 1 |-> g[i]]
      BY <1>3, <2>2
    <3>4. PICK h : h = Append(f, 0)
      OBVIOUS
    <3>5. /\ DOMAIN h = 1..n + 1 /\ h = [i \in 1..n + 1 |-> h[i]]
          /\ \A i \in 1..n + 1 : h[i] = IF i = n + 1 THEN 0 ELSE f[i]
      <4>1. /\ h \in Seq(Int) /\ Len(h) = n + 1
            /\ \A i \in 1..n + 1 : h[i] = IF i = n + 1 THEN 0 ELSE f[i]
        BY <1>2, <3>1, <3>4
      <4>2. h \in [1..n + 1 -> Int]
        BY <1>2, <4>1
      <4> QED BY <4>1, <4>2
    <3> QED BY <3>2, <3>3, <3>4, <3>5
  <2>4. SumFunction(Append(f, 0)) = SumFunction(f) + 0 /\ SumFunction(f) \in Int
    BY <2>1, SequenceSums
  <2>5. Balance = SumFunction(f) /\ Balance' = SumFunction(g)
    BY <2>1, <2>2, Zenon DEF Balance
  <2> QED BY <2>3, <2>4, <2>5
<1> QED BY <1>2, <1>3, <1>5, <1>6, <1>7, <1>8 DEF n

\* What a verdict changes.
LEMMA VerdictGiven ==
  ASSUME DeskTypeOK, NEW i \in DOMAIN requests, NEW s \in {"COMPLETED", "CANCELLED"},
         requests[i].status = "PENDING",
         requests' = [requests EXCEPT ![i].status = s]
  PROVE  /\ requests' \in Seq(RequestRows)
         /\ DOMAIN requests' = DOMAIN requests
         /\ \A j \in DOMAIN requests \ {i} : requests'[j] = requests[j]
         /\ requests'[i] = [requests[i] EXCEPT !.status = s]
         /\ Awaiting' = Awaiting \ {i}
         /\ \A k \in Kinds : OfKind(k)' = OfKind(k)
         /\ Balance' = Balance + Worth(requests'[i])
<1>1. /\ requests \in Seq(RequestRows) /\ Len(requests) \in Nat
      /\ DOMAIN requests = 1..Len(requests) /\ requests[i] \in RequestRows
  BY RequestsHaveWorth DEF DeskTypeOK, RequestRows
<1>2. PICK row : row = [requests[i] EXCEPT !.status = s]
  OBVIOUS
<1>3. /\ row \in RequestRows /\ row.status = s /\ row.kind = requests[i].kind
  BY <1>1, <1>2 DEF RequestRows, RequestStatuses
<1>4. requests' = [requests EXCEPT ![i] = row]
  BY <1>2
<1>5. /\ requests' \in Seq(RequestRows)
      /\ DOMAIN requests' = DOMAIN requests
      /\ \A j \in DOMAIN requests \ {i} : requests'[j] = requests[j]
      /\ requests'[i] = row
  BY <1>1, <1>3, <1>4
<1>6. Awaiting' = Awaiting \ {i} /\ \A k \in Kinds : OfKind(k)' = OfKind(k)
  BY <1>3, <1>5 DEF Awaiting, OfKind
<1>7. Balance' = Balance + Worth(row)
  <2>1. PICK f \in Seq(Int) : f = [j \in DOMAIN requests |-> Worth(requests[j])]
    BY RequestsHaveWorth
  <2>2. PICK x \in Int : x = Worth(row)
    BY <1>3, WorthIsInt
  <2>3. PICK g : g = [j \in DOMAIN requests' |-> Worth(requests'[j])]
    OBVIOUS
  <2>4. g = [f EXCEPT ![i] = x]
    BY <1>5, <2>1, <2>2, <2>3
  <2>5. i \in DOMAIN f /\ f[i] = 0
    BY <2>1 DEF Worth
  <2>6. SumFunction(g) = SumFunction(f) - f[i] + x /\ SumFunction(f) \in Int
    BY <2>4, <2>5, SequenceSums
  <2>7. Balance = SumFunction(f) /\ Balance' = SumFunction(g)
    BY <2>1, <2>3, Zenon DEF Balance
  <2> QED BY <2>2, <2>5, <2>6, <2>7
<1> QED BY <1>2, <1>5, <1>6, <1>7

-----------------------------------------------------------------------------

\* A step leaves rows where they are and verdicts as they are; a row that
\* waits waited before, or is newer than all of them.
RowsStand ==
  /\ requests' \in Seq(RequestRows)
  /\ DOMAIN requests \subseteq DOMAIN requests'
  /\ \A i \in DOMAIN requests :
       ~HasStatus(i, "PENDING") => requests'[i].status = requests[i].status
  /\ \A i \in Awaiting' : i \in Awaiting \/ \A j \in DOMAIN requests : j < i

ConsoleRows(D) ==
  [at: {"closed", "open", "sending"}, items: SUBSET D, loaded: SUBSET D,
   id: D \cup {0}, message: Messages, done: SUBSET D]

PanelRows(D) == [id: D, status: RequestStatuses]

\* The type invariant, by variable.
LEMMA DeskTypes ==
  DeskTypeOK <=>
    /\ signedIn \in BOOLEAN
    /\ requests \in Seq(RequestRows)
    /\ form \in [Kinds -> [sending: BOOLEAN, amount: Nat, message: Messages]]
    /\ panel \in Seq(PanelRows(DOMAIN requests))
    /\ console \in [Consoles -> ConsoleRows(DOMAIN requests)]
    /\ tally \in [Kinds -> [clicks: Nat, said: Nat, blind: Nat]]
  BY DEF DeskTypeOK, RequestRows, ConsoleRows, PanelRows

LEMMA DeskTypesKept ==
  DeskTypeOK' <=>
    /\ signedIn' \in BOOLEAN
    /\ requests' \in Seq(RequestRows)
    /\ form' \in [Kinds -> [sending: BOOLEAN, amount: Nat, message: Messages]]
    /\ panel' \in Seq(PanelRows(DOMAIN requests'))
    /\ console' \in [Consoles -> ConsoleRows(DOMAIN requests')]
    /\ tally' \in [Kinds -> [clicks: Nat, said: Nat, blind: Nat]]
  BY DEF DeskTypeOK, RequestRows, ConsoleRows, PanelRows

\* The rows stand when none changes, one is added, or one gets its verdict.
LEMMA RowsUnchangedStand ==
  ASSUME DeskTypeOK, UNCHANGED requests
  PROVE  /\ RowsStand /\ Awaiting' = Awaiting /\ Balance' = Balance
         /\ \A k \in Kinds : OfKind(k)' = OfKind(k)
<1>1. requests' \in Seq(RequestRows)
  BY DeskTypes
<1>2. Awaiting' = Awaiting /\ Balance' = Balance /\ \A k \in Kinds : OfKind(k)' = OfKind(k)
  BY DEF Awaiting, Balance, OfKind
<1> QED BY <1>1, <1>2 DEF RowsStand, HasStatus

LEMMA RowAddedStands ==
  ASSUME DeskTypeOK, NEW k \in Kinds, NEW a \in Nat,
         requests' = Append(requests, [kind |-> k, amount |-> a, status |-> "PENDING"])
  PROVE  RowsStand
<1>1. Len(requests) \in Nat /\ DOMAIN requests = 1..Len(requests)
  BY RequestsHaveWorth
<1>2. /\ requests' \in Seq(RequestRows)
      /\ DOMAIN requests' = 1..Len(requests) + 1
      /\ \A i \in DOMAIN requests : requests'[i] = requests[i]
      /\ Awaiting' = Awaiting \cup {Len(requests) + 1}
  BY RowAdded
<1>3. DOMAIN requests \subseteq DOMAIN requests'
      /\ \A j \in DOMAIN requests : j < Len(requests) + 1
  BY <1>1, <1>2
<1> QED BY <1>2, <1>3 DEF RowsStand

LEMMA VerdictStands ==
  ASSUME DeskTypeOK, NEW i \in DOMAIN requests, NEW s \in {"COMPLETED", "CANCELLED"},
         HasStatus(i, "PENDING"), requests' = [requests EXCEPT ![i].status = s]
  PROVE  RowsStand
  BY VerdictGiven DEF RowsStand, HasStatus

\* A confirmation takes no more than there is.
LEMMA ConfirmedIsCovered ==
  ASSUME DeskTypeOK, Balance >= 0, NEW i \in DOMAIN requests, Confirmable(i), Complete(i)
  PROVE  /\ RowsStand /\ Balance' >= 0 /\ DOMAIN requests' = DOMAIN requests
         /\ requests'[i].status = "COMPLETED" /\ i \notin Awaiting'
         /\ \A k \in Kinds : OfKind(k)' = OfKind(k)
<1>1. HasStatus(i, "PENDING") /\ requests' = [requests EXCEPT ![i].status = "COMPLETED"]
  BY DEF Confirmable, Complete, HasStatus
<1>2. RowsStand
  BY <1>1, VerdictStands
<1>3. /\ requests'[i] = [requests[i] EXCEPT !.status = "COMPLETED"]
      /\ DOMAIN requests' = DOMAIN requests /\ Awaiting' = Awaiting \ {i}
      /\ \A k \in Kinds : OfKind(k)' = OfKind(k)
      /\ Balance' = Balance + Worth(requests'[i])
  BY <1>1, VerdictGiven DEF HasStatus
<1>4. requests[i] \in RequestRows /\ Balance \in Int
  BY RequestsHaveWorth
<1>5. Balance + Worth(requests'[i]) >= 0
  <2>1. PICK row : row = requests'[i]
    OBVIOUS
  <2>2. /\ row.status = "COMPLETED" /\ row.kind = requests[i].kind
        /\ row.amount = requests[i].amount /\ row.amount \in Nat /\ row.kind \in Kinds
    BY <1>3, <1>4, <2>1 DEF RequestRows
  <2>3. row.kind = "WITHDRAWAL" => row.amount <= Balance
    BY <2>2 DEF Confirmable
  <2>4. Worth(row) = IF row.kind = "DEPOSIT" THEN row.amount ELSE 0 - row.amount
    BY <2>2 DEF Worth
  <2> QED BY <1>4, <2>1, <2>2, <2>3, <2>4 DEF Kinds
<1> QED BY <1>2, <1>3, <1>5 DEF RequestRows

\* What is asked of a console's own record.
ConsoleRight(c) ==
  /\ c.at = "sending" => c.id \in c.items
  /\ \A i \in c.loaded \ c.items : HasStatus(i, "COMPLETED")
  /\ \A i \in c.items, j \in Awaiting : j < i => j \in c.items
  /\ \A i \in c.done : HasStatus(i, "COMPLETED")

LEMMA ConsolesRight ==
  /\ ConsolesAsk /\ NothingIsHidden /\ PostedByOne <=>
       /\ \A o \in Consoles : ConsoleRight(console[o])
       /\ \A o, q \in Consoles : o # q => console[o].done \cap console[q].done = {}
  /\ ConsolesAsk' /\ NothingIsHidden' /\ PostedByOne' <=>
       /\ \A o \in Consoles : ConsoleRight(console[o])'
       /\ \A o, q \in Consoles : o # q => console'[o].done \cap console'[q].done = {}
<1>1. ConsolesAsk /\ NothingIsHidden /\ PostedByOne <=>
        /\ \A o \in Consoles : ConsoleRight(console[o])
        /\ \A o, q \in Consoles : o # q => console[o].done \cap console[q].done = {}
  BY Zenon DEF ConsolesAsk, NothingIsHidden, PostedByOne, ConsoleRight
<1>2. ConsolesAsk' /\ NothingIsHidden' /\ PostedByOne' <=>
        /\ \A o \in Consoles : ConsoleRight(console[o])'
        /\ \A o, q \in Consoles : o # q => console'[o].done \cap console'[q].done = {}
  BY Zenon DEF ConsolesAsk, NothingIsHidden, PostedByOne, ConsoleRight
<1> QED BY <1>1, <1>2

\* A record that does not change stays right about rows that stand.
LEMMA RightStays ==
  ASSUME DeskTypeOK, RowsStand, NEW c \in ConsoleRows(DOMAIN requests), ConsoleRight(c)
  PROVE  ConsoleRight(c)' /\ c \in ConsoleRows(DOMAIN requests')
<1>1. /\ c.items \subseteq DOMAIN requests /\ c.loaded \subseteq DOMAIN requests
      /\ c.done \subseteq DOMAIN requests
  BY DEF ConsoleRows
<1>2. \A i \in DOMAIN requests : HasStatus(i, "COMPLETED") => HasStatus(i, "COMPLETED")'
  BY DEF RowsStand, HasStatus
<1>3. ASSUME NEW i \in c.items, NEW j \in Awaiting', j < i
      PROVE  j \in c.items
  <2>1. i \in DOMAIN requests /\ i \in Int
    BY <1>1, RequestsHaveWorth
  <2>2. j \in DOMAIN requests' /\ j \in Int
    BY DEF Awaiting, RowsStand
  <2>3. j \in Awaiting
    BY <1>3, <2>1, <2>2 DEF RowsStand
  <2> QED BY <1>3, <2>3 DEF ConsoleRight
<1>4. ConsoleRight(c)'
  BY <1>1, <1>2, <1>3 DEF ConsoleRight
<1>5. c \in ConsoleRows(DOMAIN requests')
  BY DEF ConsoleRows, RowsStand
<1> QED BY <1>4, <1>5

\* At most one console moves: to a record that is right, and that newly
\* reports only what was not COMPLETED before.
LEMMA ConsoleMoves ==
  ASSUME DeskInv, RowsStand, NEW o, NEW new \in ConsoleRows(DOMAIN requests'),
         console' = [console EXCEPT ![o] = new], ConsoleRight(new)',
         \A i \in new.done : i \in console[o].done \/ ~HasStatus(i, "COMPLETED")
  PROVE  /\ ConsolesAsk' /\ NothingIsHidden' /\ PostedByOne'
         /\ console' \in [Consoles -> ConsoleRows(DOMAIN requests')]
<1>1. DeskTypeOK /\ console \in [Consoles -> ConsoleRows(DOMAIN requests)]
  BY DeskTypes DEF DeskInv
<1>2. /\ \A q \in Consoles : ConsoleRight(console[q])
      /\ \A p, q \in Consoles : p # q => console[p].done \cap console[q].done = {}
  BY ConsolesRight DEF DeskInv, DeskTellsTheTruth
<1>3. ASSUME NEW q \in Consoles
      PROVE  /\ ConsoleRight(console[q])'
             /\ console'[q] \in ConsoleRows(DOMAIN requests')
  <2>1. CASE q = o
    <3>1. console'[q] = new
      BY <1>1, <2>1
    <3> QED BY <3>1 DEF ConsoleRight, HasStatus, Awaiting
  <2>2. CASE q # o
    <3>1. PICK c \in ConsoleRows(DOMAIN requests) : c = console[q] /\ ConsoleRight(c)
      BY <1>1, <1>2
    <3>2. console'[q] = c
      BY <1>1, <2>2, <3>1
    <3>3. ConsoleRight(c)' /\ c \in ConsoleRows(DOMAIN requests')
      BY <1>1, <3>1, RightStays
    <3> QED BY <3>2, <3>3 DEF ConsoleRight, HasStatus, Awaiting
  <2> QED BY <2>1, <2>2
<1>4. ASSUME NEW p \in Consoles, NEW q \in Consoles, p # q
      PROVE  console'[p].done \cap console'[q].done = {}
  <2>1. ASSUME NEW r \in Consoles, r # o, o \in Consoles
        PROVE  new.done \cap console[r].done = {}
    <3>1. \A i \in console[r].done : HasStatus(i, "COMPLETED") /\ i \notin console[o].done
      BY <1>2, <2>1 DEF ConsoleRight
    <3> QED BY <3>1
  <2>2. \A r \in Consoles : console'[r] = IF r = o THEN new ELSE console[r]
    BY <1>1
  <2> QED BY <1>2, <1>4, <2>1, <2>2
<1>5. console' \in [Consoles -> ConsoleRows(DOMAIN requests')]
  BY <1>1, <1>3
<1> QED BY <1>3, <1>4, <1>5, ConsolesRight

\* Consoles that do not move are right about rows that stand.
LEMMA ConsolesStay ==
  ASSUME DeskInv, RowsStand, UNCHANGED console
  PROVE  /\ ConsolesAsk' /\ NothingIsHidden' /\ PostedByOne'
         /\ console' \in [Consoles -> ConsoleRows(DOMAIN requests')]
<1>1. DeskTypeOK /\ console \in [Consoles -> ConsoleRows(DOMAIN requests)]
  BY DeskTypes DEF DeskInv
<1>2. /\ \A q \in Consoles : ConsoleRight(console[q])
      /\ \A p, q \in Consoles : p # q => console[p].done \cap console[q].done = {}
  BY ConsolesRight DEF DeskInv, DeskTellsTheTruth
<1>3. ASSUME NEW q \in Consoles
      PROVE  ConsoleRight(console[q])' /\ console'[q] \in ConsoleRows(DOMAIN requests')
  <2>1. PICK c \in ConsoleRows(DOMAIN requests) : c = console[q] /\ ConsoleRight(c)
    BY <1>1, <1>2
  <2>2. ConsoleRight(c)' /\ c \in ConsoleRows(DOMAIN requests')
    BY <1>1, <2>1, RightStays
  <2> QED BY <2>1, <2>2 DEF ConsoleRight, HasStatus, Awaiting
<1>4. console' \in [Consoles -> ConsoleRows(DOMAIN requests')]
  BY <1>1, <1>3
<1> QED BY <1>2, <1>3, <1>4, ConsolesRight

\* So is the dashboard, whether it stays or is loaded again.
LEMMA PanelStays ==
  ASSUME DeskInv, RowsStand, Balance' >= 0,
         UNCHANGED panel \/ panel' = Recent(requests', signedIn)
  PROVE  VerdictsStand' /\ panel' \in Seq(PanelRows(DOMAIN requests'))
<1>1. CASE UNCHANGED panel
  <2>1. panel \in Seq(PanelRows(DOMAIN requests))
    BY DeskTypes DEF DeskInv
  <2>2. \A n \in DOMAIN panel : panel[n] \in PanelRows(DOMAIN requests)
    BY <2>1
  <2>3. \A n \in DOMAIN panel : panel[n] \in PanelRows(DOMAIN requests')
    BY <2>2 DEF RowsStand, PanelRows
  <2>4. panel \in Seq(PanelRows(DOMAIN requests'))
    <3>1. Len(panel) \in Nat /\ panel = [n \in 1..Len(panel) |-> panel[n]]
          /\ DOMAIN panel = 1..Len(panel)
      BY <2>1
    <3>2. [n \in 1..Len(panel) |-> panel[n]] \in Seq(PanelRows(DOMAIN requests'))
      BY <2>3, <3>1, IsASeq
    <3> QED BY <3>1, <3>2
  <2>5. \A n \in DOMAIN panel :
          panel[n].status # "PENDING" => HasStatus(panel[n].id, panel[n].status)'
    BY <1>1, <2>2 DEF PanelRows, RowsStand, HasStatus, DeskInv, DeskTellsTheTruth, VerdictsStand
  <2> QED BY <1>1, <2>4, <2>5 DEF VerdictsStand
<1>2. CASE panel' = Recent(requests', signedIn)
  <2>1. PICK table : table = requests'
    OBVIOUS
  <2>2. table \in Seq(RequestRows) /\ Len(table) \in Nat /\ DOMAIN table = 1..Len(table)
    BY <2>1 DEF RowsStand
  <2>3. PICK m \in Nat : m <= Len(table) /\ m = SmallerOf(PanelSize, Len(table))
    <3>1. PanelSize \in Nat
      BY DeskConstants
    <3>2. SmallerOf(PanelSize, Len(table)) \in Nat
          /\ SmallerOf(PanelSize, Len(table)) <= Len(table)
      BY <2>2, <3>1 DEF SmallerOf
    <3> QED BY <3>2
  <2>4. \A i \in 1..m : Len(table) + 1 - i \in 1..Len(table)
    BY <2>2, <2>3
  <2>5. \A i \in 1..m : table[Len(table) + 1 - i].status \in RequestStatuses
    <3>1. \A j \in 1..Len(table) : table[j] \in RequestRows
      BY <2>2
    <3>2. \A j \in 1..Len(table) : table[j].status \in RequestStatuses
      BY <3>1 DEF RequestRows
    <3> QED BY <2>4, <3>2
  <2>6. PICK shown : shown = [i \in 1..m |-> [id |-> Len(table) + 1 - i,
                                              status |-> table[Len(table) + 1 - i].status]]
    OBVIOUS
  <2>7. shown \in Seq(PanelRows(DOMAIN table))
        /\ \A n \in DOMAIN shown : table[shown[n].id].status = shown[n].status
    <3>1. \A i \in 1..m : shown[i] \in PanelRows(DOMAIN table)
      BY <2>2, <2>4, <2>5, <2>6 DEF PanelRows
    <3>2. [i \in 1..m |-> shown[i]] \in Seq(PanelRows(DOMAIN table))
      BY <2>3, <3>1, IsASeq
    <3>3. shown = [i \in 1..m |-> shown[i]] /\ DOMAIN shown = 1..m
      BY <2>6
    <3> QED BY <2>6, <3>2, <3>3
  <2>8. panel' = shown \/ panel' = <<>>
    BY <1>2, <2>1, <2>3, <2>6 DEF Recent
  <2>9. panel' \in Seq(PanelRows(DOMAIN table))
        /\ \A n \in DOMAIN panel' : table[panel'[n].id].status = panel'[n].status
    <3>1. <<>> \in Seq(PanelRows(DOMAIN table)) /\ DOMAIN <<>> = {}
      OBVIOUS
    <3> QED BY <2>7, <2>8, <3>1
  <2> QED BY <2>1, <2>9 DEF VerdictsStand, HasStatus
<1> QED BY <1>1, <1>2

\* Clicks and requests keep their count while neither changes.
LEMMA CountsStay ==
  ASSUME DeskInv, \A k \in Kinds : OfKind(k)' = OfKind(k), UNCHANGED <<form, tally>>
  PROVE  /\ ClicksAreEnough' /\ EveryRequestIsAsked'
         /\ form' \in [Kinds -> [sending: BOOLEAN, amount: Nat, message: Messages]]
         /\ tally' \in [Kinds -> [clicks: Nat, said: Nat, blind: Nat]]
<1>1. ClicksAreEnough'
  BY DEF DeskInv, ClicksAreEnough
<1>2. EveryRequestIsAsked'
  BY DEF DeskInv, DeskTellsTheTruth, EveryRequestIsAsked
<1> QED BY <1>1, <1>2, DeskTypes DEF DeskInv

\* Nothing has been asked yet.
LEMMA DeskInitHolds == DeskInit => DeskInv
<1> SUFFICES ASSUME DeskInit PROVE DeskInv
  OBVIOUS
<1>1. /\ requests = <<>> /\ panel = <<>> /\ signedIn = TRUE
      /\ form = [k \in Kinds |-> [sending |-> FALSE, amount |-> 0, message |-> ""]]
      /\ console = [o \in Consoles |-> Closed]
      /\ tally = [k \in Kinds |-> [clicks |-> 0, said |-> 0, blind |-> 0]]
  BY Zenon DEF DeskInit
<1>2. DOMAIN requests = {} /\ DOMAIN panel = {}
  <2>1. DOMAIN <<>> = {}
    OBVIOUS
  <2> QED BY <1>1, <2>1
<1>3. DeskTypeOK
  <2>1. form \in [Kinds -> [sending: BOOLEAN, amount: Nat, message: Messages]]
    BY <1>1 DEF Messages
  <2>2. console \in [Consoles -> ConsoleRows(DOMAIN requests)]
    BY <1>1, <1>2 DEF ConsoleRows, Closed, Messages
  <2>3. tally \in [Kinds -> [clicks: Nat, said: Nat, blind: Nat]]
    BY <1>1
  <2>4. <<>> \in Seq(RequestRows) /\ <<>> \in Seq(PanelRows(DOMAIN requests))
    OBVIOUS
  <2> QED BY <1>1, <2>1, <2>2, <2>3, <2>4, DeskTypes
<1>4. \A k \in Kinds : OfKind(k) = {} /\ Cardinality(OfKind(k)) = 0
  BY <1>2, FS_EmptySet DEF OfKind
<1>5. Balance = 0
  <2>1. PICK f : f = [i \in DOMAIN requests |-> Worth(requests[i])]
    OBVIOUS
  <2>2. DOMAIN f = {} /\ IsFiniteSet({})
    BY <1>2, <2>1, FS_EmptySet
  <2>3. SumFunction(f) = 0
    BY <2>2, SumUnfolds DEF SumFunction
  <2>4. Balance = SumFunction(f)
    BY <2>1, Zenon DEF Balance
  <2> QED BY <2>3, <2>4
<1>6. \A k \in Kinds : ~form[k].sending /\ tally[k] = [clicks |-> 0, said |-> 0, blind |-> 0]
  BY <1>1
<1>7. ClicksAreEnough /\ EveryRequestIsAsked
  BY <1>4, <1>6 DEF ClicksAreEnough, EveryRequestIsAsked
<1>8. \A o \in Consoles : /\ console[o].at = "closed" /\ console[o].items = {}
                          /\ console[o].loaded = {} /\ console[o].done = {}
  BY <1>1 DEF Closed
<1>9. ConsolesAsk /\ NothingIsHidden /\ PostedByOne
  BY <1>8 DEF ConsolesAsk, NothingIsHidden, PostedByOne
<1>10. VerdictsStand
  BY <1>2, <1>5 DEF VerdictsStand
<1> QED BY <1>3, <1>7, <1>9, <1>10 DEF DeskInv, DeskTellsTheTruth

\* The dashboard and the cookie.
LEMMA ViewKeeps == ASSUME DeskInv, LoadDashboard \/ CookieChanges PROVE DeskInv'
<1>0. UNCHANGED <<requests, form, console, tally>> /\ DeskTypeOK /\ Balance >= 0
      /\ signedIn' \in BOOLEAN
  BY DeskTypes DEF LoadDashboard, CookieChanges, DeskInv, DeskTellsTheTruth, VerdictsStand
<1>1. /\ RowsStand /\ Balance' >= 0 /\ \A k \in Kinds : OfKind(k)' = OfKind(k)
      /\ requests' \in Seq(RequestRows)
  BY <1>0, RowsUnchangedStand, DeskTypes
<1>2. VerdictsStand' /\ panel' \in Seq(PanelRows(DOMAIN requests'))
  BY <1>0, <1>1, PanelStays DEF LoadDashboard, CookieChanges
<1>3. /\ ConsolesAsk' /\ NothingIsHidden' /\ PostedByOne'
      /\ console' \in [Consoles -> ConsoleRows(DOMAIN requests')]
  BY <1>0, <1>1, ConsolesStay
<1>4. /\ ClicksAreEnough' /\ EveryRequestIsAsked'
      /\ form' \in [Kinds -> [sending: BOOLEAN, amount: Nat, message: Messages]]
      /\ tally' \in [Kinds -> [clicks: Nat, said: Nat, blind: Nat]]
  BY <1>0, <1>1, CountsStay
<1>5. DeskTypeOK'
  BY <1>0, <1>1, <1>2, <1>3, <1>4, DeskTypesKept
<1> QED BY <1>2, <1>3, <1>4, <1>5 DEF DeskInv, DeskTellsTheTruth

LEMMA RequestsOfKind ==
  ASSUME DeskTypeOK, NEW k \in Kinds
  PROVE  IsFiniteSet(OfKind(k)) /\ Cardinality(OfKind(k)) \in Nat
         /\ \A i \in OfKind(k) : i \in DOMAIN requests
<1>1. OfKind(k) \subseteq DOMAIN requests
  BY DEF OfKind
<1> QED BY <1>1, RequestsHaveWorth, FS_Subset, FS_CardinalityType

\* The record a form or tally is changed to, and the others, which stay.
LEMMA AskKeeps == ASSUME DeskInv, NEW k \in Kinds, Ask(k) PROVE DeskInv'
<1>0. /\ UNCHANGED <<signedIn, requests, panel, console>> /\ DeskTypeOK /\ Balance >= 0
      /\ signedIn \in BOOLEAN
  BY DeskTypes DEF Ask, DeskInv, DeskTellsTheTruth, VerdictsStand
<1>1. /\ RowsStand /\ Balance' >= 0 /\ requests' \in Seq(RequestRows)
      /\ \A j \in Kinds : OfKind(j)' = OfKind(j)
  BY <1>0, RowsUnchangedStand, DeskTypes
<1>2. VerdictsStand' /\ panel' \in Seq(PanelRows(DOMAIN requests'))
  BY <1>0, <1>1, PanelStays
<1>3. /\ ConsolesAsk' /\ NothingIsHidden' /\ PostedByOne'
      /\ console' \in [Consoles -> ConsoleRows(DOMAIN requests')]
  BY <1>0, <1>1, ConsolesStay
<1>4. /\ form \in [Kinds -> [sending: BOOLEAN, amount: Nat, message: Messages]]
      /\ tally \in [Kinds -> [clicks: Nat, said: Nat, blind: Nat]]
  BY <1>0, DeskTypes
<1>5. PICK new \in [sending: BOOLEAN, amount: Nat, message: Messages] :
        form' = [form EXCEPT ![k] = new]
  <2>1. PICK text \in Entered \cup {Malformed} :
          form' = [form EXCEPT ![k] =
            IF ToKobo(text) > 0
            THEN [sending |-> TRUE, amount |-> ToKobo(text), message |-> @.message]
            ELSE [sending |-> FALSE, amount |-> 0, message |-> "error"]]
    BY DEF Ask
  <2>2. ToKobo(text) \in Nat
    <3>1. CASE text = Malformed
      BY <3>1 DEF ToKobo
    <3>2. CASE text # Malformed
      <4>1. text \in [major: Nat, minor: 0..99]
        BY <2>1, <3>2, DeskConstants
      <4>2. text.major \in Nat /\ text.minor \in Nat
        BY <4>1
      <4> QED BY <3>2, <4>2 DEF ToKobo
    <3> QED BY <3>1, <3>2
  <2>3. CASE ToKobo(text) > 0
    <3>1. [sending |-> TRUE, amount |-> ToKobo(text), message |-> form[k].message]
            \in [sending: BOOLEAN, amount: Nat, message: Messages]
      BY <1>4, <2>2
    <3> QED BY <2>1, <2>3, <3>1
  <2>4. CASE ~(ToKobo(text) > 0)
    <3>1. [sending |-> FALSE, amount |-> 0, message |-> "error"]
            \in [sending: BOOLEAN, amount: Nat, message: Messages]
      BY DEF Messages
    <3> QED BY <2>1, <2>4, <3>1
  <2> QED BY <2>3, <2>4
<1>6. /\ form' \in [Kinds -> [sending: BOOLEAN, amount: Nat, message: Messages]]
      /\ \A j \in Kinds \ {k} : form'[j] = form[j]
  BY <1>4, <1>5
<1>7. /\ tally' \in [Kinds -> [clicks: Nat, said: Nat, blind: Nat]]
      /\ tally'[k].clicks = tally[k].clicks + 1 /\ tally[k].clicks \in Nat
      /\ \A j \in Kinds : tally'[j].said = tally[j].said /\ tally'[j].blind = tally[j].blind
      /\ \A j \in Kinds \ {k} : tally'[j] = tally[j]
  BY <1>4 DEF Ask
<1>8. ~form[k].sending
  BY DEF Ask
<1>9. \A j \in Kinds : Cardinality(OfKind(j)) \in Nat
  BY <1>0, RequestsOfKind
<1>10. ClicksAreEnough'
  <2>1. \A j \in Kinds :
          Cardinality(OfKind(j)) + (IF form'[j].sending THEN 1 ELSE 0) <= tally'[j].clicks
    BY <1>6, <1>7, <1>8, <1>9 DEF DeskInv, ClicksAreEnough
  <2> QED BY <1>1, <2>1 DEF ClicksAreEnough
<1>11. EveryRequestIsAsked'
  <2>1. \A j \in Kinds : /\ tally'[j].said <= Cardinality(OfKind(j)) + tally'[j].blind
                         /\ Cardinality(OfKind(j)) <= tally'[j].clicks
    BY <1>4, <1>7, <1>9 DEF DeskInv, DeskTellsTheTruth, EveryRequestIsAsked
  <2> QED BY <1>1, <2>1 DEF EveryRequestIsAsked
<1>12. DeskTypeOK'
  BY <1>0, <1>1, <1>2, <1>3, <1>6, <1>7, DeskTypesKept
<1> QED BY <1>2, <1>3, <1>10, <1>11, <1>12 DEF DeskInv, DeskTellsTheTruth

\* An answer that made no row: a refusal, or one given without a cookie.
LEMMA AnswerKeeps ==
  ASSUME DeskInv, NEW k \in Kinds, Refused(k) \/ AnsweredBlind(k)
  PROVE  DeskInv'
<1>0. /\ UNCHANGED <<signedIn, requests, console>> /\ DeskTypeOK /\ Balance >= 0
      /\ signedIn \in BOOLEAN /\ form[k].sending
      /\ \E m \in Messages : Reply(k, m)
  BY DeskTypes DEF Refused, AnsweredBlind, DeskInv, DeskTellsTheTruth, VerdictsStand, Messages
<1>1. /\ RowsStand /\ Balance' >= 0 /\ requests' \in Seq(RequestRows)
      /\ \A j \in Kinds : OfKind(j)' = OfKind(j)
  BY <1>0, RowsUnchangedStand, DeskTypes
<1>2. VerdictsStand' /\ panel' \in Seq(PanelRows(DOMAIN requests'))
  <2>1. UNCHANGED panel \/ panel' = Recent(requests', signedIn)
    BY <1>0 DEF Refused, AnsweredBlind
  <2> QED BY <1>0, <1>1, <2>1, PanelStays
<1>3. /\ ConsolesAsk' /\ NothingIsHidden' /\ PostedByOne'
      /\ console' \in [Consoles -> ConsoleRows(DOMAIN requests')]
  BY <1>0, <1>1, ConsolesStay
<1>4. /\ form \in [Kinds -> [sending: BOOLEAN, amount: Nat, message: Messages]]
      /\ tally \in [Kinds -> [clicks: Nat, said: Nat, blind: Nat]]
  BY <1>0, DeskTypes
<1>5. /\ form' \in [Kinds -> [sending: BOOLEAN, amount: Nat, message: Messages]]
      /\ ~form'[k].sending
      /\ \A j \in Kinds \ {k} : form'[j] = form[j]
  <2>1. PICK m \in Messages : Reply(k, m)
    BY <1>0
  <2>2. form' = [form EXCEPT ![k] = [form[k] EXCEPT !.sending = FALSE, !.message = m]]
    BY <1>4, <2>1 DEF Reply
  <2>3. PICK new : new = [form[k] EXCEPT !.sending = FALSE, !.message = m]
    OBVIOUS
  <2>4. new \in [sending: BOOLEAN, amount: Nat, message: Messages] /\ ~new.sending
    BY <1>4, <2>3
  <2> QED BY <1>4, <2>2, <2>3, <2>4
<1>6. /\ tally' \in [Kinds -> [clicks: Nat, said: Nat, blind: Nat]]
      /\ \A j \in Kinds : tally'[j].clicks = tally[j].clicks
      /\ \A j \in Kinds : tally'[j].said - tally'[j].blind = tally[j].said - tally[j].blind
  <2>1. CASE Refused(k)
    BY <1>4, <2>1 DEF Refused
  <2>2. CASE AnsweredBlind(k)
    BY <1>4, <2>2 DEF AnsweredBlind
  <2> QED BY <1>0, <2>1, <2>2 DEF Refused, AnsweredBlind
<1>9. \A j \in Kinds : Cardinality(OfKind(j)) \in Nat
  BY <1>0, RequestsOfKind
<1>10. ClicksAreEnough'
  <2>1. \A j \in Kinds :
          Cardinality(OfKind(j)) + (IF form'[j].sending THEN 1 ELSE 0) <= tally'[j].clicks
    BY SMTT(30), <1>4, <1>5, <1>6, <1>9 DEF DeskInv, ClicksAreEnough
  <2> QED BY <1>1, <2>1 DEF ClicksAreEnough
<1>11. EveryRequestIsAsked'
  <2>1. \A j \in Kinds : /\ tally'[j].said <= Cardinality(OfKind(j)) + tally'[j].blind
                         /\ Cardinality(OfKind(j)) <= tally'[j].clicks
    BY <1>4, <1>6, <1>9 DEF DeskInv, DeskTellsTheTruth, EveryRequestIsAsked
  <2> QED BY <1>1, <2>1 DEF EveryRequestIsAsked
<1>12. DeskTypeOK'
  BY <1>0, <1>1, <1>2, <1>3, <1>5, <1>6, DeskTypesKept
<1> QED BY <1>2, <1>3, <1>10, <1>11, <1>12 DEF DeskInv, DeskTellsTheTruth

\* A row is made for the click that waits, whether its answer arrives or not.
LEMMA AcceptedKeeps == ASSUME DeskInv, NEW k \in Kinds, Accepted(k) PROVE DeskInv'
<1>0. /\ UNCHANGED <<signedIn, console>> /\ DeskTypeOK /\ Balance >= 0
      /\ signedIn \in BOOLEAN /\ form[k].sending
      /\ requests' = Append(requests, [kind |-> k, amount |-> form[k].amount,
                                       status |-> "PENDING"])
  BY DeskTypes DEF Accepted, DeskInv, DeskTellsTheTruth, VerdictsStand
<1>1. /\ form \in [Kinds -> [sending: BOOLEAN, amount: Nat, message: Messages]]
      /\ tally \in [Kinds -> [clicks: Nat, said: Nat, blind: Nat]]
      /\ form[k].amount \in Nat
  BY <1>0, DeskTypes
<1>2. /\ RowsStand /\ Balance' >= 0 /\ requests' \in Seq(RequestRows)
      /\ OfKind(k)' = OfKind(k) \cup {Len(requests) + 1}
      /\ \A j \in Kinds \ {k} : OfKind(j)' = OfKind(j)
  BY <1>0, <1>1, RowAdded, RowAddedStands
<1>3. VerdictsStand' /\ panel' \in Seq(PanelRows(DOMAIN requests'))
  <2>1. UNCHANGED panel \/ panel' = Recent(requests', signedIn)
    BY DEF Accepted
  <2> QED BY <1>2, <2>1, PanelStays
<1>4. /\ ConsolesAsk' /\ NothingIsHidden' /\ PostedByOne'
      /\ console' \in [Consoles -> ConsoleRows(DOMAIN requests')]
  BY <1>0, <1>2, ConsolesStay
<1>5. /\ form' \in [Kinds -> [sending: BOOLEAN, amount: Nat, message: Messages]]
      /\ ~form'[k].sending
      /\ \A j \in Kinds \ {k} : form'[j] = form[j]
  <2>1. \E m \in Messages : Reply(k, m)
    BY DEF Accepted, Messages
  <2> QED BY ZenonT(30), <1>1, <2>1 DEF Reply
<1>6. /\ tally' \in [Kinds -> [clicks: Nat, said: Nat, blind: Nat]]
      /\ \A j \in Kinds : tally'[j].clicks = tally[j].clicks /\ tally'[j].blind = tally[j].blind
      /\ tally'[k].said <= tally[k].said + 1
      /\ \A j \in Kinds \ {k} : tally'[j] = tally[j]
  <2>1. CASE UNCHANGED tally
    BY <1>1, <2>1
  <2>2. CASE tally' = [tally EXCEPT ![k].said = @ + 1]
    BY <1>1, <2>2
  <2> QED BY <2>1, <2>2 DEF Accepted
<1>7. /\ \A j \in Kinds : Cardinality(OfKind(j)) \in Nat
      /\ Cardinality(OfKind(k)') = Cardinality(OfKind(k)) + 1
  <2>1. Len(requests) + 1 \notin OfKind(k) /\ IsFiniteSet(OfKind(k))
    BY <1>0, RequestsHaveWorth, RequestsOfKind
  <2>2. \A j \in Kinds : Cardinality(OfKind(j)) \in Nat
    BY <1>0, RequestsOfKind
  <2>3. Cardinality(OfKind(k) \cup {Len(requests) + 1}) = Cardinality(OfKind(k)) + 1
    BY <2>1, FS_AddElement
  <2> QED BY <1>2, <2>2, <2>3
<1>8. \A j \in Kinds \ {k} : Cardinality(OfKind(j)') = Cardinality(OfKind(j))
  BY <1>2
<1>9. ClicksAreEnough'
  <2>1. ASSUME NEW j \in Kinds
        PROVE  Cardinality(OfKind(j)') + (IF form'[j].sending THEN 1 ELSE 0) <= tally'[j].clicks
    <3>1. CASE j = k
      <4>1. Cardinality(OfKind(k)) + 1 <= tally[k].clicks
        BY <1>0 DEF DeskInv, ClicksAreEnough
      <4>2. Cardinality(OfKind(k)') + 0 <= tally'[k].clicks
        BY <1>6, <1>7, <4>1
      <4> QED BY <1>5, <3>1, <4>2
    <3>2. CASE j # k
      <4>1. Cardinality(OfKind(j)) + (IF form[j].sending THEN 1 ELSE 0) <= tally[j].clicks
        BY DEF DeskInv, ClicksAreEnough
      <4> QED BY <1>5, <1>6, <1>8, <3>2, <4>1
    <3> QED BY <3>1, <3>2
  <2> QED BY <2>1 DEF ClicksAreEnough
<1>10. EveryRequestIsAsked'
  <2>1. \A j \in Kinds : /\ tally[j].said <= Cardinality(OfKind(j)) + tally[j].blind
                         /\ Cardinality(OfKind(j)) + (IF form[j].sending THEN 1 ELSE 0)
                              <= tally[j].clicks
    BY DEF DeskInv, DeskTellsTheTruth, EveryRequestIsAsked, ClicksAreEnough
  <2>2. ASSUME NEW j \in Kinds
        PROVE  /\ tally'[j].said <= Cardinality(OfKind(j)') + tally'[j].blind
               /\ Cardinality(OfKind(j)') <= tally'[j].clicks
    <3>1. CASE j = k
      <4>1. /\ tally[k].said \in Nat /\ tally[k].blind \in Nat /\ tally[k].clicks \in Nat
            /\ tally'[k].said \in Nat /\ Cardinality(OfKind(k)) \in Nat
        BY <1>1, <1>6, <1>7
      <4>2. tally[k].said <= Cardinality(OfKind(k)) + tally[k].blind
            /\ Cardinality(OfKind(k)) + 1 <= tally[k].clicks
        BY <1>0, <2>1
      <4>3. /\ tally'[k].said <= Cardinality(OfKind(k)') + tally'[k].blind
            /\ Cardinality(OfKind(k)') <= tally'[k].clicks
        BY <1>6, <1>7, <4>1, <4>2
      <4> QED BY <3>1, <4>3
    <3>2. CASE j # k
      <4>1. tally[j].clicks \in Nat /\ Cardinality(OfKind(j)) \in Nat
        BY <1>1, <1>7
      <4>2. /\ tally[j].said <= Cardinality(OfKind(j)) + tally[j].blind
            /\ Cardinality(OfKind(j)) <= tally[j].clicks
        BY <4>1, <2>1
      <4> QED BY <1>6, <1>8, <3>2, <4>2
    <3> QED BY <3>1, <3>2
  <2> QED BY <2>2 DEF EveryRequestIsAsked
<1>11. DeskTypeOK'
  BY <1>0, <1>2, <1>3, <1>4, <1>5, <1>6, DeskTypesKept
<1> QED BY <1>3, <1>4, <1>9, <1>10, <1>11 DEF DeskInv, DeskTellsTheTruth

\* Two waiting items: if one is among the oldest, so is an older one.
LEMMA OldestAreOldest ==
  ASSUME DeskTypeOK, NEW i \in OldestPending, NEW j \in Awaiting, j < i
  PROVE  j \in OldestPending
<1> DEFINE Before(n) == {m \in Awaiting : m < n}
<1>1. Awaiting \subseteq DOMAIN requests /\ IsFiniteSet(Awaiting)
  BY RequestsHaveWorth, FS_Subset DEF Awaiting
<1>2. \A n \in Awaiting : n \in Int
  BY <1>1, RequestsHaveWorth
<1>3. i \in Awaiting /\ Cardinality(Before(i)) < ConsoleSize
  BY DEF OldestPending
<1>4. Before(j) \subseteq Before(i)
  BY <1>2, <1>3
<1>5. IsFiniteSet(Before(i)) /\ IsFiniteSet(Before(j))
  BY <1>1, FS_Subset
<1>6. /\ Cardinality(Before(j)) <= Cardinality(Before(i))
      /\ Cardinality(Before(i)) \in Nat /\ Cardinality(Before(j)) \in Nat
  BY <1>4, <1>5, FS_Subset, FS_CardinalityType
<1>7. Cardinality(Before(j)) < ConsoleSize
  BY <1>3, <1>6, DeskConstants
<1> QED BY <1>7 DEF OldestPending

\* Loading a list, and choosing an item of it.
LEMMA BrowseKeeps ==
  ASSUME DeskInv, NEW o \in Consoles, LoadConsole(o) \/ Confirm(o)
  PROVE  DeskInv'
<1>0. /\ UNCHANGED <<signedIn, requests, form, panel, tally>> /\ DeskTypeOK /\ Balance >= 0
      /\ signedIn \in BOOLEAN /\ console \in [Consoles -> ConsoleRows(DOMAIN requests)]
  BY DeskTypes DEF LoadConsole, Confirm, DeskInv, DeskTellsTheTruth, VerdictsStand
<1>1. /\ RowsStand /\ Balance' >= 0 /\ requests' \in Seq(RequestRows)
      /\ Awaiting' = Awaiting /\ \A j \in Kinds : OfKind(j)' = OfKind(j)
  BY <1>0, RowsUnchangedStand, DeskTypes
<1>2. VerdictsStand' /\ panel' \in Seq(PanelRows(DOMAIN requests'))
  BY <1>0, <1>1, PanelStays
<1>3. /\ ClicksAreEnough' /\ EveryRequestIsAsked'
      /\ form' \in [Kinds -> [sending: BOOLEAN, amount: Nat, message: Messages]]
      /\ tally' \in [Kinds -> [clicks: Nat, said: Nat, blind: Nat]]
  BY <1>0, <1>1, CountsStay
<1>4. PICK c \in ConsoleRows(DOMAIN requests) : c = console[o] /\ ConsoleRight(c)
  BY <1>0, ConsolesRight DEF DeskInv, DeskTellsTheTruth
<1>5. OldestPending \subseteq DOMAIN requests
  BY DEF OldestPending, Awaiting
<1>6. PICK new \in ConsoleRows(DOMAIN requests) :
        /\ console' = [console EXCEPT ![o] = new]
        /\ ConsoleRight(new) /\ new.done = c.done
  <2>1. CASE console' = [console EXCEPT ![o] =
               [Closed EXCEPT !.at = "open", !.items = OldestPending,
                              !.loaded = OldestPending, !.done = console[o].done]]
    <3>1. PICK new : new = [Closed EXCEPT !.at = "open", !.items = OldestPending,
                                          !.loaded = OldestPending, !.done = c.done]
      OBVIOUS
    <3>2. /\ new.at = "open" /\ new.items = OldestPending /\ new.loaded = OldestPending
          /\ new.done = c.done /\ new \in ConsoleRows(DOMAIN requests)
      BY <1>4, <1>5, <3>1 DEF Closed, ConsoleRows, Messages
    <3>3. ConsoleRight(new)
      BY <1>0, <1>4, <3>2, OldestAreOldest DEF ConsoleRight
    <3> QED BY <1>4, <2>1, <3>1, <3>2, <3>3
  <2>2. CASE console' = [console EXCEPT ![o] = [Closed EXCEPT !.done = console[o].done]]
    <3>1. PICK new : new = [Closed EXCEPT !.done = c.done]
      OBVIOUS
    <3>2. /\ new.at = "closed" /\ new.items = {} /\ new.loaded = {}
          /\ new.done = c.done /\ new \in ConsoleRows(DOMAIN requests)
      BY <1>4, <3>1 DEF Closed, ConsoleRows, Messages
    <3>3. ConsoleRight(new)
      BY <1>4, <3>2 DEF ConsoleRight
    <3> QED BY <1>4, <2>2, <3>1, <3>2, <3>3
  <2>3. CASE Confirm(o)
    <3>1. PICK i \in c.items : console' =
            [console EXCEPT ![o].at = "sending", ![o].id = i, ![o].message = ""]
      BY <1>4, <2>3 DEF Confirm
    <3>2. PICK new : new = [c EXCEPT !.at = "sending", !.id = i, !.message = ""]
      OBVIOUS
    <3>3. /\ new.at = "sending" /\ new.id = i /\ new.items = c.items
          /\ new.loaded = c.loaded /\ new.done = c.done
          /\ new \in ConsoleRows(DOMAIN requests)
      BY <1>4, <3>1, <3>2 DEF ConsoleRows, Messages
    <3>4. ConsoleRight(new)
      BY <1>4, <3>1, <3>3 DEF ConsoleRight
    <3> QED BY <1>0, <1>4, <3>1, <3>2, <3>3, <3>4
  <2> QED BY <2>1, <2>2, <2>3 DEF LoadConsole
<1>7. ConsoleRight(new)' /\ new \in ConsoleRows(DOMAIN requests')
  BY <1>0, <1>1, <1>6, RightStays
<1>8. /\ ConsolesAsk' /\ NothingIsHidden' /\ PostedByOne'
      /\ console' \in [Consoles -> ConsoleRows(DOMAIN requests')]
  BY <1>1, <1>4, <1>6, <1>7, ConsoleMoves
<1>9. DeskTypeOK'
  BY <1>0, <1>1, <1>2, <1>3, <1>8, DeskTypesKept
<1> QED BY <1>2, <1>3, <1>8, <1>9 DEF DeskInv, DeskTellsTheTruth

\* A console's answer: whatever it says, only a COMPLETED item leaves the list.
LEMMA ConsoleApproveKeeps == ASSUME DeskInv, NEW o \in Consoles, Approve(o) PROVE DeskInv'
<1>0. /\ UNCHANGED <<signedIn, form, panel, tally>> /\ DeskTypeOK /\ Balance >= 0
      /\ signedIn \in BOOLEAN /\ console \in [Consoles -> ConsoleRows(DOMAIN requests)]
  BY DeskTypes DEF Approve, DeskInv, DeskTellsTheTruth, VerdictsStand
<1>1. PICK c \in ConsoleRows(DOMAIN requests) :
        c = console[o] /\ ConsoleRight(c) /\ c.id \in c.items /\ c.id \in DOMAIN requests
  <2>1. console[o].at = "sending"
    BY DEF Approve
  <2>2. ConsoleRight(console[o]) /\ console[o] \in ConsoleRows(DOMAIN requests)
    BY <1>0, ConsolesRight DEF DeskInv, DeskTellsTheTruth
  <2>3. console[o].id \in console[o].items /\ console[o].items \subseteq DOMAIN requests
    BY <2>1, <2>2 DEF ConsoleRight, ConsoleRows
  <2> QED BY <2>2, <2>3
<1>2. PICK ok \in BOOLEAN :
        /\ ConsoleAnswer(o, ok)
        /\ \/ Confirmable(c.id) /\ Complete(c.id)
           \/ ~ok /\ UNCHANGED requests
  BY <1>1 DEF Approve
<1>3. /\ RowsStand /\ Balance' >= 0 /\ requests' \in Seq(RequestRows)
      /\ \A j \in Kinds : OfKind(j)' = OfKind(j)
      /\ ok => c.id \notin Awaiting' /\ ~HasStatus(c.id, "COMPLETED")
               /\ HasStatus(c.id, "COMPLETED")'
  <2>1. CASE Confirmable(c.id) /\ Complete(c.id)
    <3>1. /\ RowsStand /\ Balance' >= 0 /\ requests'[c.id].status = "COMPLETED"
          /\ c.id \notin Awaiting' /\ \A j \in Kinds : OfKind(j)' = OfKind(j)
      BY <1>0, <1>1, <2>1, ConfirmedIsCovered
    <3>2. ~HasStatus(c.id, "COMPLETED") /\ HasStatus(c.id, "COMPLETED")'
      BY <2>1, <3>1 DEF Confirmable, HasStatus
    <3> QED BY <3>1, <3>2 DEF RowsStand
  <2>2. CASE ~ok /\ UNCHANGED requests
    BY <1>0, <2>2, RowsUnchangedStand DEF RowsStand
  <2> QED BY <1>2, <2>1, <2>2
<1>4. PICK new : new =
        [c EXCEPT !.at = "open", !.id = 0, !.message = IF ok THEN "posted" ELSE "error",
                  !.items = IF ok THEN @ \ {c.id} ELSE @,
                  !.done = IF ok THEN @ \cup {c.id} ELSE @]
  OBVIOUS
<1>5. console' = [console EXCEPT ![o] = new]
  BY <1>0, <1>1, <1>2, <1>4 DEF ConsoleAnswer
<1>6. /\ new \in ConsoleRows(DOMAIN requests)
      /\ new.at = "open" /\ new.loaded = c.loaded
      /\ new.items = IF ok THEN c.items \ {c.id} ELSE c.items
      /\ new.done = IF ok THEN c.done \cup {c.id} ELSE c.done
  BY ZenonT(30), <1>1, <1>4 DEF ConsoleRows, Messages
<1>7. ConsoleRight(c)' /\ new \in ConsoleRows(DOMAIN requests')
  <2>1. new \in ConsoleRows(DOMAIN requests')
    BY <1>3, <1>6 DEF ConsoleRows, RowsStand
  <2> QED BY <1>0, <1>1, <1>3, <2>1, RightStays
<1>8. ConsoleRight(new)'
  <2>1. CASE ok
    BY <1>3, <1>6, <1>7, <2>1 DEF ConsoleRight
  <2>2. CASE ~ok
    BY <1>6, <1>7, <2>2 DEF ConsoleRight
  <2> QED BY <2>1, <2>2
<1>9. \A i \in new.done : i \in console[o].done \/ ~HasStatus(i, "COMPLETED")
  BY <1>1, <1>3, <1>6
<1>10. /\ ConsolesAsk' /\ NothingIsHidden' /\ PostedByOne'
       /\ console' \in [Consoles -> ConsoleRows(DOMAIN requests')]
  BY <1>3, <1>5, <1>7, <1>8, <1>9, ConsoleMoves
<1>11. VerdictsStand' /\ panel' \in Seq(PanelRows(DOMAIN requests'))
  BY <1>0, <1>3, PanelStays
<1>12. /\ ClicksAreEnough' /\ EveryRequestIsAsked'
       /\ form' \in [Kinds -> [sending: BOOLEAN, amount: Nat, message: Messages]]
       /\ tally' \in [Kinds -> [clicks: Nat, said: Nat, blind: Nat]]
  BY <1>0, <1>3, CountsStay
<1>13. DeskTypeOK'
  BY <1>0, <1>3, <1>10, <1>11, <1>12, DeskTypesKept
<1> QED BY <1>10, <1>11, <1>12, <1>13 DEF DeskInv, DeskTellsTheTruth

\* An operator's verdict through the API.
LEMMA VerdictByApiKeeps == ASSUME DeskInv, VerdictByApi PROVE DeskInv'
<1>0. /\ UNCHANGED <<signedIn, form, panel, console, tally>> /\ DeskTypeOK
      /\ Balance >= 0 /\ signedIn \in BOOLEAN /\ Balance \in Int
  BY DeskTypes, RequestsHaveWorth
  DEF VerdictByApi, DeskInv, DeskTellsTheTruth, VerdictsStand
<1>1. /\ RowsStand /\ Balance' >= 0 /\ requests' \in Seq(RequestRows)
      /\ \A j \in Kinds : OfKind(j)' = OfKind(j)
  <2>1. PICK i \in DOMAIN requests :
          \/ Confirmable(i) /\ Complete(i)
          \/ /\ requests[i].status = "PENDING"
             /\ requests' = [requests EXCEPT ![i].status = "CANCELLED"]
    BY DEF VerdictByApi
  <2>2. CASE Confirmable(i) /\ Complete(i)
    BY <1>0, <2>2, ConfirmedIsCovered DEF RowsStand
  <2>3. CASE /\ requests[i].status = "PENDING"
             /\ requests' = [requests EXCEPT ![i].status = "CANCELLED"]
    <3>1. RowsStand
      BY <1>0, <2>3, VerdictStands DEF HasStatus
    <3>2. /\ requests'[i] = [requests[i] EXCEPT !.status = "CANCELLED"]
          /\ \A j \in Kinds : OfKind(j)' = OfKind(j)
          /\ Balance' = Balance + Worth(requests'[i])
      BY <1>0, <2>3, VerdictGiven
    <3>3. requests[i] \in RequestRows
      BY <1>0, RequestsHaveWorth
    <3>4. requests'[i].status = "CANCELLED"
      BY <3>2, <3>3 DEF RequestRows
    <3>5. Worth(requests'[i]) = 0
      BY <3>4 DEF Worth
    <3>6. Balance' >= 0
      BY <1>0, <3>2, <3>5
    <3> QED BY <3>1, <3>2, <3>6 DEF RowsStand
  <2> QED BY <2>1, <2>2, <2>3
<1>2. VerdictsStand' /\ panel' \in Seq(PanelRows(DOMAIN requests'))
  BY <1>0, <1>1, PanelStays
<1>3. /\ ConsolesAsk' /\ NothingIsHidden' /\ PostedByOne'
      /\ console' \in [Consoles -> ConsoleRows(DOMAIN requests')]
  BY <1>0, <1>1, ConsolesStay
<1>4. /\ ClicksAreEnough' /\ EveryRequestIsAsked'
      /\ form' \in [Kinds -> [sending: BOOLEAN, amount: Nat, message: Messages]]
      /\ tally' \in [Kinds -> [clicks: Nat, said: Nat, blind: Nat]]
  BY <1>0, <1>1, CountsStay
<1>5. DeskTypeOK'
  BY <1>0, <1>1, <1>2, <1>3, <1>4, DeskTypesKept
<1> QED BY <1>2, <1>3, <1>4, <1>5 DEF DeskInv, DeskTellsTheTruth

\* The desk's invariant is inductive.
LEMMA DeskStepHolds == DeskInv /\ [DeskNext]_deskVars => DeskInv'
<1> SUFFICES ASSUME DeskInv, [DeskNext]_deskVars PROVE DeskInv'
  OBVIOUS
<1>1. CASE LoadDashboard \/ CookieChanges
  BY <1>1, ViewKeeps
<1>2. CASE VerdictByApi
  BY <1>2, VerdictByApiKeeps
<1>3. ASSUME NEW k \in Kinds, Ask(k) \/ Accepted(k) \/ Refused(k) \/ AnsweredBlind(k)
      PROVE  DeskInv'
  BY <1>3, AskKeeps, AcceptedKeeps, AnswerKeeps
<1>4. ASSUME NEW o \in Consoles, LoadConsole(o) \/ Confirm(o) \/ Approve(o)
      PROVE  DeskInv'
  BY <1>4, BrowseKeeps, ConsoleApproveKeeps
<1>5. CASE UNCHANGED deskVars
  <2>1. DeskTypeOK'
    BY <1>5 DEF deskVars, DeskInv, DeskTypeOK
  <2>2. ClicksAreEnough' /\ EveryRequestIsAsked'
    BY <1>5 DEF deskVars, DeskInv, DeskTellsTheTruth, ClicksAreEnough, EveryRequestIsAsked, OfKind
  <2>3. ConsolesAsk' /\ NothingIsHidden' /\ PostedByOne'
    BY <1>5 DEF deskVars, DeskInv, DeskTellsTheTruth, ConsolesAsk, NothingIsHidden,
                PostedByOne, HasStatus, Awaiting
  <2>4. VerdictsStand'
    BY <1>5, RowsUnchangedStand
    DEF deskVars, DeskInv, DeskTellsTheTruth, VerdictsStand, HasStatus
  <2> QED BY <2>1, <2>2, <2>3, <2>4 DEF DeskInv, DeskTellsTheTruth
<1> QED BY <1>1, <1>2, <1>3, <1>4, <1>5 DEF DeskNext

-----------------------------------------------------------------------------
(***************************************************************************)
(* The client's tabs and what is bought in them.                           *)
(***************************************************************************)

BoughtRows ==
  [product: Products, amount: Nat, ref: RefsTyped \cup {NoRef},
   status: RowStatuses, paid: Nat]

TabRecords(D) ==
  [at: Pages, product: Products \cup {NoRef}, sub: D \cup {0}, amount: Nat,
   ref: RefsTyped \cup {NoRef}, seen: RowStatuses \cup {""},
   items: SUBSET (Products \cup D), error: BOOLEAN]

\* What is asked of a tab's own record.
TabRight(c) ==
  /\ c.at = "products" => c.items \subseteq Products
  /\ c.at \in {"form", "create", "fund", "invested"} => c.product \in Products
  /\ c.at = "create" => c.amount >= Catalogue[c.product].minimum
  /\ c.at \in {"portfolio", "confirming", "redeem"} => c.items \subseteq DOMAIN bought
  /\ c.at \in {"fund", "invested", "confirming", "redeem", "redeemed"} =>
       c.sub \in DOMAIN bought
  /\ c.at = "fund" => /\ bought[c.sub].status = "PENDING"
                      /\ bought[c.sub].amount = c.amount /\ bought[c.sub].product = c.product
  /\ c.at = "redeem" /\ c.seen = "COMPLETED" => Invested(c.sub)
  /\ c.at = "invested" => /\ Invested(c.sub)
                          /\ bought[c.sub].amount = c.amount /\ bought[c.sub].product = c.product
  /\ c.at = "redeemed" => bought[c.sub].paid > 0

FundersDiffer ==
  \A p, q \in Tabs :
    p # q /\ tab[p].at = "fund" /\ tab[q].at = "fund" => tab[p].sub # tab[q].sub

\* What is asked of the rows and of the money.
RowsFine ==
  /\ bought \in Seq(BoughtRows)
  /\ \A s \in DOMAIN bought :
       /\ bought[s].status = "PENDING" => bought[s].paid = 0
       /\ bought[s].product \in Startable
       /\ bought[s].amount >= Catalogue[bought[s].product].minimum
  /\ \A r, s \in DOMAIN bought :
       bought[r].ref # NoRef /\ bought[r].ref = bought[s].ref => r = s
  /\ cash \in Int /\ cash >= 0
  /\ cash + HeldInAll = Deposit

\* A row under one reference is one row.
LEMMA ReferencesBound ==
  ASSUME RowsFine, NEW r \in RefsTyped
  PROVE  Cardinality({s \in DOMAIN bought : bought[s].ref = r}) <= 1
<1> DEFINE S == {s \in DOMAIN bought : bought[s].ref = r}
<1>1. \A p, q \in S : p = q
  BY ClientConstants DEF RowsFine
<1>2. CASE S = {}
  BY <1>2, FS_EmptySet
<1>3. CASE S # {}
  <2>1. PICK p \in S : S = {p}
    BY <1>1, <1>3
  <2>2. Cardinality({p}) = 1
    BY FS_Singleton
  <2>3. Cardinality(S) = 1
    BY <2>1, <2>2
  <2> QED BY <2>3
<1> QED BY <1>2, <1>3

\* The invariant, by tab, row and count.
ClientFacts ==
  /\ cookie \in BOOLEAN /\ clicks \in Nat
  /\ tab \in [Tabs -> TabRecords(DOMAIN bought)]
  /\ RowsFine
  /\ \A t \in Tabs : TabRight(tab[t])
  /\ FundersDiffer
  /\ IsFiniteSet(Creating) /\ Len(bought) + Cardinality(Creating) <= clicks

LEMMA ClientParts == ClientInv <=> ClientFacts
<1>1. ASSUME ClientInv PROVE ClientFacts
  <2>1. /\ cookie \in BOOLEAN /\ clicks \in Nat
        /\ tab \in [Tabs -> TabRecords(DOMAIN bought)]
        /\ bought \in Seq(BoughtRows) /\ cash \in Int
    BY <1>1 DEF ClientInv, ClientTypeOK, TabRecords, BoughtRows
  <2>2. RowsFine
    BY <1>1, <2>1 DEF ClientInv, RowsAreOwned, ClicksPayForRows, ClicksAreHonoured,
                      MoneyIsConserved, RowsFine
  <2>3. \A t \in Tabs : TabRight(tab[t])
    BY <1>1 DEF ClientInv, TabsMakeSense, RowsAreOwned, ClicksAreHonoured, SuccessIsTrue, TabRight
  <2>4. FundersDiffer
    BY <1>1 DEF ClientInv, RowsAreOwned, FundersDiffer
  <2>5. IsFiniteSet(Creating) /\ Len(bought) + Cardinality(Creating) <= clicks
    BY <1>1 DEF ClientInv, ClicksPayForRows
  <2> QED BY <2>1, <2>2, <2>3, <2>4, <2>5 DEF ClientFacts
<1>2. ASSUME ClientFacts PROVE ClientInv
  <2>1. ClientTypeOK
    BY <1>2 DEF ClientFacts, ClientTypeOK, TabRecords, BoughtRows, RowsFine
  <2>2. TabsMakeSense
    BY <1>2 DEF ClientFacts, TabsMakeSense, TabRight
  <2>3. RowsAreOwned
    BY <1>2 DEF ClientFacts, RowsAreOwned, RowsFine, TabRight, FundersDiffer
  <2>4. ClicksPayForRows
    BY <1>2 DEF ClientFacts, ClicksPayForRows, RowsFine
  <2>5. SuccessIsTrue
    BY <1>2 DEF ClientFacts, SuccessIsTrue, TabRight
  <2>6. Len(bought) <= clicks
    <3>1. Cardinality(Creating) \in Nat /\ Len(bought) \in Nat
      BY <1>2, FS_CardinalityType DEF ClientFacts, RowsFine
    <3> QED BY <1>2, <3>1 DEF ClientFacts
  <2>7. RetriesAreBounded
    BY <1>2, <2>6, ReferencesBound DEF ClientFacts, RetriesAreBounded
  <2>8. MoneyIsConserved
    BY <1>2 DEF ClientFacts, MoneyIsConserved, RowsFine
  <2> QED BY <2>1, <2>2, <2>3, <2>4, <2>5, <2>7, <2>8 DEF ClientInv, ClicksAreHonoured
<1> QED BY <1>1, <1>2

LEMMA ClientPartsKept == ClientInv' <=> ClientFacts'
  BY ClientParts, PTL

-----------------------------------------------------------------------------

\* A step of tab t leaves rows where they are and what was bought as it was;
\* only a row that t is funding ceases to be PENDING.
RowsStandFor(t) ==
  /\ bought' \in Seq(BoughtRows)
  /\ DOMAIN bought \subseteq DOMAIN bought'
  /\ \A s \in DOMAIN bought :
       /\ bought'[s].product = bought[s].product /\ bought'[s].amount = bought[s].amount
       /\ bought[s].status # "PENDING" => bought'[s].status # "PENDING"
       /\ bought[s].paid > 0 => bought'[s].paid > 0
       /\ bought[s].status = "PENDING" =>
            \/ bought'[s].status = "PENDING"
            \/ tab[t].at = "fund" /\ s = tab[t].sub

\* A tab that does not move stays right about rows that stand.
LEMMA TabStays ==
  ASSUME NEW t \in Tabs, RowsStandFor(t), NEW c, TabRight(c),
         c.at = "fund" => ~(tab[t].at = "fund" /\ c.sub = tab[t].sub)
  PROVE  TabRight(c)'
  BY DEF TabRight, RowsStandFor, Invested

LEMMA RecordsGrow ==
  ASSUME NEW D, NEW E, D \subseteq E, NEW c \in TabRecords(D)
  PROVE  c \in TabRecords(E)
  BY DEF TabRecords

\* The submits that wait for their first call, when one tab moves.
LEMMA CreatingMoves ==
  ASSUME ClientInv, NEW t \in Tabs, NEW new, tab' = [tab EXCEPT ![t] = new]
  PROVE  /\ IsFiniteSet(Creating') /\ Cardinality(Creating') \in Nat
         /\ Cardinality(Creating) \in Nat
         /\ Cardinality(Creating') =
              Cardinality(Creating) + (IF new.at = "create" THEN 1 ELSE 0)
                                    - (IF tab[t].at = "create" THEN 1 ELSE 0)
<1>1. IsFiniteSet(Creating) /\ tab \in [Tabs -> TabRecords(DOMAIN bought)]
  BY ClientParts DEF ClientFacts
<1>2. \A q \in Tabs : tab'[q] = IF q = t THEN new ELSE tab[q]
  BY <1>1
<1>3. t \in Creating <=> tab[t].at = "create"
  BY DEF Creating
<1>4. CASE new.at = "create" /\ tab[t].at # "create"
  <2>1. Creating' = Creating \cup {t}
    BY <1>2, <1>4 DEF Creating
  <2>2. /\ IsFiniteSet(Creating') /\ Cardinality(Creating') \in Nat
        /\ Cardinality(Creating) \in Nat /\ Cardinality(Creating') = Cardinality(Creating) + 1
    BY <1>1, <1>3, <1>4, <2>1, FS_AddElement, FS_CardinalityType
  <2> QED BY <1>4, <2>2
<1>5. CASE new.at # "create" /\ tab[t].at = "create"
  <2>1. Creating' = Creating \ {t}
    BY <1>2, <1>5 DEF Creating
  <2>2. /\ IsFiniteSet(Creating') /\ Cardinality(Creating') \in Nat
        /\ Cardinality(Creating) \in Nat /\ Cardinality(Creating') = Cardinality(Creating) - 1
    BY <1>1, <1>3, <1>5, <2>1, FS_RemoveElement, FS_CardinalityType
  <2> QED BY <1>5, <2>2
<1>6. CASE new.at = "create" <=> tab[t].at = "create"
  <2>1. Creating' = Creating
    BY <1>2, <1>6 DEF Creating
  <2> QED BY <1>1, <1>6, <2>1, FS_CardinalityType
<1> QED BY <1>4, <1>5, <1>6

\* One tab moves, to a record that is right about rows that stand.
LEMMA TabMoves ==
  ASSUME ClientInv, NEW t \in Tabs, RowsStandFor(t), RowsFine',
         NEW new \in TabRecords(DOMAIN bought'), tab' = [tab EXCEPT ![t] = new],
         TabRight(new)',
         new.at = "fund" =>
           \A q \in Tabs \ {t} : tab[q].at = "fund" => tab[q].sub # new.sub,
         cookie' \in BOOLEAN, clicks' \in Nat,
         (Len(bought') - Len(bought)) + (IF new.at = "create" THEN 1 ELSE 0)
           <= (clicks' - clicks) + (IF tab[t].at = "create" THEN 1 ELSE 0)
  PROVE  ClientInv'
<1>1. /\ cookie \in BOOLEAN /\ clicks \in Nat
      /\ tab \in [Tabs -> TabRecords(DOMAIN bought)]
      /\ RowsFine
      /\ \A q \in Tabs : TabRight(tab[q])
      /\ FundersDiffer
      /\ IsFiniteSet(Creating) /\ Len(bought) + Cardinality(Creating) <= clicks
  BY ClientParts DEF ClientFacts
<1>2. \A q \in Tabs : tab'[q] = IF q = t THEN new ELSE tab[q]
  BY <1>1
<1>3. ASSUME NEW q \in Tabs
      PROVE  TabRight(tab[q])' /\ tab'[q] \in TabRecords(DOMAIN bought')
  <2>1. CASE q = t
    <3>1. tab'[q] = new
      BY <1>2, <2>1
    <3> QED BY <3>1 DEF TabRight, Invested
  <2>2. CASE q # t
    <3>1. PICK c : c = tab[q] /\ TabRight(c) /\ c \in TabRecords(DOMAIN bought)
      BY <1>1
    <3>2. c.at = "fund" => ~(tab[t].at = "fund" /\ c.sub = tab[t].sub)
      BY <1>1, <2>2, <3>1 DEF FundersDiffer
    <3>3. TabRight(c)'
      BY <3>1, <3>2, TabStays
    <3>4. c \in TabRecords(DOMAIN bought')
      BY <3>1, RecordsGrow DEF RowsStandFor
    <3>5. tab'[q] = c
      BY <1>2, <2>2, <3>1
    <3> QED BY <3>3, <3>4, <3>5 DEF TabRight, Invested
  <2> QED BY <2>1, <2>2
<1>4. tab' \in [Tabs -> TabRecords(DOMAIN bought')]
  BY <1>1, <1>3
<1>5. FundersDiffer'
  <2>1. \A p, q \in Tabs : p # q /\ tab'[p].at = "fund" /\ tab'[q].at = "fund" =>
                             tab'[p].sub # tab'[q].sub
    BY <1>1, <1>2 DEF FundersDiffer
  <2> QED BY <2>1 DEF FundersDiffer
<1>6. IsFiniteSet(Creating') /\ Len(bought') + Cardinality(Creating') <= clicks'
  <2>1. Len(bought) \in Nat /\ Len(bought') \in Nat
    BY <1>1 DEF RowsFine, RowsStandFor
  <2>2. /\ IsFiniteSet(Creating') /\ Cardinality(Creating') \in Nat
        /\ Cardinality(Creating) \in Nat
        /\ Cardinality(Creating') =
              Cardinality(Creating) + (IF new.at = "create" THEN 1 ELSE 0)
                                    - (IF tab[t].at = "create" THEN 1 ELSE 0)
    BY CreatingMoves
  <2>3. Len(bought') + Cardinality(Creating') <= clicks'
    BY SMTT(30), <1>1, <2>1, <2>2
  <2> QED BY <2>2, <2>3
<1>7. ClientFacts'
  BY <1>3, <1>4, <1>5, <1>6 DEF ClientFacts
<1> QED BY <1>7, ClientPartsKept

\* One tab moves and nothing is bought, funded or redeemed.
LEMMA OnlyTabMoves ==
  ASSUME ClientInv, NEW t \in Tabs, UNCHANGED <<bought, cash>>,
         NEW new \in TabRecords(DOMAIN bought), tab' = [tab EXCEPT ![t] = new],
         TabRight(new), new.at # "fund",
         cookie' \in BOOLEAN, clicks' \in Nat,
         (IF new.at = "create" THEN 1 ELSE 0) <= clicks' - clicks
  PROVE  ClientInv'
<1>1. RowsFine /\ bought \in Seq(BoughtRows) /\ clicks \in Nat /\ Len(bought) \in Nat
  BY ClientParts DEF ClientFacts, RowsFine
<1>2. RowsStandFor(t)
  BY <1>1 DEF RowsStandFor
<1>3. RowsFine'
  BY <1>1 DEF RowsFine, HeldInAll
<1>4. TabRight(new)'
  BY DEF TabRight, Invested
<1>5. (Len(bought') - Len(bought)) + (IF new.at = "create" THEN 1 ELSE 0)
           <= (clicks' - clicks) + (IF tab[t].at = "create" THEN 1 ELSE 0)
  <2>1. Len(bought') = Len(bought)
    OBVIOUS
  <2>2. PICK i \in {0, 1} : i = IF new.at = "create" THEN 1 ELSE 0
    OBVIOUS
  <2>3. PICK j \in {0, 1} : j = IF tab[t].at = "create" THEN 1 ELSE 0
    OBVIOUS
  <2>4. (Len(bought) - Len(bought)) + i <= (clicks' - clicks) + j
    <3>1. i <= clicks' - clicks
      BY <2>2
    <3>2. clicks' - clicks \in Int /\ i \in Int /\ j \in Int /\ j >= 0
      BY <1>1
    <3>3. (Len(bought) - Len(bought)) + i = i
      BY <1>1, <3>2
    <3>4. \A d \in Int : i <= d => i <= d + j
      BY <3>2
    <3> QED BY <3>1, <3>2, <3>3, <3>4
  <2> QED BY <2>1, <2>2, <2>3, <2>4
<1> QED BY <1>2, <1>3, <1>4, <1>5, TabMoves

-----------------------------------------------------------------------------

\* What is held of a row, and what another redemption takes from it.
LEMMA HeldIsInt ==
  \A row \in BoughtRows : Held(row) \in Int /\ (row.status = "PENDING" => Held(row) = 0)
<1> SUFFICES ASSUME NEW row \in BoughtRows PROVE Held(row) \in Int
             /\ (row.status = "PENDING" => Held(row) = 0)
  OBVIOUS
<1>1. row.amount \in Int /\ 1 - row.paid \in Int
  BY DEF BoughtRows
<1>2. \A m, n \in Int : m * n \in Int
  OBVIOUS
<1> QED BY <1>1, <1>2 DEF Held

LEMMA OneTimeMore ==
  ASSUME NEW a \in Nat, NEW p \in Nat
  PROVE  a * (1 - (p + 1)) = a * (1 - p) - a /\ a * (1 - 0) = a
  OBVIOUS

LEMMA BoughtHaveWorth ==
  ASSUME RowsFine
  PROVE  /\ [s \in DOMAIN bought |-> Held(bought[s])] \in Seq(Int)
         /\ HeldInAll \in Int
         /\ Len(bought) \in Nat /\ DOMAIN bought = 1..Len(bought)
         /\ bought \in Seq(BoughtRows)
         /\ \A s \in DOMAIN bought : bought[s] \in BoughtRows
<1>1. bought \in Seq(BoughtRows)
  BY DEF RowsFine
<1>2. Len(bought) \in Nat /\ DOMAIN bought = 1..Len(bought)
      /\ \A s \in DOMAIN bought : bought[s] \in BoughtRows
  BY <1>1
<1>3. \A s \in 1..Len(bought) : Held(bought[s]) \in Int
  BY <1>2, HeldIsInt
<1>4. [s \in 1..Len(bought) |-> Held(bought[s])] \in Seq(Int)
  BY <1>2, <1>3, IsASeq
<1>5. HeldInAll \in Int
  <2>1. PICK f : f = [s \in DOMAIN bought |-> Held(bought[s])]
    OBVIOUS
  <2>2. f \in Seq(Int)
    BY <1>2, <1>4, <2>1
  <2>3. HeldInAll = SumFunction(f)
    BY <2>1, Zenon DEF HeldInAll
  <2> QED BY <2>2, <2>3, SequenceSums
<1> QED BY <1>1, <1>2, <1>4, <1>5

\* A new row is PENDING and holds nothing.
LEMMA RowBought ==
  ASSUME RowsFine, NEW row \in BoughtRows, row.status = "PENDING",
         bought' = Append(bought, row)
  PROVE  /\ bought' \in Seq(BoughtRows)
         /\ DOMAIN bought' = 1..Len(bought) + 1 /\ Len(bought') = Len(bought) + 1
         /\ \A s \in DOMAIN bought : bought'[s] = bought[s]
         /\ bought'[Len(bought) + 1] = row
         /\ HeldInAll' = HeldInAll
<1> DEFINE n == Len(bought)
<1>1. Held(row) = 0
  BY HeldIsInt
<1>2. bought \in Seq(BoughtRows) /\ n \in Nat /\ DOMAIN bought = 1..n
  BY BoughtHaveWorth
<1>3. /\ bought' \in Seq(BoughtRows)
      /\ DOMAIN bought' = 1..n + 1 /\ Len(bought') = n + 1
      /\ \A s \in 1..n : bought'[s] = bought[s]
      /\ bought'[n + 1] = row
  BY <1>2
<1> HIDE DEF n
<1>4. HeldInAll' = HeldInAll
  <2>1. PICK f \in Seq(Int) : f = [s \in DOMAIN bought |-> Held(bought[s])]
    BY BoughtHaveWorth
  <2>2. PICK g : g = [s \in DOMAIN bought' |-> Held(bought'[s])]
    OBVIOUS
  <2>3. g = Append(f, 0)
    <3>1. DOMAIN f = 1..n /\ Len(f) = n
      BY <1>2, <2>1
    <3>2. \A s \in 1..n + 1 : g[s] = IF s = n + 1 THEN 0 ELSE f[s]
      BY <1>1, <1>2, <1>3, <2>1, <2>2
    <3>3. g = [s \in 1..n + 1 |-> g[s]]
      BY <1>3, <2>2
    <3>4. PICK h : h = Append(f, 0)
      OBVIOUS
    <3>5. /\ DOMAIN h = 1..n + 1 /\ h = [s \in 1..n + 1 |-> h[s]]
          /\ \A s \in 1..n + 1 : h[s] = IF s = n + 1 THEN 0 ELSE f[s]
      <4>1. /\ h \in Seq(Int) /\ Len(h) = n + 1
            /\ \A s \in 1..n + 1 : h[s] = IF s = n + 1 THEN 0 ELSE f[s]
        BY <1>2, <3>1, <3>4
      <4>2. h \in [1..n + 1 -> Int]
        BY <1>2, <4>1
      <4> QED BY <4>1, <4>2
    <3> QED BY <3>2, <3>3, <3>4, <3>5
  <2>4. SumFunction(Append(f, 0)) = SumFunction(f) + 0 /\ SumFunction(f) \in Int
    <3>1. f \in Seq(Int) /\ 0 \in Int
      OBVIOUS
    <3> QED BY <3>1, SequenceSums, Zenon
  <2>5. HeldInAll = SumFunction(f) /\ HeldInAll' = SumFunction(g)
    BY <2>1, <2>2, Zenon DEF HeldInAll
  <2> QED BY <2>3, <2>4, <2>5
<1> QED BY <1>2, <1>3, <1>4 DEF n

\* A row that changes.
LEMMA RowChanged ==
  ASSUME RowsFine, NEW s \in DOMAIN bought, NEW row \in BoughtRows,
         bought' = [bought EXCEPT ![s] = row]
  PROVE  /\ bought' \in Seq(BoughtRows)
         /\ DOMAIN bought' = DOMAIN bought /\ Len(bought') = Len(bought)
         /\ \A r \in DOMAIN bought \ {s} : bought'[r] = bought[r]
         /\ bought'[s] = row
         /\ HeldInAll' = HeldInAll - Held(bought[s]) + Held(row)
<1>1. /\ bought \in Seq(BoughtRows) /\ Len(bought) \in Nat
      /\ DOMAIN bought = 1..Len(bought) /\ bought[s] \in BoughtRows
  BY BoughtHaveWorth
<1>2. /\ bought' \in Seq(BoughtRows)
      /\ DOMAIN bought' = DOMAIN bought /\ Len(bought') = Len(bought)
      /\ \A r \in DOMAIN bought \ {s} : bought'[r] = bought[r]
      /\ bought'[s] = row
  BY <1>1
<1>3. HeldInAll' = HeldInAll - Held(bought[s]) + Held(row)
  <2>1. PICK f \in Seq(Int) : f = [r \in DOMAIN bought |-> Held(bought[r])]
    BY BoughtHaveWorth
  <2>2. PICK x \in Int : x = Held(row)
    BY HeldIsInt
  <2>3. PICK g : g = [r \in DOMAIN bought' |-> Held(bought'[r])]
    OBVIOUS
  <2>4. g = [f EXCEPT ![s] = x]
    BY <1>2, <2>1, <2>2, <2>3
  <2>5. s \in DOMAIN f /\ f[s] = Held(bought[s])
    BY <2>1
  <2>6. SumFunction(g) = SumFunction(f) - f[s] + x
    BY <2>4, <2>5, SequenceSums
  <2>7. HeldInAll = SumFunction(f) /\ HeldInAll' = SumFunction(g)
    BY <2>1, <2>3, Zenon DEF HeldInAll
  <2> QED BY <2>2, <2>5, <2>6, <2>7
<1> QED BY <1>2, <1>3

-----------------------------------------------------------------------------

\* The empty page, and what a tab may rest on.
LEMMA BlankRecord ==
  Blank \in TabRecords(DOMAIN bought) /\ Blank.at = "away"
  BY DEF Blank, TabRecords, Pages, Resting, RowStatuses

\* A page is asked for: it is shown, or the log-in page is.
LEMMA VisitKeeps ==
  ASSUME ClientInv, NEW t \in Tabs, NEW pages, NEW page \in TabRecords(DOMAIN bought),
         Visit(t, pages, page), TabRight(page), page.at \notin {"fund", "create"}
  PROVE  ClientInv'
<1>1. cookie \in BOOLEAN /\ clicks \in Nat
  BY ClientParts DEF ClientFacts
<1>2. UNCHANGED <<bought, cash, clicks, cookie>>
  BY DEF Visit, Stay
<1>3. PICK new : /\ tab' = [tab EXCEPT ![t] = new] /\ TabRight(new)
                 /\ new \in TabRecords(DOMAIN bought) /\ new.at \notin {"fund", "create"}
  <2>1. CASE Show(t, page)
    BY <2>1 DEF Show
  <2>2. CASE ToLogin(t)
    <3>1. PICK new : new = [Blank EXCEPT !.at = "login"]
      OBVIOUS
    <3>2. new \in TabRecords(DOMAIN bought) /\ new.at = "login"
      BY <3>1, BlankRecord DEF TabRecords, Pages, Resting
    <3>3. TabRight(new)
      BY <3>2 DEF TabRight
    <3> QED BY <2>2, <3>1, <3>2, <3>3 DEF ToLogin, Show
  <2> QED BY <2>1, <2>2 DEF Visit
<1>4. clicks' \in Nat /\ (IF new.at = "create" THEN 1 ELSE 0) <= clicks' - clicks
  BY <1>1, <1>2, <1>3
<1>5. cookie' \in BOOLEAN /\ UNCHANGED <<bought, cash>> /\ new.at # "fund"
  BY <1>1, <1>2, <1>3
<1> QED BY <1>3, <1>4, <1>5, OnlyTabMoves

\* Logging in, and the cookie's end.
LEMMA LogInKeeps == ASSUME ClientInv, NEW t \in Tabs, LogIn(t) PROVE ClientInv'
<1>1. cookie' \in BOOLEAN /\ clicks \in Nat /\ UNCHANGED <<bought, cash, clicks>>
  BY ClientParts DEF ClientFacts, LogIn, Stay
<1>3. PICK new : new = Blank
  OBVIOUS
<1>4. new \in TabRecords(DOMAIN bought) /\ new.at = "away" /\ tab' = [tab EXCEPT ![t] = new]
  BY <1>3, BlankRecord DEF LogIn, Show
<1>5. TabRight(new) /\ new.at # "fund"
  BY <1>4 DEF TabRight
<1>6. clicks' \in Nat /\ (IF new.at = "create" THEN 1 ELSE 0) <= clicks' - clicks
  BY <1>1, <1>4
<1>7. UNCHANGED <<bought, cash>>
  BY <1>1
<1> QED BY <1>1, <1>4, <1>5, <1>6, <1>7, OnlyTabMoves

LEMMA CookieKeeps ==
  ASSUME ClientInv, cookie' \in BOOLEAN, UNCHANGED <<tab, bought, cash, clicks>>
  PROVE  ClientInv'
<1>1. ClientFacts
  BY ClientParts
<1>2. RowsFine' /\ FundersDiffer' /\ Creating' = Creating
  BY <1>1 DEF ClientFacts, RowsFine, HeldInAll, FundersDiffer, Creating
<1>3. \A t \in Tabs : TabRight(tab[t])'
  BY <1>1 DEF ClientFacts, TabRight, Invested
<1>4. ClientFacts'
  BY <1>1, <1>2, <1>3 DEF ClientFacts
<1> QED BY <1>4, ClientPartsKept

\* The pages that only show something.
LEMMA ShowProductsKeeps == ASSUME ClientInv, NEW t \in Tabs, ShowProducts(t) PROVE ClientInv'
<1>1. PICK page : page = [Blank EXCEPT !.at = "products", !.items = Startable]
  OBVIOUS
<1>2. Startable \subseteq Products
  BY DEF Startable, ListActive
<1>3. /\ page.at = "products" /\ page.items = Startable
      /\ page \in TabRecords(DOMAIN bought)
  BY <1>1, <1>2, BlankRecord DEF TabRecords, Pages, Resting
<1>4. TabRight(page)
  BY <1>2, <1>3 DEF TabRight
<1> QED BY <1>1, <1>3, <1>4, VisitKeeps DEF ShowProducts

LEMMA OpenFormKeeps == ASSUME ClientInv, NEW t \in Tabs, OpenForm(t) PROVE ClientInv'
<1>1. tab \in [Tabs -> TabRecords(DOMAIN bought)] /\ TabRight(tab[t])
  BY ClientParts DEF ClientFacts
<1>2. ASSUME NEW p \in Products
      PROVE  LoadProduct(p) \in TabRecords(DOMAIN bought) /\ TabRight(LoadProduct(p))
             /\ LoadProduct(p).at \notin {"fund", "create"}
  <2>1. PICK page : page = LoadProduct(p)
    OBVIOUS
  <2>2. CASE Catalogue[p].active
    <3>1. page = [Blank EXCEPT !.at = "form", !.product = p, !.amount = Catalogue[p].minimum]
      BY <2>1, <2>2 DEF LoadProduct
    <3>2. Catalogue[p].minimum \in Nat
      BY ClientConstants
    <3>3. page.at = "form" /\ page.product = p /\ page \in TabRecords(DOMAIN bought)
      BY <3>1, <3>2, BlankRecord DEF TabRecords, Pages, Resting
    <3>4. TabRight(page)
      BY <3>3 DEF TabRight
    <3> QED BY <2>1, <3>3, <3>4
  <2>3. CASE ~Catalogue[p].active
    <3>1. page = [Blank EXCEPT !.at = "unavailable"]
      BY <2>1, <2>3 DEF LoadProduct
    <3>2. page.at = "unavailable" /\ page \in TabRecords(DOMAIN bought)
      BY <3>1, BlankRecord DEF TabRecords, Pages, Resting
    <3>3. TabRight(page)
      BY <3>2 DEF TabRight
    <3> QED BY <2>1, <3>2, <3>3
  <2> QED BY <2>2, <2>3
<1>3. PICK p \in Products : \E pages : Visit(t, pages, LoadProduct(p))
  <2>1. CASE \E p \in tab[t].items : Visit(t, {"products"}, LoadProduct(p))
    <3>1. PICK p \in tab[t].items : Visit(t, {"products"}, LoadProduct(p))
      BY <2>1
    <3>2. p \in Products
      BY <1>1, <3>1 DEF Visit, TabRight
    <3> QED BY <3>1, <3>2
  <2> QED BY <2>1 DEF OpenForm
<1> QED BY <1>2, <1>3, VisitKeeps

LEMMA ShowPortfolioKeeps == ASSUME ClientInv, NEW t \in Tabs, ShowPortfolio(t) PROVE ClientInv'
<1>1. PICK S : S = {s \in DOMAIN bought : Held(bought[s]) > 0}
  OBVIOUS
<1>2. PICK page : page = [Blank EXCEPT !.at = "portfolio", !.items = S]
  OBVIOUS
<1>3. page.at = "portfolio" /\ page.items = S /\ page \in TabRecords(DOMAIN bought)
  BY <1>1, <1>2, BlankRecord DEF TabRecords, Pages, Resting
<1>4. TabRight(page)
  BY <1>1, <1>3 DEF TabRight
<1> QED BY <1>1, <1>2, <1>3, <1>4, VisitKeeps DEF ShowPortfolio

\* A tab's record, and what is right of it.
LEMMA TabIsRight ==
  ASSUME ClientInv, NEW t \in Tabs
  PROVE  /\ tab[t] \in TabRecords(DOMAIN bought) /\ TabRight(tab[t])
         /\ tab \in [Tabs -> TabRecords(DOMAIN bought)]
         /\ cookie \in BOOLEAN /\ clicks \in Nat /\ RowsFine /\ FundersDiffer
  BY ClientParts DEF ClientFacts

\* A move within the portfolio, or a submit's failure, as OnlyTabMoves wants it.
LEMMA QuietMove ==
  ASSUME ClientInv, NEW t \in Tabs, UNCHANGED <<cookie, bought, cash, clicks>>,
         NEW new \in TabRecords(DOMAIN bought), tab' = [tab EXCEPT ![t] = new],
         TabRight(new), new.at \notin {"fund", "create"}
  PROVE  ClientInv'
<1>1. cookie' \in BOOLEAN /\ clicks' \in Nat /\ UNCHANGED <<bought, cash>>
  BY TabIsRight
<1>2. (IF new.at = "create" THEN 1 ELSE 0) <= clicks' - clicks /\ new.at # "fund"
  BY <1>1
<1> QED BY <1>1, <1>2, OnlyTabMoves

LEMMA SubmitKeeps == ASSUME ClientInv, NEW t \in Tabs, Submit(t) PROVE ClientInv'
<1>1. PICK c \in TabRecords(DOMAIN bought) : c = tab[t] /\ TabRight(c)
  BY TabIsRight
<1>2. c.at = "form" /\ c.product \in Products /\ Catalogue[c.product].minimum \in Nat
  BY <1>1, ClientConstants DEF Submit, CanSubmit, TabRight
<1>3. PICK a \in Typed, r \in RefsTyped \cup {NoRef}, good \in BOOLEAN :
        /\ good = (a > 0 /\ a >= Catalogue[c.product].minimum)
        /\ tab' = [tab EXCEPT ![t] =
             [c EXCEPT !.at = IF good THEN "create" ELSE @,
                       !.amount = a, !.ref = r, !.error = ~good]]
  BY <1>1 DEF Submit, Show
<1>4. PICK new : new = [c EXCEPT !.at = IF good THEN "create" ELSE @,
                                 !.amount = a, !.ref = r, !.error = ~good]
  OBVIOUS
<1>5. /\ new \in TabRecords(DOMAIN bought)
      /\ new.at = IF good THEN "create" ELSE "form"
      /\ new.product = c.product /\ new.amount = a
  BY <1>1, <1>2, <1>3, <1>4, ClientConstants DEF TabRecords, Pages
<1>6. TabRight(new)
  BY <1>2, <1>3, <1>5 DEF TabRight
<1>7. /\ UNCHANGED <<bought, cash>> /\ clicks' = clicks + 1 /\ clicks \in Nat
      /\ cookie' \in BOOLEAN
  BY TabIsRight DEF Submit
<1>8. /\ clicks' \in Nat /\ (IF new.at = "create" THEN 1 ELSE 0) <= clicks' - clicks
      /\ new.at # "fund"
  BY <1>5, <1>7
<1> QED BY <1>3, <1>4, <1>5, <1>6, <1>7, <1>8, OnlyTabMoves

\* Asking for a redemption, thinking better of it, and the click.
LEMMA PortfolioKeeps ==
  ASSUME ClientInv, NEW t \in Tabs, AskRedeem(t) \/ CancelRedeem(t) \/ RouteRedeem(t)
  PROVE  ClientInv'
<1>1. PICK c \in TabRecords(DOMAIN bought) : c = tab[t] /\ TabRight(c)
  BY TabIsRight
<1>2. /\ c.items \subseteq DOMAIN bought /\ c.at \in {"portfolio", "confirming"}
      /\ c.at = "confirming" => c.sub \in DOMAIN bought
  BY <1>1 DEF AskRedeem, CancelRedeem, RouteRedeem, TabRight
<1>3. \A s \in DOMAIN bought : bought[s].status \in RowStatuses
  BY TabIsRight, BoughtHaveWorth DEF BoughtRows
<1>4. PICK new \in TabRecords(DOMAIN bought) :
        /\ tab' = [tab EXCEPT ![t] = new] /\ TabRight(new)
        /\ new.at \notin {"fund", "create"}
  <2>1. CASE AskRedeem(t)
    <3>1. PICK s \in c.items : tab' = [tab EXCEPT ![t] = [c EXCEPT !.at = "confirming", !.sub = s]]
      BY <1>1, <2>1 DEF AskRedeem, Show
    <3>2. PICK new : new = [c EXCEPT !.at = "confirming", !.sub = s]
      OBVIOUS
    <3>3. /\ new.at = "confirming" /\ new.sub = s /\ new.items = c.items
          /\ new \in TabRecords(DOMAIN bought)
      BY <1>1, <1>2, <3>1, <3>2 DEF TabRecords, Pages
    <3>4. TabRight(new)
      BY <1>2, <3>1, <3>3 DEF TabRight
    <3> QED BY <3>1, <3>2, <3>3, <3>4
  <2>2. CASE CancelRedeem(t)
    <3>1. PICK new : new = [c EXCEPT !.at = "portfolio", !.sub = 0]
      OBVIOUS
    <3>2. /\ new.at = "portfolio" /\ new.items = c.items
          /\ new \in TabRecords(DOMAIN bought)
      BY <1>1, <3>1 DEF TabRecords, Pages, Resting
    <3>3. TabRight(new)
      BY <1>2, <3>2 DEF TabRight
    <3> QED BY <1>1, <2>2, <3>1, <3>2, <3>3 DEF CancelRedeem, Show
  <2>3. CASE RouteRedeem(t)
    <3>1. CASE RedeemFails(t)
      <4>1. PICK new : new = [c EXCEPT !.at = "portfolio", !.sub = 0, !.seen = "",
                                       !.error = TRUE]
        OBVIOUS
      <4>2. /\ new.at = "portfolio" /\ new.items = c.items
            /\ new \in TabRecords(DOMAIN bought)
        BY <1>1, <4>1 DEF TabRecords, Pages, Resting
      <4>3. TabRight(new)
        BY <1>2, <4>2 DEF TabRight
      <4> QED BY <1>1, <3>1, <4>1, <4>2, <4>3 DEF RedeemFails, Show
    <3>2. CASE Show(t, [tab[t] EXCEPT !.at = "redeem", !.seen = bought[tab[t].sub].status])
      <4>1. c.sub \in DOMAIN bought
        BY <1>1, <1>2, <2>3 DEF RouteRedeem
      <4>2. PICK new : new = [c EXCEPT !.at = "redeem", !.seen = bought[c.sub].status]
        OBVIOUS
      <4>3. /\ new.at = "redeem" /\ new.items = c.items /\ new.sub = c.sub
            /\ new.seen = bought[c.sub].status
            /\ new \in TabRecords(DOMAIN bought)
        BY <1>1, <1>3, <4>1, <4>2 DEF TabRecords, Pages
      <4>4. TabRight(new)
        BY <1>2, <4>1, <4>3 DEF TabRight, Invested
      <4> QED BY <1>1, <3>2, <4>2, <4>3, <4>4 DEF Show
    <3> QED BY <2>3, <3>1, <3>2 DEF RouteRedeem
  <2> QED BY <2>1, <2>2, <2>3
<1>5. UNCHANGED <<cookie, bought, cash, clicks>>
  BY DEF AskRedeem, CancelRedeem, RouteRedeem, Stay
<1> QED BY <1>4, <1>5, QuietMove

\* The form is back, with its product and a message.
LEMMA FormIsBack ==
  ASSUME ClientInv, NEW t \in Tabs, tab[t].product \in Products, FormFails(t)
  PROVE  \E new \in TabRecords(DOMAIN bought) :
           tab' = [tab EXCEPT ![t] = new] /\ new.at = "form" /\ new.product \in Products
<1>1. PICK c \in TabRecords(DOMAIN bought) : c = tab[t]
  BY TabIsRight
<1>2. PICK new : new = [c EXCEPT !.at = "form", !.sub = 0, !.error = TRUE]
  OBVIOUS
<1>3. new \in TabRecords(DOMAIN bought) /\ new.at = "form" /\ new.product = c.product
  BY <1>1, <1>2 DEF TabRecords, Pages, Resting
<1> QED BY <1>1, <1>2, <1>3 DEF FormFails, Show

\* What the first call's row leaves fine.
LEMMA CreatedIsFine ==
  ASSUME RowsFine, NEW t \in Tabs, NEW row \in BoughtRows, row.status = "PENDING",
         row.paid = 0, Eligibility(row.product) = "ELIGIBLE",
         row.amount >= Catalogue[row.product].minimum,
         row.ref # NoRef => \A s \in DOMAIN bought : bought[s].ref # row.ref,
         bought' = Append(bought, row), UNCHANGED cash
  PROVE  RowsFine' /\ RowsStandFor(t)
<1>1. /\ bought' \in Seq(BoughtRows)
      /\ DOMAIN bought' = 1..Len(bought) + 1
      /\ \A s \in DOMAIN bought : bought'[s] = bought[s]
      /\ bought'[Len(bought) + 1] = row
      /\ HeldInAll' = HeldInAll
  BY RowBought
<1>2. Len(bought) \in Nat /\ DOMAIN bought = 1..Len(bought)
  BY BoughtHaveWorth
<1>3. \A s \in DOMAIN bought' : s \in DOMAIN bought \/ s = Len(bought) + 1
  BY <1>1, <1>2
<1>4. row.product \in Startable
  BY DEF BoughtRows, Eligibility, Startable, ListActive
<1>5. \A s \in DOMAIN bought' :
        /\ bought'[s].status = "PENDING" => bought'[s].paid = 0
        /\ bought'[s].product \in Startable
        /\ bought'[s].amount >= Catalogue[bought'[s].product].minimum
  BY <1>1, <1>3, <1>4 DEF RowsFine
<1>6. \A r, s \in DOMAIN bought' :
        bought'[r].ref # NoRef /\ bought'[r].ref = bought'[s].ref => r = s
  BY <1>1, <1>3 DEF RowsFine
<1>7. cash' \in Int /\ cash' >= 0 /\ cash' + HeldInAll' = Deposit
  BY <1>1 DEF RowsFine
<1>8. RowsFine'
  <2>1. \A s \in DOMAIN bought' : bought'[s].product \in Startable'
    BY <1>5
  <2> QED BY <1>1, <1>5, <1>6, <1>7, <2>1 DEF RowsFine
<1>9. DOMAIN bought \subseteq DOMAIN bought'
  BY <1>1, <1>2
<1> QED BY <1>1, <1>8, <1>9 DEF RowsStandFor

LEMMA RouteCreateKeeps == ASSUME ClientInv, NEW t \in Tabs, RouteCreate(t) PROVE ClientInv'
<1>1. PICK c \in TabRecords(DOMAIN bought) : c = tab[t] /\ TabRight(c)
  BY TabIsRight
<1>2. /\ RowsFine /\ clicks \in Nat /\ cookie \in BOOLEAN
      /\ UNCHANGED <<cookie, cash, clicks>>
      /\ c.at = "create" /\ c.product \in Products
      /\ c.amount >= Catalogue[c.product].minimum
  BY <1>1, TabIsRight DEF RouteCreate, TabRight
<1>3. Len(bought) \in Nat /\ DOMAIN bought = 1..Len(bought)
  BY <1>2, BoughtHaveWorth
<1>4. CASE FormFails(t) /\ UNCHANGED bought
  <2>1. PICK new \in TabRecords(DOMAIN bought) :
          tab' = [tab EXCEPT ![t] = new] /\ new.at = "form" /\ new.product \in Products
    BY <1>1, <1>2, <1>4, FormIsBack
  <2>2. TabRight(new)
    BY <2>1 DEF TabRight
  <2> QED BY <1>2, <1>4, <2>1, <2>2, QuietMove
<1>5. CASE /\ Creatable(t)
           /\ bought' = Append(bought,
                [product |-> tab[t].product, amount |-> tab[t].amount,
                 ref |-> tab[t].ref, status |-> "PENDING", paid |-> 0])
           /\ \/ Show(t, [tab[t] EXCEPT !.at = "fund", !.sub = Len(bought) + 1])
              \/ FormFails(t)
  <2>1. PICK row : row = [product |-> c.product, amount |-> c.amount, ref |-> c.ref,
                          status |-> "PENDING", paid |-> 0]
    OBVIOUS
  <2>2. /\ row \in BoughtRows /\ row.status = "PENDING" /\ row.paid = 0
        /\ row.product = c.product /\ row.amount = c.amount /\ row.ref = c.ref
    BY <1>1, <1>2, <2>1 DEF TabRecords, BoughtRows, RowStatuses
  <2>3. bought' = Append(bought, row)
    BY <1>1, <1>5, <2>1
  <2>4. /\ Eligibility(row.product) = "ELIGIBLE"
        /\ row.ref # NoRef => \A s \in DOMAIN bought : bought[s].ref # row.ref
    BY <1>1, <1>5, <2>2 DEF Creatable
  <2>5. RowsFine' /\ RowsStandFor(t)
    BY <1>2, <2>2, <2>3, <2>4, CreatedIsFine
  <2>6. /\ DOMAIN bought' = 1..Len(bought) + 1 /\ Len(bought') = Len(bought) + 1
        /\ bought'[Len(bought) + 1] = row
    BY <1>2, <2>2, <2>3, RowBought
  <2>7. DOMAIN bought \subseteq DOMAIN bought' /\ Len(bought) + 1 \in DOMAIN bought'
    BY <1>3, <2>6
  <2>8. PICK new \in TabRecords(DOMAIN bought') :
          /\ tab' = [tab EXCEPT ![t] = new] /\ TabRight(new)' /\ new.at # "create"
          /\ new.at = "fund" => new.sub = Len(bought) + 1
    <3>1. CASE FormFails(t)
      <4>1. PICK new \in TabRecords(DOMAIN bought) :
              tab' = [tab EXCEPT ![t] = new] /\ new.at = "form" /\ new.product \in Products
        BY <1>1, <1>2, <3>1, FormIsBack
      <4>2. TabRight(new)'
        BY <4>1 DEF TabRight
      <4>3. new \in TabRecords(DOMAIN bought')
        BY <2>7, RecordsGrow
      <4> QED BY <4>1, <4>2, <4>3
    <3>2. CASE Show(t, [tab[t] EXCEPT !.at = "fund", !.sub = Len(bought) + 1])
      <4>1. PICK new : new = [c EXCEPT !.at = "fund", !.sub = Len(bought) + 1]
        OBVIOUS
      <4>2. c \in TabRecords(DOMAIN bought')
        BY <2>7, RecordsGrow
      <4>3. /\ new \in TabRecords(DOMAIN bought') /\ new.at = "fund"
            /\ new.sub = Len(bought) + 1
            /\ new.product = c.product /\ new.amount = c.amount
        BY <2>7, <4>1, <4>2 DEF TabRecords, Pages
      <4>4. TabRight(new)'
        BY <1>2, <2>2, <2>6, <2>7, <4>3 DEF TabRight
      <4> QED BY <1>1, <3>2, <4>1, <4>3, <4>4 DEF Show
    <3> QED BY <1>5, <3>1, <3>2
  <2>9. new.at = "fund" =>
          \A q \in Tabs \ {t} : tab[q].at = "fund" => tab[q].sub # new.sub
    <3>1. \A q \in Tabs : tab[q].at = "fund" => tab[q].sub \in DOMAIN bought
      BY TabIsRight DEF TabRight
    <3>2. Len(bought) + 1 \notin DOMAIN bought
      BY <1>3
    <3> QED BY <2>8, <3>1, <3>2
  <2>10. (Len(bought') - Len(bought)) + (IF new.at = "create" THEN 1 ELSE 0)
           <= (clicks' - clicks) + (IF tab[t].at = "create" THEN 1 ELSE 0)
    <3>1. Len(bought') - Len(bought) = 1 /\ clicks' - clicks = 0
      BY <1>2, <1>3, <2>6
    <3> QED BY <1>1, <1>2, <2>8, <3>1
  <2> QED BY <1>2, <2>5, <2>8, <2>9, <2>10, TabMoves
<1> QED BY <1>4, <1>5 DEF RouteCreate

-----------------------------------------------------------------------------

\* A row that one tab's call moves on: what is paid for it is what it holds.
LEMMA MovedIsFine ==
  ASSUME RowsFine, NEW t \in Tabs, NEW s \in DOMAIN bought, NEW row \in BoughtRows,
         row.product = bought[s].product, row.amount = bought[s].amount,
         row.ref = bought[s].ref, row.status # "PENDING", row.paid >= bought[s].paid,
         bought[s].status = "PENDING" => tab[t].at = "fund" /\ s = tab[t].sub,
         bought' = [bought EXCEPT ![s] = row],
         cash' \in Int, cash' >= 0,
         cash' - cash = Held(bought[s]) - Held(row)
  PROVE  RowsFine' /\ RowsStandFor(t)
<1>1. /\ bought' \in Seq(BoughtRows)
      /\ DOMAIN bought' = DOMAIN bought
      /\ \A r \in DOMAIN bought \ {s} : bought'[r] = bought[r]
      /\ bought'[s] = row
      /\ HeldInAll' = HeldInAll - Held(bought[s]) + Held(row)
  BY RowChanged
<1>2. bought[s] \in BoughtRows /\ HeldInAll \in Int
  BY BoughtHaveWorth
<1>3. \A r \in DOMAIN bought' :
        /\ bought'[r].status = "PENDING" => bought'[r].paid = 0
        /\ bought'[r].product \in Startable
        /\ bought'[r].amount >= Catalogue[bought'[r].product].minimum
  BY <1>1 DEF RowsFine
<1>4. \A r \in DOMAIN bought : bought'[r].ref = bought[r].ref
  BY <1>1
<1>5. \A r, q \in DOMAIN bought' :
        bought'[r].ref # NoRef /\ bought'[r].ref = bought'[q].ref => r = q
  BY <1>1, <1>4 DEF RowsFine
<1>6. cash' + HeldInAll' = Deposit
  <2>1. Held(bought[s]) \in Int /\ Held(row) \in Int /\ cash \in Int
    BY <1>2, HeldIsInt DEF RowsFine
  <2>2. cash + HeldInAll = Deposit /\ Deposit \in Int
    BY ClientConstants DEF RowsFine
  <2>3. PICK x \in Int, y \in Int : x = Held(bought[s]) /\ y = Held(row)
    BY <2>1
  <2>4. cash' - cash = x - y /\ HeldInAll' = HeldInAll - x + y
    BY <1>1, <2>3
  <2> QED BY <1>2, <2>1, <2>2, <2>4
<1>7. RowsFine'
  <2>1. \A r \in DOMAIN bought' : bought'[r].product \in Startable'
    BY <1>3
  <2> QED BY <1>1, <1>3, <1>5, <1>6, <2>1 DEF RowsFine
<1>8. RowsStandFor(t)
  <2>1. bought[s].paid \in Nat /\ row.paid \in Nat
    BY <1>2 DEF BoughtRows
  <2>2. bought[s].paid > 0 => row.paid > 0
    BY <2>1
  <2> QED BY <1>1, <2>2 DEF RowsStandFor
<1> QED BY <1>7, <1>8

LEMMA RouteFundKeeps == ASSUME ClientInv, NEW t \in Tabs, RouteFund(t) PROVE ClientInv'
<1>1. PICK c \in TabRecords(DOMAIN bought) : c = tab[t] /\ TabRight(c)
  BY TabIsRight
<1>2. /\ RowsFine /\ clicks \in Nat /\ cookie \in BOOLEAN /\ cash \in Int /\ cash >= 0
      /\ UNCHANGED <<cookie, clicks>>
      /\ c.at = "fund" /\ c.product \in Products /\ c.sub \in DOMAIN bought
      /\ bought[c.sub].status = "PENDING"
      /\ bought[c.sub].amount = c.amount /\ bought[c.sub].product = c.product
  BY <1>1, TabIsRight DEF RouteFund, TabRight, RowsFine
<1>3. CASE FormFails(t) /\ UNCHANGED <<bought, cash>>
  <2>1. PICK new \in TabRecords(DOMAIN bought) :
          tab' = [tab EXCEPT ![t] = new] /\ new.at = "form" /\ new.product \in Products
    BY <1>1, <1>2, <1>3, FormIsBack
  <2>2. TabRight(new)
    BY <2>1 DEF TabRight
  <2> QED BY <1>2, <1>3, <2>1, <2>2, QuietMove
<1>4. CASE /\ bought[tab[t].sub].amount <= cash
           /\ bought' = [bought EXCEPT ![tab[t].sub].status = "COMPLETED"]
           /\ cash' = cash - bought[tab[t].sub].amount
           /\ Show(t, [tab[t] EXCEPT !.at = "invested"]) \/ FormFails(t)
  <2>1. PICK old \in BoughtRows : old = bought[c.sub] /\ old.status = "PENDING" /\ old.paid = 0
    BY <1>2, BoughtHaveWorth DEF RowsFine
  <2>2. PICK row : row = [old EXCEPT !.status = "COMPLETED"]
    OBVIOUS
  <2>3. /\ row \in BoughtRows /\ row.status = "COMPLETED" /\ row.paid = 0
        /\ row.product = old.product /\ row.amount = old.amount /\ row.ref = old.ref
        /\ old.amount \in Nat
    BY <2>1, <2>2 DEF BoughtRows, RowStatuses
  <2>4. bought' = [bought EXCEPT ![c.sub] = row]
    BY <1>1, <1>4, <2>1, <2>2
  <2>5. Held(old) = 0 /\ Held(row) = old.amount
    BY <2>1, <2>3, OneTimeMore DEF Held
  <2>6. /\ cash' \in Int /\ cash' >= 0 /\ cash' - cash = Held(bought[c.sub]) - Held(row)
    BY <1>1, <1>2, <1>4, <2>1, <2>3, <2>5
  <2>7. RowsFine' /\ RowsStandFor(t)
    <3>1. /\ row.product = bought[c.sub].product /\ row.amount = bought[c.sub].amount
          /\ row.ref = bought[c.sub].ref /\ row.status # "PENDING"
          /\ row.paid >= bought[c.sub].paid
      BY <2>1, <2>3
    <3>2. tab[t].at = "fund" /\ c.sub = tab[t].sub /\ c.sub \in DOMAIN bought
      BY <1>1, <1>2
    <3> QED BY <1>2, <2>3, <2>4, <2>6, <3>1, <3>2, MovedIsFine
  <2>8. /\ DOMAIN bought' = DOMAIN bought /\ Len(bought') = Len(bought)
        /\ bought'[c.sub] = row
    BY <1>2, <2>3, <2>4, RowChanged
  <2>9. PICK new \in TabRecords(DOMAIN bought') :
          /\ tab' = [tab EXCEPT ![t] = new] /\ TabRight(new)'
          /\ new.at \notin {"create", "fund"}
    <3>1. CASE FormFails(t)
      <4>1. PICK new \in TabRecords(DOMAIN bought) :
              tab' = [tab EXCEPT ![t] = new] /\ new.at = "form" /\ new.product \in Products
        BY <1>1, <1>2, <3>1, FormIsBack
      <4>2. TabRight(new)'
        BY <4>1 DEF TabRight
      <4> QED BY <2>8, <4>1, <4>2
    <3>2. CASE Show(t, [tab[t] EXCEPT !.at = "invested"])
      <4>1. PICK new : new = [c EXCEPT !.at = "invested"]
        OBVIOUS
      <4>2. /\ new \in TabRecords(DOMAIN bought) /\ new.at = "invested" /\ new.sub = c.sub
            /\ new.product = c.product /\ new.amount = c.amount
        BY <4>1 DEF TabRecords, Pages, Resting
      <4>3. TabRight(new)'
        BY <1>2, <2>1, <2>3, <2>8, <4>2 DEF TabRight, Invested
      <4> QED BY <1>1, <2>8, <3>2, <4>1, <4>2, <4>3 DEF Show
    <3> QED BY <1>4, <3>1, <3>2
  <2>10. Len(bought) \in Nat
    BY <1>2, BoughtHaveWorth
  <2>11. (Len(bought') - Len(bought)) + (IF new.at = "create" THEN 1 ELSE 0)
           <= (clicks' - clicks) + (IF tab[t].at = "create" THEN 1 ELSE 0)
    <3>1. Len(bought') - Len(bought) = 0 /\ clicks' - clicks = 0
      BY <1>2, <2>8, <2>10
    <3> QED BY <1>1, <1>2, <2>9, <3>1
  <2> QED BY <1>2, <2>7, <2>9, <2>11, TabMoves
<1> QED BY <1>3, <1>4 DEF RouteFund

\* The portfolio is back, with a message.
LEMMA PortfolioIsBack ==
  ASSUME ClientInv, NEW t \in Tabs, tab[t].items \subseteq DOMAIN bought, RedeemFails(t)
  PROVE  \E new \in TabRecords(DOMAIN bought) :
           /\ tab' = [tab EXCEPT ![t] = new] /\ new.at = "portfolio"
           /\ new.items \subseteq DOMAIN bought
<1>1. PICK c \in TabRecords(DOMAIN bought) : c = tab[t]
  BY TabIsRight
<1>2. PICK new : new = [c EXCEPT !.at = "portfolio", !.sub = 0, !.seen = "", !.error = TRUE]
  OBVIOUS
<1>3. new \in TabRecords(DOMAIN bought) /\ new.at = "portfolio" /\ new.items = c.items
  BY <1>1, <1>2 DEF TabRecords, Pages, Resting
<1> QED BY <1>1, <1>2, <1>3 DEF RedeemFails, Show

LEMMA RedeemAnswerKeeps == ASSUME ClientInv, NEW t \in Tabs, RedeemAnswer(t) PROVE ClientInv'
<1>1. PICK c \in TabRecords(DOMAIN bought) : c = tab[t] /\ TabRight(c)
  BY TabIsRight
<1>2. /\ RowsFine /\ clicks \in Nat /\ cookie \in BOOLEAN /\ cash \in Int /\ cash >= 0
      /\ UNCHANGED <<cookie, clicks>>
      /\ c.at = "redeem" /\ c.sub \in DOMAIN bought /\ c.items \subseteq DOMAIN bought
      /\ c.seen = "COMPLETED" => Invested(c.sub)
  BY <1>1, TabIsRight DEF RedeemAnswer, TabRight, RowsFine
<1>3. CASE RedeemFails(t) /\ UNCHANGED <<bought, cash>>
  <2>1. PICK new \in TabRecords(DOMAIN bought) :
          /\ tab' = [tab EXCEPT ![t] = new] /\ new.at = "portfolio"
          /\ new.items \subseteq DOMAIN bought
    BY <1>1, <1>2, <1>3, PortfolioIsBack
  <2>2. TabRight(new)
    BY <2>1 DEF TabRight
  <2> QED BY <1>2, <1>3, <2>1, <2>2, QuietMove
<1>4. CASE /\ tab[t].seen = "COMPLETED"
           /\ bought' = [bought EXCEPT ![tab[t].sub].status = "REDEEMED",
                                       ![tab[t].sub].paid = @ + 1]
           /\ cash' = cash + bought[tab[t].sub].amount
           /\ Show(t, [tab[t] EXCEPT !.at = "redeemed"]) \/ RedeemFails(t)
  <2>1. PICK old \in BoughtRows : old = bought[c.sub] /\ old.status # "PENDING"
    BY <1>1, <1>2, <1>4, BoughtHaveWorth DEF Invested
  <2>2. PICK row : row = [old EXCEPT !.status = "REDEEMED", !.paid = @ + 1]
    OBVIOUS
  <2>3. /\ row \in BoughtRows /\ row.status = "REDEEMED" /\ row.paid = old.paid + 1
        /\ row.product = old.product /\ row.amount = old.amount /\ row.ref = old.ref
        /\ old.amount \in Nat /\ old.paid \in Nat
    <3>1. old.paid \in Nat /\ old.paid + 1 \in Nat /\ old.amount \in Nat
      BY DEF BoughtRows
    <3>2. row = [old EXCEPT !.status = "REDEEMED", !.paid = old.paid + 1]
      BY <2>2
    <3> QED BY <3>1, <3>2 DEF BoughtRows, RowStatuses
  <2>4. bought' = [bought EXCEPT ![c.sub] = row]
    <3>1. bought \in Seq(BoughtRows)
      BY <1>2, BoughtHaveWorth
    <3>2. bought' = [bought EXCEPT ![c.sub] =
                       [bought[c.sub] EXCEPT !.status = "REDEEMED", !.paid = @ + 1]]
      BY <1>1, <1>2, <1>4, <3>1
    <3> QED BY <2>1, <2>2, <3>2
  <2>5. Held(row) = Held(old) - old.amount
    BY <2>1, <2>3, OneTimeMore DEF Held
  <2>6. cash' \in Int /\ cash' >= 0 /\ cash' - cash = Held(bought[c.sub]) - Held(row)
    <3>1. PICK h \in Int : h = Held(old)
      BY HeldIsInt
    <3>2. cash' = cash + old.amount
      BY <1>1, <1>4, <2>1
    <3>3. Held(row) = h - old.amount
      BY <2>5, <3>1
    <3> QED BY <1>2, <2>1, <2>3, <3>1, <3>2, <3>3
  <2>7. RowsFine' /\ RowsStandFor(t)
    <3>1. /\ row.product = bought[c.sub].product /\ row.amount = bought[c.sub].amount
          /\ row.ref = bought[c.sub].ref /\ row.status # "PENDING"
          /\ row.paid >= bought[c.sub].paid /\ bought[c.sub].status # "PENDING"
      BY <2>1, <2>3
    <3> QED BY <1>2, <2>3, <2>4, <2>6, <3>1, MovedIsFine
  <2>8. /\ DOMAIN bought' = DOMAIN bought /\ Len(bought') = Len(bought)
        /\ bought'[c.sub] = row
    BY <1>2, <2>3, <2>4, RowChanged
  <2>9. PICK new \in TabRecords(DOMAIN bought') :
          /\ tab' = [tab EXCEPT ![t] = new] /\ TabRight(new)'
          /\ new.at \notin {"create", "fund"}
    <3>1. CASE RedeemFails(t)
      <4>1. PICK new \in TabRecords(DOMAIN bought) :
              /\ tab' = [tab EXCEPT ![t] = new] /\ new.at = "portfolio"
              /\ new.items \subseteq DOMAIN bought
        BY <1>1, <1>2, <3>1, PortfolioIsBack
      <4>2. TabRight(new)'
        BY <2>8, <4>1 DEF TabRight
      <4> QED BY <2>8, <4>1, <4>2
    <3>2. CASE Show(t, [tab[t] EXCEPT !.at = "redeemed"])
      <4>1. PICK new : new = [c EXCEPT !.at = "redeemed"]
        OBVIOUS
      <4>2. new \in TabRecords(DOMAIN bought) /\ new.at = "redeemed" /\ new.sub = c.sub
        BY <4>1 DEF TabRecords, Pages, Resting
      <4>3. bought'[new.sub].paid > 0
        BY <2>3, <2>8, <4>2
      <4>4. TabRight(new)'
        BY <1>2, <2>8, <4>2, <4>3 DEF TabRight
      <4> QED BY <1>1, <2>8, <3>2, <4>1, <4>2, <4>4 DEF Show
    <3> QED BY <1>4, <3>1, <3>2
  <2>10. Len(bought) \in Nat
    BY <1>2, BoughtHaveWorth
  <2>11. (Len(bought') - Len(bought)) + (IF new.at = "create" THEN 1 ELSE 0)
           <= (clicks' - clicks) + (IF tab[t].at = "create" THEN 1 ELSE 0)
    <3>1. Len(bought') - Len(bought) = 0 /\ clicks' - clicks = 0
      BY <1>2, <2>8, <2>10
    <3> QED BY <1>1, <1>2, <2>9, <3>1
  <2> QED BY <1>2, <2>7, <2>9, <2>11, TabMoves
<1> QED BY <1>3, <1>4 DEF RedeemAnswer

\* Nobody has come yet.
LEMMA ClientInitHolds == ClientInit => ClientInv
<1> SUFFICES ASSUME ClientInit PROVE ClientInv
  OBVIOUS
<1>1. /\ cookie = FALSE /\ tab = [t \in Tabs |-> Blank] /\ bought = <<>>
      /\ cash = Deposit /\ clicks = 0
  BY Zenon DEF ClientInit
<1>2. \A t \in Tabs : tab[t] = Blank
  BY <1>1
<1>3. \A t \in Tabs : tab[t].at = "away"
  BY <1>2, BlankRecord
<1>4. DOMAIN bought = {} /\ bought \in Seq(BoughtRows) /\ Len(bought) = 0
  <2>1. DOMAIN <<>> = {} /\ <<>> \in Seq(BoughtRows) /\ Len(<<>>) = 0
    OBVIOUS
  <2> QED BY <1>1, <2>1
<1>5. HeldInAll = 0
  <2>1. PICK f : f = [s \in DOMAIN bought |-> Held(bought[s])]
    OBVIOUS
  <2>2. DOMAIN f = {} /\ IsFiniteSet({})
    BY <1>4, <2>1, FS_EmptySet
  <2>3. SumFunction(f) = 0
    BY <2>2, SumUnfolds DEF SumFunction
  <2>4. HeldInAll = SumFunction(f)
    BY <2>1, Zenon DEF HeldInAll
  <2> QED BY <2>3, <2>4
<1>6. RowsFine
  BY <1>1, <1>4, <1>5, ClientConstants DEF RowsFine
<1>7. Creating = {} /\ IsFiniteSet(Creating) /\ Cardinality(Creating) = 0
  BY <1>3, FS_EmptySet DEF Creating
<1>8. (\A t \in Tabs : TabRight(tab[t])) /\ FundersDiffer
  BY <1>3 DEF TabRight, FundersDiffer
<1>9. tab \in [Tabs -> TabRecords(DOMAIN bought)]
  BY <1>1, BlankRecord
<1>10. cookie \in BOOLEAN /\ clicks \in Nat /\ Len(bought) + Cardinality(Creating) <= clicks
  <2>1. cookie \in BOOLEAN
    BY <1>1
  <2>2. clicks = 0 /\ Len(bought) = 0 /\ Cardinality(Creating) = 0
    BY <1>1, <1>4, <1>7
  <2>3. Len(bought) + Cardinality(Creating) = 0
    BY <2>2
  <2> QED BY <2>1, <2>2, <2>3
<1>11. ClientFacts
  BY <1>6, <1>7, <1>8, <1>9, <1>10 DEF ClientFacts
<1> QED BY <1>11, ClientParts

\* The client's invariant is inductive.
LEMMA ClientStepHolds == ClientInv /\ [ClientNext]_clientVars => ClientInv'
<1> SUFFICES ASSUME ClientInv, [ClientNext]_clientVars PROVE ClientInv'
  OBVIOUS
<1>1. CASE CookieExpires
  BY <1>1, CookieKeeps DEF CookieExpires, Stay
<1>2. ASSUME NEW t \in Tabs, LogIn(t) \/ ShowProducts(t) \/ OpenForm(t) \/ Submit(t)
      PROVE  ClientInv'
  BY <1>2, LogInKeeps, ShowProductsKeeps, OpenFormKeeps, SubmitKeeps
<1>3. ASSUME NEW t \in Tabs, RouteCreate(t) \/ RouteFund(t) \/ RedeemAnswer(t)
      PROVE  ClientInv'
  BY <1>3, RouteCreateKeeps, RouteFundKeeps, RedeemAnswerKeeps
<1>4. ASSUME NEW t \in Tabs,
             ShowPortfolio(t) \/ AskRedeem(t) \/ CancelRedeem(t) \/ RouteRedeem(t)
      PROVE  ClientInv'
  BY <1>4, ShowPortfolioKeeps, PortfolioKeeps
<1>5. CASE UNCHANGED clientVars
  <2>1. cookie \in BOOLEAN
    BY ClientParts DEF ClientFacts
  <2> QED BY <1>5, <2>1, CookieKeeps DEF clientVars
<1> QED BY <1>1, <1>2, <1>3, <1>4, <1>5 DEF ClientNext

-----------------------------------------------------------------------------
(***************************************************************************)
(* The platform.                                                           *)
(***************************************************************************)

\* What holds of every part.  A part whose behaviour this is not stays as it
\* was when it began.
PlatformInv ==
  /\ PaymentsInv /\ CashMatchesDeposits /\ TransfersInv
  /\ AuditInv /\ StatementsInv /\ OnboardInv /\ ClientInv /\ DeskInv

\* Each part starts as it does alone.
LEMMA PlatformInitHolds == PlatformInit => PlatformInv
  BY InitInv, BooksStartEven, TransfersInitHolds, AuditInitHolds, StatementsStart,
     OnboardInitHolds, ClientInitHolds, DeskInitHolds
  DEF PlatformInit, PlatformInv

\* A step of the platform is a step or a stutter of each part.
LEMMA PlatformSteps ==
  [PlatformNext]_platformVars =>
    /\ [PaymentsNext]_paymentVars /\ [AuditNext]_auditVars
    /\ [StatementsNext]_statementVars /\ [OnboardNext]_onboardVars
    /\ [ClientNext]_clientVars /\ [DeskNext]_deskVars
    /\ part' = part /\ (part # "payments" => UNCHANGED paymentVars)
<1> SUFFICES ASSUME [PlatformNext]_platformVars
             PROVE  /\ [PaymentsNext]_paymentVars /\ [AuditNext]_auditVars
                    /\ [StatementsNext]_statementVars /\ [OnboardNext]_onboardVars
                    /\ [ClientNext]_clientVars /\ [DeskNext]_deskVars
                    /\ part' = part /\ (part # "payments" => UNCHANGED paymentVars)
  OBVIOUS
<1>1. CASE PlatformNext
  BY <1>1 DEF PlatformNext, NoPayment, NoAudit, NoStatement, NoClient, NoDesk, NoOnboarding
<1>2. CASE UNCHANGED platformVars
  BY <1>2 DEF platformVars
<1> QED BY <1>1, <1>2

LEMMA PlatformStepHolds == PlatformInv /\ [PlatformNext]_platformVars => PlatformInv'
<1> SUFFICES ASSUME PlatformInv, [PlatformNext]_platformVars PROVE PlatformInv'
  OBVIOUS
<1>1. PaymentsInv' /\ CashMatchesDeposits' /\ TransfersInv'
  BY PlatformSteps, NextInv, BooksStayEven, EntriesFollow, AnswersStayTrue
  DEF PlatformInv, PaymentsInv, TransfersInv
<1>2. AuditInv' /\ StatementsInv' /\ OnboardInv'
  BY PlatformSteps, AuditStepHolds, StatementsSteps, OnboardStepHolds DEF PlatformInv
<1>3. ClientInv' /\ DeskInv'
  BY PlatformSteps, ClientStepHolds, DeskStepHolds DEF PlatformInv
<1> QED BY <1>1, <1>2, <1>3 DEF PlatformInv

\* The inductive invariants of the parts hold throughout.
THEOREM PlatformInvariant == PlatformSpec => []PlatformInv
  BY PlatformInitHolds, PlatformStepHolds, PTL DEF PlatformSpec

\* Wallet requests and transfers keep their claims, locks and checked
\* balances (confirmRequest, rejectRequest and createTransfer).
THEOREM PlatformPayments == PlatformSpec => []PaymentsHold
<1>1. PlatformInv => PaymentsHold
  BY DEF PlatformInv, PaymentsHold
<1> QED BY <1>1, PlatformInvariant, PTL

\* Fund-wide, deposits are backed by cash, transfers are their entries, and
\* what createTransfer answers is true (docs/chart-of-accounts-v1.md,
\* transfers.service.ts).
THEOREM PlatformMoney ==
  PlatformSpec => [](CashMatchesDeposits /\ TransferIsItsEntry /\ TransferAnswersAreTrue)
<1>1. PlatformInv => CashMatchesDeposits /\ TransferIsItsEntry /\ TransferAnswersAreTrue
  BY DEF PlatformInv, TransfersInv
<1> QED BY <1>1, PlatformInvariant, PTL

\* Wallet requests and transfers do only what CustomerFunds promises.
THEOREM PlatformKeepsPromise == PlatformSpec => PaymentsKeepPromise
<1>1. PlatformInit => Promise!Init
  BY InitMaps DEF PlatformInit
<1>2. PlatformInv /\ [PlatformNext]_platformVars
        => [part = "payments" => Promise!Next]_(Promise!vars)
  BY PlatformSteps, StepMaps DEF PlatformInv
<1> QED BY <1>1, <1>2, PlatformInvariant, PTL DEF PlatformSpec, PaymentsKeepPromise

\* The audit trail can be replayed (AuditStore.append and verify, and
\* appendInTransaction under the row locks of the wallet's verdicts).
THEOREM PlatformAudit == PlatformSpec => []AuditHolds
<1>1. PlatformInv => AuditHolds
  BY AuditInvSuffices DEF PlatformInv, AuditHolds
<1> QED BY <1>1, PlatformInvariant, PTL

\* The general ledger, the trial balance, the investors' balances, statements
\* and portfolios are views of one journal and agree, and no view is a guess
\* (BalanceService, LedgerQueryService and LedgerPositionService).
THEOREM PlatformStatements == PlatformSpec => []StatementsHold
<1>1. PlatformInv => StatementsHold
  BY ViewsAgree DEF PlatformInv, StatementsHold
<1> QED BY <1>1, PlatformInvariant, PTL

\* Registrations stand, users have one origin, the seed's log speaks of
\* finished work and a browser shows the account whose session it holds
\* (register, prisma/seed.ts and the log-in and log-out routes).
THEOREM PlatformOnboarding == PlatformSpec => []OnboardHolds
<1>1. PlatformInv => OnboardHolds
  BY OnboardInvSuffices DEF PlatformInv, OnboardHolds
<1> QED BY <1>1, PlatformInvariant, PTL

\* A client page that reports success is right, retries buy at most as often
\* as the investor clicked and once under a reference, and money is neither
\* made nor lost (the pages and route handlers of apps/client).
THEOREM PlatformClient == PlatformSpec => []ClientHolds
<1>1. PlatformInv => ClientHolds
  BY DEF PlatformInv, ClientHolds
<1> QED BY <1>1, PlatformInvariant, PTL

\* Requests reported as submitted exist, no operator loses sight of one that
\* waits, no two report one posting, and what was confirmed was covered (the
\* wallet panel of apps/web and the operations console of apps/admin).
THEOREM PlatformDesk == PlatformSpec => []DeskHolds
<1>1. PlatformInv => DeskHolds
  BY DEF PlatformInv, DeskHolds
<1> QED BY <1>1, PlatformInvariant, PTL

=============================================================================
