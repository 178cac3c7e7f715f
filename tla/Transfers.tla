----------------------------- MODULE Transfers -----------------------------
(***************************************************************************)
(* TransfersService.createTransfer: one investor's cash becomes another's. *)
(* A committed Transfer row and its Transaction row share key, reference,  *)
(* amount and users, and neither is written again, so the Transaction row  *)
(* of type TRANSFER stands for both.                                       *)
(***************************************************************************)
EXTENDS LedgerStore

CONSTANTS
  TransferHandlers,  \* the handlers that serve the transfers controller
  TransferInputs     \* the DTOs clients may send

ASSUME TransferConstants ==
  /\ TransferHandlers \subseteq Handlers
  /\ TransferInputs \subseteq
       [key: Keys, src: Investors, dst: Investors, amount: Amounts, ref: Refs]

VARIABLES
  tpc,     \* where each handler is
  tjob,    \* its DTO
  tanswer  \* what it answered, until the response is delivered

transferVars == <<tpc, tjob, tanswer>>

TransferPcs == {"idle", "lookup", "begin", "lock", "check", "commit", "replied"}
NoTransfer == [key |-> NoRow]
TransferAnswers ==
  {"NONE", "CREATED", "REPLAYED", "IDEMPOTENCY_CONFLICT", "SAME_USER",
   "INSUFFICIENT", "P2002"}

TransferTypeOK ==
  /\ tpc \in [TransferHandlers -> TransferPcs]
  /\ tjob \in [TransferHandlers -> TransferInputs \cup {NoTransfer}]
  /\ tanswer \in [TransferHandlers -> TransferAnswers]
  /\ \A h \in TransferHandlers : tpc[h] # "idle" => tjob[h] \in TransferInputs

TransferInit ==
  /\ tpc = [h \in TransferHandlers |-> "idle"]
  /\ tjob = [h \in TransferHandlers |-> NoTransfer]
  /\ tanswer = [h \in TransferHandlers |-> "NONE"]

-----------------------------------------------------------------------------

TransferRow(dto) ==
  [user |-> dto.src, type |-> "TRANSFER", amount |-> dto.amount,
   ref |-> dto.ref, about |-> dto.dst, status |-> "COMPLETED"]

TransferEntry(dto) ==
  [key |-> Raw(dto.key), amount |-> dto.amount,
   debit |-> Deposits(dto.src), credit |-> Deposits(dto.dst)]

\* transfer.findUnique: a wallet request under the same key is not seen.
FoundTransfer(key) ==
  txn[Raw(key)] # NoRow /\ txn[Raw(key)].type = "TRANSFER"

TransferGoto(h, from, to) ==
  /\ tpc[h] = from
  /\ tpc' = [tpc EXCEPT ![h] = to]
  /\ UNCHANGED <<tjob, tanswer>>

\* Commit or rollback, with the answer of either.
TransferReply(h, answer) ==
  /\ tpc' = [tpc EXCEPT ![h] = "replied"]
  /\ tanswer' = [tanswer EXCEPT ![h] = answer]
  /\ UNCHANGED tjob
  /\ ReleaseLocks(h)

\* Mutant: the replayed request is not compared with the row.
TransferReplayUncompared(h) ==
  /\ TransferReply(h, "REPLAYED")
  /\ UNCHANGED <<balance, journal, txn>>

\* A found transfer answers the request, if it is the same request.
TransferReplay(h) ==
  /\ TransferReply(h, IF txn[Raw(tjob[h].key)] = TransferRow(tjob[h])
                      THEN "REPLAYED" ELSE "IDEMPOTENCY_CONFLICT")
  /\ UNCHANGED <<balance, journal, txn>>

TransferRefuse(h, answer) ==
  /\ TransferReply(h, answer)
  /\ UNCHANGED <<balance, journal, txn>>

-----------------------------------------------------------------------------

TransferStart(h) ==
  /\ tpc[h] = "idle"
  /\ tpc' = [tpc EXCEPT ![h] = "lookup"]
  /\ \E dto \in TransferInputs : tjob' = [tjob EXCEPT ![h] = dto]
  /\ UNCHANGED <<tanswer, dbVars>>

\* Mutant: source and destination may be the same user.
TransferLookupOnly(h) ==
  /\ tpc[h] = "lookup"
  /\ \/ FoundTransfer(tjob[h].key) /\ TransferReplay(h)
     \/ /\ ~FoundTransfer(tjob[h].key)
        /\ TransferGoto(h, "lookup", "begin")
        /\ UNCHANGED dbVars

\* Before the transaction: replay, then the check that the two users differ.
TransferLookup(h) ==
  /\ tpc[h] = "lookup"
  /\ \/ FoundTransfer(tjob[h].key) /\ TransferReplay(h)
     \/ /\ ~FoundTransfer(tjob[h].key)
        /\ \/ tjob[h].src = tjob[h].dst /\ TransferRefuse(h, "SAME_USER")
           \/ /\ tjob[h].src # tjob[h].dst
              /\ TransferGoto(h, "lookup", "begin")
              /\ UNCHANGED dbVars

\* In the transaction: the duplicate lookup again, then the participants
\* (both are investors here).
TransferBegin(h) ==
  /\ tpc[h] = "begin"
  /\ \/ FoundTransfer(tjob[h].key) /\ TransferReplay(h)
     \/ /\ ~FoundTransfer(tjob[h].key)
        /\ TransferGoto(h, "begin", "lock")
        /\ UNCHANGED dbVars

\* Mutant: the destination's balance is locked instead of the source's.
TransferLockDestination(h) ==
  /\ TransferGoto(h, "lock", "check")
  /\ TakeLock(<<"transfer", tjob[h].dst>>, h)
  /\ UNCHANGED <<balance, journal, txn>>

\* lockSourceBalance: only the source's balance is locked.
TransferLock(h) ==
  /\ TransferGoto(h, "lock", "check")
  /\ TakeLock(<<"transfer", tjob[h].src>>, h)
  /\ UNCHANGED <<balance, journal, txn>>

\* Mutant: the transaction ends, and with it the lock, after the check.
TransferCheckAndRelease(h) ==
  /\ tpc[h] = "check"
  /\ \/ /\ Available(tjob[h].src) >= tjob[h].amount
        /\ TransferGoto(h, "check", "commit")
        /\ ReleaseLocks(h)
        /\ UNCHANGED <<balance, journal, txn>>
     \/ /\ Available(tjob[h].src) < tjob[h].amount
        /\ TransferRefuse(h, "INSUFFICIENT")

TransferCheck(h) ==
  /\ tpc[h] = "check"
  /\ \/ /\ Available(tjob[h].src) >= tjob[h].amount
        /\ TransferGoto(h, "check", "commit")
        /\ UNCHANGED dbVars
     \/ /\ Available(tjob[h].src) < tjob[h].amount
        /\ TransferRefuse(h, "INSUFFICIENT")

\* Mutant: the entry is saved outside the interactive transaction.
TransferCommitSplit(h) ==
  /\ tpc[h] = "commit"
  /\ LET dto == tjob[h]
         e   == TransferEntry(dto)
     IN /\ Post(e.key, e.debit, e.credit, e.amount)
        /\ \/ /\ Insertable(Raw(dto.key), TransferRow(dto))
              /\ PutTxn(Raw(dto.key), TransferRow(dto))
              /\ TransferReply(h, "CREATED")
           \/ /\ ~Insertable(Raw(dto.key), TransferRow(dto))
              /\ TransferReply(h, "P2002")
              /\ UNCHANGED txn

\* The Transaction, journal entry and Transfer rows, COMMIT.  A key or
\* reference taken meanwhile, by a transfer or by anything else in the
\* Transaction table, fails the insert, and nobody looks the winner up.
TransferCommit(h) ==
  /\ tpc[h] = "commit"
  /\ LET dto == tjob[h]
         e   == TransferEntry(dto)
         free == Insertable(Raw(dto.key), TransferRow(dto)) /\ ~Posted(e.key)
     IN \/ /\ free
           /\ PutTxn(Raw(dto.key), TransferRow(dto))
           /\ Post(e.key, e.debit, e.credit, e.amount)
           /\ TransferReply(h, "CREATED")
        \/ /\ ~free
           /\ TransferRefuse(h, "P2002")

TransferReturn(h) ==
  /\ tpc[h] = "replied"
  /\ tpc' = [tpc EXCEPT ![h] = "idle"]
  /\ tjob' = [tjob EXCEPT ![h] = NoTransfer]
  /\ tanswer' = [tanswer EXCEPT ![h] = "NONE"]
  /\ UNCHANGED dbVars

\* A lost connection, a transaction timeout, a crash: everything is rolled
\* back and the locks are given up.
TransferAbort(h) ==
  /\ tpc[h] # "idle"
  /\ tpc' = [tpc EXCEPT ![h] = "idle"]
  /\ tjob' = [tjob EXCEPT ![h] = NoTransfer]
  /\ tanswer' = [tanswer EXCEPT ![h] = "NONE"]
  /\ ReleaseLocks(h)
  /\ UNCHANGED <<balance, journal, txn>>

TransferProgress(h) ==
  \/ TransferLookup(h) \/ TransferBegin(h) \/ TransferLock(h)
  \/ TransferCheck(h) \/ TransferCommit(h) \/ TransferReturn(h)

TransferNext ==
  \E h \in TransferHandlers :
    TransferStart(h) \/ TransferProgress(h) \/ TransferAbort(h)

-----------------------------------------------------------------------------
(***************************************************************************)
(* Properties.                                                             *)
(***************************************************************************)

\* A transfer exists exactly if its journal entry does, and the entry moves
\* its amount from its source to its destination: retried or raced under one
\* key, it moves money once.
TransferIsItsEntry ==
  \A k \in Keys :
    LET row == txn[Raw(k)]
        entries == {e \in journal : e.key = Raw(k)}
    IN entries =
         IF FoundTransfer(k)
         THEN {TransferEntry([key |-> k, src |-> row.user, dst |-> row.about,
                              amount |-> row.amount, ref |-> row.ref])}
         ELSE {}

\* What createTransfer answers is true: CREATED and REPLAYED only if the very
\* transfer asked for is in the books, a conflict only if the key belongs to
\* a different one, P2002 only if the key or reference is taken.
TransferAnswersAreTrue ==
  \A h \in TransferHandlers :
    tpc[h] = "replied" =>
      LET dto == tjob[h]
          own == txn[Raw(dto.key)] = TransferRow(dto)
      IN /\ tanswer[h] \in {"CREATED", "REPLAYED"} => own /\ dto.src # dto.dst
         /\ tanswer[h] = "IDEMPOTENCY_CONFLICT" => FoundTransfer(dto.key) /\ ~own
         /\ tanswer[h] = "P2002" =>
              ~Insertable(Raw(dto.key), TransferRow(dto))

=============================================================================
