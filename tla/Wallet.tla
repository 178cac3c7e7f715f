------------------------------- MODULE Wallet -------------------------------
(***************************************************************************)
(* WalletService: investors file deposit and withdrawal requests under an  *)
(* idempotency key, operators confirm or reject them.  A handler is one    *)
(* HTTP request in flight; a step is one round trip to PostgreSQL.         *)
(***************************************************************************)
EXTENDS LedgerStore

CONSTANTS
  WalletHandlers,  \* the handlers that serve the wallet controller
  WalletInputs     \* the create-request DTOs clients may send

Inputs == [key: Keys, user: Investors, type: {"DEPOSIT", "WITHDRAWAL"},
           amount: Amounts, ref: Refs]

ASSUME WalletConstants ==
  /\ WalletHandlers \subseteq Handlers
  /\ WalletInputs \subseteq Inputs

VARIABLES
  wpc,      \* where each handler is
  wjob,     \* its input: a DTO, or the key of the request to settle
  wanswer,  \* what createRequest answered, until the response is delivered
  claim,    \* row lock a settling transaction holds on a request
  audit     \* committed audit events of wallet requests

walletVars == <<wpc, wjob, wanswer, claim, audit>>

CreatePcs ==
  {"lookup", "insert", "key-conflict", "ref-conflict", "find-ref", "replied"}
SettlePcs ==
  {"confirm-read", "confirm-claim", "confirm-lock", "confirm-check",
   "confirm-commit", "reject-read", "reject-claim", "reject-commit"}
WalletPcs == {"idle"} \cup CreatePcs \cup SettlePcs

NoJob == [key |-> NoRow]
Jobs == WalletInputs \cup [key: Keys \cup {NoRow}]
Answers == Keys \cup {"NONE", "IDEMPOTENCY_CONFLICT", "P2002"}
\* An answer is a row or an exception, and every DTO has a reference.
ASSUME AnswersDistinct ==
  {"NONE", "IDEMPOTENCY_CONFLICT", "P2002"} \cap Keys = {} /\ NoRow \notin Refs

Events == {"WALLET_REQUEST_APPROVED", "WALLET_REQUEST_REJECTED"} \X Keys

WalletTypeOK ==
  /\ wpc \in [WalletHandlers -> WalletPcs]
  /\ wjob \in [WalletHandlers -> Jobs]
  /\ \A h \in WalletHandlers :
       /\ wpc[h] # "idle" => wjob[h].key \in Keys
       /\ wpc[h] \in CreatePcs => wjob[h] \in WalletInputs
  /\ wanswer \in [WalletHandlers -> Answers]
  /\ claim \in [Keys -> WalletHandlers \cup {Nobody}]
  /\ audit \subseteq Events

WalletInit ==
  /\ wpc = [h \in WalletHandlers |-> "idle"]
  /\ wjob = [h \in WalletHandlers |-> NoJob]
  /\ wanswer = [h \in WalletHandlers |-> "NONE"]
  /\ claim = [k \in Keys |-> Nobody]
  /\ audit = {}

-----------------------------------------------------------------------------
(***************************************************************************)
(* Control of a handler.                                                   *)
(***************************************************************************)

WalletKey(h) == wjob[h].key
Request(h) == txn[Raw(WalletKey(h))]
IsWalletRow(row) == row # NoRow /\ row.type \in {"DEPOSIT", "WITHDRAWAL"}
Pending(row) == row # NoRow /\ row.status = "PENDING"

WalletGoto(h, from, to) ==
  /\ wpc[h] = from
  /\ wpc' = [wpc EXCEPT ![h] = to]

\* The response leaves, or the exception propagates: the locals go with it.
WalletFinish(h) ==
  /\ wpc' = [wpc EXCEPT ![h] = "idle"]
  /\ wjob' = [wjob EXCEPT ![h] = NoJob]
  /\ wanswer' = [wanswer EXCEPT ![h] = "NONE"]

\* The end of a settlement transaction frees its row and advisory locks.
WalletEndTx(h) ==
  /\ WalletFinish(h)
  /\ claim' = [k \in Keys |-> IF claim[k] = h THEN Nobody ELSE claim[k]]
  /\ ReleaseLocks(h)

WalletRollback(h) ==
  /\ WalletEndTx(h)
  /\ UNCHANGED <<balance, journal, txn, audit>>

-----------------------------------------------------------------------------
(***************************************************************************)
(* createRequest.                                                          *)
(***************************************************************************)

\* assertIdempotentReplay: every field but the key itself.
SameRequest(row, dto) ==
  /\ row.user = dto.user
  /\ row.type = dto.type
  /\ row.amount = dto.amount
  /\ row.ref = dto.ref

WalletReply(h, answer) ==
  /\ wpc' = [wpc EXCEPT ![h] = "replied"]
  /\ wanswer' = [wanswer EXCEPT ![h] = answer]
  /\ UNCHANGED <<wjob, claim, audit, dbVars>>

\* Mutant: the replayed request is not compared with the row.
ReplyUncompared(h, k) == WalletReply(h, k)

\* The row that was found answers the request, if it is the same request.
ReplyWithRow(h, k) ==
  WalletReply(h, IF SameRequest(txn[Raw(k)], wjob[h]) THEN k
                 ELSE "IDEMPOTENCY_CONFLICT")

CreateStart(h) ==
  /\ WalletGoto(h, "idle", "lookup")
  /\ \E dto \in WalletInputs : wjob' = [wjob EXCEPT ![h] = dto]
  /\ UNCHANGED <<wanswer, claim, audit, dbVars>>

CreateLookup(h) ==
  /\ wpc[h] = "lookup"
  /\ \/ /\ Request(h) # NoRow
        /\ ReplyWithRow(h, WalletKey(h))
     \/ /\ Request(h) = NoRow
        /\ WalletGoto(h, "lookup", "insert")
        /\ UNCHANGED <<wjob, wanswer, claim, audit, dbVars>>

NewRequest(dto) ==
  [user |-> dto.user, type |-> dto.type, amount |-> dto.amount,
   ref |-> dto.ref, about |-> NoRow, status |-> "PENDING"]

\* transaction.create.  When both unique indexes refuse the row, P2002 names
\* the one PostgreSQL happened to check first.
CreateInsert(h) ==
  /\ wpc[h] = "insert"
  /\ LET dto == wjob[h] IN
     \/ /\ Insertable(Raw(dto.key), NewRequest(dto))
        /\ PutTxn(Raw(dto.key), NewRequest(dto))
        /\ wpc' = [wpc EXCEPT ![h] = "replied"]
        /\ wanswer' = [wanswer EXCEPT ![h] = dto.key]
        /\ UNCHANGED <<wjob, claim, audit, balance, journal, lock>>
     \/ /\ Request(h) # NoRow
        /\ WalletGoto(h, "insert", "key-conflict")
        /\ UNCHANGED <<wjob, wanswer, claim, audit, dbVars>>
     \/ /\ RefTaken(dto.ref)
        /\ WalletGoto(h, "insert", "ref-conflict")
        /\ UNCHANGED <<wjob, wanswer, claim, audit, dbVars>>

\* Mutant: a lost race for the reference is looked up by key alone.
CreateRecoverByKey(h) ==
  /\ wpc[h] \in {"key-conflict", "ref-conflict"}
  /\ \/ Request(h) # NoRow /\ ReplyWithRow(h, WalletKey(h))
     \/ Request(h) = NoRow /\ WalletReply(h, "P2002")

\* The first read of the P2002 handler, by key.
CreateRecover(h) ==
  /\ wpc[h] \in {"key-conflict", "ref-conflict"}
  /\ \/ /\ Request(h) # NoRow
        /\ ReplyWithRow(h, WalletKey(h))
     \/ /\ Request(h) = NoRow
        /\ \/ /\ WalletGoto(h, "ref-conflict", "find-ref")
              /\ UNCHANGED <<wjob, wanswer, claim, audit, dbVars>>
           \/ /\ wpc[h] = "key-conflict"
              /\ WalletReply(h, "P2002")

\* The second, by reference.  The row may be any Transaction: one of another
\* type fails the replay check.
CreateRecoverByRef(h) ==
  /\ wpc[h] = "find-ref"
  /\ \/ \E k \in TxnKeys :
          /\ txn[k] # NoRow
          /\ txn[k].ref = wjob[h].ref
          /\ WalletReply(h, IF SameRequest(txn[k], wjob[h]) THEN k[2]
                            ELSE "IDEMPOTENCY_CONFLICT")
     \/ ~RefTaken(wjob[h].ref) /\ WalletReply(h, "P2002")

CreateReturn(h) ==
  /\ wpc[h] = "replied"
  /\ WalletFinish(h)
  /\ UNCHANGED <<claim, audit, dbVars>>

-----------------------------------------------------------------------------
(***************************************************************************)
(* confirmRequest: one interactive transaction.                            *)
(***************************************************************************)

\* An operator names any transaction; what is absent or settled is refused
\* when it is read.
ConfirmStart(h) ==
  /\ WalletGoto(h, "idle", "confirm-read")
  /\ \E k \in Keys : wjob' = [wjob EXCEPT ![h] = [key |-> k]]
  /\ UNCHANGED <<wanswer, claim, audit, dbVars>>

\* The row's user, type, amount and reference never change, so later steps
\* read them from txn; only the status read here can go stale.
ConfirmRead(h) ==
  /\ wpc[h] = "confirm-read"
  /\ \/ /\ Pending(Request(h))
        /\ WalletGoto(h, "confirm-read", "confirm-claim")
        /\ UNCHANGED <<wjob, wanswer, claim, audit, dbVars>>
     \/ /\ ~Pending(Request(h))
        /\ WalletRollback(h)

\* Mutant: the update does not repeat the condition on the status.
ConfirmClaimUnconditional(h) ==
  /\ WalletGoto(h, "confirm-claim", "confirm-lock")
  /\ claim[WalletKey(h)] = Nobody
  /\ claim' = [claim EXCEPT ![WalletKey(h)] = h]
  /\ UNCHANGED <<wjob, wanswer, audit, dbVars>>

\* updateMany ... WHERE status = PENDING waits for the row's current writer,
\* then re-evaluates the condition on the committed row.
ConfirmClaim(h) ==
  /\ wpc[h] = "confirm-claim"
  /\ claim[WalletKey(h)] = Nobody
  /\ \/ /\ Pending(Request(h))
        /\ WalletGoto(h, "confirm-claim", "confirm-lock")
        /\ claim' = [claim EXCEPT ![WalletKey(h)] = h]
        /\ UNCHANGED <<wjob, wanswer, audit, dbVars>>
     \/ /\ ~Pending(Request(h))
        /\ WalletRollback(h)

ConfirmLock(h) ==
  /\ WalletGoto(h, "confirm-lock", "confirm-check")
  /\ TakeLock(<<"transfer", Request(h).user>>, h)
  /\ UNCHANGED <<wjob, wanswer, claim, audit, balance, journal, txn>>

ConfirmCheck(h) ==
  /\ wpc[h] = "confirm-check"
  /\ LET enough == Request(h).type = "WITHDRAWAL"
                     => Available(Request(h).user) >= Request(h).amount
     IN \/ /\ enough
           /\ WalletGoto(h, "confirm-check", "confirm-commit")
           /\ UNCHANGED <<wjob, wanswer, claim, audit, dbVars>>
        \/ /\ ~enough
           /\ WalletRollback(h)

\* Mutant: a deposit is credited to the wrong liability account.
WalletEntryMisposted(key, row) ==
  [key |-> <<"wallet:", key>>, amount |-> row.amount,
   debit  |-> IF row.type = "DEPOSIT" THEN Cash(row.user) ELSE Deposits(row.user),
   credit |-> IF row.type = "DEPOSIT" THEN Obligations(row.user) ELSE Cash(row.user)]

\* The two lines of a wallet entry: what is debited and what is credited.
WalletEntry(key, row) ==
  [key |-> <<"wallet:", key>>, amount |-> row.amount,
   debit  |-> IF row.type = "DEPOSIT" THEN Cash(row.user) ELSE Deposits(row.user),
   credit |-> IF row.type = "DEPOSIT" THEN Deposits(row.user) ELSE Cash(row.user)]

\* buildEntry, saveEntry, the update to COMPLETED, the audit append, COMMIT.
\* A duplicate entry key would be a P2002, which poisons the transaction.
ConfirmCommit(h) ==
  /\ wpc[h] = "confirm-commit"
  /\ LET e == WalletEntry(WalletKey(h), Request(h)) IN
     \/ /\ ~Posted(e.key)
        /\ Post(e.key, e.debit, e.credit, e.amount)
        /\ PutTxn(Raw(WalletKey(h)), [Request(h) EXCEPT !.status = "COMPLETED"])
        /\ audit' = audit \cup {<<"WALLET_REQUEST_APPROVED", WalletKey(h)>>}
        /\ WalletEndTx(h)
     \/ /\ Posted(e.key)
        /\ WalletRollback(h)

-----------------------------------------------------------------------------
(***************************************************************************)
(* rejectRequest: one interactive transaction.                             *)
(***************************************************************************)

RejectStart(h) ==
  /\ WalletGoto(h, "idle", "reject-read")
  /\ \E k \in Keys : wjob' = [wjob EXCEPT ![h] = [key |-> k]]
  /\ UNCHANGED <<wanswer, claim, audit, dbVars>>

RejectRead(h) ==
  /\ wpc[h] = "reject-read"
  /\ \/ /\ Pending(Request(h))
        /\ WalletGoto(h, "reject-read", "reject-claim")
        /\ UNCHANGED <<wjob, wanswer, claim, audit, dbVars>>
     \/ /\ ~Pending(Request(h))
        /\ WalletRollback(h)

\* Mutant: the update does not repeat the condition on the status.
RejectClaimUnconditional(h) ==
  /\ WalletGoto(h, "reject-claim", "reject-commit")
  /\ claim[WalletKey(h)] = Nobody
  /\ claim' = [claim EXCEPT ![WalletKey(h)] = h]
  /\ UNCHANGED <<wjob, wanswer, audit, dbVars>>

RejectClaim(h) ==
  /\ wpc[h] = "reject-claim"
  /\ claim[WalletKey(h)] = Nobody
  /\ \/ /\ Pending(Request(h))
        /\ WalletGoto(h, "reject-claim", "reject-commit")
        /\ claim' = [claim EXCEPT ![WalletKey(h)] = h]
        /\ UNCHANGED <<wjob, wanswer, audit, dbVars>>
     \/ /\ ~Pending(Request(h))
        /\ WalletRollback(h)

\* The CANCELLED row and its audit event become visible together.
RejectCommit(h) ==
  /\ wpc[h] = "reject-commit"
  /\ PutTxn(Raw(WalletKey(h)), [Request(h) EXCEPT !.status = "CANCELLED"])
  /\ audit' = audit \cup {<<"WALLET_REQUEST_REJECTED", WalletKey(h)>>}
  /\ WalletEndTx(h)
  /\ UNCHANGED <<balance, journal>>

-----------------------------------------------------------------------------

\* The client of a create, or the database under an interactive transaction,
\* gives up: a lost connection, Prisma's transaction timeout, a crash of the
\* API process.  Whatever was not committed is rolled back.
WalletAbort(h) == wpc[h] # "idle" /\ WalletRollback(h)

WalletCreate(h) ==
  \/ CreateStart(h) \/ CreateLookup(h) \/ CreateInsert(h)
  \/ CreateRecover(h) \/ CreateRecoverByRef(h) \/ CreateReturn(h)

WalletConfirm(h) ==
  \/ ConfirmStart(h) \/ ConfirmRead(h) \/ ConfirmClaim(h)
  \/ ConfirmLock(h) \/ ConfirmCheck(h) \/ ConfirmCommit(h)

WalletReject(h) ==
  RejectStart(h) \/ RejectRead(h) \/ RejectClaim(h) \/ RejectCommit(h)

WalletStep(h) ==
  WalletCreate(h) \/ WalletConfirm(h) \/ WalletReject(h) \/ WalletAbort(h)

WalletNext == \E h \in WalletHandlers : WalletStep(h)

\* A step the handler's own control flow takes next: any but the arrival of
\* a request and a failure.
WalletProgress(h) ==
  wpc[h] # "idle" /\ (WalletCreate(h) \/ WalletConfirm(h) \/ WalletReject(h))

walletSpecVars == <<dbVars, walletVars>>

\* Fairness.  A handler that has something to do is scheduled; a handler that
\* waits for a row or advisory lock gets it if it keeps becoming free, as
\* PostgreSQL queues waiters in order.  Requests need not arrive, and nothing
\* need fail.
WalletFairness ==
  \A h \in WalletHandlers :
    /\ WF_walletSpecVars(WalletProgress(h))
    /\ SF_walletSpecVars(ConfirmClaim(h))
    /\ SF_walletSpecVars(ConfirmLock(h))
    /\ SF_walletSpecVars(RejectClaim(h))

WalletSpecInit == DbInit /\ WalletInit

WalletSpec ==
  WalletSpecInit /\ [][WalletNext]_walletSpecVars /\ WalletFairness

-----------------------------------------------------------------------------
(***************************************************************************)
(* Properties.                                                             *)
(***************************************************************************)

\* A request gets at most one verdict, however many operators confirm and
\* reject it at once: COMPLETED exactly when it was approved in the audit
\* trail and posted to the journal, CANCELLED exactly when it was rejected,
\* and a request without a verdict has left no trace.
OneVerdict ==
  \A k \in Keys :
    LET row == txn[Raw(k)]
        has(status) == IsWalletRow(row) /\ row.status = status
    IN /\ has("COMPLETED") <=> <<"WALLET_REQUEST_APPROVED", k>> \in audit
       /\ has("COMPLETED") <=> Posted(<<"wallet:", k>>)
       /\ has("CANCELLED") <=> <<"WALLET_REQUEST_REJECTED", k>> \in audit

\* A row createRequest answers with, found by key, by reference or inserted,
\* is the caller's own request.
AnswersAreTheRequest ==
  \A h \in WalletHandlers :
    wpc[h] = "replied" /\ wanswer[h] \in Keys =>
      /\ IsWalletRow(txn[Raw(wanswer[h])])
      /\ SameRequest(txn[Raw(wanswer[h])], wjob[h])

\* Two identical calls that both succeed are told of the same row.
IdenticalCallsShareARow ==
  \A g, h \in WalletHandlers :
    /\ wpc[g] = "replied" /\ wanswer[g] \in Keys
    /\ wpc[h] = "replied" /\ wanswer[h] \in Keys
    /\ wjob[g] = wjob[h]
    => wanswer[g] = wanswer[h]

\* createRequest refuses only what really conflicts: a different request
\* already owns the key or the reference, and a lost insert race never
\* surfaces as the raw P2002.
OnlyConflictsAreRefused ==
  \A h \in WalletHandlers :
    wpc[h] = "replied" /\ wanswer[h] \notin Keys =>
      /\ wanswer[h] = "IDEMPOTENCY_CONFLICT"
      /\ \E k \in TxnKeys :
           /\ txn[k] # NoRow
           /\ k = Raw(WalletKey(h)) \/ txn[k].ref = wjob[h].ref
           /\ ~SameRequest(txn[k], wjob[h])

\* A verdict is final: no step touches a settled request again.
VerdictIsFinal ==
  [][\A k \in Keys :
       IsWalletRow(txn[Raw(k)]) /\ ~Pending(txn[Raw(k)])
         => txn'[Raw(k)] = txn[Raw(k)]]_walletSpecVars

=============================================================================
