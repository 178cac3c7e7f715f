---------------------------- MODULE AuthSessions ----------------------------
(***************************************************************************)
(* AuthService: sessions, the refresh tokens that are rotated within them, *)
(* and revocation.  Passwords, bcrypt and access tokens are left out: a    *)
(* client that presents a token presents a genuine one, of an active user. *)
(* The tables run at READ COMMITTED, as in LedgerStore: the writes of a    *)
(* transaction are applied at its commit, and the row locks it holds until *)
(* then are in "writer".                                                   *)
(***************************************************************************)
EXTENDS Integers, FiniteSets

CONSTANTS
  Sessions,      \* ids of Session rows
  Tokens,        \* ids of RefreshToken rows (the jti of the JWT)
  AuthHandlers,  \* handlers that serve refresh and logout
  None           \* no handler, no token, no row

ASSUME AuthConstants ==
  /\ None \notin AuthHandlers \cup Tokens
  /\ Sessions \cap Tokens = {}
  /\ None \notin [session: Sessions, revoked: BOOLEAN, next: Tokens \cup {None}]
  /\ None \notin [call: {"refresh", "logout"}, token: Tokens]

VARIABLES
  session,  \* Session rows: absent, active, or with revokedAt set
  token,    \* RefreshToken rows: session, revokedAt, replacedById
  expired,  \* sessions and tokens whose expiresAt has passed
  writer,   \* the transaction that holds each row
  apc,      \* where each handler is
  ajob,     \* its call and the token the client sent
  aseen,    \* the rows the second update of revokeSession found
  aanswer   \* what it answered, until the response is delivered

rowVars == <<session, token, expired, writer>>
authVars == <<session, token, expired, writer, apc, ajob, aseen, aanswer>>

TokenRows == [session: Sessions, revoked: BOOLEAN, next: Tokens \cup {None}]
Calls == {"refresh", "logout"}
AuthPcs == {"idle", "find", "session", "claim", "rotate",
            "revoke", "scan", "mark", "replied"}
AuthAnswers == {"NONE", "ROTATED", "REUSE", "REFUSED", "LOGGED_OUT"}

AuthTypeOK ==
  /\ session \in [Sessions -> {"absent", "active", "revoked"}]
  /\ token \in [Tokens -> TokenRows \cup {None}]
  /\ expired \subseteq Sessions \cup Tokens
  /\ writer \in [Sessions \cup Tokens -> AuthHandlers \cup {None}]
  /\ apc \in [AuthHandlers -> AuthPcs]
  /\ ajob \in [AuthHandlers -> [call: Calls, token: Tokens] \cup {None}]
  /\ aseen \in [AuthHandlers -> SUBSET Tokens]
  /\ aanswer \in [AuthHandlers -> AuthAnswers]
  /\ \A h \in AuthHandlers :
       apc[h] # "idle" => ajob[h] # None /\ token[ajob[h].token] # None

AuthInit ==
  /\ session = [s \in Sessions |-> "absent"]
  /\ token = [t \in Tokens |-> None]
  /\ expired = {}
  /\ writer = [r \in Sessions \cup Tokens |-> None]
  /\ apc = [h \in AuthHandlers |-> "idle"]
  /\ ajob = [h \in AuthHandlers |-> None]
  /\ aseen = [h \in AuthHandlers |-> {}]
  /\ aanswer = [h \in AuthHandlers |-> "NONE"]

-----------------------------------------------------------------------------

Sent(h) == ajob[h].token
SentSession(h) == token[Sent(h)].session

Live(t) == token[t] # None /\ ~token[t].revoked

\* createAndStoreRefreshToken: a fresh row under a random id.
NewToken(s) == [session |-> s, revoked |-> FALSE, next |-> None]

\* Bound: the random ids of the code never run out, so nobody logs in or
\* refreshes unless an id is left for every handler that may still rotate.
Refreshing == {h \in AuthHandlers : apc[h] \in {"find", "session", "claim", "rotate"}}
IdsSuffice ==
  Cardinality({t \in Tokens : token[t] = None}) > Cardinality(Refreshing)

\* Mutant: the row locks outlive the transaction.
ReleaseNever(h) == UNCHANGED writer

\* The end of a transaction, either way, gives its rows back.
Release(h) ==
  writer' = [r \in Sessions \cup Tokens |-> IF writer[r] = h THEN None ELSE writer[r]]

AuthGoto(h, to) ==
  /\ apc' = [apc EXCEPT ![h] = to]
  /\ UNCHANGED <<ajob, aanswer>>

AuthReply(h, answer) ==
  /\ apc' = [apc EXCEPT ![h] = "replied"]
  /\ aanswer' = [aanswer EXCEPT ![h] = answer]
  /\ aseen' = [aseen EXCEPT ![h] = {}]
  /\ UNCHANGED ajob

AuthArrive(h, call, t, to) ==
  /\ apc[h] = "idle"
  /\ token[t] # None
  /\ apc' = [apc EXCEPT ![h] = to]
  /\ ajob' = [ajob EXCEPT ![h] = [call |-> call, token |-> t]]

-----------------------------------------------------------------------------

\* login: the session and its first token, in one transaction.
Login ==
  /\ IdsSuffice
  /\ \E s \in Sessions, t \in Tokens :
       /\ session[s] = "absent"
       /\ token[t] = None
       /\ session' = [session EXCEPT ![s] = "active"]
       /\ token' = [token EXCEPT ![t] = NewToken(s)]
  /\ UNCHANGED <<expired, writer, apc, ajob, aseen, aanswer>>

\* jwt.verify refuses an expired token before the database is asked.
RefreshStart(h) ==
  /\ IdsSuffice
  /\ \E t \in Tokens :
       \/ /\ t \notin expired
          /\ AuthArrive(h, "refresh", t, "find")
          /\ UNCHANGED aanswer
       \/ /\ t \in expired
          /\ AuthArrive(h, "refresh", t, "replied")
          /\ aanswer' = [aanswer EXCEPT ![h] = "REFUSED"]
  /\ UNCHANGED <<aseen, rowVars>>

\* The token row, read outside any transaction: revoked means reuse.
RefreshFind(h) ==
  /\ apc[h] = "find"
  /\ \/ token[Sent(h)].revoked /\ AuthGoto(h, "revoke") /\ UNCHANGED aseen
     \/ /\ ~token[Sent(h)].revoked
        /\ \/ Sent(h) \in expired /\ AuthReply(h, "REFUSED")
           \/ Sent(h) \notin expired /\ AuthGoto(h, "session") /\ UNCHANGED aseen
  /\ UNCHANGED rowVars

\* Then the session row, in a statement of its own.
RefreshSession(h) ==
  /\ apc[h] = "session"
  /\ LET valid == session[SentSession(h)] = "active" /\ SentSession(h) \notin expired
     IN \/ valid /\ AuthGoto(h, "claim") /\ UNCHANGED aseen
        \/ ~valid /\ AuthReply(h, "REFUSED")
  /\ UNCHANGED rowVars

\* Mutant: the update does not repeat the condition on revokedAt.
RefreshClaimUnconditional(h) ==
  /\ apc[h] = "claim"
  /\ writer[Sent(h)] = None
  /\ AuthGoto(h, "rotate")
  /\ writer' = [writer EXCEPT ![Sent(h)] = h]
  /\ UNCHANGED <<session, token, expired, aseen>>

\* Mutant: a lost claim is reported, but the session is left alone.
RefreshClaimUnrevoked(h) ==
  /\ apc[h] = "claim"
  /\ writer[Sent(h)] = None
  /\ \/ /\ ~token[Sent(h)].revoked
        /\ AuthGoto(h, "rotate")
        /\ writer' = [writer EXCEPT ![Sent(h)] = h]
        /\ UNCHANGED aseen
     \/ /\ token[Sent(h)].revoked
        /\ AuthReply(h, "REUSE")
        /\ UNCHANGED writer
  /\ UNCHANGED <<session, token, expired>>

\* updateMany ... WHERE revokedAt IS NULL waits for the row's writer, then
\* re-evaluates the condition on the committed row.  A count of 0 is reuse.
RefreshClaim(h) ==
  /\ apc[h] = "claim"
  /\ writer[Sent(h)] = None
  /\ \/ /\ ~token[Sent(h)].revoked
        /\ AuthGoto(h, "rotate")
        /\ writer' = [writer EXCEPT ![Sent(h)] = h]
     \/ /\ token[Sent(h)].revoked
        /\ AuthGoto(h, "revoke")
        /\ UNCHANGED writer
  /\ UNCHANGED <<session, token, expired, aseen>>

\* Mutant: replacedById is not recorded.
RefreshRotateUnlinked(h) ==
  /\ apc[h] = "rotate"
  /\ \E t \in Tokens :
       /\ token[t] = None
       /\ token' = [token EXCEPT ![Sent(h)].revoked = TRUE,
                                 ![t] = NewToken(SentSession(h))]
  /\ AuthReply(h, "ROTATED")
  /\ Release(h)
  /\ UNCHANGED <<session, expired>>

\* The successor's row, the old row's replacedById and revokedAt, COMMIT.
RefreshRotate(h) ==
  /\ apc[h] = "rotate"
  /\ \E t \in Tokens :
       /\ token[t] = None
       /\ token' = [token EXCEPT ![Sent(h)].revoked = TRUE,
                                 ![Sent(h)].next = t,
                                 ![t] = NewToken(SentSession(h))]
  /\ AuthReply(h, "ROTATED")
  /\ Release(h)
  /\ UNCHANGED <<session, expired>>

-----------------------------------------------------------------------------
(***************************************************************************)
(* logout, and revokeSession, which a refresh calls upon reuse.            *)
(***************************************************************************)

\* An expired token fails jwt.verify, and the catch answers success.
LogoutStart(h) ==
  /\ \E t \in Tokens :
       \/ /\ t \notin expired
          /\ AuthArrive(h, "logout", t, "revoke")
          /\ UNCHANGED aanswer
       \/ /\ t \in expired
          /\ AuthArrive(h, "logout", t, "replied")
          /\ aanswer' = [aanswer EXCEPT ![h] = "LOGGED_OUT"]
  /\ UNCHANGED <<aseen, rowVars>>

\* The first update: the session row, if it is not revoked yet.
RevokeSession(h) ==
  /\ apc[h] = "revoke"
  /\ writer[SentSession(h)] = None
  /\ AuthGoto(h, "scan")
  /\ \/ /\ session[SentSession(h)] = "active"
        /\ writer' = [writer EXCEPT ![SentSession(h)] = h]
     \/ /\ session[SentSession(h)] # "active"
        /\ UNCHANGED writer
  /\ UNCHANGED <<session, token, expired, aseen>>

\* The second update finds the live tokens in its statement's snapshot: a
\* successor that a refresh has inserted and not committed is not among them.
RevokeScan(h) ==
  /\ apc[h] = "scan"
  /\ AuthGoto(h, "mark")
  /\ aseen' = [aseen EXCEPT ![h] =
                 {t \in Tokens : Live(t) /\ token[t].session = SentSession(h)}]
  /\ UNCHANGED rowVars

\* Mutant: the update does not wait for the rows' writers.
RevokeCommitAnyway(h) ==
  /\ apc[h] = "mark"
  /\ session' = [session EXCEPT ![SentSession(h)] = "revoked"]
  /\ token' = [t \in Tokens |->
                 IF t \in aseen[h] THEN [token[t] EXCEPT !.revoked = TRUE] ELSE token[t]]
  /\ AuthReply(h, IF ajob[h].call = "refresh" THEN "REUSE" ELSE "LOGGED_OUT")
  /\ Release(h)
  /\ UNCHANGED expired

\* Mutant: the rows are written back whole, as the statement found them.
RevokeCommitRewrites(h) ==
  /\ apc[h] = "mark"
  /\ \A t \in aseen[h] : writer[t] = None
  /\ session' = [session EXCEPT ![SentSession(h)] = "revoked"]
  /\ token' = [t \in Tokens |->
                 IF t \in aseen[h]
                 THEN [NewToken(SentSession(h)) EXCEPT !.revoked = TRUE] ELSE token[t]]
  /\ AuthReply(h, IF ajob[h].call = "refresh" THEN "REUSE" ELSE "LOGGED_OUT")
  /\ Release(h)
  /\ UNCHANGED expired

\* It waits for their writers, skips what was revoked meanwhile, COMMIT.
RevokeCommit(h) ==
  /\ apc[h] = "mark"
  /\ \A t \in aseen[h] : writer[t] = None
  /\ session' = [session EXCEPT ![SentSession(h)] = "revoked"]
  /\ token' = [t \in Tokens |->
                 IF t \in aseen[h] THEN [token[t] EXCEPT !.revoked = TRUE] ELSE token[t]]
  /\ AuthReply(h, IF ajob[h].call = "refresh" THEN "REUSE" ELSE "LOGGED_OUT")
  /\ Release(h)
  /\ UNCHANGED expired

-----------------------------------------------------------------------------

AuthReturn(h) ==
  /\ apc[h] = "replied"
  /\ apc' = [apc EXCEPT ![h] = "idle"]
  /\ ajob' = [ajob EXCEPT ![h] = None]
  /\ aanswer' = [aanswer EXCEPT ![h] = "NONE"]
  /\ UNCHANGED <<aseen, rowVars>>

\* The database fails a call, or a transaction times out and is rolled back:
\* refresh's catch answers "Invalid token", logout's answers success.
AuthFail(h) ==
  /\ apc[h] \notin {"idle", "replied"}
  /\ AuthReply(h, IF ajob[h].call = "refresh" THEN "REFUSED" ELSE "LOGGED_OUT")
  /\ Release(h)
  /\ UNCHANGED <<session, token, expired>>

\* The API process crashes.
AuthCrash(h) ==
  /\ apc[h] # "idle"
  /\ apc' = [apc EXCEPT ![h] = "idle"]
  /\ ajob' = [ajob EXCEPT ![h] = None]
  /\ aseen' = [aseen EXCEPT ![h] = {}]
  /\ aanswer' = [aanswer EXCEPT ![h] = "NONE"]
  /\ Release(h)
  /\ UNCHANGED <<session, token, expired>>

\* expiresAt passes.  All tokens live equally long, so a successor expires
\* after its predecessor; the session's own term may be any.
Expire ==
  /\ \/ \E s \in Sessions : session[s] # "absent" /\ expired' = expired \cup {s}
     \/ \E t \in Tokens :
          /\ token[t] # None
          /\ \A u \in Tokens :
               token[u] # None /\ token[u].next = t => u \in expired
          /\ expired' = expired \cup {t}
  /\ UNCHANGED <<session, token, writer, apc, ajob, aseen, aanswer>>

AuthProgress(h) ==
  \/ RefreshFind(h) \/ RefreshSession(h) \/ RefreshClaim(h) \/ RefreshRotate(h)
  \/ RevokeSession(h) \/ RevokeScan(h) \/ RevokeCommit(h) \/ AuthReturn(h)

AuthNext ==
  \/ Login \/ Expire
  \/ \E h \in AuthHandlers :
       \/ RefreshStart(h) \/ LogoutStart(h) \/ AuthProgress(h)
       \/ AuthFail(h) \/ AuthCrash(h)

\* Node runs every handler whose promise has settled, and PostgreSQL serves
\* the writers of a row in the order they queued: no handler that can take
\* its next step again and again is passed over for ever.
AuthFairness == \A h \in AuthHandlers : SF_authVars(AuthProgress(h))

AuthSpec == AuthInit /\ [][AuthNext]_authVars /\ AuthFairness

-----------------------------------------------------------------------------
(***************************************************************************)
(* Properties.                                                             *)
(***************************************************************************)

\* A session never has two live tokens, however refreshes of one token race
\* each other and a revocation; and while it is active it has one, so its
\* client is not locked out.
OneLiveToken ==
  \A s \in Sessions :
    LET live == {t \in Tokens : Live(t) /\ token[t].session = s}
    IN /\ \A t, u \in live : t = u
       /\ session[s] = "active" => live # {}

\* Rotation makes a chain: a replaced token is dead, its successor is of the
\* same session and succeeds nothing else, and a token died without one only
\* if its session was revoked.
TokensAreAChain ==
  \A t \in Tokens : token[t] # None =>
    LET u == token[t].next IN
    /\ u # None =>
         /\ token[t].revoked
         /\ u # t
         /\ token[u] # None /\ token[u].session = token[t].session
         /\ \A v \in Tokens : token[v] # None /\ token[v].next = u => v = t
    /\ token[t].revoked /\ u = None => session[token[t].session] = "revoked"

\* What the client is told is true: after ROTATED its token has a successor,
\* and after REUSE the token was dead already and the session is revoked now
\* (a revocation that fails answers differently).
AuthAnswersAreTrue ==
  \A h \in AuthHandlers :
    /\ aanswer[h] = "ROTATED" => token[Sent(h)].next # None
    /\ aanswer[h] = "REUSE" =>
         token[Sent(h)].revoked /\ session[SentSession(h)] = "revoked"

\* Revocation is for good: a late refresh or a second revocation, which wait
\* for rows they read earlier, never brings a row back to life and never
\* rewrites what a rotation recorded.
RevokedForGood ==
  [][/\ \A s \in Sessions : session[s] = "revoked" => session'[s] = "revoked"
     /\ \A t \in Tokens : token[t] # None =>
          /\ token'[t] # None /\ token'[t].session = token[t].session
          /\ token[t].revoked => token'[t].revoked
          /\ token[t].next # None => token'[t].next = token[t].next]_authVars

\* Refreshes and logouts that wait for each other's rows all answer.
AuthHandlersFinish == \A h \in AuthHandlers : apc[h] # "idle" ~> apc[h] = "idle"

-----------------------------------------------------------------------------
(***************************************************************************)
(* The inductive invariant.                                                *)
(***************************************************************************)

\* A refresh that has claimed its token holds the row, which is live.
RotatorsHold ==
  \A h \in AuthHandlers :
    apc[h] = "rotate" => writer[Sent(h)] = h /\ Live(Sent(h))

\* A revocation only ever marks tokens of its own session.
SeenAreItsSessions ==
  \A h \in AuthHandlers :
    \A t \in aseen[h] :
      apc[h] = "mark" /\ token[t] # None /\ token[t].session = SentSession(h)

\* A refresh revokes the session only because its token is dead.
RevokersAnswerReuse ==
  \A h \in AuthHandlers :
    apc[h] \in {"revoke", "scan", "mark"} /\ ajob[h].call = "refresh" =>
      token[Sent(h)].revoked

TokensHaveSessions ==
  \A t \in Tokens : token[t] # None => session[token[t].session] # "absent"

AnswersWait == \A h \in AuthHandlers : aanswer[h] # "NONE" => apc[h] = "replied"

AuthInv ==
  /\ AuthTypeOK
  /\ RotatorsHold
  /\ SeenAreItsSessions
  /\ RevokersAnswerReuse
  /\ TokensHaveSessions
  /\ AnswersWait
  /\ OneLiveToken
  /\ TokensAreAChain
  /\ AuthAnswersAreTrue

=============================================================================
