------------------------ MODULE AuthSessions_proofs ------------------------
(***************************************************************************)
(* AuthInv is an inductive invariant of AuthSessions, for any number of    *)
(* sessions, tokens and handlers; the safety properties follow, and so     *)
(* does that a revocation is for good.                                     *)
(***************************************************************************)
EXTENDS AuthSessions, TLAPS

\* A refresh or a logout is at work: everything a handler does but arrive.
Works(h) == AuthProgress(h) \/ AuthFail(h) \/ AuthCrash(h)

-----------------------------------------------------------------------------
(***************************************************************************)
(* What the three steps that write rows do to them.                        *)
(***************************************************************************)

\* A new token is live, of its session, and has no successor.
LEMMA NewTokens ==
  \A s \in Sessions :
    /\ NewToken(s).session = s /\ ~NewToken(s).revoked /\ NewToken(s).next = None
    /\ NewToken(s) \in TokenRows
  BY DEF NewToken, TokenRows

\* login adds a session, and a live first token to it.
LEMMA LoginRows ==
  ASSUME AuthTypeOK, Login
  PROVE  \E s \in Sessions, t \in Tokens :
           /\ session[s] = "absent" /\ token[t] = None
           /\ session' = [session EXCEPT ![s] = "active"]
           /\ token'[t] = NewToken(s) /\ token'[t] \in TokenRows
           /\ \A u \in Tokens \ {t} : token'[u] = token[u]
<1>1. PICK s \in Sessions, t \in Tokens :
        /\ session[s] = "absent" /\ token[t] = None
        /\ session' = [session EXCEPT ![s] = "active"]
        /\ token' = [token EXCEPT ![t] = NewToken(s)]
  BY DEF Login
<1>2. token'[t] = NewToken(s) /\ \A u \in Tokens \ {t} : token'[u] = token[u]
  BY <1>1 DEF AuthTypeOK
<1> QED BY <1>1, <1>2, NewTokens

\* A rotation gives a live token a live successor in its session.
LEMMA RotateRows ==
  ASSUME AuthTypeOK, RotatorsHold, NEW h \in AuthHandlers, RefreshRotate(h)
  PROVE  /\ Sent(h) \in Tokens /\ Live(Sent(h)) /\ writer[Sent(h)] = h
         /\ SentSession(h) \in Sessions
         /\ \E t \in Tokens :
              /\ token[t] = None /\ t # Sent(h)
              /\ token'[t] = NewToken(SentSession(h)) /\ token'[t] \in TokenRows
              /\ token'[Sent(h)] \in TokenRows /\ token'[Sent(h)].revoked
              /\ token'[Sent(h)].session = SentSession(h) /\ token'[Sent(h)].next = t
              /\ \A u \in Tokens \ {t, Sent(h)} : token'[u] = token[u]
<1>1. PICK t \in Tokens :
        /\ token[t] = None
        /\ token' = [token EXCEPT ![Sent(h)].revoked = TRUE,
                                  ![Sent(h)].next = t,
                                  ![t] = NewToken(SentSession(h))]
  BY DEF RefreshRotate
<1>2. Sent(h) \in Tokens /\ token[Sent(h)] \in TokenRows /\ Live(Sent(h))
      /\ writer[Sent(h)] = h
  BY DEF RefreshRotate, AuthTypeOK, RotatorsHold, Sent
<1>3. t # Sent(h) /\ SentSession(h) \in Sessions
  BY <1>1, <1>2, AuthConstants DEF TokenRows, SentSession, Live
<1>4. token'[t] = NewToken(SentSession(h)) /\ token'[t] \in TokenRows
  BY <1>1, <1>3 DEF AuthTypeOK, NewToken, TokenRows
<1>5. token'[Sent(h)] = [token[Sent(h)] EXCEPT !.revoked = TRUE, !.next = t]
  BY <1>1, <1>2, <1>3 DEF AuthTypeOK
<1>6. /\ token'[Sent(h)] \in TokenRows /\ token'[Sent(h)].revoked
      /\ token'[Sent(h)].session = SentSession(h) /\ token'[Sent(h)].next = t
  BY <1>2, <1>5 DEF TokenRows, SentSession
<1> QED BY <1>1, <1>2, <1>3, <1>4, <1>6 DEF AuthTypeOK

\* A revocation marks its session, and the tokens it saw, which nobody holds.
LEMMA RevokeRows ==
  ASSUME AuthTypeOK, SeenAreItsSessions, NEW h \in AuthHandlers, RevokeCommit(h)
  PROVE  /\ session' = [session EXCEPT ![SentSession(h)] = "revoked"]
         /\ SentSession(h) \in Sessions
         /\ \A t \in aseen[h] :
              /\ t \in Tokens /\ writer[t] = None /\ token[t] # None
              /\ token[t].session = SentSession(h)
              /\ token'[t] \in TokenRows /\ token'[t].revoked
              /\ token'[t].session = token[t].session /\ token'[t].next = token[t].next
         /\ \A t \in Tokens \ aseen[h] : token'[t] = token[t]
<1>1. Sent(h) \in Tokens /\ token[Sent(h)] \in TokenRows
  BY DEF RevokeCommit, AuthTypeOK, Sent
<1>2. SentSession(h) \in Sessions
  BY <1>1 DEF SentSession, TokenRows
<1>3. \A t \in Tokens :
        token'[t] = IF t \in aseen[h] THEN [token[t] EXCEPT !.revoked = TRUE] ELSE token[t]
  BY DEF RevokeCommit
<1>4. ASSUME NEW t \in aseen[h]
      PROVE  /\ t \in Tokens /\ writer[t] = None /\ token[t] # None
             /\ token[t].session = SentSession(h)
             /\ token'[t] \in TokenRows /\ token'[t].revoked
             /\ token'[t].session = token[t].session /\ token'[t].next = token[t].next
  <2>1. t \in Tokens /\ writer[t] = None /\ token[t] # None
        /\ token[t].session = SentSession(h) /\ token[t] \in TokenRows
    BY <1>4 DEF RevokeCommit, SeenAreItsSessions, AuthTypeOK
  <2>2. token'[t] = [token[t] EXCEPT !.revoked = TRUE]
    BY <1>3, <1>4, <2>1
  <2> QED BY <2>1, <2>2 DEF TokenRows
<1> QED BY <1>2, <1>3, <1>4 DEF RevokeCommit

\* No other step writes a row.
LEMMA OtherRows ==
  ASSUME AuthNext
  PROVE  \/ Login
         \/ \E h \in AuthHandlers : RefreshRotate(h) \/ RevokeCommit(h)
         \/ UNCHANGED <<session, token>>
  BY DEF AuthNext, Expire, RefreshStart, LogoutStart, AuthProgress, AuthFail,
     AuthCrash, RefreshFind, RefreshSession, RefreshClaim, RevokeSession,
     RevokeScan, AuthReturn, rowVars

-----------------------------------------------------------------------------
(***************************************************************************)
(* Rows only ever age.                                                     *)
(***************************************************************************)

\* The body of RevokedForGood: a token keeps its session, a dead one stays
\* dead, a successor stays recorded, a revoked session stays revoked.
RowsAge ==
  /\ \A s \in Sessions : session[s] = "revoked" => session'[s] = "revoked"
  /\ \A t \in Tokens : token[t] # None =>
       /\ token'[t] # None /\ token'[t].session = token[t].session
       /\ token[t].revoked => token'[t].revoked
       /\ token[t].next # None => token'[t].next = token[t].next

LEMMA RowsAreNotNone == None \notin TokenRows
  BY AuthConstants DEF TokenRows

LEMMA StepAgesRows == AuthInv /\ [AuthNext]_authVars => RowsAge
<1> SUFFICES ASSUME AuthInv, [AuthNext]_authVars PROVE RowsAge
  OBVIOUS
<1>t. AuthTypeOK /\ RotatorsHold /\ SeenAreItsSessions
  BY DEF AuthInv
<1>1. CASE Login
  <2>1. PICK s \in Sessions, t \in Tokens :
          /\ session[s] = "absent" /\ token[t] = None
          /\ session' = [session EXCEPT ![s] = "active"]
          /\ \A u \in Tokens \ {t} : token'[u] = token[u]
    BY <1>1, <1>t, LoginRows
  <2> QED BY <2>1, <1>t DEF AuthTypeOK, RowsAge
<1>2. ASSUME NEW h \in AuthHandlers, RefreshRotate(h) PROVE RowsAge
  <2>1. Sent(h) \in Tokens /\ Live(Sent(h))
    BY <1>2, <1>t, RotateRows
  <2>2. PICK t \in Tokens :
          /\ token[t] = None /\ t # Sent(h)
          /\ token'[Sent(h)] \in TokenRows /\ token'[Sent(h)].revoked
          /\ token'[Sent(h)].session = SentSession(h)
          /\ \A u \in Tokens \ {t, Sent(h)} : token'[u] = token[u]
    BY <1>2, <1>t, RotateRows
  <2>3. token[Sent(h)].next = None
    BY <2>1 DEF AuthInv, TokensAreAChain, Live
  <2>4. session' = session
    BY <1>2 DEF RefreshRotate
  <2> QED BY <2>1, <2>2, <2>3, <2>4, RowsAreNotNone DEF RowsAge, SentSession
<1>3. ASSUME NEW h \in AuthHandlers, RevokeCommit(h) PROVE RowsAge
  <2>1. \A s \in Sessions : session[s] = "revoked" => session'[s] = "revoked"
    BY <1>3, <1>t, RevokeRows DEF AuthTypeOK
  <2> QED BY <1>3, <1>t, <2>1, RevokeRows, RowsAreNotNone DEF RowsAge
<1>4. CASE UNCHANGED <<session, token>>
  BY <1>4 DEF RowsAge
<1> QED BY <1>1, <1>2, <1>3, <1>4, OtherRows DEF authVars

-----------------------------------------------------------------------------
(***************************************************************************)
(* Types.                                                                  *)
(***************************************************************************)

LEMMA AuthInitType == AuthInit => AuthTypeOK
  BY DEF AuthInit, AuthTypeOK, AuthPcs, AuthAnswers

LEMMA RowsType ==
  ASSUME AuthInv, [AuthNext]_authVars
  PROVE  /\ session' \in [Sessions -> {"absent", "active", "revoked"}]
         /\ token' \in [Tokens -> TokenRows \cup {None}]
<1>t. AuthTypeOK /\ RotatorsHold /\ SeenAreItsSessions
  BY DEF AuthInv
<1>1. CASE Login
  <2>1. PICK s \in Sessions, t \in Tokens :
          /\ session' = [session EXCEPT ![s] = "active"]
          /\ token'[t] \in TokenRows
          /\ \A u \in Tokens \ {t} : token'[u] = token[u]
    BY <1>1, <1>t, LoginRows
  <2>2. token' = [u \in Tokens |-> token'[u]]
    BY <1>1, <1>t DEF Login, AuthTypeOK
  <2> QED BY <2>1, <2>2, <1>t DEF AuthTypeOK
<1>2. ASSUME NEW h \in AuthHandlers, RefreshRotate(h)
      PROVE  /\ session' \in [Sessions -> {"absent", "active", "revoked"}]
             /\ token' \in [Tokens -> TokenRows \cup {None}]
  <2>1. PICK t \in Tokens :
          /\ token'[t] \in TokenRows /\ token'[Sent(h)] \in TokenRows
          /\ \A u \in Tokens \ {t, Sent(h)} : token'[u] = token[u]
    BY <1>2, <1>t, RotateRows
  <2>2. token' = [u \in Tokens |-> token'[u]]
    BY <1>2, <1>t DEF RefreshRotate, AuthTypeOK
  <2> QED BY <1>2, <2>1, <2>2, <1>t DEF AuthTypeOK, RefreshRotate
<1>3. ASSUME NEW h \in AuthHandlers, RevokeCommit(h)
      PROVE  /\ session' \in [Sessions -> {"absent", "active", "revoked"}]
             /\ token' \in [Tokens -> TokenRows \cup {None}]
  <2>1. \A t \in Tokens : token'[t] \in TokenRows \cup {None}
    BY <1>3, <1>t, RevokeRows DEF AuthTypeOK
  <2>2. token' = [t \in Tokens |-> token'[t]]
    BY <1>3 DEF RevokeCommit
  <2>3. session' \in [Sessions -> {"absent", "active", "revoked"}]
    BY <1>3, <1>t, RevokeRows DEF AuthTypeOK
  <2> QED BY <2>1, <2>2, <2>3
<1>4. CASE UNCHANGED <<session, token>>
  BY <1>4, <1>t DEF AuthTypeOK
<1> QED BY <1>1, <1>2, <1>3, <1>4, OtherRows DEF authVars

LEMMA JobsAreNotNone ==
  \A call \in Calls, t \in Tokens : [call |-> call, token |-> t] # None
  BY AuthConstants DEF Calls

\* The locals of the handlers and the row locks.
LocalsTyped ==
  /\ expired' \subseteq Sessions \cup Tokens
  /\ writer' \in [Sessions \cup Tokens -> AuthHandlers \cup {None}]
  /\ apc' \in [AuthHandlers -> AuthPcs]
  /\ ajob' \in [AuthHandlers -> [call: Calls, token: Tokens] \cup {None}]
  /\ aseen' \in [AuthHandlers -> SUBSET Tokens]
  /\ aanswer' \in [AuthHandlers -> AuthAnswers]
  /\ \A h \in AuthHandlers :
       apc'[h] # "idle" => ajob'[h] # None /\ token[ajob'[h].token] # None

LEMMA ReleaseType ==
  ASSUME AuthTypeOK, NEW h \in AuthHandlers, Release(h)
  PROVE  writer' \in [Sessions \cup Tokens -> AuthHandlers \cup {None}]
  BY DEF Release, AuthTypeOK

\* An answer given by a handler at work.
LEMMA ReplyType ==
  ASSUME AuthTypeOK, NEW h \in AuthHandlers, NEW answer \in AuthAnswers,
         apc[h] # "idle", AuthReply(h, answer), expired' = expired,
         writer' \in [Sessions \cup Tokens -> AuthHandlers \cup {None}]
  PROVE  LocalsTyped
<1>1. apc' \in [AuthHandlers -> AuthPcs] /\ ajob' = ajob
      /\ aseen' \in [AuthHandlers -> SUBSET Tokens]
      /\ aanswer' \in [AuthHandlers -> AuthAnswers]
  BY DEF AuthReply, AuthTypeOK, AuthPcs
<1>2. \A g \in AuthHandlers : apc'[g] # "idle" => apc[g] # "idle"
  BY DEF AuthReply, AuthTypeOK
<1> QED BY <1>1, <1>2 DEF LocalsTyped, AuthTypeOK

\* A handler at work goes on.
LEMMA GotoType ==
  ASSUME AuthTypeOK, NEW h \in AuthHandlers, NEW to \in AuthPcs,
         apc[h] # "idle", AuthGoto(h, to), expired' = expired,
         aseen' \in [AuthHandlers -> SUBSET Tokens],
         writer' \in [Sessions \cup Tokens -> AuthHandlers \cup {None}]
  PROVE  LocalsTyped
<1>1. apc' \in [AuthHandlers -> AuthPcs] /\ ajob' = ajob /\ aanswer' = aanswer
  BY DEF AuthGoto, AuthTypeOK
<1>2. \A g \in AuthHandlers : apc'[g] # "idle" => apc[g] # "idle"
  BY DEF AuthGoto, AuthTypeOK
<1> QED BY <1>1, <1>2 DEF LocalsTyped, AuthTypeOK

\* A handler starts, and may be answered at once.
LEMMA ArriveType ==
  ASSUME AuthTypeOK, NEW h \in AuthHandlers, RefreshStart(h) \/ LogoutStart(h)
  PROVE  LocalsTyped
<1>1. PICK t \in Tokens, call \in Calls, to \in AuthPcs : AuthArrive(h, call, t, to)
  BY DEF RefreshStart, LogoutStart, Calls, AuthPcs
<1>2. /\ expired' = expired /\ writer' = writer /\ aseen' = aseen
      /\ aanswer' \in [AuthHandlers -> AuthAnswers]
  BY DEF RefreshStart, LogoutStart, AuthTypeOK, AuthAnswers, rowVars
<1>3. /\ apc' \in [AuthHandlers -> AuthPcs]
      /\ ajob' \in [AuthHandlers -> [call: Calls, token: Tokens] \cup {None}]
  BY <1>1 DEF AuthArrive, AuthTypeOK
<1>4. ASSUME NEW g \in AuthHandlers, apc'[g] # "idle"
      PROVE  ajob'[g] # None /\ token[ajob'[g].token] # None
  <2>1. CASE g = h
    <3>1. ajob'[g] = [call |-> call, token |-> t] /\ token[t] # None
      BY <1>1, <2>1 DEF AuthArrive, AuthTypeOK
    <3> QED BY <3>1, JobsAreNotNone
  <2>2. CASE g # h
    BY <1>1, <1>4, <2>2 DEF AuthArrive, AuthTypeOK
  <2> QED BY <2>1, <2>2
<1>5. /\ writer' \in [Sessions \cup Tokens -> AuthHandlers \cup {None}]
      /\ expired' \subseteq Sessions \cup Tokens /\ aseen' \in [AuthHandlers -> SUBSET Tokens]
  BY <1>2 DEF AuthTypeOK
<1> QED BY <1>2, <1>3, <1>4, <1>5 DEF LocalsTyped

\* A handler ends, by returning or in a crash.
LEMMA EndType ==
  ASSUME AuthTypeOK, NEW h \in AuthHandlers, AuthReturn(h) \/ AuthCrash(h)
  PROVE  LocalsTyped
<1>1. /\ expired' \subseteq Sessions \cup Tokens
      /\ writer' \in [Sessions \cup Tokens -> AuthHandlers \cup {None}]
  BY ReleaseType DEF AuthReturn, AuthCrash, AuthTypeOK, rowVars
<1>2. /\ apc' = [apc EXCEPT ![h] = "idle"]
      /\ ajob' = [ajob EXCEPT ![h] = None]
      /\ aseen' = aseen \/ aseen' = [aseen EXCEPT ![h] = {}]
      /\ aanswer' = [aanswer EXCEPT ![h] = "NONE"]
  BY DEF AuthReturn, AuthCrash
<1>3. \A g \in AuthHandlers : apc'[g] # "idle" =>
        ajob'[g] # None /\ token[ajob'[g].token] # None
  BY <1>2 DEF AuthTypeOK
<1>4. /\ apc' \in [AuthHandlers -> AuthPcs]
      /\ ajob' \in [AuthHandlers -> [call: Calls, token: Tokens] \cup {None}]
      /\ aseen' \in [AuthHandlers -> SUBSET Tokens]
      /\ aanswer' \in [AuthHandlers -> AuthAnswers]
  BY <1>2 DEF AuthTypeOK, AuthPcs, AuthAnswers
<1> QED BY <1>1, <1>3, <1>4 DEF LocalsTyped

LEMMA WorkType ==
  ASSUME AuthTypeOK, NEW h \in AuthHandlers, Works(h)
  PROVE  LocalsTyped
<1> USE DEF AuthPcs, AuthAnswers
<1>w. apc[h] # "idle" => Sent(h) \in Tokens /\ SentSession(h) \in Sessions
  <2> SUFFICES ASSUME apc[h] # "idle"
               PROVE  Sent(h) \in Tokens /\ SentSession(h) \in Sessions
    OBVIOUS
  <2>1. Sent(h) \in Tokens /\ token[Sent(h)] \in TokenRows
    BY DEF AuthTypeOK, Sent
  <2> QED BY <2>1 DEF SentSession, TokenRows
<1>1. CASE RefreshFind(h)
  BY <1>1, ReplyType, GotoType DEF RefreshFind, AuthTypeOK, rowVars
<1>2. CASE RefreshSession(h)
  BY <1>2, ReplyType, GotoType DEF RefreshSession, AuthTypeOK, rowVars
<1>3. CASE RefreshClaim(h)
  <2>1. writer' \in [Sessions \cup Tokens -> AuthHandlers \cup {None}]
    BY <1>3, <1>w DEF RefreshClaim, AuthTypeOK
  <2> QED BY <1>3, <2>1, GotoType DEF RefreshClaim, AuthTypeOK
<1>4. CASE RefreshRotate(h)
  BY <1>4, ReplyType, ReleaseType DEF RefreshRotate
<1>5. CASE RevokeSession(h)
  <2>1. writer' \in [Sessions \cup Tokens -> AuthHandlers \cup {None}]
    BY <1>5, <1>w DEF RevokeSession, AuthTypeOK
  <2> QED BY <1>5, <2>1, GotoType DEF RevokeSession, AuthTypeOK
<1>6. CASE RevokeScan(h)
  <2>1. aseen' \in [AuthHandlers -> SUBSET Tokens]
    BY <1>6 DEF RevokeScan, AuthTypeOK
  <2> QED BY <1>6, <2>1, GotoType DEF RevokeScan, AuthTypeOK, rowVars
<1>7. CASE RevokeCommit(h)
  BY <1>7, ReplyType, ReleaseType DEF RevokeCommit
<1>8. CASE AuthFail(h)
  BY <1>8, ReplyType, ReleaseType DEF AuthFail
<1>9. CASE AuthReturn(h) \/ AuthCrash(h)
  BY <1>9, EndType
<1> QED BY <1>1, <1>2, <1>3, <1>4, <1>5, <1>6, <1>7, <1>8, <1>9 DEF Works, AuthProgress

\* The rows age, so that a token that a handler was sent is not lost.
LEMMA AuthTypeRest == AuthInv /\ [AuthNext]_authVars /\ LocalsTyped => AuthTypeOK'
<1> SUFFICES ASSUME AuthInv, [AuthNext]_authVars, LocalsTyped PROVE AuthTypeOK'
  OBVIOUS
<1>1. ASSUME NEW h \in AuthHandlers, apc'[h] # "idle"
      PROVE  ajob'[h] # None /\ token'[ajob'[h].token] # None
  <2>1. ajob'[h] # None /\ token[ajob'[h].token] # None /\ ajob'[h].token \in Tokens
    BY <1>1 DEF LocalsTyped
  <2> QED BY <2>1, StepAgesRows DEF RowsAge
<1> QED BY <1>1, RowsType DEF LocalsTyped, AuthTypeOK

LEMMA AuthNextType == AuthInv /\ [AuthNext]_authVars => AuthTypeOK'
<1> SUFFICES ASSUME AuthInv, [AuthNext]_authVars PROVE AuthTypeOK'
  OBVIOUS
<1>t. AuthTypeOK
  BY DEF AuthInv
<1>1. CASE Login \/ Expire \/ UNCHANGED authVars
  <2>1. expired' \subseteq Sessions \cup Tokens
    BY <1>1, <1>t DEF Login, Expire, authVars, AuthTypeOK
  <2>2. UNCHANGED <<writer, apc, ajob, aseen, aanswer>>
    BY <1>1 DEF Login, Expire, authVars
  <2>3. LocalsTyped
    BY <2>1, <2>2, <1>t DEF AuthTypeOK, LocalsTyped
  <2> QED BY <2>3, AuthTypeRest
<1>2. ASSUME NEW h \in AuthHandlers, RefreshStart(h) \/ LogoutStart(h) \/ Works(h)
      PROVE  LocalsTyped
  BY <1>2, <1>t, ArriveType, WorkType
<1> QED BY <1>1, <1>2, AuthTypeRest DEF AuthNext, Works

-----------------------------------------------------------------------------
(***************************************************************************)
(* What each handler knows stays true, whoever takes a step.               *)
(***************************************************************************)

\* The named parts of AuthInv that speak of one handler's locals.
Knows(h) ==
  /\ \A t \in aseen[h] :
       apc[h] = "mark" /\ token[t] # None /\ token[t].session = SentSession(h)
  /\ apc[h] \in {"revoke", "scan", "mark"} /\ ajob[h].call = "refresh" =>
       token[Sent(h)].revoked
  /\ aanswer[h] # "NONE" => apc[h] = "replied"
  /\ aanswer[h] = "ROTATED" => token[Sent(h)].next # None
  /\ aanswer[h] = "REUSE" =>
       token[Sent(h)].revoked /\ session[SentSession(h)] = "revoked"

LEMMA EveryoneKnows ==
  (\A h \in AuthHandlers : Knows(h)) <=>
    SeenAreItsSessions /\ RevokersAnswerReuse /\ AnswersWait /\ AuthAnswersAreTrue
  BY DEF Knows, SeenAreItsSessions, RevokersAnswerReuse, AnswersWait, AuthAnswersAreTrue

\* A handler's step leaves the other handlers' locals alone.
LEMMA OthersLocals ==
  ASSUME AuthTypeOK, NEW h \in AuthHandlers, NEW g \in AuthHandlers, g # h,
         RefreshStart(h) \/ LogoutStart(h) \/ Works(h)
  PROVE  /\ apc'[g] = apc[g] /\ ajob'[g] = ajob[g]
         /\ aseen'[g] = aseen[g] /\ aanswer'[g] = aanswer[g]
<1> USE DEF AuthTypeOK, AuthGoto, AuthReply
<1>1. CASE RefreshStart(h) \/ LogoutStart(h)
  BY <1>1 DEF RefreshStart, LogoutStart, AuthArrive
<1>2. CASE RefreshFind(h) \/ RefreshSession(h) \/ RefreshClaim(h) \/ RefreshRotate(h)
  BY <1>2 DEF RefreshFind, RefreshSession, RefreshClaim, RefreshRotate
<1>3. CASE RevokeSession(h) \/ RevokeScan(h) \/ RevokeCommit(h)
  BY <1>3 DEF RevokeSession, RevokeScan, RevokeCommit
<1>4. CASE AuthReturn(h) \/ AuthFail(h) \/ AuthCrash(h)
  BY <1>4 DEF AuthReturn, AuthFail, AuthCrash
<1> QED BY <1>1, <1>2, <1>3, <1>4 DEF Works, AuthProgress

\* The token a handler at work was sent is a row, in a session.
LEMMA SentRows ==
  ASSUME AuthTypeOK, NEW h \in AuthHandlers, apc[h] # "idle"
  PROVE  /\ Sent(h) \in Tokens /\ token[Sent(h)] \in TokenRows
         /\ token[Sent(h)] # None /\ SentSession(h) \in Sessions
<1>1. Sent(h) \in Tokens /\ token[Sent(h)] \in TokenRows /\ token[Sent(h)] # None
  BY DEF AuthTypeOK, Sent
<1> QED BY <1>1 DEF SentSession, TokenRows

\* As long as its job is the same, so are the token and the session it is about.
LEMMA SentKeeps ==
  ASSUME AuthTypeOK, RowsAge, NEW h \in AuthHandlers, apc[h] # "idle",
         ajob'[h] = ajob[h]
  PROVE  /\ Sent(h)' = Sent(h) /\ SentSession(h)' = SentSession(h)
         /\ token[Sent(h)].revoked => token'[Sent(h)].revoked
         /\ token[Sent(h)].next # None => token'[Sent(h)].next # None
         /\ session[SentSession(h)] = "revoked" => session'[SentSession(h)] = "revoked"
  BY SentRows DEF Sent, SentSession, RowsAge

LEMMA BystanderKnows ==
  ASSUME AuthTypeOK, RowsAge, NEW g \in AuthHandlers, Knows(g),
         apc'[g] = apc[g], ajob'[g] = ajob[g], aseen'[g] = aseen[g],
         aanswer'[g] = aanswer[g]
  PROVE  Knows(g)'
<1>1. CASE apc[g] = "idle"
  BY <1>1 DEF Knows
<1>2. CASE apc[g] # "idle"
  <2>1. /\ Sent(g)' = Sent(g) /\ SentSession(g)' = SentSession(g)
        /\ token[Sent(g)].revoked => token'[Sent(g)].revoked
        /\ token[Sent(g)].next # None => token'[Sent(g)].next # None
        /\ session[SentSession(g)] = "revoked" => session'[SentSession(g)] = "revoked"
    BY <1>2, SentKeeps
  <2>2. \A t \in aseen'[g] : apc'[g] = "mark" /\ token'[t] # None
                             /\ token'[t].session = SentSession(g)'
    BY <2>1 DEF Knows, RowsAge, AuthTypeOK
  <2> QED BY <2>1, <2>2 DEF Knows
<1> QED BY <1>1, <1>2

\* The handler that takes the step, when it arrives or ends.
LEMMA ArriverKnows ==
  ASSUME AuthTypeOK, NEW h \in AuthHandlers, Knows(h),
         RefreshStart(h) \/ LogoutStart(h)
  PROVE  Knows(h)'
<1>1. apc[h] = "idle" /\ aseen'[h] = {} /\ aanswer[h] = "NONE"
  BY DEF RefreshStart, LogoutStart, AuthArrive, Knows
<1>2. aanswer'[h] \in {"NONE", "REFUSED", "LOGGED_OUT"}
      /\ (aanswer'[h] # "NONE" => apc'[h] = "replied")
  BY <1>1 DEF RefreshStart, LogoutStart, AuthArrive, AuthTypeOK
<1>3. apc'[h] \in {"revoke", "scan", "mark"} => ajob'[h].call # "refresh"
  BY DEF RefreshStart, LogoutStart, AuthArrive, AuthTypeOK
<1> QED BY <1>1, <1>2, <1>3 DEF Knows

LEMMA EnderKnows ==
  ASSUME AuthTypeOK, NEW h \in AuthHandlers, Knows(h),
         AuthReturn(h) \/ AuthFail(h) \/ AuthCrash(h)
  PROVE  Knows(h)'
<1>1. aseen'[h] = {}
  BY DEF AuthReturn, AuthFail, AuthCrash, AuthReply, AuthTypeOK, Knows
<1>2. \/ apc'[h] = "idle" /\ aanswer'[h] = "NONE"
      \/ apc'[h] = "replied" /\ aanswer'[h] \in {"REFUSED", "LOGGED_OUT"}
  BY DEF AuthReturn, AuthFail, AuthCrash, AuthReply, AuthTypeOK
<1> QED BY <1>1, <1>2 DEF Knows

\* When it goes on, nothing it knows but where it is may change.
LEMMA RefresherKnows ==
  ASSUME AuthInv, AuthTypeOK, RowsAge, NEW h \in AuthHandlers, Knows(h),
         RefreshFind(h) \/ RefreshSession(h) \/ RefreshClaim(h) \/ RefreshRotate(h)
  PROVE  Knows(h)'
<1>1. apc[h] \in {"find", "session", "claim", "rotate"} /\ ajob'[h] = ajob[h]
      /\ aseen'[h] = {} /\ aanswer[h] = "NONE"
  BY DEF RefreshFind, RefreshSession, RefreshClaim, RefreshRotate, AuthGoto,
     AuthReply, AuthTypeOK, Knows
<1>2. /\ Sent(h)' = Sent(h)
      /\ token[Sent(h)].revoked => token'[Sent(h)].revoked
  BY <1>1, SentKeeps
<1>3. CASE RefreshRotate(h)
  <2>1. apc'[h] = "replied" /\ aanswer'[h] = "ROTATED"
    BY <1>3 DEF RefreshRotate, AuthReply, AuthTypeOK
  <2>2. token'[Sent(h)].next # None
    BY <1>3, RotateRows, AuthConstants DEF AuthInv
  <2> QED BY <1>1, <1>2, <2>1, <2>2 DEF Knows
<1>4. CASE RefreshFind(h) \/ RefreshSession(h) \/ RefreshClaim(h)
  <2>1. /\ aanswer'[h] # "NONE" => aanswer'[h] = "REFUSED" /\ apc'[h] = "replied"
        /\ apc'[h] \in {"revoke", "scan", "mark"} => token[Sent(h)].revoked
    BY <1>1, <1>4 DEF RefreshFind, RefreshSession, RefreshClaim, AuthGoto, AuthReply,
       AuthTypeOK
  <2> QED BY <1>1, <1>2, <2>1 DEF Knows
<1> QED BY <1>3, <1>4

LEMMA RevokerKnows ==
  ASSUME AuthInv, AuthTypeOK, RowsAge, NEW h \in AuthHandlers, Knows(h),
         RevokeSession(h) \/ RevokeScan(h) \/ RevokeCommit(h)
  PROVE  Knows(h)'
<1>1. apc[h] \in {"revoke", "scan", "mark"} /\ ajob'[h] = ajob[h] /\ aanswer[h] = "NONE"
  BY DEF RevokeSession, RevokeScan, RevokeCommit, AuthGoto, AuthReply, Knows
<1>2. /\ Sent(h)' = Sent(h) /\ SentSession(h)' = SentSession(h)
      /\ token[Sent(h)].revoked => token'[Sent(h)].revoked
  BY <1>1, SentKeeps
<1>3. CASE RevokeSession(h)
  <2>1. apc'[h] = "scan" /\ aanswer'[h] = "NONE" /\ aseen'[h] = {}
    BY <1>1, <1>3 DEF RevokeSession, AuthGoto, AuthTypeOK, Knows
  <2> QED BY <1>1, <1>2, <2>1 DEF Knows
<1>4. CASE RevokeScan(h)
  <2>1. /\ apc'[h] = "mark" /\ aanswer'[h] = "NONE" /\ token' = token
        /\ aseen'[h] = {t \in Tokens : Live(t) /\ token[t].session = SentSession(h)}
    BY <1>1, <1>4 DEF RevokeScan, AuthGoto, AuthTypeOK, rowVars
  <2> QED BY <1>1, <1>2, <2>1 DEF Knows, Live
<1>5. CASE RevokeCommit(h)
  <2>1. /\ apc'[h] = "replied" /\ aseen'[h] = {}
        /\ aanswer'[h] = IF ajob[h].call = "refresh" THEN "REUSE" ELSE "LOGGED_OUT"
    BY <1>5 DEF RevokeCommit, AuthReply, AuthTypeOK
  <2>2. session'[SentSession(h)] = "revoked"
    BY <1>5, RevokeRows DEF AuthInv, AuthTypeOK
  <2>3. ajob[h].call = "refresh" => token'[Sent(h)].revoked
    BY <1>1, <1>2 DEF Knows
  <2> QED BY <1>2, <2>1, <2>2, <2>3 DEF Knows
<1> QED BY <1>3, <1>4, <1>5

-----------------------------------------------------------------------------
(***************************************************************************)
(* A claimed token stays with its claimer.                                 *)
(***************************************************************************)

\* A handler's step takes no row from another that holds it.
LEMMA HolderKeepsRow ==
  ASSUME AuthTypeOK, NEW h \in AuthHandlers, NEW g \in AuthHandlers, g # h,
         RefreshStart(h) \/ LogoutStart(h) \/ Works(h),
         NEW t \in Tokens, writer[t] = g
  PROVE  writer'[t] = g
<1> USE AuthConstants DEF AuthTypeOK
<1>1. CASE Release(h)
  BY <1>1 DEF Release
<1>2. CASE UNCHANGED writer
  BY <1>2
<1>3. CASE RefreshClaim(h)
  BY <1>3 DEF RefreshClaim
<1>4. CASE RevokeSession(h)
  <2>1. SentSession(h) \in Sessions /\ SentSession(h) # t
    BY <1>4, SentRows DEF RevokeSession
  <2> QED BY <1>4, <2>1 DEF RevokeSession
<1> QED BY <1>1, <1>2, <1>3, <1>4 DEF Works, AuthProgress, RefreshStart, LogoutStart,
   RefreshFind, RefreshSession, RefreshRotate, RevokeScan, RevokeCommit, AuthReturn,
   AuthFail, AuthCrash, rowVars

\* A step of somebody else leaves a claimed token as it is.
LEMMA ClaimedTokenKeeps ==
  ASSUME AuthInv, NEW g \in AuthHandlers, NEW t \in Tokens,
         writer[t] = g, token[t] # None,
         \/ Login \/ UNCHANGED token
         \/ \E h \in AuthHandlers \ {g} : RefreshRotate(h) \/ RevokeCommit(h)
  PROVE  token'[t] = token[t]
<1>t. AuthTypeOK /\ RotatorsHold /\ SeenAreItsSessions
  BY DEF AuthInv
<1>1. CASE Login
  BY <1>1, <1>t, LoginRows
<1>2. ASSUME NEW h \in AuthHandlers \ {g}, RefreshRotate(h) PROVE token'[t] = token[t]
  BY <1>2, <1>t, RotateRows
<1>3. ASSUME NEW h \in AuthHandlers \ {g}, RevokeCommit(h) PROVE token'[t] = token[t]
  BY <1>3, <1>t, RevokeRows, AuthConstants
<1> QED BY <1>1, <1>2, <1>3

LEMMA RotatorsHoldNext ==
  ASSUME AuthInv, [AuthNext]_authVars PROVE RotatorsHold'
<1>t. AuthTypeOK /\ RotatorsHold
  BY DEF AuthInv
<1>1. CASE Login \/ Expire \/ UNCHANGED authVars
  <2>1. UNCHANGED <<writer, apc, ajob>> /\ (Login \/ UNCHANGED token)
    BY <1>1 DEF Login, Expire, authVars
  <2>2. ASSUME NEW g \in AuthHandlers, apc[g] = "rotate"
        PROVE  token'[Sent(g)] = token[Sent(g)]
    BY <2>1, <2>2, <1>t, ClaimedTokenKeeps, SentRows DEF RotatorsHold
  <2> QED BY <2>1, <2>2, <1>t DEF RotatorsHold, Sent, Live
<1>2. ASSUME NEW h \in AuthHandlers, RefreshStart(h) \/ LogoutStart(h) \/ Works(h)
      PROVE  RotatorsHold'
  <2> SUFFICES ASSUME NEW g \in AuthHandlers, apc'[g] = "rotate"
               PROVE  writer'[Sent(g)'] = g /\ Live(Sent(g))'
    BY DEF RotatorsHold
  <2>1. CASE g # h
    <3>1. apc[g] = "rotate" /\ Sent(g)' = Sent(g)
      BY <1>2, <1>t, <2>1, OthersLocals DEF Sent
    <3>2. writer[Sent(g)] = g /\ Live(Sent(g)) /\ Sent(g) \in Tokens
      BY <3>1, <1>t, SentRows DEF RotatorsHold
    <3>3. writer'[Sent(g)] = g
      BY <1>2, <1>t, <2>1, <3>2, HolderKeepsRow
    <3>4. RefreshRotate(h) \/ RevokeCommit(h) \/ UNCHANGED token
      BY <1>2 DEF Works, RefreshStart, LogoutStart, AuthProgress, AuthFail, AuthCrash,
         RefreshFind, RefreshSession, RefreshClaim, RevokeSession, RevokeScan,
         AuthReturn, rowVars
    <3>5. token'[Sent(g)] = token[Sent(g)]
      BY <2>1, <3>2, <3>4, ClaimedTokenKeeps DEF Live
    <3> QED BY <3>1, <3>2, <3>3, <3>5 DEF Live
  <2>2. CASE g = h
    <3>1. RefreshClaim(h) /\ ~token[Sent(h)].revoked
      BY <1>2, <1>t, <2>2 DEF AuthTypeOK, Works, RefreshStart, LogoutStart, AuthArrive,
         AuthProgress, AuthFail, AuthCrash, RefreshFind, RefreshSession, RefreshClaim,
         RefreshRotate, RevokeSession, RevokeScan, RevokeCommit, AuthReturn, AuthGoto,
         AuthReply
    <3>2. Sent(h)' = Sent(h) /\ Sent(h) \in Tokens /\ token[Sent(h)] # None
      BY <3>1, <1>t, SentRows DEF RefreshClaim, AuthGoto, Sent
    <3> QED BY <3>1, <3>2, <2>2, <1>t DEF RefreshClaim, Live, AuthTypeOK
  <2> QED BY <2>1, <2>2
<1> QED BY <1>1, <1>2 DEF AuthNext, Works

-----------------------------------------------------------------------------
(***************************************************************************)
(* Sessions and chains.                                                    *)
(***************************************************************************)

LEMMA TokensHaveSessionsNext ==
  ASSUME AuthInv, [AuthNext]_authVars PROVE TokensHaveSessions'
<1>t. AuthTypeOK /\ RotatorsHold /\ SeenAreItsSessions /\ TokensHaveSessions
  BY DEF AuthInv
<1>r. \A t \in Tokens : token[t] # None => token[t].session \in Sessions
  BY <1>t DEF AuthTypeOK, TokenRows
<1>1. CASE Login
  <2>1. PICK s \in Sessions, t \in Tokens :
          /\ session' = [session EXCEPT ![s] = "active"]
          /\ token'[t] = NewToken(s) /\ token'[t].session = s
          /\ \A u \in Tokens \ {t} : token'[u] = token[u]
    BY <1>1, <1>t, LoginRows, NewTokens
  <2>2. \A r \in Sessions : r = s \/ session[r] # "absent" => session'[r] # "absent"
    BY <2>1, <1>t DEF AuthTypeOK
  <2> QED BY <2>1, <2>2, <1>t, <1>r DEF TokensHaveSessions
<1>2. ASSUME NEW h \in AuthHandlers, RefreshRotate(h) PROVE TokensHaveSessions'
  <2>1. session' = session /\ session[SentSession(h)] # "absent"
    BY <1>2, <1>t, SentRows DEF RefreshRotate, TokensHaveSessions, SentSession
  <2>2. PICK t \in Tokens :
          /\ token'[t] = NewToken(SentSession(h)) /\ token'[t].session = SentSession(h)
          /\ token'[Sent(h)].session = SentSession(h)
          /\ \A u \in Tokens \ {t, Sent(h)} : token'[u] = token[u]
    BY <1>2, <1>t, RotateRows, NewTokens
  <2> QED BY <2>1, <2>2, <1>t DEF TokensHaveSessions
<1>3. ASSUME NEW h \in AuthHandlers, RevokeCommit(h) PROVE TokensHaveSessions'
  <2>1. \A s \in Sessions : session[s] # "absent" => session'[s] # "absent"
    BY <1>3, <1>t, RevokeRows DEF AuthTypeOK
  <2> QED BY <1>3, <2>1, <1>r, <1>t, RevokeRows DEF TokensHaveSessions
<1>4. CASE UNCHANGED <<session, token>>
  BY <1>4, <1>t DEF TokensHaveSessions
<1> QED BY <1>1, <1>2, <1>3, <1>4, OtherRows DEF authVars

LEMMA OneLiveTokenNext ==
  ASSUME AuthInv, [AuthNext]_authVars PROVE OneLiveToken'
<1>t. /\ AuthTypeOK /\ RotatorsHold /\ SeenAreItsSessions /\ TokensHaveSessions
      /\ OneLiveToken
  BY DEF AuthInv
<1>r. \A t \in Tokens : token[t] # None => token[t] \in TokenRows
  BY <1>t DEF AuthTypeOK
<1>1. CASE Login
  <2>1. PICK s \in Sessions, t \in Tokens :
          /\ session[s] = "absent" /\ token[t] = None
          /\ session' = [session EXCEPT ![s] = "active"]
          /\ token'[t] = NewToken(s) /\ token'[t] \in TokenRows
          /\ \A u \in Tokens \ {t} : token'[u] = token[u]
    BY <1>1, <1>t, LoginRows
  <2>2. \A u \in Tokens : token[u] # None => token[u].session # s
    BY <2>1, <1>t DEF TokensHaveSessions
  <2>3. token'[t].session = s /\ ~token'[t].revoked /\ token'[t] # None
    BY <2>1, RowsAreNotNone, NewTokens
  <2> QED BY <2>1, <2>2, <2>3, <1>t DEF OneLiveToken, Live, AuthTypeOK
<1>2. ASSUME NEW h \in AuthHandlers, RefreshRotate(h) PROVE OneLiveToken'
  <2>1. /\ session' = session /\ Sent(h) \in Tokens /\ Live(Sent(h))
        /\ token[Sent(h)].session = SentSession(h) /\ SentSession(h) \in Sessions
    BY <1>2, <1>t, RotateRows DEF RefreshRotate, SentSession
  <2>2. PICK t \in Tokens :
          /\ token[t] = None /\ t # Sent(h)
          /\ token'[t] = NewToken(SentSession(h)) /\ token'[t] \in TokenRows
          /\ token'[Sent(h)].revoked
          /\ \A u \in Tokens \ {t, Sent(h)} : token'[u] = token[u]
    BY <1>2, <1>t, RotateRows
  <2>3. token'[t].session = SentSession(h) /\ ~token'[t].revoked /\ token'[t] # None
    BY <2>1, <2>2, RowsAreNotNone, NewTokens
  <2> QED BY <2>1, <2>2, <2>3, <1>t DEF OneLiveToken, Live
<1>3. ASSUME NEW h \in AuthHandlers, RevokeCommit(h) PROVE OneLiveToken'
  <2>1. ASSUME NEW t \in Tokens, Live(t)'
        PROVE  Live(t) /\ token'[t] = token[t]
    BY <1>3, <1>t, <2>1, RevokeRows DEF Live
  <2>2. ASSUME NEW s \in Sessions, session'[s] = "active"
        PROVE  \E t \in Tokens : Live(t)' /\ token'[t].session = s
    <3>1. session[s] = "active" /\ s # SentSession(h)
      BY <1>3, <1>t, <2>2, RevokeRows DEF AuthTypeOK
    <3>2. PICK t \in Tokens : Live(t) /\ token[t].session = s
      BY <3>1, <1>t DEF OneLiveToken
    <3>3. token'[t] = token[t]
      BY <1>3, <1>t, <3>1, <3>2, RevokeRows
    <3> QED BY <3>2, <3>3 DEF Live
  <2> QED BY <2>1, <2>2, <1>t DEF OneLiveToken
<1>4. CASE UNCHANGED <<session, token>>
  BY <1>4, <1>t DEF OneLiveToken, Live
<1> QED BY <1>1, <1>2, <1>3, <1>4, OtherRows DEF authVars

LEMMA TokensAreAChainNext ==
  ASSUME AuthInv, [AuthNext]_authVars PROVE TokensAreAChain'
<1>t. /\ AuthTypeOK /\ RotatorsHold /\ SeenAreItsSessions /\ TokensAreAChain
  BY DEF AuthInv
<1>r. \A t \in Tokens : token[t] # None =>
        token[t].session \in Sessions /\ token[t].next \in Tokens \cup {None}
  BY <1>t DEF AuthTypeOK, TokenRows
<1>a. RowsAge
  BY StepAgesRows
<1>1. CASE Login
  <2>1. PICK s \in Sessions, t \in Tokens :
          /\ token[t] = None
          /\ token'[t] = NewToken(s) /\ token'[t] \in TokenRows
          /\ \A u \in Tokens \ {t} : token'[u] = token[u]
    BY <1>1, <1>t, LoginRows
  <2>2. token'[t].next = None /\ ~token'[t].revoked
    BY <2>1, NewTokens
  <2> QED BY <2>1, <2>2, <1>t, <1>r, <1>a DEF TokensAreAChain, RowsAge
<1>2. ASSUME NEW h \in AuthHandlers, RefreshRotate(h) PROVE TokensAreAChain'
  <2>1. /\ session' = session /\ Sent(h) \in Tokens /\ Live(Sent(h))
        /\ token[Sent(h)].session = SentSession(h) /\ SentSession(h) \in Sessions
    BY <1>2, <1>t, RotateRows DEF RefreshRotate, SentSession
  <2>2. PICK t \in Tokens :
          /\ token[t] = None /\ t # Sent(h)
          /\ token'[t] = NewToken(SentSession(h)) /\ token'[t] \in TokenRows
          /\ token'[Sent(h)] \in TokenRows /\ token'[Sent(h)].revoked
          /\ token'[Sent(h)].session = SentSession(h) /\ token'[Sent(h)].next = t
          /\ \A u \in Tokens \ {t, Sent(h)} : token'[u] = token[u]
    BY <1>2, <1>t, RotateRows
  <2>3. /\ token'[t].session = SentSession(h) /\ ~token'[t].revoked
        /\ token'[t].next = None /\ token'[t] # None /\ token'[Sent(h)] # None
    BY <2>1, <2>2, RowsAreNotNone, NewTokens
  <2>4. \A u \in Tokens : token[u] # None => token[u].next # t
    BY <2>2, <1>t, AuthConstants DEF TokensAreAChain
  <2> QED BY <2>1, <2>2, <2>3, <2>4, <1>t, <1>r, <1>a, AuthConstants
          DEF TokensAreAChain, RowsAge
<1>3. ASSUME NEW h \in AuthHandlers, RevokeCommit(h) PROVE TokensAreAChain'
  <2>1. \A t \in Tokens :
          /\ token'[t] # None <=> token[t] # None
          /\ token[t] # None => token'[t].next = token[t].next
    BY <1>3, <1>t, RevokeRows, RowsAreNotNone
  <2>2. ASSUME NEW t \in Tokens, token[t] # None, token'[t].revoked
        PROVE  token[t].revoked \/ session'[token[t].session] = "revoked"
    BY <1>3, <1>t, <2>2, RevokeRows DEF AuthTypeOK
  <2> QED BY <2>1, <2>2, <1>t, <1>r, <1>a DEF TokensAreAChain, RowsAge
<1>4. CASE UNCHANGED <<session, token>>
  BY <1>4, <1>t DEF TokensAreAChain
<1> QED BY <1>1, <1>2, <1>3, <1>4, OtherRows DEF authVars

-----------------------------------------------------------------------------
(***************************************************************************)
(* The invariant, and what follows from it.                                *)
(***************************************************************************)

LEMMA AuthInitInv == AuthInit => AuthInv
<1> SUFFICES ASSUME AuthInit PROVE AuthInv
  OBVIOUS
<1>1. AuthTypeOK
  BY AuthInitType
<1>2. RotatorsHold /\ SeenAreItsSessions /\ RevokersAnswerReuse /\ AnswersWait
      /\ AuthAnswersAreTrue
  BY DEF AuthInit, RotatorsHold, SeenAreItsSessions, RevokersAnswerReuse, AnswersWait,
     AuthAnswersAreTrue
<1>3. TokensHaveSessions /\ OneLiveToken /\ TokensAreAChain
  BY DEF AuthInit, TokensHaveSessions, OneLiveToken, TokensAreAChain, Live
<1> QED BY <1>1, <1>2, <1>3 DEF AuthInv

LEMMA AuthNextKnows ==
  ASSUME AuthInv, [AuthNext]_authVars, NEW g \in AuthHandlers PROVE Knows(g)'
<1>t. AuthTypeOK /\ RowsAge
  BY StepAgesRows DEF AuthInv
<1>k. Knows(g)
  BY EveryoneKnows DEF AuthInv
<1>1. CASE Login \/ Expire \/ UNCHANGED authVars
  BY <1>1, <1>t, <1>k, BystanderKnows DEF Login, Expire, authVars
<1>2. ASSUME NEW h \in AuthHandlers, RefreshStart(h) \/ LogoutStart(h) \/ Works(h)
      PROVE  Knows(g)'
  <2>1. CASE g # h
    BY <1>2, <1>t, <1>k, <2>1, OthersLocals, BystanderKnows
  <2>2. CASE g = h
    BY <1>2, <1>t, <1>k, <2>2, ArriverKnows, EnderKnows, RefresherKnows, RevokerKnows
       DEF Works, AuthProgress
  <2> QED BY <2>1, <2>2
<1> QED BY <1>1, <1>2 DEF AuthNext, Works

LEMMA AuthNextInv == AuthInv /\ [AuthNext]_authVars => AuthInv'
<1> SUFFICES ASSUME AuthInv, [AuthNext]_authVars PROVE AuthInv'
  OBVIOUS
<1>1. \A g \in AuthHandlers : Knows(g)'
  BY AuthNextKnows
<1>2. SeenAreItsSessions' /\ RevokersAnswerReuse' /\ AnswersWait' /\ AuthAnswersAreTrue'
  BY <1>1 DEF Knows, SeenAreItsSessions, RevokersAnswerReuse, AnswersWait,
     AuthAnswersAreTrue
<1> QED BY <1>2, AuthNextType, RotatorsHoldNext, TokensHaveSessionsNext,
           OneLiveTokenNext, TokensAreAChainNext DEF AuthInv

\* AuthInv holds in every reachable state, however many refreshes, logouts,
\* logins and failures interleave.
THEOREM AuthInvariant == AuthSpec => []AuthInv
  BY AuthInitInv, AuthNextInv, PTL DEF AuthSpec

\* Whatever refreshes race, no session ever has two live tokens, and an
\* active one is never left without.
THEOREM AuthOneLiveToken == AuthSpec => []OneLiveToken
<1>1. AuthInv => OneLiveToken
  BY DEF AuthInv
<1> QED BY <1>1, AuthInvariant, PTL

\* Rotation never forks and never loses a token's successor.
THEOREM AuthTokensAreAChain == AuthSpec => []TokensAreAChain
<1>1. AuthInv => TokensAreAChain
  BY DEF AuthInv
<1> QED BY <1>1, AuthInvariant, PTL

\* Who is told ROTATED or REUSE is told the truth.
THEOREM AuthAnswersTrue == AuthSpec => []AuthAnswersAreTrue
<1>1. AuthInv => AuthAnswersAreTrue
  BY DEF AuthInv
<1> QED BY <1>1, AuthInvariant, PTL

\* A revoked session or token is revoked for good, and a recorded successor
\* is never rewritten.
THEOREM AuthRevokedForGood == AuthSpec => RevokedForGood
<1>1. AuthInv /\ [AuthNext]_authVars => [RowsAge]_authVars
  BY StepAgesRows
<1>2. AuthSpec => [][RowsAge]_authVars
  BY <1>1, AuthInvariant, PTL DEF AuthSpec
<1> QED BY <1>2 DEF RevokedForGood, RowsAge

=============================================================================
