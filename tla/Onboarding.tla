----------------------------- MODULE Onboarding -----------------------------
(***************************************************************************)
(* How users come to exist and to be signed in: registration, which looks  *)
(* for the e-mail and creates the user in two statements without a         *)
(* transaction; prisma/seed.ts, a program of a dozen statements that may   *)
(* stop after any of them and be run again, or twice at once; and the      *)
(* cookies of a browser, which log-in sets and log-out clears, whatever    *)
(* became of the session behind them.  AuthSessions has the session's      *)
(* tokens; here it ends, in one way or another.                            *)
(***************************************************************************)
EXTENDS Integers, Sequences, FiniteSets

CONSTANTS
  Emails,        \* addresses, as trim and toLowerCase leave them
  Spelled,       \* addresses as they are typed ...
  Lowered,       \* ... and what becomes of them
  Passwords,     \* candidates
  StrongEnough,  \* those that validatePasswordPolicy accepts
  Registrations, \* what is typed into registrations: address and password
  SeedPassword,  \* the one of the seed
  SeedUsers,     \* the seed's users in its order: e-mail and role
  SeedKyc,       \* the KYC rows it inserts, in one statement
  SeedAccounts,  \* the accounts it upserts, in its order
  Registrars,    \* POST auth/register calls
  Seeders,       \* runs of the seed that may overlap
  WebBrowsers, ClientBrowsers, \* cookie jars of apps/web and of apps/client
  NoUser,        \* no user, no session
  MaxRuns,       \* bound: starts of the seed
  MaxSessions    \* bound: log-ins

Browsers == WebBrowsers \cup ClientBrowsers

\* Those that registration and the seed give.
Roles == {"INVESTOR"} \cup {SeedUsers[i].role : i \in DOMAIN SeedUsers}

ASSUME OnboardingConstants ==
  /\ Lowered \in [Spelled -> Emails]
  /\ Registrations \subseteq [typed: Spelled, password: Passwords]
  /\ StrongEnough \subseteq Passwords /\ SeedPassword \in Passwords
  /\ SeedUsers \in Seq([email: Emails, role: STRING])
  /\ SeedKyc \in Seq([email: Emails, status: STRING])
  /\ \A i \in DOMAIN SeedKyc : \E j \in DOMAIN SeedUsers : SeedUsers[j].email = SeedKyc[i].email
  /\ SeedAccounts \in Seq(STRING)
  /\ IsFiniteSet(Seeders)
  /\ NoUser \notin Emails \cup [password: Passwords, role: Roles]
  /\ MaxRuns \in Nat /\ MaxSessions \in Nat

VARIABLES
  users,     \* by e-mail, which is unique: the user with his profile, or NoUser
  kyc,       \* KYCRecord rows in the order of createdAt
  chart,     \* Account rows
  log,       \* AuditLog: for each run that came to its end, three rows
  registrar, \* what each registration is about, and its answer
  seeder,    \* the next statement of each seed run; 0 when it is not running
  runs,      \* starts of the seed so far
  logins,    \* Session rows, in the order of createdAt
  jar        \* the two cookies of each browser, and a log-out under way

userVars    == <<users, kyc, chart, log, runs>>
onboardVars == <<userVars, registrar, seeder, logins, jar>>

OnboardInit ==
  /\ users = [e \in Emails |-> NoUser]
  /\ kyc = <<>> /\ chart = {} /\ log = 0 /\ runs = 0
  /\ registrar = [h \in Registrars |->
       [at |-> "idle", email |-> NoUser, password |-> NoUser, answer |-> "none"]]
  /\ seeder = [s \in Seeders |-> [at |-> 0, absent |-> FALSE]]
  /\ logins = <<>>
  /\ jar = [b \in Browsers |-> [access |-> NoUser, refresh |-> 0, leaving |-> 0]]

\* The user and, nested in the same create, his profile.
User(password, role) == [password |-> password, role |-> role]
Exists(e) == users[e] # NoUser

-----------------------------------------------------------------------------
(***************************************************************************)
(* Registration.                                                           *)
(***************************************************************************)

Answer(h, a) == registrar' = [registrar EXCEPT ![h].at = "done", ![h].answer = a]

\* The policy, then findUnique: an answer, or on to the hash.  When findUnique
\* itself fails: RegisterFails.
RegisterCheck(h) ==
  /\ registrar[h].at = "idle"
  /\ \E form \in Registrations :
       LET e == Lowered[form.typed]
           p == form.password
       IN registrar' = [registrar EXCEPT ![h] =
         [email |-> e, password |-> p,
          at     |-> IF p \in StrongEnough /\ ~Exists(e) THEN "create" ELSE "done",
          answer |-> IF p \notin StrongEnough THEN "weak"
                     ELSE IF Exists(e) THEN "failed" ELSE "none"]]
  /\ UNCHANGED <<userVars, seeder, logins, jar>>

\* Mutant: the create is an upsert, which sets the password of a user that
\* has come into being since the check.
RegisterCreateUpsert(h) ==
  /\ registrar[h].at = "create"
  /\ users' = [users EXCEPT ![registrar[h].email] = User(registrar[h].password, "INVESTOR")]
  /\ Answer(h, "created")
  /\ UNCHANGED <<kyc, chart, log, runs, seeder, logins, jar>>

\* user.create with the nested profile: the caller is told, or the answer is
\* lost on its way, the database's or the API's.  The unique index refuses an
\* e-mail that was free before; nothing catches the P2002.
RegisterCreate(h) ==
  /\ registrar[h].at = "create"
  /\ LET e == registrar[h].email IN
     \/ /\ ~Exists(e)
        /\ users' = [users EXCEPT ![e] = User(registrar[h].password, "INVESTOR")]
        /\ Answer(h, "created") \/ Answer(h, "lost")
     \/ Exists(e) /\ Answer(h, "error") /\ UNCHANGED users
  /\ UNCHANGED <<kyc, chart, log, runs, seeder, logins, jar>>

\* findUnique, the hash or the create fails, whoever has the address: no
\* connection, a crash of the API.  The caller sees an error, there is no user.
RegisterFails(h) ==
  /\ \/ /\ registrar[h].at = "idle"
        /\ \E form \in Registrations :
             /\ form.password \in StrongEnough
             /\ registrar' = [registrar EXCEPT ![h] =
                  [email |-> Lowered[form.typed], password |-> form.password,
                   at |-> "done", answer |-> "error"]]
     \/ registrar[h].at = "create" /\ Answer(h, "error")
  /\ UNCHANGED <<userVars, seeder, logins, jar>>

\* apps/web: its form sends no names, which its route wants; and with names
\* the route fails at a database client the app does not have.  No page calls
\* the API's own registration.
RegisterOnWeb(h) ==
  /\ registrar[h].at = "idle"
  /\ Answer(h, "refused")
  /\ UNCHANGED <<userVars, seeder, logins, jar>>

-----------------------------------------------------------------------------
(***************************************************************************)
(* The seed.                                                               *)
(***************************************************************************)

AtKyc     == Len(SeedUsers) + 1
AtAudit   == AtKyc + Len(SeedAccounts) + 1
Running(s) == seeder[s].at # 0
Goto(s, step) == seeder' = [seeder EXCEPT ![s] = [at |-> step, absent |-> FALSE]]
Proceed(s) == Goto(s, seeder[s].at + 1)

SeedStart(s) ==
  /\ ~Running(s)
  /\ runs < MaxRuns
  /\ Goto(s, 1)
  /\ runs' = runs + 1
  /\ UNCHANGED <<users, kyc, chart, log, registrar, logins, jar>>

\* upsert with a nested create reads first; update {} leaves a user as he is.
SeedUserFind(s) ==
  /\ seeder[s].at \in DOMAIN SeedUsers /\ ~seeder[s].absent
  /\ IF Exists(SeedUsers[seeder[s].at].email)
     THEN Proceed(s)
     ELSE seeder' = [seeder EXCEPT ![s].absent = TRUE]
  /\ UNCHANGED <<userVars, registrar, logins, jar>>

\* ... and creates.  If somebody was quicker the run ends with an error.
SeedUserCreate(s) ==
  /\ seeder[s].at \in DOMAIN SeedUsers /\ seeder[s].absent
  /\ LET u == SeedUsers[seeder[s].at] IN
     \/ /\ ~Exists(u.email)
        /\ users' = [users EXCEPT ![u.email] = User(SeedPassword, u.role)]
        /\ Proceed(s)
     \/ Exists(u.email) /\ Goto(s, 0) /\ UNCHANGED users
  /\ UNCHANGED <<kyc, chart, log, runs, registrar, logins, jar>>

\* createMany: without a unique key skipDuplicates has nothing to skip.
SeedKycRecords(s) ==
  /\ seeder[s].at = AtKyc
  /\ kyc' = kyc \o SeedKyc
  /\ Proceed(s)
  /\ UNCHANGED <<users, chart, log, runs, registrar, logins, jar>>

\* One upsert by code for each account.
SeedAccount(s) ==
  /\ seeder[s].at > AtKyc /\ seeder[s].at < AtAudit
  /\ chart' = chart \cup {SeedAccounts[seeder[s].at - AtKyc]}
  /\ Proceed(s)
  /\ UNCHANGED <<users, kyc, log, runs, registrar, logins, jar>>

\* SEED_ADMIN_USER_CREATED and the other two, in one statement.
SeedAudit(s) ==
  /\ seeder[s].at = AtAudit
  /\ log' = log + 1
  /\ Goto(s, 0)
  /\ UNCHANGED <<users, kyc, chart, runs, registrar, logins, jar>>

\* The process is killed, or loses the database, between two statements.
SeedStops(s) ==
  /\ Running(s)
  /\ Goto(s, 0)
  /\ UNCHANGED <<userVars, registrar, logins, jar>>

-----------------------------------------------------------------------------
(***************************************************************************)
(* Browsers.                                                               *)
(***************************************************************************)

\* login: the user's password.  Nothing in the program deactivates a user.
Authentic(e, p) == Exists(e) /\ users[e].password = p

\* The log-in routes of both apps: the API's session, then both cookies,
\* unless the answer is lost.
SignIn(b) ==
  /\ Len(logins) < MaxSessions
  /\ \E typed \in Spelled, p \in Passwords :
       LET e == Lowered[typed] IN
       /\ Authentic(e, p)
       /\ logins' = Append(logins, [email |-> e, end |-> "none"])
       /\ jar' = [jar EXCEPT ![b].access = e, ![b].refresh = Len(logins) + 1] \/ UNCHANGED jar
  /\ UNCHANGED <<userVars, registrar, seeder>>

\* The access cookie's 15 minutes, and the refresh cookie's 30 days, which no
\* access cookie outlives; neither app makes use of it but to log out.
AccessExpires(b) ==
  /\ jar[b].access # NoUser
  /\ jar' = [jar EXCEPT ![b].access = NoUser]
  /\ UNCHANGED <<userVars, registrar, seeder, logins>>

RefreshExpires(b) ==
  /\ jar[b].access = NoUser /\ jar[b].refresh # 0
  /\ jar' = [jar EXCEPT ![b].refresh = 0]
  /\ UNCHANGED <<userVars, registrar, seeder, logins>>

Revoke(i, how) == logins[i].end = "none" /\ logins' = [logins EXCEPT ![i].end = how]

\* A session ends in other ways: a spent token of it is presented, its log-out
\* is called on the API itself, it expires.  No browser notices: an access
\* token is good for its time.
SessionEnds(i) ==
  /\ Revoke(i, "other")
  /\ UNCHANGED <<userVars, registrar, seeder, jar>>

\* apps/web's log-out first has the API revoke the session its request names;
\* the call may fail.
WebLogout(b) ==
  /\ jar[b].refresh # 0 /\ jar[b].leaving = 0
  /\ jar' = [jar EXCEPT ![b].leaving = jar[b].refresh]
  /\ Revoke(jar[b].refresh, "logout") \/ UNCHANGED logins
  /\ UNCHANGED <<userVars, registrar, seeder>>

ClearCookies(b) == jar' = [jar EXCEPT ![b] = [access |-> NoUser, refresh |-> 0, leaving |-> 0]]

\* Its answer clears both cookies, a newer log-in's too.
WebLogoutAnswer(b) ==
  /\ jar[b].leaving # 0
  /\ ClearCookies(b)
  /\ UNCHANGED <<userVars, registrar, seeder, logins>>

\* apps/client's log-out asks nobody: the session goes on.
ClientLogout(b) ==
  /\ jar[b].refresh # 0
  /\ ClearCookies(b)
  /\ UNCHANGED <<userVars, registrar, seeder, logins>>

\* The user an access token names; it is checked against him, not against the
\* session it was issued in.
TokenUser(token) == IF token # NoUser /\ Exists(token) THEN token ELSE NoUser

\* Whose dashboard and profile a browser is shown; NoUser means the log-in page.
Account(b) == TokenUser(jar[b].access)

OnboardNext ==
  \/ \E h \in Registrars :
       RegisterCheck(h) \/ RegisterCreate(h) \/ RegisterFails(h) \/ RegisterOnWeb(h)
  \/ \E s \in Seeders :
       \/ SeedStart(s) \/ SeedUserFind(s) \/ SeedUserCreate(s) \/ SeedKycRecords(s)
       \/ SeedAccount(s) \/ SeedAudit(s) \/ SeedStops(s)
  \/ \E b \in Browsers : SignIn(b) \/ AccessExpires(b) \/ RefreshExpires(b)
  \/ \E b \in WebBrowsers : WebLogout(b) \/ WebLogoutAnswer(b)
  \/ \E b \in ClientBrowsers : ClientLogout(b)
  \/ \E i \in DOMAIN logins : SessionEnds(i)

OnboardSpec == OnboardInit /\ [][OnboardNext]_onboardVars

-----------------------------------------------------------------------------

Told(h, a) == registrar[h].at = "done" /\ registrar[h].answer = a

\* Whoever is told that he is registered can log in with what he typed from
\* then on, and no two are told so of one address; whoever is told that it
\* failed has typed the address of a user.  An error says nothing of either.
RegistrationsStand ==
  /\ \A h \in Registrars :
       /\ Told(h, "created") => Authentic(registrar[h].email, registrar[h].password)
       /\ Told(h, "failed") => Exists(registrar[h].email)
  /\ \A h, k \in Registrars :
       h # k /\ Told(h, "created") /\ Told(k, "created") => registrar[h].email # registrar[k].email

Registered(e, password) ==
  \E h \in Registrars :
    /\ Told(h, "created") \/ Told(h, "lost")
    /\ registrar[h].email = e /\ registrar[h].password = password

\* A user is the seed's with the seed's role and password, or an investor
\* under the password of a registration that was carried out, so that one
\* which is refused or fails leaves nothing behind.  The seed's own
\* addresses are no exception: registered first they stay investors, and the
\* seed reports them created all the same.
UsersHaveOneOrigin ==
  \A e \in Emails :
    Exists(e) =>
      \/ \E i \in DOMAIN SeedUsers :
           SeedUsers[i].email = e /\ users[e] = User(SeedPassword, SeedUsers[i].role)
      \/ users[e].role = "INVESTOR" /\ Registered(e, users[e].password)

\* The log speaks only of finished work: its users, all accounts and its KYC
\* rows are there, one set of rows for every run it reports.  It may be silent
\* of runs that stopped, whose KYC rows remain.
LogSpeaksOfFinishedWork ==
  /\ log > 0 => /\ \A i \in DOMAIN SeedUsers : Exists(SeedUsers[i].email)
                /\ chart = {SeedAccounts[i] : i \in DOMAIN SeedAccounts}
  /\ Len(kyc) >= log * Len(SeedKyc)
  /\ \A i \in DOMAIN kyc : Exists(kyc[i].email)

\* Whose account a browser is shown is the user whose session it holds, although
\* only the access cookie is looked at, and no log-out that revoked that session
\* and was answered is behind it: the cookies of a log-out go with its session,
\* and no log-in that its answer overtakes brings them back.  A session that
\* ended otherwise leaves its account on the screen until AccessExpires.
AccountsAreSignedIn ==
  \A b \in Browsers :
    Account(b) # NoUser =>
      /\ jar[b].refresh # 0
      /\ logins[jar[b].refresh].email = Account(b)
      /\ logins[jar[b].refresh].end = "logout" => jar[b].leaving = jar[b].refresh

\* What registration, the seed and the log-in routes owe each other.
OnboardingHolds ==
  /\ RegistrationsStand /\ UsersHaveOneOrigin
  /\ LogSpeaksOfFinishedWork /\ AccountsAreSignedIn

=============================================================================
