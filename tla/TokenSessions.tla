--------------------------- MODULE TokenSessions ---------------------------
(***************************************************************************)
(* Login, refresh and logout of the API.  A login opens a token session;   *)
(* its refresh token yields further access tokens of the same session; a   *)
(* logout with any token of the session revokes that token and then the    *)
(* session, each in memory and then in the database, while other calls run *)
(* and the process may stop.  Tokens themselves are kept by their holders: *)
(* the server remembers only what it revoked and the sessions of admins.   *)
(***************************************************************************)
EXTENDS Naturals

CONSTANTS
  Tokens,       \* ids of tokens (jti)
  Logins,       \* ids of token sessions (sid)
  NoToken,      \* what an id stands for before its token is issued
  AccessLife,   \* ticks an access token lives (7 days)
  RefreshLife,  \* ticks a refresh token lives (30 days)
  LastTime      \* bound: when the clock stops

ASSUME LifeAssumption ==
  /\ AccessLife \in Nat \ {0} /\ RefreshLife \in Nat \ {0} /\ LastTime \in Nat

VARIABLES
  now,               \* the clock
  token,             \* what each id was issued as, or NoToken
  opened,            \* when each token session was opened, or Never (history)
  revoked_tokens,    \* revoked_token_ids of the process
  revoked_sessions,  \* revoked_token_session_ids of the process
  admin_sessions,    \* tokens with an admin session in the process
  saved_tokens, saved_sessions, saved_admin_sessions,  \* their rows in the database
  refreshing,        \* refresh tokens whose call was let in and has not answered
  admitting,         \* admin tokens whose login has not answered
  leaving,           \* how far the logout with each token has come
  logged_out         \* token sessions whose logout has answered (history)

memory_vars == <<revoked_tokens, revoked_sessions, admin_sessions>>
saved_vars == <<saved_tokens, saved_sessions, saved_admin_sessions>>
call_vars == <<refreshing, admitting, leaving>>
history_vars == <<opened, logged_out>>
vars == <<now, token, memory_vars, saved_vars, call_vars, history_vars>>

Times == 0..LastTime
Never == LastTime + 1
Token == [kind : {"access", "refresh", "admin"}, session : Logins, login : Logins,
          expires_at : 0..(LastTime + AccessLife + RefreshLife)]

ASSUME TokenAssumption == NoToken \notin Token

Issued == {k \in Tokens : token[k] # NoToken}

-----------------------------------------------------------------------------
(* The checks every call makes *)

\* The claims of a token: its kind ("typ" and "role"), its session, its expiry.  login
\* is the login it goes back to (history).
Claims(kind, session, login) ==
  [kind |-> kind, session |-> session, login |-> login,
   expires_at |-> now + IF kind = "refresh" THEN RefreshLife ELSE AccessLife]

\* decode_token: the signature has not expired.
Unexpired(k) == now < token[k].expires_at

\* ensure_token_active
Active(k) == k \notin revoked_tokens /\ token[k].session \notin revoked_sessions

\* is_admin_session_active: the token of an admin must be one recorded at a login.
Recorded(k) == token[k].kind = "admin" => k \in admin_sessions

\* A call with this token is answered: refresh takes refresh tokens, every other call
\* access tokens, those of admins only if recorded.
Accepted(k) == k \in Issued /\ Unexpired(k) /\ Active(k) /\ Recorded(k)

-----------------------------------------------------------------------------
(* Login *)

\* POST auth/wx-login: both tokens carry the new session.
WxLogin(login, access, refresh) ==
  /\ opened[login] = Never
  /\ access # refresh /\ {access, refresh} \cap Issued = {}
  /\ opened' = [opened EXCEPT ![login] = now]
  /\ token' = [token EXCEPT ![access] = Claims("access", login, login),
                            ![refresh] = Claims("refresh", login, login)]
  /\ UNCHANGED <<now, memory_vars, saved_vars, call_vars, logged_out>>

\* issue_token without a session_id: a session of its own.
AdminSessionShared(login) == CHOOSE l \in Logins : TRUE
AdminSession(login) == login

\* POST admin/auth/login: the token is issued and its session recorded in memory ...
AdminLogin(login, k) ==
  /\ opened[login] = Never
  /\ k \notin Issued
  /\ opened' = [opened EXCEPT ![login] = now]
  /\ token' = [token EXCEPT ![k] = Claims("admin", AdminSession(login), login)]
  /\ admin_sessions' = admin_sessions \cup {k}
  /\ admitting' = admitting \cup {k}
  /\ UNCHANGED <<now, revoked_tokens, revoked_sessions, saved_vars, refreshing, leaving,
                 logged_out>>

\* ... then in the database, before the admin gets the token.
UnsavedAdmins(k) == saved_admin_sessions
SavedAdmins(k) == saved_admin_sessions \cup {k}

AdminLoginReturns(k) ==
  /\ k \in admitting
  /\ saved_admin_sessions' = SavedAdmins(k)
  /\ admitting' = admitting \ {k}
  /\ UNCHANGED <<now, token, memory_vars, saved_tokens, saved_sessions, refreshing, leaving,
                 history_vars>>

\* A token somebody holds: an admin's only once the login has answered.
Held(k) == k \in Issued /\ (token[k].kind = "admin" => k \in saved_admin_sessions)

-----------------------------------------------------------------------------
(* Refresh *)

\* POST auth/refresh: the token is looked at ...
Refresh(k) ==
  /\ Held(k) /\ Accepted(k)
  /\ token[k].kind = "refresh"
  /\ refreshing' = refreshing \cup {k}
  /\ UNCHANGED <<now, token, memory_vars, saved_vars, admitting, leaving, history_vars>>

\* ... and answered with an access token of its session and the same refresh token.
RefreshedRolling(k, fresh) ==
  [token EXCEPT ![fresh] = Claims("access", token[k].session, token[k].login),
                ![k].expires_at = now + RefreshLife]
Refreshed(k, fresh) ==
  [token EXCEPT ![fresh] = Claims("access", token[k].session, token[k].login)]

RefreshReturns(k, fresh) ==
  /\ k \in refreshing
  /\ fresh \notin Issued
  /\ token' = Refreshed(k, fresh)
  /\ refreshing' = refreshing \ {k}
  /\ UNCHANGED <<now, memory_vars, saved_vars, admitting, leaving, history_vars>>

-----------------------------------------------------------------------------
(* Logout *)

At(k, stage) == leaving[k] = stage
Continue(k, stage) == leaving' = [leaving EXCEPT ![k] = stage]

\* POST auth/logout with a token of any kind: revoke_token_id in memory ...
Logout(k) ==
  /\ Held(k) /\ Unexpired(k) /\ Active(k)
  /\ At(k, "no")
  /\ revoked_tokens' = revoked_tokens \cup {k}
  /\ Continue(k, "token revoked")
  /\ UNCHANGED <<now, token, revoked_sessions, admin_sessions, saved_vars, refreshing,
                 admitting, history_vars>>

\* ... and in the database ...
SaveRevokedToken(k) ==
  /\ At(k, "token revoked")
  /\ saved_tokens' = saved_tokens \cup {k}
  /\ Continue(k, "token saved")
  /\ UNCHANGED <<now, token, memory_vars, saved_sessions, saved_admin_sessions, refreshing,
                 admitting, history_vars>>

\* ... revoke_token_session in memory ...
RevokeSession(k) ==
  /\ At(k, "token saved")
  /\ revoked_sessions' = revoked_sessions \cup {token[k].session}
  /\ Continue(k, "session revoked")
  /\ UNCHANGED <<now, token, revoked_tokens, admin_sessions, saved_vars, refreshing,
                 admitting, history_vars>>

\* ... and in the database, before the answer.
SessionSavedNever(k) == saved_sessions
SessionSaved(k) == saved_sessions \cup {token[k].session}

LogoutReturns(k) ==
  /\ At(k, "session revoked")
  /\ saved_sessions' = SessionSaved(k)
  /\ logged_out' = logged_out \cup {token[k].login}
  /\ Continue(k, "no")
  /\ UNCHANGED <<now, token, opened, memory_vars, saved_tokens, saved_admin_sessions,
                 refreshing, admitting>>

-----------------------------------------------------------------------------
\* The process stops and the next one reads the database: calls under way are gone.
Restart ==
  /\ revoked_tokens' = saved_tokens
  /\ revoked_sessions' = saved_sessions
  /\ admin_sessions' = saved_admin_sessions
  /\ refreshing' = {}
  /\ admitting' = {}
  /\ leaving' = [k \in Tokens |-> "no"]
  /\ UNCHANGED <<now, token, saved_vars, history_vars>>

\* A tick is long compared with a call: a refresh ends in the tick it began in.
Tick ==
  /\ now < LastTime
  /\ refreshing = {}
  /\ now' = now + 1
  /\ UNCHANGED <<token, memory_vars, saved_vars, call_vars, history_vars>>

Init ==
  /\ now = 0
  /\ token = [k \in Tokens |-> NoToken]
  /\ opened = [login \in Logins |-> Never]
  /\ revoked_tokens = {} /\ revoked_sessions = {} /\ admin_sessions = {}
  /\ saved_tokens = {} /\ saved_sessions = {} /\ saved_admin_sessions = {}
  /\ refreshing = {} /\ admitting = {}
  /\ leaving = [k \in Tokens |-> "no"]
  /\ logged_out = {}

Next ==
  \/ \E login \in Logins, k \in Tokens :
       AdminLogin(login, k) \/ \E refresh \in Tokens : WxLogin(login, k, refresh)
  \/ \E k \in Tokens :
       \/ AdminLoginReturns(k)
       \/ Refresh(k)
       \/ \E fresh \in Tokens : RefreshReturns(k, fresh)
       \/ Logout(k) \/ SaveRevokedToken(k) \/ RevokeSession(k) \/ LogoutReturns(k)
  \/ Restart
  \/ Tick

Spec == Init /\ [][Next]_vars
-----------------------------------------------------------------------------
(* Properties *)

\* Every variable has a value the code can store in it.
TypeOK ==
  /\ now \in Times
  /\ token \in [Tokens -> Token \cup {NoToken}]
  /\ opened \in [Logins -> Times \cup {Never}]
  /\ revoked_tokens \cup saved_tokens \subseteq Issued
  /\ revoked_sessions \cup saved_sessions \subseteq Logins
  /\ admin_sessions \cup saved_admin_sessions \subseteq Issued
  /\ refreshing \cup admitting \subseteq Issued
  /\ leaving \in [Tokens -> {"no", "token revoked", "token saved", "session revoked"}]
  /\ logged_out \subseteq Logins

\* Once a logout has answered no token that goes back to its login is accepted, not even
\* one a refresh that was under way issued later, nor after a restart.
LogoutHolds == \A k \in Issued : token[k].login \in logged_out => ~Accepted(k)

\* However often it is refreshed, a login is over when the last access token that its one
\* refresh token could yield has expired.
LoginsEnd ==
  \A k \in Issued :
    Accepted(k) => now < opened[token[k].login] + RefreshLife + AccessLife

\* A logout ends the tokens of its own login only.
OthersStayLoggedIn ==
  [][\A k \in Issued :
       Accepted(k) /\ now' = now /\ ~Accepted(k)' =>
         \/ \E j \in Issued :
              token[j].login = token[k].login /\ (~At(j, "no") \/ ~At(j, "no")')
         \/ k \in admitting]_vars

\* What a caller holds is accepted after a restart if it was before.
RestartLogsNobodyOut ==
  [][Restart => \A k \in Issued \ admitting : Accepted(k) => Accepted(k)']_vars

\* The logins of some tokens.
LoginsOf(tokens) == {token[k].login : k \in tokens}

\* What is promised about logins: LoginLifetimes.  A login is usable while its holder has
\* a token that is accepted.
Lifetimes == INSTANCE LoginLifetimes WITH
  Life <- RefreshLife + AccessLife,
  waiting <- LoginsOf(admitting),
  ending <- LoginsOf({k \in Tokens : ~At(k, "no")}),
  usable <- LoginsOf({k \in Tokens : Held(k) /\ Accepted(k)})

\* Login, refresh and logout implement that promise.
LifetimesKept == Lifetimes!Spec
=============================================================================
