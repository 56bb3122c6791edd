------------------------ MODULE TokenSessionsProofs ------------------------
(***************************************************************************)
(* Theorems about TokenSessions: any number of tokens, logins and calls    *)
(* under way, any lifetimes, restarts at any moment.                       *)
(***************************************************************************)
EXTENDS TokenSessions, TLAPS

\* What the claims of an issued token say of its login.
Sound(k) ==
  /\ token[k].session = token[k].login
  /\ opened[token[k].login] \in Times
  /\ token[k].expires_at <= opened[token[k].login] + RefreshLife + AccessLife
  /\ token[k].kind = "refresh" => token[k].expires_at = opened[token[k].login] + RefreshLife

TokensInv == \A k \in Issued : Sound(k)

\* A refresh under way has a refresh token that is still good.
RefreshingInv == \A k \in refreshing : token[k].kind = "refresh" /\ Unexpired(k)

\* What a logout under way has revoked by now.
LeavingInv ==
  \A k \in Tokens :
    /\ ~At(k, "no") => k \in revoked_tokens
    /\ At(k, "session revoked") => token[k].session \in revoked_sessions

\* The rows of the database against memory and against what was answered.
SavedInv ==
  /\ saved_tokens \subseteq revoked_tokens
  /\ saved_sessions \subseteq revoked_sessions
  /\ logged_out \subseteq saved_sessions
  /\ admin_sessions \ admitting \subseteq saved_admin_sessions

\* The inductive invariant.
SessionsInv == TypeOK /\ TokensInv /\ RefreshingInv /\ LeavingInv /\ SavedInv

-----------------------------------------------------------------------------
(* Tokens are only ever added *)

LEMMA ClaimsAreToken ==
  ASSUME now \in Times, NEW kind \in {"access", "refresh", "admin"},
         NEW login \in Logins
  PROVE  /\ Claims(kind, login, login) \in Token
         /\ Claims(kind, login, login).kind = kind
         /\ Claims(kind, login, login).session = login
         /\ Claims(kind, login, login).login = login
         /\ Claims(kind, login, login).expires_at
              = now + IF kind = "refresh" THEN RefreshLife ELSE AccessLife
<1>1. now + (IF kind = "refresh" THEN RefreshLife ELSE AccessLife)
        \in 0..(LastTime + AccessLife + RefreshLife)
  BY LifeAssumption DEF Times
<1>2. QED
  BY <1>1 DEF Claims, Token

\* The three steps that issue tokens: those issued before stay what they are, and the
\* new ones are sound.
LEMMA IssuingIsSound ==
  ASSUME SessionsInv,
         \/ \E login \in Logins, k \in Tokens :
              AdminLogin(login, k) \/ \E refresh \in Tokens : WxLogin(login, k, refresh)
         \/ \E k, fresh \in Tokens : RefreshReturns(k, fresh)
  PROVE  /\ token' \in [Tokens -> Token \cup {NoToken}]
         /\ opened' \in [Logins -> Times \cup {Never}]
         /\ Issued \subseteq Issued'
         /\ \A k \in Issued : token'[k] = token[k]
         /\ TokensInv'
<1> USE DEF SessionsInv
<1>0. /\ token \in [Tokens -> Token \cup {NoToken}]
      /\ opened \in [Logins -> Times \cup {Never}]
      /\ now \in Times
      /\ \A k \in Issued : token[k] \in Token /\ token[k].login \in Logins
  BY DEF TypeOK, Issued, Token
<1>a. NoToken \notin Token
  BY TokenAssumption
<1>b. ASSUME NEW k \in Issued, token'[k] = token[k],
             opened'[token[k].login] = opened[token[k].login]
      PROVE  Sound(k)'
  BY <1>b DEF TokensInv, Sound, Times
<1>1. ASSUME NEW login \in Logins, NEW k \in Tokens, AdminLogin(login, k)
      PROVE  /\ token' \in [Tokens -> Token \cup {NoToken}]
             /\ opened' \in [Logins -> Times \cup {Never}]
             /\ Issued \subseteq Issued'
             /\ \A j \in Issued : token'[j] = token[j]
             /\ TokensInv'
  <2> DEFINE claims == Claims("admin", login, login)
  <2>1. /\ opened[login] = Never /\ k \notin Issued
        /\ opened' = [opened EXCEPT ![login] = now]
        /\ token' = [token EXCEPT ![k] = claims]
    BY <1>1 DEF AdminLogin, AdminSession
  <2>2. /\ claims \in Token /\ claims.session = login /\ claims.login = login
        /\ claims.kind = "admin" /\ claims.expires_at = now + AccessLife
    BY <1>0, ClaimsAreToken
  <2> HIDE DEF claims
  <2>3. token' \in [Tokens -> Token \cup {NoToken}] /\ opened' \in [Logins -> Times \cup {Never}]
    BY <1>0, <2>1, <2>2
  <2>4. token'[k] = claims /\ \A j \in Tokens : j # k => token'[j] = token[j]
    BY <1>0, <2>1
  <2>5. Issued' = Issued \cup {k} /\ \A j \in Issued : token'[j] = token[j]
    BY <1>a, <2>1, <2>2, <2>4 DEF Issued
  <2>6. \A j \in Issued : token[j].login # login
    BY <2>1, LifeAssumption DEF TokensInv, Sound, Times, Never
  <2>7. \A j \in Issued : Sound(j)'
    BY <1>0, <1>b, <2>1, <2>5, <2>6
  <2>8. Sound(k)'
    BY <1>0, <2>1, <2>2, <2>4, LifeAssumption DEF Sound, Times
  <2>9. QED
    BY <2>3, <2>5, <2>7, <2>8 DEF TokensInv
<1>2. ASSUME NEW login \in Logins, NEW access \in Tokens, NEW refresh \in Tokens,
             WxLogin(login, access, refresh)
      PROVE  /\ token' \in [Tokens -> Token \cup {NoToken}]
             /\ opened' \in [Logins -> Times \cup {Never}]
             /\ Issued \subseteq Issued'
             /\ \A j \in Issued : token'[j] = token[j]
             /\ TokensInv'
  <2> DEFINE first == Claims("access", login, login)
             rolling == Claims("refresh", login, login)
  <2>1. /\ opened[login] = Never /\ access # refresh
        /\ access \notin Issued /\ refresh \notin Issued
        /\ opened' = [opened EXCEPT ![login] = now]
        /\ token' = [token EXCEPT ![access] = first, ![refresh] = rolling]
    BY <1>2 DEF WxLogin
  <2>2. /\ first \in Token /\ first.session = login /\ first.login = login
        /\ first.kind = "access" /\ first.expires_at = now + AccessLife
        /\ rolling \in Token /\ rolling.session = login /\ rolling.login = login
        /\ rolling.kind = "refresh" /\ rolling.expires_at = now + RefreshLife
    BY <1>0, ClaimsAreToken
  <2> HIDE DEF first, rolling
  <2>3. token' \in [Tokens -> Token \cup {NoToken}] /\ opened' \in [Logins -> Times \cup {Never}]
    BY <1>0, <2>1, <2>2
  <2>4. /\ token'[access] = first /\ token'[refresh] = rolling
        /\ \A j \in Tokens \ {access, refresh} : token'[j] = token[j]
    BY <1>0, <2>1
  <2>5. Issued' = Issued \cup {access, refresh} /\ \A j \in Issued : token'[j] = token[j]
    BY <1>a, <2>1, <2>2, <2>4 DEF Issued
  <2>6. \A j \in Issued : token[j].login # login
    BY <2>1, LifeAssumption DEF TokensInv, Sound, Times, Never
  <2>7. \A j \in Issued : Sound(j)'
    BY <1>0, <1>b, <2>1, <2>5, <2>6
  <2>8. Sound(access)' /\ Sound(refresh)'
    BY <1>0, <2>1, <2>2, <2>4, LifeAssumption DEF Sound, Times
  <2>9. QED
    BY <2>3, <2>5, <2>7, <2>8 DEF TokensInv
<1>3. ASSUME NEW k \in Tokens, NEW fresh \in Tokens, RefreshReturns(k, fresh)
      PROVE  /\ token' \in [Tokens -> Token \cup {NoToken}]
             /\ opened' \in [Logins -> Times \cup {Never}]
             /\ Issued \subseteq Issued'
             /\ \A j \in Issued : token'[j] = token[j]
             /\ TokensInv'
  <2> DEFINE login == token[k].login
             claims == Claims("access", login, login)
  <2>1. k \in Issued /\ login \in Logins /\ Sound(k) /\ token[k].kind = "refresh" /\ Unexpired(k)
    BY <1>0, <1>3 DEF RefreshReturns, TypeOK, RefreshingInv, TokensInv
  <2>2. /\ fresh \notin Issued /\ opened' = opened
        /\ token' = [token EXCEPT ![fresh] = claims]
    BY <1>3, <2>1 DEF RefreshReturns, Refreshed, Sound, history_vars
  <2>3. /\ claims \in Token /\ claims.session = login /\ claims.login = login
        /\ claims.kind = "access" /\ claims.expires_at = now + AccessLife
    BY <1>0, <2>1, ClaimsAreToken
  <2>4. now < opened[login] + RefreshLife /\ opened[login] \in Times
    BY <2>1 DEF Sound, Unexpired
  <2> HIDE DEF claims, login
  <2>5. token' \in [Tokens -> Token \cup {NoToken}] /\ opened' \in [Logins -> Times \cup {Never}]
    BY <1>0, <2>2, <2>3
  <2>6. token'[fresh] = claims /\ \A j \in Tokens : j # fresh => token'[j] = token[j]
    BY <1>0, <2>2
  <2>7. Issued' = Issued \cup {fresh} /\ \A j \in Issued : token'[j] = token[j]
    BY <1>a, <2>2, <2>3, <2>6 DEF Issued
  <2>8. \A j \in Issued : Sound(j)'
    BY <1>b, <2>2, <2>7
  <2>9. Sound(fresh)'
    BY <1>0, <2>2, <2>3, <2>4, <2>6, LifeAssumption DEF Sound, Times
  <2>10. QED
    BY <2>5, <2>7, <2>8, <2>9 DEF TokensInv
<1>4. QED
  BY <1>1, <1>2, <1>3

-----------------------------------------------------------------------------
(* The invariant *)

LEMMA SessionsInitially == Init => SessionsInv
<1> SUFFICES ASSUME Init
             PROVE  SessionsInv
  OBVIOUS
<1>1. Issued = {}
  BY DEF Init, Issued
<1>2. TypeOK
  BY <1>1, LifeAssumption DEF Init, TypeOK, Times
<1>3. QED
  BY <1>1, <1>2 DEF Init, SessionsInv, TokensInv, RefreshingInv, LeavingInv, SavedInv, At

LEMMA IssuingKeeps ==
  ASSUME SessionsInv,
         \/ \E login \in Logins, k \in Tokens :
              AdminLogin(login, k) \/ \E refresh \in Tokens : WxLogin(login, k, refresh)
         \/ \E k, fresh \in Tokens : RefreshReturns(k, fresh)
  PROVE  SessionsInv'
<1>1. /\ token' \in [Tokens -> Token \cup {NoToken}]
      /\ opened' \in [Logins -> Times \cup {Never}]
      /\ Issued \subseteq Issued'
      /\ \A k \in Issued : token'[k] = token[k]
      /\ TokensInv'
  BY IssuingIsSound
<1>2. UNCHANGED <<now, revoked_tokens, revoked_sessions, saved_vars, leaving, logged_out>>
  BY DEF AdminLogin, WxLogin, RefreshReturns, memory_vars, saved_vars, call_vars, history_vars
<1>3. \/ UNCHANGED <<admin_sessions, admitting>>
      \/ \E k \in Issued' : /\ admin_sessions' = admin_sessions \cup {k}
                            /\ admitting' = admitting \cup {k}
  <2>1. ASSUME NEW login \in Logins, NEW k \in Tokens, AdminLogin(login, k)
        PROVE  /\ k \in Issued' /\ admin_sessions' = admin_sessions \cup {k}
               /\ admitting' = admitting \cup {k}
    <3> DEFINE claims == Claims("admin", login, login)
    <3>0. claims \in Token
      BY ClaimsAreToken DEF SessionsInv, TypeOK
    <3>1. claims # NoToken
      BY <3>0, TokenAssumption
    <3>2. token' = [token EXCEPT ![k] = claims]
      BY <2>1 DEF AdminLogin, AdminSession
    <3> HIDE DEF claims
    <3>3. token'[k] = claims
      BY <3>2 DEF SessionsInv, TypeOK
    <3>4. QED
      BY <2>1, <3>1, <3>3 DEF AdminLogin, Issued
  <2>2. CASE \/ \E login \in Logins, k, refresh \in Tokens : WxLogin(login, k, refresh)
             \/ \E k, fresh \in Tokens : RefreshReturns(k, fresh)
    BY <2>2 DEF WxLogin, RefreshReturns, memory_vars, call_vars
  <2>3. QED
    BY <2>1, <2>2
<1>4. refreshing' \subseteq refreshing
  BY DEF AdminLogin, WxLogin, RefreshReturns, call_vars
<1>5. TypeOK'
  BY <1>1, <1>2, <1>3, <1>4 DEF SessionsInv, TypeOK, saved_vars, Times, Never
<1>6. RefreshingInv'
  <2>1. \A k \in refreshing : k \in Issued /\ token'[k] = token[k]
    BY <1>1 DEF SessionsInv, TypeOK
  <2>2. QED
    BY <1>2, <1>4, <2>1 DEF SessionsInv, RefreshingInv, Unexpired
<1>7. LeavingInv'
  <2>1. \A k \in Tokens : ~At(k, "no") => k \in revoked_tokens /\ k \in Issued
    BY DEF SessionsInv, LeavingInv, TypeOK
  <2>2. \A k \in Tokens : At(k, "session revoked") => ~At(k, "no")
    BY DEF At
  <2>3. QED
    BY <1>1, <1>2, <2>1, <2>2 DEF SessionsInv, LeavingInv, At
<1>8. SavedInv'
  BY <1>2, <1>3 DEF SessionsInv, SavedInv, saved_vars
<1>9. QED
  BY <1>1, <1>5, <1>6, <1>7, <1>8 DEF SessionsInv

\* The other steps look at issued tokens and leave them as they are.
LEMMA TokensStay ==
  ASSUME SessionsInv, UNCHANGED <<token, opened>>
  PROVE  Issued' = Issued /\ TokensInv'
  BY DEF SessionsInv, TokensInv, Sound, Issued

LEMMA LogoutKeeps ==
  ASSUME SessionsInv, NEW k \in Tokens,
         Logout(k) \/ SaveRevokedToken(k) \/ RevokeSession(k) \/ LogoutReturns(k)
  PROVE  SessionsInv'
<1>1. UNCHANGED <<now, token, opened, admin_sessions, saved_admin_sessions, refreshing, admitting>>
  BY DEF Logout, SaveRevokedToken, RevokeSession, LogoutReturns, memory_vars, saved_vars,
         history_vars
<1>2. Issued' = Issued /\ TokensInv'
  BY <1>1, TokensStay
<1>3. k \in Issued
  BY DEF SessionsInv, LeavingInv, TypeOK, Logout, SaveRevokedToken, RevokeSession,
         LogoutReturns, Held, At
<1>4. token[k].session \in Logins /\ token[k].login = token[k].session
  BY <1>3 DEF SessionsInv, TypeOK, TokensInv, Sound, Issued, Token
<1>5. leaving \in [Tokens -> {"no", "token revoked", "token saved", "session revoked"}]
  BY DEF SessionsInv, TypeOK
<1>6. RefreshingInv'
  BY <1>1 DEF SessionsInv, RefreshingInv, Unexpired
<1>7. CASE Logout(k)
  <2>1. leaving' = [leaving EXCEPT ![k] = "token revoked"] /\ revoked_tokens' = revoked_tokens \cup {k}
        /\ UNCHANGED <<revoked_sessions, saved_tokens, saved_sessions, logged_out>>
    BY <1>7 DEF Logout, Continue, saved_vars, history_vars
  <2>2. TypeOK'
    BY <1>1, <1>2, <1>3, <2>1 DEF SessionsInv, TypeOK
  <2>3. LeavingInv'
    BY <1>1, <1>5, <2>1 DEF SessionsInv, LeavingInv, At
  <2>4. SavedInv'
    BY <1>1, <2>1 DEF SessionsInv, SavedInv
  <2>5. QED
    BY <1>2, <1>6, <2>2, <2>3, <2>4 DEF SessionsInv
<1>8. CASE SaveRevokedToken(k)
  <2>1. leaving[k] = "token revoked" /\ leaving' = [leaving EXCEPT ![k] = "token saved"]
        /\ saved_tokens' = saved_tokens \cup {k}
        /\ UNCHANGED <<revoked_tokens, revoked_sessions, saved_sessions, logged_out>>
    BY <1>8 DEF SaveRevokedToken, At, Continue, memory_vars, history_vars
  <2>2. TypeOK'
    BY <1>1, <1>2, <1>3, <2>1 DEF SessionsInv, TypeOK
  <2>3. LeavingInv'
    BY <1>1, <1>5, <2>1 DEF SessionsInv, LeavingInv, At
  <2>4. SavedInv'
    BY <1>1, <2>1 DEF SessionsInv, SavedInv, LeavingInv, At
  <2>5. QED
    BY <1>2, <1>6, <2>2, <2>3, <2>4 DEF SessionsInv
<1>9. CASE RevokeSession(k)
  <2>1. leaving[k] = "token saved" /\ leaving' = [leaving EXCEPT ![k] = "session revoked"]
        /\ revoked_sessions' = revoked_sessions \cup {token[k].session}
        /\ UNCHANGED <<revoked_tokens, saved_tokens, saved_sessions, logged_out>>
    BY <1>9 DEF RevokeSession, At, Continue, saved_vars, history_vars
  <2>2. TypeOK'
    BY <1>1, <1>2, <1>4, <2>1 DEF SessionsInv, TypeOK
  <2>3. LeavingInv'
    BY <1>1, <1>5, <2>1 DEF SessionsInv, LeavingInv, At
  <2>4. SavedInv'
    BY <1>1, <2>1 DEF SessionsInv, SavedInv
  <2>5. QED
    BY <1>2, <1>6, <2>2, <2>3, <2>4 DEF SessionsInv
<1>10. CASE LogoutReturns(k)
  <2>1. leaving[k] = "session revoked" /\ leaving' = [leaving EXCEPT ![k] = "no"]
        /\ saved_sessions' = saved_sessions \cup {token[k].session}
        /\ logged_out' = logged_out \cup {token[k].login}
        /\ UNCHANGED <<revoked_tokens, revoked_sessions, saved_tokens>>
    BY <1>10 DEF LogoutReturns, SessionSaved, At, Continue, memory_vars
  <2>2. TypeOK'
    BY <1>1, <1>2, <1>4, <2>1 DEF SessionsInv, TypeOK
  <2>3. LeavingInv'
    BY <1>1, <1>5, <2>1 DEF SessionsInv, LeavingInv, At
  <2>4. SavedInv'
    BY <1>1, <1>4, <2>1 DEF SessionsInv, SavedInv, LeavingInv, At
  <2>5. QED
    BY <1>2, <1>6, <2>2, <2>3, <2>4 DEF SessionsInv
<1>11. QED
  BY <1>7, <1>8, <1>9, <1>10

LEMMA OtherCallsKeep ==
  ASSUME SessionsInv,
         \/ \E k \in Tokens : AdminLoginReturns(k) \/ Refresh(k)
         \/ Restart \/ Tick \/ UNCHANGED vars
  PROVE  SessionsInv'
<1>1. UNCHANGED <<token, opened, logged_out>>
  BY DEF AdminLoginReturns, Refresh, Restart, Tick, vars, history_vars
<1>2. Issued' = Issued /\ TokensInv'
  BY <1>1, TokensStay
<1>3. ASSUME NEW k \in Tokens, AdminLoginReturns(k)
      PROVE  SessionsInv'
  <2>1. /\ k \in admitting /\ admitting' = admitting \ {k}
        /\ saved_admin_sessions' = saved_admin_sessions \cup {k}
        /\ UNCHANGED <<now, memory_vars, saved_tokens, saved_sessions, refreshing, leaving>>
    BY <1>3 DEF AdminLoginReturns, SavedAdmins
  <2>2. QED
    BY <1>1, <1>2, <2>1
       DEF SessionsInv, TypeOK, RefreshingInv, Unexpired, LeavingInv, At, SavedInv, memory_vars
<1>4. ASSUME NEW k \in Tokens, Refresh(k)
      PROVE  SessionsInv'
  <2>1. /\ k \in Issued /\ Unexpired(k) /\ token[k].kind = "refresh"
        /\ refreshing' = refreshing \cup {k}
        /\ UNCHANGED <<now, memory_vars, saved_vars, admitting, leaving>>
    BY <1>4 DEF Refresh, Accepted
  <2>2. QED
    BY <1>1, <1>2, <2>1
       DEF SessionsInv, TypeOK, RefreshingInv, Unexpired, LeavingInv, At, SavedInv, memory_vars,
           saved_vars
<1>5. CASE Restart
  <2>1. \A k \in Tokens : leaving'[k] = "no"
    BY <1>5 DEF Restart
  <2>2. LeavingInv'
    BY <2>1 DEF LeavingInv, At
  <2>3. TypeOK' /\ RefreshingInv' /\ SavedInv'
    BY <1>1, <1>2, <1>5 DEF Restart, SessionsInv, TypeOK, RefreshingInv, SavedInv, saved_vars
  <2>4. QED
    BY <1>2, <2>2, <2>3 DEF SessionsInv
<1>6. CASE Tick
  <2>1. refreshing = {} /\ now' \in Times
    <3>1. now \in 0..LastTime /\ now < LastTime /\ now' = now + 1 /\ refreshing = {}
      BY <1>6 DEF Tick, SessionsInv, TypeOK, Times
    <3>2. QED
      BY <3>1, LifeAssumption DEF Times
  <2>2. UNCHANGED <<memory_vars, saved_vars, call_vars>>
    BY <1>6 DEF Tick
  <2>3. QED
    BY <1>1, <1>2, <2>1, <2>2
       DEF SessionsInv, TypeOK, RefreshingInv, LeavingInv, At, SavedInv, memory_vars,
           saved_vars, call_vars
<1>7. CASE UNCHANGED vars
  BY <1>1, <1>2, <1>7
     DEF SessionsInv, TypeOK, RefreshingInv, Unexpired, LeavingInv, At, SavedInv, vars,
         memory_vars, saved_vars, call_vars
<1>8. QED
  BY <1>3, <1>4, <1>5, <1>6, <1>7

LEMMA SessionsKept == SessionsInv /\ [Next]_vars => SessionsInv'
<1> SUFFICES ASSUME SessionsInv, [Next]_vars
             PROVE  SessionsInv'
  OBVIOUS
<1>1. CASE \/ \E login \in Logins, k \in Tokens :
                AdminLogin(login, k) \/ \E refresh \in Tokens : WxLogin(login, k, refresh)
           \/ \E k, fresh \in Tokens : RefreshReturns(k, fresh)
  BY <1>1, IssuingKeeps
<1>2. CASE \E k \in Tokens : Logout(k) \/ SaveRevokedToken(k) \/ RevokeSession(k) \/ LogoutReturns(k)
  BY <1>2, LogoutKeeps
<1>3. CASE \/ \E k \in Tokens : AdminLoginReturns(k) \/ Refresh(k)
           \/ Restart \/ Tick \/ UNCHANGED vars
  BY <1>3, OtherCallsKeep
<1>4. QED
  BY <1>1, <1>2, <1>3 DEF Next

LEMMA SessionsInvHolds == Spec => []SessionsInv
  BY SessionsInitially, SessionsKept, PTL DEF Spec

-----------------------------------------------------------------------------
(* What the invariant gives *)

\* Every variable of process, database and calls keeps its type.
THEOREM SessionsTypeCorrect == Spec => []TypeOK
<1>1. SessionsInv => TypeOK
  BY DEF SessionsInv
<1>2. QED
  BY <1>1, SessionsInvHolds, PTL

\* An answered logout holds for every token of its login, issued before or after, across
\* restarts.
THEOREM LogoutIsFinal == Spec => []LogoutHolds
<1>1. SessionsInv => LogoutHolds
  BY DEF SessionsInv, TokensInv, Sound, SavedInv, LogoutHolds, Accepted, Active
<1>2. QED
  BY <1>1, SessionsInvHolds, PTL

\* No chain of refreshes carries a login beyond the lives of one refresh and one access
\* token.
THEOREM LoginsDoEnd == Spec => []LoginsEnd
<1>1. SessionsInv => LoginsEnd
  <2>1. SUFFICES ASSUME SessionsInv, NEW k \in Issued, Accepted(k)
                 PROVE  now < opened[token[k].login] + RefreshLife + AccessLife
    BY DEF LoginsEnd
  <2>2. now \in Nat /\ opened[token[k].login] \in Nat /\ token[k].expires_at \in Nat
    <3>1. token[k] \in Token
      BY <2>1 DEF SessionsInv, TypeOK, Issued
    <3>2. \A n \in Times : n \in Nat
      BY LifeAssumption DEF Times
    <3>3. \A n \in 0..(LastTime + AccessLife + RefreshLife) : n \in Nat
      BY LifeAssumption
    <3>4. now \in Times /\ opened[token[k].login] \in Times
      BY <2>1 DEF SessionsInv, TypeOK, TokensInv, Sound
    <3>5. token[k].expires_at \in 0..(LastTime + AccessLife + RefreshLife)
      BY <3>1 DEF Token
    <3>6. QED
      BY <3>2, <3>3, <3>4, <3>5
  <2>3. QED
    BY <2>1, <2>2, LifeAssumption DEF SessionsInv, TokensInv, Sound, Accepted, Unexpired
<1>2. QED
  BY <1>1, SessionsInvHolds, PTL

LEMMA StaysAccepted ==
  ASSUME NEW k \in Issued, Accepted(k), token'[k] = token[k], now' = now,
         k \notin revoked_tokens', token[k].session \notin revoked_sessions',
         k \in admin_sessions => k \in admin_sessions', k \in Tokens, token[k] # NoToken
  PROVE  Accepted(k)'
<1>1. (k \in Issued)'
  BY DEF Issued
<1>2. Unexpired(k)' /\ Active(k)' /\ Recorded(k)'
  BY DEF Accepted, Unexpired, Active, Recorded
<1>3. QED
  BY <1>1, <1>2 DEF Accepted

\* A logout ends only its own login: every other token stays accepted until it expires.
THEOREM LogoutSparesOthers == Spec => OthersStayLoggedIn
<1> DEFINE Ended(k) == \/ \E j \in Issued :
                            token[j].login = token[k].login /\ (~At(j, "no") \/ ~At(j, "no")')
                       \/ k \in admitting
           Spared == \A k \in Issued : Accepted(k) /\ now' = now /\ ~Accepted(k)' => Ended(k)
<1>1. SessionsInv /\ [Next]_vars => [Spared]_vars
  <2> SUFFICES ASSUME SessionsInv, Next, NEW k \in Issued, Accepted(k), now' = now, ~Accepted(k)'
               PROVE  Ended(k)
    OBVIOUS
  <2>0. /\ k \in Tokens /\ token[k] # NoToken /\ now \in Nat
        /\ k \notin revoked_tokens /\ token[k].session \notin revoked_sessions
        /\ token[k].login = token[k].session
    <3>1. now \in Times
      BY DEF SessionsInv, TypeOK
    <3>2. \A n \in Times : n \in Nat
      BY LifeAssumption DEF Times
    <3>3. QED
      BY <3>1, <3>2 DEF SessionsInv, TokensInv, Sound, Issued, Accepted, Active
  <2>1. CASE \/ \E login \in Logins, j \in Tokens :
                  AdminLogin(login, j) \/ \E refresh \in Tokens : WxLogin(login, j, refresh)
             \/ \E j, fresh \in Tokens : RefreshReturns(j, fresh)
    <3>1. token'[k] = token[k]
      BY <2>1, IssuingIsSound
    <3>2. UNCHANGED <<revoked_tokens, revoked_sessions>> /\ admin_sessions \subseteq admin_sessions'
      BY <2>1 DEF AdminLogin, WxLogin, RefreshReturns, memory_vars
    <3>3. QED
      BY <2>0, <3>1, <3>2, StaysAccepted
  <2>2. ASSUME NEW j \in Tokens, AdminLoginReturns(j) \/ Refresh(j) \/ SaveRevokedToken(j) \/ LogoutReturns(j)
        PROVE  Ended(k)
    <3>1. UNCHANGED <<token, revoked_tokens, revoked_sessions, admin_sessions>>
      BY <2>2 DEF AdminLoginReturns, Refresh, SaveRevokedToken, LogoutReturns, memory_vars
    <3>2. QED
      BY <2>0, <3>1, StaysAccepted
  <2>3. ASSUME NEW j \in Tokens, Logout(j)
        PROVE  Ended(k)
    <3>1. /\ UNCHANGED <<token, revoked_sessions, admin_sessions>>
          /\ revoked_tokens' = revoked_tokens \cup {j}
          /\ leaving' = [leaving EXCEPT ![j] = "token revoked"]
      BY <2>3 DEF Logout, Continue
    <3>2. j = k
      BY <2>0, <3>1, StaysAccepted
    <3>3. ~At(k, "no")'
      BY <2>0, <3>1, <3>2 DEF At, SessionsInv, TypeOK
    <3>4. QED
      BY <3>3
  <2>4. ASSUME NEW j \in Tokens, RevokeSession(j)
        PROVE  Ended(k)
    <3>1. /\ UNCHANGED <<token, revoked_tokens, admin_sessions>>
          /\ revoked_sessions' = revoked_sessions \cup {token[j].session}
          /\ ~At(j, "no")
      BY <2>4 DEF RevokeSession, At
    <3>2. j \in Issued /\ token[j].login = token[j].session
      BY <3>1 DEF SessionsInv, LeavingInv, TypeOK, TokensInv, Sound
    <3>3. token[j].session = token[k].session
      BY <2>0, <3>1, StaysAccepted
    <3>4. QED
      BY <2>0, <3>1, <3>2, <3>3
  <2>5. CASE Restart
    <3>1. /\ UNCHANGED token /\ revoked_tokens' = saved_tokens
          /\ revoked_sessions' = saved_sessions /\ admin_sessions' = saved_admin_sessions
      BY <2>5 DEF Restart
    <3>2. k \in admin_sessions /\ k \notin admitting => k \in admin_sessions'
      BY <3>1 DEF SessionsInv, SavedInv
    <3>3. k \notin revoked_tokens' /\ token[k].session \notin revoked_sessions'
      BY <2>0, <3>1 DEF SessionsInv, SavedInv
    <3>4. QED
      BY <2>0, <3>1, <3>2, <3>3, StaysAccepted
  <2>6. CASE Tick
    BY <2>0, <2>6 DEF Tick
  <2>7. QED
    BY <2>1, <2>2, <2>3, <2>4, <2>5, <2>6 DEF Next
<1>2. QED
  BY <1>1, SessionsInvHolds, PTL DEF Spec, OthersStayLoggedIn

\* A restart ends nobody's login: what was recorded is recorded in the database too, and
\* nothing is revoked there that was not in memory.
THEOREM RestartKeepsLogins == Spec => RestartLogsNobodyOut
<1> DEFINE Kept == Restart => \A k \in Issued \ admitting : Accepted(k) => Accepted(k)'
<1>1. SessionsInv /\ [Next]_vars => [Kept]_vars
  <2> SUFFICES ASSUME SessionsInv, Restart, NEW k \in Issued \ admitting, Accepted(k)
               PROVE  Accepted(k)'
    OBVIOUS
  <2>1. /\ UNCHANGED <<now, token>> /\ revoked_tokens' = saved_tokens
        /\ revoked_sessions' = saved_sessions /\ admin_sessions' = saved_admin_sessions
    BY DEF Restart
  <2>2. k \in Tokens /\ token[k] # NoToken
    BY DEF Issued
  <2>3. /\ k \notin revoked_tokens' /\ token[k].session \notin revoked_sessions'
        /\ k \in admin_sessions => k \in admin_sessions'
    BY <2>1 DEF SessionsInv, SavedInv, Accepted, Active
  <2>4. QED
    BY <2>1, <2>2, <2>3, StaysAccepted
<1>2. QED
  BY <1>1, SessionsInvHolds, PTL DEF Spec, RestartLogsNobodyOut

(***************************************************************************)
(* The refinement of LoginLifetimes.                                       *)
(***************************************************************************)

Waiting == LoginsOf(admitting)
Ending == LoginsOf({k \in Tokens : ~At(k, "no")})
Usable == LoginsOf({k \in Tokens : Held(k) /\ Accepted(k)})

\* Whatever is revoked and not yet saved belongs to a logout under way.
UnsavedInv ==
  /\ \A k \in revoked_tokens \ saved_tokens : ~At(k, "no")
  /\ \A s \in revoked_sessions \ saved_sessions :
       \E j \in Tokens : At(j, "session revoked") /\ token[j].session = s

\* A logout saves its token before it goes on to the session.
SavedTokenInv ==
  \A k \in Tokens : At(k, "token saved") \/ At(k, "session revoked") => k \in saved_tokens

\* Sessions are revoked after they are opened.
RevokedInv == \A s \in revoked_sessions : opened[s] \in Times

\* A login of an admin has one token, and its session is recorded in memory.
AdmittingInv ==
  /\ saved_admin_sessions \cup admitting \subseteq admin_sessions
  /\ \A k \in admitting : token[k].kind = "admin"
  /\ \A j, k \in admitting : token[j].login = token[k].login => j = k

\* A refresh let in before the logout of its login can only be under way while that
\* logout is, or when it has answered.
LetInInv == \A k \in refreshing : ~Active(k) => token[k].login \in Ending \cup logged_out

LifetimeInv == UnsavedInv /\ SavedTokenInv /\ RevokedInv /\ AdmittingInv /\ LetInInv

\* Tokens with a logout under way are issued.
LEMMA LeavingIssued ==
  ASSUME SessionsInv, NEW k \in Tokens, ~At(k, "no")
  PROVE  k \in Issued /\ k \in revoked_tokens
  BY DEF SessionsInv, LeavingInv, TypeOK

LEMMA LoginsOfTokens ==
  ASSUME NEW T, NEW login
  PROVE  login \in LoginsOf(T) <=> \E k \in T : token[k].login = login
  BY DEF LoginsOf

LEMMA EndingLogins ==
  ASSUME NEW login
  PROVE  login \in Ending <=> \E k \in Tokens : ~At(k, "no") /\ token[k].login = login
  BY DEF Ending, LoginsOf

LEMMA LifetimeInitially == Init => LifetimeInv
  BY DEF Init, LifetimeInv, UnsavedInv, SavedTokenInv, At, RevokedInv, AdmittingInv, LetInInv

LEMMA IssuingKeepsLifetime ==
  ASSUME SessionsInv, LifetimeInv,
         \/ \E login \in Logins, k \in Tokens :
              AdminLogin(login, k) \/ \E refresh \in Tokens : WxLogin(login, k, refresh)
         \/ \E k, fresh \in Tokens : RefreshReturns(k, fresh)
  PROVE  LifetimeInv'
<1>1. /\ Issued \subseteq Issued' /\ \A k \in Issued : token'[k] = token[k]
      /\ token' \in [Tokens -> Token \cup {NoToken}]
  BY IssuingIsSound
<1>2. /\ UNCHANGED <<revoked_tokens, revoked_sessions, saved_vars, leaving, logged_out, now>>
      /\ refreshing' \subseteq refreshing
      /\ \A l \in Logins : opened[l] \in Times => opened'[l] = opened[l]
  <2>1. Never \notin Times
    BY LifeAssumption DEF Times, Never
  <2>2. ASSUME NEW login \in Logins, NEW k \in Tokens,
               AdminLogin(login, k) \/ \E refresh \in Tokens : WxLogin(login, k, refresh)
        PROVE  /\ UNCHANGED <<revoked_tokens, revoked_sessions, saved_vars, leaving, logged_out,
                              now, refreshing>>
               /\ opened[login] = Never /\ opened' = [opened EXCEPT ![login] = now]
    BY <2>2 DEF AdminLogin, WxLogin, memory_vars, call_vars
  <2>3. ASSUME NEW k \in Tokens, NEW fresh \in Tokens, RefreshReturns(k, fresh)
        PROVE  /\ UNCHANGED <<revoked_tokens, revoked_sessions, saved_vars, leaving, logged_out,
                              now, opened>>
               /\ refreshing' \subseteq refreshing
    BY <2>3 DEF RefreshReturns, memory_vars, history_vars
  <2>4. opened \in [Logins -> Times \cup {Never}]
    BY DEF SessionsInv, TypeOK
  <2>5. QED
    BY <2>1, <2>2, <2>3, <2>4
<1>3. /\ revoked_tokens \subseteq Issued /\ refreshing \subseteq Issued /\ admitting \subseteq Issued
      /\ saved_admin_sessions \subseteq Issued /\ revoked_sessions \subseteq Logins
      /\ Issued \subseteq Tokens
  BY DEF SessionsInv, TypeOK, Issued
<1>4. \A k \in Tokens : At(k, "no")' = At(k, "no") /\ At(k, "session revoked")' = At(k, "session revoked")
  BY <1>2 DEF At
<1>5. UnsavedInv'
  <2>1. \A j \in Tokens : At(j, "session revoked") => j \in Issued
    BY LeavingIssued DEF At
  <2>2. QED
    BY <1>1, <1>2, <1>3, <1>4, <2>1 DEF LifetimeInv, UnsavedInv, saved_vars
<1>6. RevokedInv'
  BY <1>2, <1>3 DEF LifetimeInv, RevokedInv, Times
<1>7. AdmittingInv'
  <2>1. CASE UNCHANGED <<admitting, admin_sessions>>
    BY <1>1, <1>2, <1>3, <2>1 DEF LifetimeInv, AdmittingInv, saved_vars
  <2>2. ASSUME NEW login \in Logins, NEW k \in Tokens, AdminLogin(login, k)
        PROVE  AdmittingInv'
    <3>1. /\ opened[login] = Never /\ k \notin Issued
          /\ token' = [token EXCEPT ![k] = Claims("admin", login, login)]
          /\ admitting' = admitting \cup {k} /\ admin_sessions' = admin_sessions \cup {k}
      BY <2>2 DEF AdminLogin, AdminSession
    <3>2. token'[k].kind = "admin" /\ token'[k].login = login
      <4>1. now \in Times /\ token \in [Tokens -> Token \cup {NoToken}]
        BY DEF SessionsInv, TypeOK
      <4>2. /\ Claims("admin", login, login).kind = "admin"
            /\ Claims("admin", login, login).login = login
        BY <4>1, ClaimsAreToken
      <4>3. token'[k] = Claims("admin", login, login)
        BY <3>1, <4>1
      <4>4. QED
        BY <4>2, <4>3
    <3>3. \A j \in admitting : token'[j] = token[j] /\ token[j].login # login
      BY <1>1, <1>3, <3>1, LifeAssumption
         DEF SessionsInv, TokensInv, Sound, Times, Never
    <3>4. QED
      BY <1>2, <3>1, <3>2, <3>3 DEF LifetimeInv, AdmittingInv, saved_vars
  <2>3. QED
    BY <2>1, <2>2 DEF WxLogin, RefreshReturns, memory_vars, call_vars
<1>8. LetInInv'
  <2>1. ASSUME NEW k \in refreshing', ~Active(k)' PROVE token'[k].login \in Ending' \cup logged_out'
    <3>1. k \in refreshing /\ token'[k] = token[k] /\ ~Active(k)
      BY <1>1, <1>2, <1>3, <2>1 DEF Active
    <3>2. CASE token[k].login \in logged_out
      BY <1>2, <3>1, <3>2
    <3>3. CASE token[k].login \in Ending
      <4>1. PICK j \in Tokens : ~At(j, "no") /\ token[j].login = token[k].login
        BY <3>3, EndingLogins
      <4>2. ~At(j, "no")' /\ token'[j].login = token'[k].login
        BY <1>1, <1>4, <3>1, <4>1, LeavingIssued
      <4>3. QED
        BY <4>2 DEF Ending, LoginsOf
    <3>4. QED
      BY <3>1, <3>2, <3>3 DEF LifetimeInv, LetInInv
  <2>2. QED
    BY <2>1 DEF LetInInv
<1>9. SavedTokenInv'
  BY <1>2 DEF LifetimeInv, SavedTokenInv, At, saved_vars
<1>10. QED
  BY <1>5, <1>6, <1>7, <1>8, <1>9 DEF LifetimeInv

\* The second half of UnsavedInv outlives a step that forgets no logout it needs.
LEMMA UnsavedKept ==
  ASSUME UnsavedInv, UNCHANGED token,
         \A j \in revoked_tokens' \ saved_tokens' : ~At(j, "no")',
         \A s \in revoked_sessions' \ saved_sessions' :
           \/ /\ s \in revoked_sessions \ saved_sessions
              /\ \A j \in Tokens : At(j, "session revoked") /\ token[j].session = s
                                => At(j, "session revoked")'
           \/ \E j \in Tokens : At(j, "session revoked")' /\ token[j].session = s
  PROVE  UnsavedInv'
<1>1. ASSUME NEW s \in revoked_sessions' \ saved_sessions'
      PROVE  \E j \in Tokens : At(j, "session revoked")' /\ token'[j].session = s
  BY <1>1 DEF UnsavedInv
<1>2. QED
  BY <1>1 DEF UnsavedInv

LEMMA EndingGrows ==
  ASSUME UNCHANGED token, \A j \in Tokens : ~At(j, "no") => ~At(j, "no")'
  PROVE  Ending \subseteq Ending'
  BY DEF Ending, LoginsOf

LEMMA LogoutKeepsLifetime ==
  ASSUME SessionsInv, LifetimeInv, NEW k \in Tokens,
         Logout(k) \/ SaveRevokedToken(k) \/ RevokeSession(k) \/ LogoutReturns(k)
  PROVE  LifetimeInv'
<1>1. /\ UNCHANGED <<token, opened, now, refreshing, admitting, admin_sessions,
                     saved_admin_sessions>>
      /\ Issued' = Issued
  BY DEF Logout, SaveRevokedToken, RevokeSession, LogoutReturns, Issued, memory_vars, saved_vars,
         history_vars
<1>2. /\ leaving \in [Tokens -> {"no", "token revoked", "token saved", "session revoked"}]
      /\ k \in Issued /\ token[k].login \in Logins
      /\ token[k].session = token[k].login /\ opened[token[k].login] \in Times
      /\ \A j \in refreshing : j \in Issued /\ token[j].session = token[j].login
  <2>1. k \in Issued
    BY LeavingIssued DEF Logout, SaveRevokedToken, RevokeSession, LogoutReturns, Held, At
  <2>2. \A j \in Issued : token[j] \in Token
    BY DEF SessionsInv, TypeOK, Issued
  <2>3. QED
    BY <2>1, <2>2 DEF SessionsInv, TypeOK, TokensInv, Sound, Token
<1>3. AdmittingInv'
  BY <1>1 DEF LifetimeInv, AdmittingInv
<1>a. SavedTokenInv'
  BY <1>2 DEF LifetimeInv, SavedTokenInv, At, Logout, SaveRevokedToken, RevokeSession, LogoutReturns,
              Continue, saved_vars
<1>4. CASE Logout(k)
  <2>1. /\ At(k, "no") /\ leaving' = [leaving EXCEPT ![k] = "token revoked"]
        /\ revoked_tokens' = revoked_tokens \cup {k}
        /\ UNCHANGED <<revoked_sessions, saved_tokens, saved_sessions, logged_out>>
    BY <1>4 DEF Logout, Continue, saved_vars, history_vars
  <2>2. \A j \in Tokens : leaving'[j] = IF j = k THEN "token revoked" ELSE leaving[j]
    BY <1>2, <2>1
  <2>0. \A j \in Tokens : leaving'[j] = "no" => j # k /\ leaving[j] = "no"
    BY <2>2
  <2>3. UnsavedInv'
    <3>1. \A j \in Tokens : At(j, "session revoked") => At(j, "session revoked")'
      BY <2>1, <2>2 DEF At
    <3>2. k \in Tokens /\ ~At(k, "no")' /\ \A j \in revoked_tokens : j \in Tokens
      BY <2>2 DEF At, SessionsInv, TypeOK, Issued
    <3>3. \A j \in revoked_tokens' \ saved_tokens' : ~At(j, "no")'
      BY <2>1, <2>0, <3>2 DEF LifetimeInv, UnsavedInv, At
    <3>4. QED
      BY <1>1, <2>1, <3>1, <3>2, <3>3, UnsavedKept DEF LifetimeInv
  <2>4. RevokedInv'
    BY <1>1, <2>1 DEF LifetimeInv, RevokedInv, Times
  <2>5. Ending \cup {token[k].login} \subseteq Ending'
    BY <1>1, <2>2 DEF Ending, LoginsOf, At
  <2>6. \A j \in refreshing : ~Active(j)' => ~Active(j) \/ j = k
    BY <1>1, <2>1 DEF Active
  <2>7. LetInInv'
    BY <1>1, <2>1, <2>5, <2>6 DEF LifetimeInv, LetInInv
  <2>8. QED
    BY <1>3, <1>a, <2>3, <2>4, <2>7 DEF LifetimeInv
<1>5. CASE SaveRevokedToken(k)
  <2>1. /\ At(k, "token revoked") /\ leaving' = [leaving EXCEPT ![k] = "token saved"]
        /\ saved_tokens' = saved_tokens \cup {k}
        /\ UNCHANGED <<revoked_tokens, revoked_sessions, saved_sessions, logged_out>>
    BY <1>5 DEF SaveRevokedToken, Continue, memory_vars, history_vars
  <2>2. \A j \in Tokens : leaving'[j] = IF j = k THEN "token saved" ELSE leaving[j]
    BY <1>2, <2>1
  <2>0. \A j \in Tokens : leaving'[j] = "no" => j # k /\ leaving[j] = "no"
    BY <2>2
  <2>3. UnsavedInv'
    <3>1. \A j \in Tokens : At(j, "session revoked") => At(j, "session revoked")'
      BY <2>1, <2>2 DEF At
    <3>2. \A j \in revoked_tokens : j \in Tokens
      BY DEF SessionsInv, TypeOK, Issued
    <3>3. \A j \in revoked_tokens' \ saved_tokens' : ~At(j, "no")'
      BY <2>1, <2>0, <3>2 DEF LifetimeInv, UnsavedInv, At
    <3>4. QED
      BY <1>1, <2>1, <3>1, <3>2, <3>3, UnsavedKept DEF LifetimeInv
  <2>4. RevokedInv'
    BY <1>1, <2>1 DEF LifetimeInv, RevokedInv, Times
  <2>5. Ending \subseteq Ending'
    <3>1. \A j \in Tokens : ~At(j, "no") => ~At(j, "no")'
      BY <2>0 DEF At
    <3>2. QED
      BY <1>1, <3>1, EndingGrows
  <2>6. LetInInv'
    BY <1>1, <2>1, <2>5 DEF LifetimeInv, LetInInv, Active
  <2>7. QED
    BY <1>3, <1>a, <2>3, <2>4, <2>6 DEF LifetimeInv
<1>6. CASE RevokeSession(k)
  <2>1. /\ At(k, "token saved") /\ leaving' = [leaving EXCEPT ![k] = "session revoked"]
        /\ revoked_sessions' = revoked_sessions \cup {token[k].session}
        /\ UNCHANGED <<revoked_tokens, saved_tokens, saved_sessions, logged_out>>
    BY <1>6 DEF RevokeSession, Continue, saved_vars, history_vars
  <2>2. \A j \in Tokens : leaving'[j] = IF j = k THEN "session revoked" ELSE leaving[j]
    BY <1>2, <2>1
  <2>0. \A j \in Tokens : leaving'[j] = "no" => j # k /\ leaving[j] = "no"
    BY <2>2
  <2>3. UnsavedInv'
    <3>1. \A j \in Tokens : At(j, "session revoked") => At(j, "session revoked")'
      BY <2>1, <2>2 DEF At
    <3>2. At(k, "session revoked")' /\ \A j \in revoked_tokens : j \in Tokens
      BY <2>2 DEF At, SessionsInv, TypeOK, Issued
    <3>3. \A j \in revoked_tokens' \ saved_tokens' : ~At(j, "no")'
      BY <2>1, <2>0, <3>2 DEF LifetimeInv, UnsavedInv, At
    <3>4. QED
      BY <1>1, <2>1, <3>1, <3>2, <3>3, UnsavedKept DEF LifetimeInv
  <2>4. RevokedInv'
    BY <1>1, <1>2, <2>1 DEF LifetimeInv, RevokedInv, Times
  <2>5. Ending \subseteq Ending' /\ token[k].login \in Ending'
    <3>1. \A j \in Tokens : ~At(j, "no") => ~At(j, "no")'
      BY <2>0 DEF At
    <3>2. ~At(k, "no")'
      BY <2>2 DEF At
    <3>3. QED
      BY <1>1, <3>1, <3>2, EndingGrows DEF Ending, LoginsOf
  <2>6. \A j \in refreshing : ~Active(j)' => ~Active(j) \/ token[j].login = token[k].login
    BY <1>1, <1>2, <2>1 DEF Active
  <2>7. LetInInv'
    BY <1>1, <2>1, <2>5, <2>6 DEF LifetimeInv, LetInInv
  <2>8. QED
    BY <1>3, <1>a, <2>3, <2>4, <2>7 DEF LifetimeInv
<1>7. CASE LogoutReturns(k)
  <2>1. /\ At(k, "session revoked") /\ leaving' = [leaving EXCEPT ![k] = "no"]
        /\ saved_sessions' = saved_sessions \cup {token[k].session}
        /\ logged_out' = logged_out \cup {token[k].login}
        /\ UNCHANGED <<revoked_tokens, revoked_sessions, saved_tokens>>
    BY <1>7 DEF LogoutReturns, SessionSaved, Continue, memory_vars
  <2>2. \A j \in Tokens : leaving'[j] = IF j = k THEN "no" ELSE leaving[j]
    BY <1>2, <2>1
  <2>3. UnsavedInv'
    <3>1. \A j \in Tokens : j # k /\ At(j, "session revoked") => At(j, "session revoked")'
      BY <2>2 DEF At
    <3>2. \A j \in revoked_tokens \ saved_tokens : j # k => ~At(j, "no")'
      BY <2>2 DEF LifetimeInv, UnsavedInv, At, SessionsInv, TypeOK, Issued
    <3>3. k \in saved_tokens
      BY <2>1 DEF LifetimeInv, SavedTokenInv
    <3>4. QED
      BY <1>1, <2>1, <3>1, <3>2, <3>3 DEF LifetimeInv, UnsavedInv
  <2>4. RevokedInv'
    BY <1>1, <2>1 DEF LifetimeInv, RevokedInv, Times
  <2>5. Ending \subseteq Ending' \cup {token[k].login}
    BY <1>1, <2>2 DEF Ending, LoginsOf, At
  <2>6. LetInInv'
    BY <1>1, <2>1, <2>5 DEF LifetimeInv, LetInInv, Active
  <2>7. QED
    BY <1>3, <1>a, <2>3, <2>4, <2>6 DEF LifetimeInv
<1>8. QED
  BY <1>4, <1>5, <1>6, <1>7

LEMMA OtherCallsKeepLifetime ==
  ASSUME SessionsInv, LifetimeInv,
         \/ \E k \in Tokens : AdminLoginReturns(k) \/ Refresh(k)
         \/ Restart \/ Tick \/ UNCHANGED vars
  PROVE  LifetimeInv'
<1>1. UNCHANGED <<token, opened, logged_out>>
  BY DEF AdminLoginReturns, Refresh, Restart, Tick, vars, history_vars
<1>2. ASSUME UNCHANGED <<revoked_tokens, revoked_sessions, saved_tokens, saved_sessions, leaving>>
      PROVE  UnsavedInv' /\ SavedTokenInv' /\ RevokedInv' /\ Ending' = Ending
  BY <1>1, <1>2 DEF LifetimeInv, UnsavedInv, SavedTokenInv, RevokedInv, Ending, LoginsOf, At, Times
<1>3. ASSUME NEW k \in Tokens, AdminLoginReturns(k)
      PROVE  LifetimeInv'
  <2>1. /\ k \in admitting /\ admitting' = admitting \ {k}
        /\ saved_admin_sessions' = saved_admin_sessions \cup {k}
        /\ UNCHANGED <<memory_vars, saved_tokens, saved_sessions, refreshing, leaving>>
    BY <1>3 DEF AdminLoginReturns, SavedAdmins
  <2>2. AdmittingInv'
    BY <1>1, <2>1 DEF LifetimeInv, AdmittingInv, memory_vars
  <2>3. LetInInv'
    BY <1>1, <1>2, <2>1 DEF LifetimeInv, LetInInv, Active, memory_vars
  <2>4. QED
    BY <1>2, <2>1, <2>2, <2>3 DEF LifetimeInv, memory_vars
<1>4. ASSUME NEW k \in Tokens, Refresh(k)
      PROVE  LifetimeInv'
  <2>1. /\ Active(k) /\ refreshing' = refreshing \cup {k}
        /\ UNCHANGED <<memory_vars, saved_vars, admitting, leaving>>
    BY <1>4 DEF Refresh, Accepted
  <2>2. AdmittingInv'
    BY <1>1, <2>1 DEF LifetimeInv, AdmittingInv, memory_vars, saved_vars
  <2>3. LetInInv'
    BY <1>1, <1>2, <2>1 DEF LifetimeInv, LetInInv, Active, memory_vars, saved_vars
  <2>4. QED
    BY <1>2, <2>1, <2>2, <2>3 DEF LifetimeInv, memory_vars, saved_vars
<1>5. CASE Restart
  <2>1. /\ revoked_tokens' = saved_tokens /\ revoked_sessions' = saved_sessions
        /\ admin_sessions' = saved_admin_sessions
        /\ refreshing' = {} /\ admitting' = {} /\ UNCHANGED saved_vars
        /\ \A k \in Tokens : leaving'[k] = "no"
    BY <1>5 DEF Restart
  <2>2. UnsavedInv' /\ SavedTokenInv'
    BY <2>1 DEF UnsavedInv, SavedTokenInv, At, saved_vars
  <2>3. RevokedInv'
    BY <1>1, <2>1 DEF LifetimeInv, RevokedInv, SessionsInv, SavedInv, Times
  <2>4. AdmittingInv' /\ LetInInv'
    BY <2>1 DEF AdmittingInv, LetInInv, saved_vars
  <2>5. QED
    BY <2>2, <2>3, <2>4 DEF LifetimeInv
<1>6. CASE Tick \/ UNCHANGED vars
  <2>1. UNCHANGED <<memory_vars, saved_vars, call_vars>>
    BY <1>6 DEF Tick, vars
  <2>2. AdmittingInv' /\ LetInInv'
    BY <1>1, <1>2, <2>1 DEF LifetimeInv, AdmittingInv, LetInInv, Active, memory_vars, saved_vars,
                            call_vars
  <2>3. QED
    BY <1>2, <2>1, <2>2 DEF LifetimeInv, memory_vars, saved_vars, call_vars
<1>7. QED
  BY <1>3, <1>4, <1>5, <1>6

LEMMA LifetimeKept == SessionsInv /\ LifetimeInv /\ [Next]_vars => LifetimeInv'
  BY IssuingKeepsLifetime, LogoutKeepsLifetime, OtherCallsKeepLifetime DEF Next

LEMMA LifetimeInvHolds == Spec => []LifetimeInv
  BY LifetimeInitially, LifetimeKept, SessionsInvHolds, PTL DEF Spec

-----------------------------------------------------------------------------
(* Which logins are usable *)

\* What it takes that a token somebody holds is accepted.
Good(k) ==
  /\ k \in Issued /\ Unexpired(k)
  /\ token[k].kind = "admin" => k \in saved_admin_sessions
  /\ k \notin revoked_tokens /\ token[k].session \notin revoked_sessions

LEMMA GoodIsAccepted ==
  ASSUME AdmittingInv, NEW k
  PROVE  Held(k) /\ Accepted(k) <=> Good(k)
  BY DEF AdmittingInv, Held, Accepted, Active, Recorded, Good

LEMMA UsableLogins ==
  ASSUME AdmittingInv
  PROVE  \A login : login \in Usable <=> \E k \in Tokens : Good(k) /\ token[k].login = login
<1>1. \A k \in Tokens : Held(k) /\ Accepted(k) <=> Good(k)
  BY GoodIsAccepted
<1>2. QED
  BY <1>1 DEF Usable, LoginsOf

\* A usable login is within its lifetime.
LEMMA UsableAlive ==
  ASSUME SessionsInv, NEW k \in Issued, Unexpired(k)
  PROVE  Lifetimes!Alive(token[k].login)
<1>1. now \in Nat /\ opened[token[k].login] \in Nat /\ token[k].expires_at \in Nat
  <2>1. token[k] \in Token
    BY DEF SessionsInv, TypeOK, Issued
  <2>2. \A n \in Times : n \in Nat
    BY LifeAssumption DEF Times
  <2>3. now \in Times /\ opened[token[k].login] \in Times
    BY DEF SessionsInv, TypeOK, TokensInv, Sound
  <2>4. token[k].expires_at \in 0..(LastTime + AccessLife + RefreshLife)
    BY <2>1 DEF Token
  <2>5. QED
    BY <2>2, <2>3, <2>4, LifeAssumption
<1>2. QED
  BY <1>1, LifeAssumption DEF SessionsInv, TokensInv, Sound, Unexpired, Lifetimes!Alive

LEMMA GoodIsHere ==
  ASSUME SessionsInv, NEW k \in Tokens, Good(k)
  PROVE  /\ token[k].login \in Logins /\ token[k].session = token[k].login
         /\ opened[token[k].login] \in Times /\ Lifetimes!Alive(token[k].login)
<1>1. k \in Issued /\ Unexpired(k) /\ token[k] \in Token
  BY DEF Good, SessionsInv, TypeOK, Issued
<1>2. QED
  BY <1>1, UsableAlive DEF SessionsInv, TokensInv, Sound, Token

\* The same after a step.
UsableByGood == \A login : login \in Usable <=> \E k \in Tokens : Good(k) /\ token[k].login = login
GoodAlive ==
  \A k \in Tokens : Good(k) =>
    token[k].session = token[k].login /\ Lifetimes!Alive(token[k].login)

LEMMA UsableLoginsNext == AdmittingInv' => UsableByGood'
<1>1. AdmittingInv => UsableByGood
  BY UsableLogins DEF UsableByGood
<1>2. QED
  BY <1>1, PTL

LEMMA GoodIsHereNext == SessionsInv' => GoodAlive'
<1>1. SessionsInv => GoodAlive
  BY GoodIsHere DEF GoodAlive
<1>2. QED
  BY <1>1, PTL

-----------------------------------------------------------------------------
(* Every step is one of the promise *)

\* What issuing tokens leaves alone.
LEMMA IssuingStays ==
  ASSUME SessionsInv, LifetimeInv,
         \/ \E login \in Logins, k \in Tokens :
              AdminLogin(login, k) \/ \E refresh \in Tokens : WxLogin(login, k, refresh)
         \/ \E k, fresh \in Tokens : RefreshReturns(k, fresh)
  PROVE  /\ Ending' = Ending
         /\ \A k \in Issued : Good(k)' <=> Good(k)
         /\ \A k \in Issued : token'[k] = token[k]
         /\ \A k \in admitting : token'[k] = token[k]
         /\ UNCHANGED <<now, logged_out, revoked_tokens, revoked_sessions, saved_vars>>
<1>1. /\ Issued \subseteq Issued' /\ \A k \in Issued : token'[k] = token[k]
  BY IssuingIsSound
<1>2. UNCHANGED <<now, logged_out, revoked_tokens, revoked_sessions, saved_vars, leaving>>
  BY DEF AdminLogin, WxLogin, RefreshReturns, memory_vars, call_vars, history_vars
<1>3. Ending' = Ending
  <2>1. \A k \in Tokens : At(k, "no")' = At(k, "no")
    BY <1>2 DEF At
  <2>2. \A k \in Tokens : ~At(k, "no") => token'[k] = token[k]
    BY <1>1, LeavingIssued
  <2>3. QED
    BY <2>1, <2>2 DEF Ending, LoginsOf
<1>4. \A k \in Issued : Good(k)' <=> Good(k)
  BY <1>1, <1>2 DEF Good, Unexpired, saved_vars
<1>5. admitting \subseteq Issued
  BY DEF SessionsInv, TypeOK
<1>6. QED
  BY <1>1, <1>2, <1>3, <1>4, <1>5

\* A login of a user: the login can be used at once.
LEMMA WxLoginOpens ==
  ASSUME SessionsInv, LifetimeInv, LifetimeInv', NEW login \in Logins,
         NEW access \in Tokens, NEW refresh \in Tokens, WxLogin(login, access, refresh)
  PROVE  Lifetimes!Open(login)
<1>1. /\ Ending' = Ending
      /\ \A k \in Issued : (Good(k)' <=> Good(k)) /\ token'[k] = token[k]
      /\ \A k \in admitting : token'[k] = token[k]
      /\ UNCHANGED <<now, logged_out, revoked_tokens, revoked_sessions, admitting>>
  BY IssuingStays DEF WxLogin, call_vars
<1>2. /\ opened[login] = Never /\ access \notin Issued /\ refresh \notin Issued
      /\ access # refresh /\ opened' = [opened EXCEPT ![login] = now]
      /\ token' = [token EXCEPT ![access] = Claims("access", login, login),
                                ![refresh] = Claims("refresh", login, login)]
  BY DEF WxLogin
<1>3. now \in Times /\ token \in [Tokens -> Token \cup {NoToken}]
  BY DEF SessionsInv, TypeOK
<1>4. \A kind \in {"access", "refresh"} :
        LET c == Claims(kind, login, login) IN
          c \in Token /\ c.login = login /\ c.session = login /\ c.kind = kind /\ now < c.expires_at
  BY <1>3, ClaimsAreToken, LifeAssumption DEF Times
<1>5. /\ token'[access] = Claims("access", login, login)
      /\ token'[refresh] = Claims("refresh", login, login)
      /\ \A k \in Tokens \ {access, refresh} : token'[k] = token[k]
  BY <1>2, <1>3
<1>6. login \notin revoked_sessions
  BY <1>2, LifeAssumption DEF LifetimeInv, RevokedInv, Times, Never
<1>7. access \notin revoked_tokens
  BY <1>2 DEF SessionsInv, TypeOK
<1>8. Good(access)' /\ token'[access].login = login
  BY <1>1, <1>4, <1>5, <1>6, <1>7, TokenAssumption DEF Good, Issued, Unexpired
<1>9. \A k \in Tokens : Good(k)' => token'[k].login = login \/ Good(k)
  BY <1>1, <1>4, <1>5 DEF Good, Issued
<1>10. Usable' = Usable \cup {login}
  <2>1. \A k \in Tokens : Good(k) => Good(k)' /\ token'[k] = token[k]
    BY <1>1 DEF Good
  <2>2. \A k \in Tokens : Good(k)' => token'[k].login = login \/ (Good(k) /\ token'[k] = token[k])
    BY <1>9, <2>1
  <2>3. \A l : l \in Usable' <=> l \in Usable \/ l = login
    BY <1>8, <2>1, <2>2, UsableLogins, UsableLoginsNext DEF LifetimeInv, UsableByGood
  <2>4. QED
    BY <2>3
<1>11. Waiting' = Waiting
  BY <1>1 DEF Waiting, LoginsOf
<1>12. QED
  BY <1>1, <1>2, <1>10, <1>11 DEF Lifetimes!Open, Waiting, Ending, Usable

\* A login of an admin: nobody holds its token yet.
LEMMA AdminLoginOpens ==
  ASSUME SessionsInv, LifetimeInv, LifetimeInv', NEW login \in Logins, NEW k \in Tokens,
         AdminLogin(login, k)
  PROVE  Lifetimes!Open(login)
<1>1. /\ Ending' = Ending
      /\ \A j \in Issued : (Good(j)' <=> Good(j)) /\ token'[j] = token[j]
      /\ \A j \in admitting : token'[j] = token[j]
      /\ UNCHANGED <<now, logged_out, saved_vars>>
  BY IssuingStays
<1>2. /\ opened[login] = Never /\ k \notin Issued
      /\ opened' = [opened EXCEPT ![login] = now]
      /\ token' = [token EXCEPT ![k] = Claims("admin", login, login)]
      /\ admitting' = admitting \cup {k}
  BY DEF AdminLogin, AdminSession
<1>3. now \in Times /\ token \in [Tokens -> Token \cup {NoToken}]
  BY DEF SessionsInv, TypeOK
<1>4. token'[k].login = login /\ token'[k].kind = "admin"
  <2>1. Claims("admin", login, login).kind = "admin" /\ Claims("admin", login, login).login = login
    BY <1>3, ClaimsAreToken
  <2>2. token'[k] = Claims("admin", login, login)
    BY <1>2, <1>3
  <2>3. QED
    BY <2>1, <2>2
<1>5. ~Good(k)'
  BY <1>1, <1>2, <1>4 DEF Good, SessionsInv, TypeOK, saved_vars
<1>6. \A j \in Tokens : (Good(j)' <=> Good(j)) /\ (Good(j) => token'[j] = token[j])
  <2>1. \A j \in Tokens : j # k /\ j \notin Issued => j \notin Issued'
    BY <1>2, <1>3 DEF Issued
  <2>2. QED
    BY <1>1, <1>2, <1>5, <2>1 DEF Good
<1>7. Usable' = Usable
  <2>1. \A l : l \in Usable' <=> l \in Usable
    BY <1>6, UsableLogins, UsableLoginsNext DEF LifetimeInv, UsableByGood
  <2>2. QED
    BY <2>1
<1>8. Waiting' = Waiting \cup {login}
  BY <1>1, <1>2, <1>4 DEF Waiting, LoginsOf
<1>9. QED
  BY <1>1, <1>2, <1>7, <1>8 DEF Lifetimes!Open, Waiting, Ending, Usable

\* The answer to the login of an admin.
LEMMA AdminLoginAnswers ==
  ASSUME SessionsInv, LifetimeInv, SessionsInv', LifetimeInv', NEW k \in Tokens,
         AdminLoginReturns(k)
  PROVE  Lifetimes!Answer(token[k].login)
<1> DEFINE login == token[k].login
<1>1. /\ k \in admitting /\ admitting' = admitting \ {k}
      /\ saved_admin_sessions' = saved_admin_sessions \cup {k}
      /\ UNCHANGED <<now, token, leaving, opened, logged_out, revoked_tokens, revoked_sessions>>
  BY DEF AdminLoginReturns, SavedAdmins, memory_vars, history_vars
<1>2. Waiting' = Waiting \ {login} /\ login \in Waiting
  <2>1. \A j \in admitting : token[j].login = login => j = k
    BY <1>1 DEF LifetimeInv, AdmittingInv
  <2>2. \A l : l \in Waiting' <=> \E j \in admitting \ {k} : token[j].login = l
    BY <1>1 DEF Waiting, LoginsOf
  <2>3. \A l : l \in Waiting <=> \E j \in admitting : token[j].login = l
    BY DEF Waiting, LoginsOf
  <2>4. \A l : l \in Waiting' <=> l \in Waiting /\ l # login
    BY <1>1, <2>1, <2>2, <2>3
  <2>5. QED
    BY <1>1, <2>3, <2>4
<1>3. Ending' = Ending
  BY <1>1 DEF Ending, LoginsOf, At
<1>4. /\ \A j \in Tokens : j # k => (Good(j)' <=> Good(j))
      /\ Good(k) => Good(k)'
  BY <1>1 DEF Good, Issued, Unexpired
<1>5. Usable' = IF Good(k)' THEN Usable \cup {login} ELSE Usable
  <2>1. \A l : l \in Usable <=> \E j \in Tokens : Good(j) /\ token[j].login = l
    BY UsableLogins DEF LifetimeInv
  <2>2. \A l : l \in Usable' <=> \E j \in Tokens : Good(j)' /\ token[j].login = l
    BY <1>1, UsableLoginsNext DEF LifetimeInv, UsableByGood
  <2>3. CASE Good(k)'
    <3>1. \A l : l \in Usable' <=> l \in Usable \/ l = login
      BY <1>4, <2>1, <2>2, <2>3
    <3>2. QED
      BY <2>3, <3>1
  <2>4. CASE ~Good(k)'
    <3>1. \A l : l \in Usable' <=> l \in Usable
      BY <1>4, <2>1, <2>2, <2>4
    <3>2. QED
      BY <2>4, <3>1
  <2>5. QED
    BY <2>3, <2>4
<1>6. Good(k)' => Lifetimes!Alive(login)
  <2>1. Good(k)' => Lifetimes!Alive(token[k].login)'
    BY GoodIsHereNext DEF GoodAlive
  <2>2. QED
    BY <1>1, <2>1 DEF Lifetimes!Alive
<1>7. QED
  BY <1>1, <1>2, <1>3, <1>5, <1>6 DEF Lifetimes!Answer, Waiting, Ending, Usable

\* The answer to a refresh: its token can give back only a login that is on its way out.
LEMMA RefreshRegains ==
  ASSUME SessionsInv, LifetimeInv, SessionsInv', LifetimeInv', NEW k \in Tokens,
         NEW fresh \in Tokens, RefreshReturns(k, fresh)
  PROVE  Lifetimes!Regain(token[k].login) \/ UNCHANGED Lifetimes!vars
<1> DEFINE login == token[k].login
<1>1. /\ Ending' = Ending
      /\ \A j \in Issued : (Good(j)' <=> Good(j)) /\ token'[j] = token[j]
      /\ \A j \in admitting : token'[j] = token[j]
      /\ UNCHANGED <<now, logged_out, revoked_tokens, revoked_sessions, saved_vars>>
  BY IssuingStays
<1>2. /\ k \in refreshing /\ fresh \notin Issued
      /\ token' = [token EXCEPT ![fresh] = Claims("access", token[k].session, token[k].login)]
      /\ UNCHANGED <<opened, admitting>>
  BY DEF RefreshReturns, Refreshed, history_vars
<1>3. now \in Times /\ token \in [Tokens -> Token \cup {NoToken}]
  BY DEF SessionsInv, TypeOK
<1>4. /\ k \in Issued /\ k \in Tokens /\ token[k] \in Token /\ login \in Logins
      /\ token[k].session = login /\ token[k].kind = "refresh" /\ Unexpired(k)
  <2>1. k \in Issued /\ token[k].kind = "refresh" /\ Unexpired(k)
    BY <1>2 DEF SessionsInv, TypeOK, RefreshingInv
  <2>2. token[k] \in Token
    BY <1>3, <2>1 DEF Issued
  <2>3. token[k].session = login
    BY <2>1 DEF SessionsInv, TokensInv, Sound
  <2>4. QED
    BY <2>1, <2>2, <2>3 DEF Token
<1>5. /\ token'[fresh].login = login /\ token'[fresh].session = login
      /\ \A j \in Tokens \ {fresh} : token'[j] = token[j]
  <2>1. /\ Claims("access", login, login).login = login
        /\ Claims("access", login, login).session = login
    BY <1>3, <1>4, ClaimsAreToken
  <2>2. token'[fresh] = Claims("access", login, login)
    BY <1>2, <1>3, <1>4
  <2>3. QED
    BY <1>2, <1>3, <2>1, <2>2
<1>6. /\ \A j \in Tokens : j # fresh => (Good(j)' <=> Good(j))
      /\ ~Good(fresh)
  <2>1. \A j \in Tokens : j # fresh /\ j \notin Issued => j \notin Issued'
    BY <1>5 DEF Issued
  <2>2. QED
    BY <1>1, <1>2, <2>1 DEF Good
<1>7. \A l : l \in Usable <=> \E j \in Tokens : Good(j) /\ token[j].login = l
  BY UsableLogins DEF LifetimeInv
<1>8. \A l : l \in Usable' <=> \E j \in Tokens : Good(j)' /\ token'[j].login = l
  BY UsableLoginsNext DEF LifetimeInv, UsableByGood
<1>9. Waiting' = Waiting
  BY <1>1, <1>2 DEF Waiting, LoginsOf
<1>10. CASE Good(fresh)' /\ login \notin Usable
  <2>1. \A l : l \in Usable' <=> l \in Usable \/ l = login
    BY <1>5, <1>6, <1>7, <1>8, <1>10
  <2>2. login \notin revoked_sessions
    BY <1>1, <1>5, <1>10 DEF Good
  <2>3. ~Good(k)
    BY <1>4, <1>7, <1>10
  <2>4. ~Active(k)
    BY <1>4, <2>2, <2>3 DEF Good, Active
  <2>5. login \in Ending \ logged_out
    BY <1>2, <2>2, <2>4 DEF LifetimeInv, LetInInv, SessionsInv, SavedInv
  <2>6. Lifetimes!Alive(login)
    BY <1>4, UsableAlive
  <2>7. Usable' = Usable \cup {login}
    BY <2>1
  <2>8. QED
    BY <1>1, <1>2, <1>9, <2>5, <2>6, <2>7 DEF Lifetimes!Regain, Waiting, Ending, Usable
<1>11. CASE ~(Good(fresh)' /\ login \notin Usable)
  <2>1. \A l : l \in Usable' <=> l \in Usable
    BY <1>5, <1>6, <1>7, <1>8, <1>11
  <2>2. Usable' = Usable
    BY <2>1
  <2>3. QED
    BY <1>1, <1>2, <1>9, <2>2 DEF Lifetimes!vars, Waiting, Ending, Usable
<1>12. QED
  BY <1>10, <1>11

\* The steps of a logout.
LEMMA LogoutStep ==
  ASSUME SessionsInv, LifetimeInv, LifetimeInv', NEW k \in Tokens,
         Logout(k) \/ SaveRevokedToken(k) \/ RevokeSession(k) \/ LogoutReturns(k)
  PROVE  \/ Lifetimes!BeginLogout(token[k].login) \/ Lifetimes!Lose(token[k].login)
         \/ Lifetimes!EndLogout(token[k].login) \/ UNCHANGED Lifetimes!vars
<1> DEFINE login == token[k].login
<1>1. UNCHANGED <<token, opened, now, admitting, admin_sessions, saved_admin_sessions>>
  BY DEF Logout, SaveRevokedToken, RevokeSession, LogoutReturns, memory_vars, saved_vars,
         history_vars
<1>2. leaving \in [Tokens -> {"no", "token revoked", "token saved", "session revoked"}]
  BY DEF SessionsInv, TypeOK
<1>3. Waiting' = Waiting
  BY <1>1 DEF Waiting, LoginsOf
<1>4. \A l : l \in Usable <=> \E j \in Tokens : Good(j) /\ token[j].login = l
  BY UsableLogins DEF LifetimeInv
<1>5. \A l : l \in Usable' <=> \E j \in Tokens : Good(j)' /\ token[j].login = l
  BY <1>1, UsableLoginsNext DEF LifetimeInv, UsableByGood
<1>6. \A l : l \in Ending <=> \E j \in Tokens : leaving[j] # "no" /\ token[j].login = l
  BY DEF Ending, LoginsOf, At
<1>7. \A l : l \in Ending' <=> \E j \in Tokens : leaving'[j] # "no" /\ token[j].login = l
  BY <1>1 DEF Ending, LoginsOf, At
<1>8. \A j \in Tokens : Good(j) => token[j].session = token[j].login
  BY GoodIsHere
<1>9. CASE Logout(k)
  <2>1. /\ leaving[k] = "no" /\ leaving' = [leaving EXCEPT ![k] = "token revoked"]
        /\ revoked_tokens' = revoked_tokens \cup {k}
        /\ UNCHANGED <<revoked_sessions, logged_out>> /\ Good(k)
    BY <1>9, GoodIsAccepted DEF Logout, Continue, At, history_vars, LifetimeInv, AdmittingInv, Held,
                                Good, Active
  <2>2. \A j \in Tokens : leaving'[j] # "no" <=> leaving[j] # "no" \/ j = k
    BY <1>2, <2>1
  <2>3. Ending' = Ending \cup {login}
    <3>1. \A l : l \in Ending' <=> l \in Ending \/ l = login
      BY <1>6, <1>7, <2>2
    <3>2. QED
      BY <3>1
  <2>4. \A j \in Tokens : Good(j)' <=> Good(j) /\ j # k
    BY <1>1, <2>1 DEF Good, Issued, Unexpired
  <2>5. login \in Usable
    BY <1>4, <2>1
  <2>6. Usable' \in {Usable, Usable \ {login}}
    <3>1. \A l : l # login => (l \in Usable' <=> l \in Usable)
      BY <1>4, <1>5, <2>4
    <3>2. Usable' = IF login \in Usable' THEN Usable ELSE Usable \ {login}
      BY <2>5, <3>1
    <3>3. QED
      BY <3>2
  <2>7. QED
    BY <1>1, <1>3, <2>1, <2>3, <2>5, <2>6 DEF Lifetimes!BeginLogout, Waiting, Ending, Usable
<1>10. CASE SaveRevokedToken(k)
  <2>1. /\ leaving[k] = "token revoked" /\ leaving' = [leaving EXCEPT ![k] = "token saved"]
        /\ UNCHANGED <<revoked_tokens, revoked_sessions, logged_out>>
    BY <1>10 DEF SaveRevokedToken, Continue, At, memory_vars, history_vars
  <2>2. \A j \in Tokens : leaving'[j] # "no" <=> leaving[j] # "no"
    BY <1>2, <2>1
  <2>3. Ending' = Ending
    <3>1. \A l : l \in Ending' <=> l \in Ending
      BY <1>6, <1>7, <2>2
    <3>2. QED
      BY <3>1
  <2>4. \A j \in Tokens : Good(j)' <=> Good(j)
    BY <1>1, <2>1 DEF Good, Issued, Unexpired
  <2>5. Usable' = Usable
    <3>1. \A l : l \in Usable' <=> l \in Usable
      BY <1>4, <1>5, <2>4
    <3>2. QED
      BY <3>1
  <2>6. QED
    BY <1>1, <1>3, <2>1, <2>3, <2>5 DEF Lifetimes!vars, Waiting, Ending, Usable
<1>11. CASE RevokeSession(k)
  <2>1. /\ leaving[k] = "token saved" /\ leaving' = [leaving EXCEPT ![k] = "session revoked"]
        /\ revoked_sessions' = revoked_sessions \cup {token[k].session}
        /\ UNCHANGED <<revoked_tokens, logged_out>>
    BY <1>11 DEF RevokeSession, Continue, At, history_vars
  <2>2. \A j \in Tokens : leaving'[j] # "no" <=> leaving[j] # "no"
    BY <1>2, <2>1
  <2>3. Ending' = Ending /\ login \in Ending
    <3>1. \A l : l \in Ending' <=> l \in Ending
      BY <1>6, <1>7, <2>2
    <3>2. login \in Ending
      BY <1>6, <2>1
    <3>3. QED
      BY <3>1, <3>2
  <2>4. token[k].session = login
    <3>1. k \in Issued
      BY <2>1, LeavingIssued DEF At
    <3>2. QED
      BY <3>1 DEF SessionsInv, TokensInv, Sound
  <2>5. \A j \in Tokens : Good(j)' <=> Good(j) /\ token[j].login # login
    BY <1>1, <1>8, <2>1, <2>4 DEF Good, Issued, Unexpired
  <2>6. Usable' = Usable \ {login}
    <3>1. \A l : l \in Usable' <=> l \in Usable /\ l # login
      BY <1>4, <1>5, <2>5
    <3>2. QED
      BY <3>1
  <2>7. QED
    BY <1>1, <1>3, <2>1, <2>3, <2>6 DEF Lifetimes!Lose, Waiting, Ending, Usable
<1>12. CASE LogoutReturns(k)
  <2>1. /\ leaving[k] = "session revoked" /\ leaving' = [leaving EXCEPT ![k] = "no"]
        /\ logged_out' = logged_out \cup {login}
        /\ UNCHANGED <<revoked_tokens, revoked_sessions>>
    BY <1>12 DEF LogoutReturns, Continue, At, memory_vars
  <2>2. \A j \in Tokens : leaving'[j] # "no" <=> leaving[j] # "no" /\ j # k
    BY <1>2, <2>1
  <2>3. login \in Ending /\ Ending' \in {Ending, Ending \ {login}}
    <3>1. \A l : l # login => (l \in Ending' <=> l \in Ending)
      BY <1>6, <1>7, <2>2
    <3>2. login \in Ending
      BY <1>6, <2>1
    <3>3. Ending' = IF login \in Ending' THEN Ending ELSE Ending \ {login}
      BY <3>1, <3>2
    <3>4. QED
      BY <3>2, <3>3
  <2>4. \A j \in Tokens : Good(j)' <=> Good(j)
    BY <1>1, <2>1 DEF Good, Issued, Unexpired
  <2>5. Usable' = Usable
    <3>1. \A l : l \in Usable' <=> l \in Usable
      BY <1>4, <1>5, <2>4
    <3>2. QED
      BY <3>1
  <2>6. login \notin Usable
    <3>1. k \in Issued /\ token[k].session \in revoked_sessions
      BY <2>1, LeavingIssued DEF At, SessionsInv, LeavingInv
    <3>2. login \in revoked_sessions
      BY <3>1 DEF SessionsInv, TokensInv, Sound
    <3>3. QED
      BY <1>4, <1>8, <3>2 DEF Good
  <2>7. QED
    BY <1>1, <1>3, <2>1, <2>3, <2>5, <2>6 DEF Lifetimes!EndLogout, Waiting, Ending, Usable
<1>13. QED
  BY <1>9, <1>10, <1>11, <1>12

\* A restart forgets the calls under way; what it takes back no logout has answered.
LEMMA RestartCrashes ==
  ASSUME SessionsInv, LifetimeInv, SessionsInv', LifetimeInv', Restart
  PROVE  Lifetimes!Crash
<1>1. /\ UNCHANGED <<now, token, saved_vars, opened, logged_out>>
      /\ revoked_tokens' = saved_tokens /\ revoked_sessions' = saved_sessions
      /\ admitting' = {} /\ \A k \in Tokens : leaving'[k] = "no"
  BY DEF Restart, history_vars
<1>2. Waiting' = {} /\ Ending' = {}
  BY <1>1 DEF Waiting, Ending, LoginsOf, At
<1>3. \A l : l \in Usable <=> \E j \in Tokens : Good(j) /\ token[j].login = l
  BY UsableLogins DEF LifetimeInv
<1>4. \A l : l \in Usable' <=> \E j \in Tokens : Good(j)' /\ token[j].login = l
  BY <1>1, UsableLoginsNext DEF LifetimeInv, UsableByGood
<1>5. saved_tokens \subseteq revoked_tokens /\ saved_sessions \subseteq revoked_sessions
  BY DEF SessionsInv, SavedInv
<1>6. \A j \in Tokens : Good(j) => Good(j)'
  BY <1>1, <1>5 DEF Good, Issued, Unexpired, saved_vars
<1>7. ASSUME NEW j \in Tokens, Good(j)', ~Good(j)
      PROVE  /\ token[j].login \in Ending \ logged_out
             /\ Lifetimes!Alive(token[j].login) /\ token[j].login \in Logins
  <2>1. j \in Issued /\ Unexpired(j) /\ j \notin saved_tokens /\ token[j].session \notin saved_sessions
    BY <1>1, <1>7 DEF Good, Issued, Unexpired
  <2>2. j \in revoked_tokens \/ token[j].session \in revoked_sessions
    BY <1>1, <1>7, <2>1 DEF Good, saved_vars
  <2>3. /\ token[j].session = token[j].login
        /\ \A i \in Issued : token[i].session = token[i].login
    BY <2>1 DEF SessionsInv, TokensInv, Sound
  <2>4. token[j].login \in Ending
    <3>1. CASE j \in revoked_tokens
      BY <2>1, <3>1, EndingLogins DEF LifetimeInv, UnsavedInv
    <3>2. CASE token[j].session \in revoked_sessions
      <4>1. PICK i \in Tokens : At(i, "session revoked") /\ token[i].session = token[j].session
        BY <2>1, <3>2 DEF LifetimeInv, UnsavedInv
      <4>2. i \in Issued /\ ~At(i, "no")
        BY <4>1, LeavingIssued DEF At
      <4>3. QED
        BY <2>3, <4>1, <4>2, EndingLogins
    <3>3. QED
      BY <2>2, <3>1, <3>2
  <2>5. token[j].login \notin logged_out
    BY <2>1, <2>3 DEF SessionsInv, SavedInv
  <2>6. token[j].login \in Logins
    <3>1. token[j] \in Token
      BY <2>1 DEF SessionsInv, TypeOK, Issued
    <3>2. QED
      BY <3>1 DEF Token
  <2>7. QED
    BY <2>1, <2>4, <2>5, <2>6, UsableAlive
<1>8. Usable \subseteq Usable'
  BY <1>3, <1>4, <1>6
<1>9. Usable' \subseteq Usable \cup {login \in Ending \ logged_out : Lifetimes!Alive(login)}
  BY <1>3, <1>4, <1>7
<1>10. QED
  BY <1>1, <1>2, <1>8, <1>9 DEF Lifetimes!Crash, Waiting, Ending, Usable

\* Time can only end logins.
LEMMA TickTicks ==
  ASSUME SessionsInv, LifetimeInv, SessionsInv', LifetimeInv', Tick
  PROVE  Lifetimes!Tick
<1>1. /\ now' = now + 1
      /\ UNCHANGED <<token, memory_vars, saved_vars, call_vars, opened, logged_out>>
  BY DEF Tick, history_vars
<1>2. Waiting' = Waiting /\ Ending' = Ending
  BY <1>1 DEF Waiting, Ending, LoginsOf, At, call_vars
<1>3. ASSUME NEW j \in Tokens, Good(j)'
      PROVE  Good(j)
  <2>1. now \in Nat
    <3>1. now \in 0..LastTime /\ LastTime \in Nat
      BY LifeAssumption DEF SessionsInv, TypeOK, Times
    <3>2. QED
      BY <3>1
  <2>2. j \in Issued
    BY <1>1, <1>3 DEF Good, Issued
  <2>3. token[j].expires_at \in Nat
    <3>1. token[j] \in Token
      BY <2>2 DEF SessionsInv, TypeOK, Issued
    <3>2. QED
      BY <3>1, LifeAssumption DEF Token
  <2>4. QED
    BY <1>1, <1>3, <2>1, <2>2, <2>3 DEF Good, Unexpired, memory_vars, saved_vars
<1>4. \A j \in Tokens : Good(j)' => Lifetimes!Alive(token[j].login)'
  BY GoodIsHereNext DEF GoodAlive
<1>5. Usable' \subseteq {login \in Usable : Lifetimes!Alive(login)'}
  <2>1. \A l : l \in Usable' <=> \E j \in Tokens : Good(j)' /\ token[j].login = l
    BY <1>1, UsableLoginsNext DEF LifetimeInv, UsableByGood
  <2>2. \A l \in Usable' : l \in Usable /\ Lifetimes!Alive(l)'
    BY <1>1, <1>3, <1>4, <2>1, UsableLogins DEF LifetimeInv, Lifetimes!Alive
  <2>3. QED
    BY <2>2
<1>6. QED
  BY <1>1, <1>2, <1>5 DEF Lifetimes!Tick, Waiting, Ending, Usable

\* A refresh that is let in, and a step of nothing.
LEMMA QuietSteps ==
  ASSUME LifetimeInv, LifetimeInv', UNCHANGED vars \/ \E k \in Tokens : Refresh(k)
  PROVE  UNCHANGED Lifetimes!vars
<1>1. UNCHANGED <<now, token, opened, memory_vars, saved_vars, admitting, leaving, logged_out>>
  BY DEF vars, Refresh, call_vars, history_vars
<1>2. QED
  BY <1>1 DEF Lifetimes!vars, LoginsOf, At, Held, Accepted, Issued, Unexpired, Active, Recorded,
              memory_vars, saved_vars

LEMMA LifetimesInitially == Init => Lifetimes!Init
<1> SUFFICES ASSUME Init PROVE Lifetimes!Init
  OBVIOUS
<1>1. Issued = {} /\ \A k \in Tokens : At(k, "no")
  BY DEF Init, Issued, At
<1>2. Waiting = {} /\ Ending = {} /\ Usable = {}
  BY <1>1 DEF Init, Waiting, Ending, Usable, LoginsOf, Held
<1>3. QED
  BY <1>2 DEF Init, Lifetimes!Init, Waiting, Ending, Usable

\* Login, refresh, logout and restart implement LoginLifetimes: a login can be used from its
\* answer to its own logout or the end of its life, and an answered logout is final.
THEOREM LoginsKeepLifetimes == Spec => LifetimesKept
<1> DEFINE Sure == SessionsInv /\ LifetimeInv
<1>1. Sure /\ Sure' /\ [Next]_vars => [Lifetimes!Next]_(Lifetimes!vars)
  <2> SUFFICES ASSUME SessionsInv, LifetimeInv, SessionsInv', LifetimeInv', [Next]_vars,
                      ~(UNCHANGED Lifetimes!vars)
               PROVE  Lifetimes!Next
    OBVIOUS
  <2>1. \A k \in Tokens : k \in Issued => token[k].login \in Logins
    <3>1. \A k \in Issued : token[k] \in Token
      BY DEF SessionsInv, TypeOK, Issued
    <3>2. QED
      BY <3>1 DEF Token
  <2>2. ASSUME NEW login \in Logins, NEW k \in Tokens,
               AdminLogin(login, k) \/ \E refresh \in Tokens : WxLogin(login, k, refresh)
        PROVE  Lifetimes!Next
    <3>1. Lifetimes!Open(login)
      BY <2>2, AdminLoginOpens, WxLoginOpens
    <3>2. QED
      BY <3>1 DEF Lifetimes!Next
  <2>3. ASSUME NEW k \in Tokens, AdminLoginReturns(k)
        PROVE  Lifetimes!Next
    <3>1. token[k].login \in Logins
      BY <2>1, <2>3 DEF AdminLoginReturns, SessionsInv, TypeOK
    <3>2. QED
      BY <2>3, <3>1, AdminLoginAnswers DEF Lifetimes!Next
  <2>4. ASSUME NEW k \in Tokens, NEW fresh \in Tokens, RefreshReturns(k, fresh)
        PROVE  Lifetimes!Next
    <3>1. token[k].login \in Logins
      BY <2>1, <2>4 DEF RefreshReturns, SessionsInv, TypeOK
    <3>2. QED
      BY <2>4, <3>1, RefreshRegains DEF Lifetimes!Next
  <2>5. ASSUME NEW k \in Tokens,
               Logout(k) \/ SaveRevokedToken(k) \/ RevokeSession(k) \/ LogoutReturns(k)
        PROVE  Lifetimes!Next
    <3>1. token[k].login \in Logins
      BY <2>1, <2>5, LeavingIssued
         DEF Logout, SaveRevokedToken, RevokeSession, LogoutReturns, Held, At
    <3>2. QED
      BY <2>5, <3>1, LogoutStep DEF Lifetimes!Next
  <2>6. CASE Restart
    BY <2>6, RestartCrashes DEF Lifetimes!Next
  <2>7. CASE Tick
    BY <2>7, TickTicks DEF Lifetimes!Next
  <2>8. ~(UNCHANGED vars) /\ \A k \in Tokens : ~Refresh(k)
    BY QuietSteps
  <2>9. QED
    BY <2>2, <2>3, <2>4, <2>5, <2>6, <2>7, <2>8 DEF Next
<1>2. QED
  BY <1>1, LifetimesInitially, SessionsInvHolds, LifetimeInvHolds, PTL
     DEF Spec, LifetimesKept, Lifetimes!Spec

=============================================================================
