----------------------------- MODULE SocialLogin -----------------------------
(***************************************************************************)
(* Logging in by Kakao or Naver (backend/social-oauth.js) or by Google     *)
(* (backend/session.js), and the app sessions that come of it              *)
(* (backend/native-auth-handoff.js, social-oauth-session.js and            *)
(* native-session.js), for one browser.                                    *)
(*                                                                         *)
(* A login is opened in some tab; all tabs share one state cookie.  The    *)
(* callback awaits the provider twice before it looks at db.users, so      *)
(* callbacks of several tabs, and of several logins of one person, are     *)
(* under way together, and each answer clears the cookie, whichever login  *)
(* it is of.                                                               *)
(***************************************************************************)
EXTENDS Naturals, Sequences

CONSTANTS
  Login,                \* logins, each in a tab of its own
  Subject,              \* who a provider says is logging in
  NULL,
  STATE_MAX_AGE,        \* 10 minutes
  HANDOFF_MAX_AGE,      \* 5 minutes, of a hand-off code and of a bridge token
  SESSION_MAX_AGE,      \* 30 days
  MaxSessions,          \* bound: app sessions ever issued
  Horizon               \* bound: where the clock of the model stops

VARIABLES
  now,
  logins,               \* every login: how far it is, and what its tab was given
  stateCookie,          \* the login whose state the browser's cookie holds
  users,                \* db.users: who they log in as
  sessions              \* db.nativeSessions

vars == <<now, logins, stateCookie, users, sessions>>

Unopened ==
  [phase |-> "unopened", client |-> "web", subject |-> NULL, issuedAt |-> 0, consumed |-> FALSE]

Init ==
  /\ now = 0
  /\ logins = [l \in Login |-> Unopened]
  /\ stateCookie = NULL
  /\ users = <<>>
  /\ sessions = <<>>

Step(l, phase) == logins' = [logins EXCEPT ![l].phase = phase]

(* Google's login brings a credential and has no state; it is verified in  *)
(* one await.                                                              *)
socialAuthStart(l, client, subject) ==
  /\ logins[l] = Unopened
  /\ logins' = [logins EXCEPT ![l] =
       [phase |-> IF client = "google" THEN "profile" ELSE "opened",
        client |-> client, subject |-> subject, issuedAt |-> now, consumed |-> FALSE]]
  /\ stateCookie' = IF client = "google" THEN stateCookie ELSE l
  /\ UNCHANGED <<now, users, sessions>>

verifyState(l) == stateCookie = l /\ now - logins[l].issuedAt <= STATE_MAX_AGE

socialAuthCallback(l) ==
  /\ logins[l].phase = "opened"
  /\ verifyState(l)
  /\ Step(l, "exchange")
  /\ UNCHANGED <<now, stateCookie, users, sessions>>

exchangeToken(l) ==
  /\ logins[l].phase = "exchange"
  /\ Step(l, "profile")
  /\ UNCHANGED <<now, stateCookie, users, sessions>>

(* The state is not that of the cookie or too old, the user says no, or    *)
(* the provider does not answer in eight seconds, to either question.      *)
CallbackFails(l) ==
  /\ logins[l].phase \in {"opened", "exchange", "profile"}
  /\ Step(l, "failed")
  /\ stateCookie' = IF logins[l].client = "google" THEN stateCookie ELSE NULL
  /\ UNCHANGED <<now, users, sessions>>

Known(id) == \E i \in DOMAIN users : users[i] = id

upsertSocialUser(id) == IF Known(id) THEN users ELSE Append(users, id)

issueNativeSession(l) ==
  /\ Len(sessions) < MaxSessions
  /\ sessions' = Append(sessions,
       [login |-> l, userId |-> logins[l].subject, issuedAt |-> now,
        expiresAt |-> now + SESSION_MAX_AGE, revoked |-> FALSE])

(* The provider tells who it is, and the rest of the callback runs.        *)
ProfileArrives(l) ==
  /\ logins[l].phase = "profile" /\ logins[l].client # "google"
  /\ users' = upsertSocialUser(logins[l].subject)
  /\ logins' = [logins EXCEPT ![l].phase = "done", ![l].issuedAt = now]
  /\ stateCookie' = NULL
  /\ UNCHANGED <<now, sessions>>

googleSession(l) ==
  /\ logins[l].phase = "profile" /\ logins[l].client = "google"
  /\ users' = upsertSocialUser(logins[l].subject)
  /\ issueNativeSession(l)
  /\ logins' = [logins EXCEPT ![l].phase = "done", ![l].issuedAt = now]
  /\ UNCHANGED <<now, stateCookie>>

(* A slip: a code stays good until it expires. *)
ReusableHandoff(l) == now < logins[l].issuedAt + HANDOFF_MAX_AGE
MayConsume(l) == ~logins[l].consumed /\ now < logins[l].issuedAt + HANDOFF_MAX_AGE

consumeNativeAuthHandoff(l) ==
  /\ logins[l].phase = "done" /\ logins[l].client = "native"
  /\ MayConsume(l)
  /\ logins' = [logins EXCEPT ![l].consumed = TRUE]
  /\ issueNativeSession(l)
  /\ UNCHANGED <<now, stateCookie, users>>

(* The bridge token in the browser's cookie is checked by its signature    *)
(* and age alone.  The answer clears the cookie, but a request that was    *)
(* already sent has the token still.                                       *)
socialAuthSession(l) ==
  /\ logins[l].phase = "done" /\ logins[l].client = "web"
  /\ now - logins[l].issuedAt <= HANDOFF_MAX_AGE
  /\ Known(logins[l].subject)
  /\ issueNativeSession(l)
  /\ UNCHANGED <<now, logins, stateCookie, users>>

nativeLogout(i) ==
  /\ i \in DOMAIN sessions
  /\ ~sessions[i].revoked /\ now < sessions[i].expiresAt
  /\ sessions' = [sessions EXCEPT ![i].revoked = TRUE]
  /\ UNCHANGED <<now, logins, stateCookie, users>>

Tick ==
  /\ now < Horizon
  /\ now' = now + 1
  /\ UNCHANGED <<logins, stateCookie, users, sessions>>

Next ==
  \/ Tick
  \/ \E l \in Login :
       \/ \E client \in {"web", "native", "google"}, subject \in Subject : socialAuthStart(l, client, subject)
       \/ socialAuthCallback(l) \/ exchangeToken(l) \/ CallbackFails(l)
       \/ ProfileArrives(l) \/ googleSession(l)
       \/ consumeNativeAuthHandoff(l) \/ socialAuthSession(l)
  \/ \E i \in 1..MaxSessions : nativeLogout(i)

Spec == Init /\ [][Next]_vars

-----------------------------------------------------------------------------
(* Properties *)

TypeOK ==
  /\ now \in 0..Horizon
  /\ logins \in [Login ->
       [phase : {"unopened", "opened", "exchange", "profile", "done", "failed"},
        client : {"web", "native", "google"}, subject : Subject \union {NULL},
        issuedAt : 0..Horizon, consumed : BOOLEAN]]
  /\ stateCookie \in Login \union {NULL}
  /\ users \in Seq(Subject)
  /\ sessions \in Seq([login : Login, userId : Subject, issuedAt : 0..Horizon,
                       expiresAt : Nat, revoked : BOOLEAN])

(* However the callbacks of one person's logins interleave, there is one   *)
(* account; every app session belongs to the account of a login that the   *)
(* provider answered at most five minutes before; and what is used once,   *)
(* a hand-off code or a credential, opens one session.                     *)
LoginsAreWhole ==
  /\ \A i, j \in DOMAIN users : i # j => users[i] # users[j]
  /\ \A i \in DOMAIN sessions :
       LET login == logins[sessions[i].login]
       IN /\ login.phase = "done" /\ sessions[i].userId = login.subject
          /\ Known(login.subject)
          /\ sessions[i].issuedAt <= login.issuedAt + HANDOFF_MAX_AGE
          /\ login.client # "web" =>
               \A j \in DOMAIN sessions : i # j => sessions[i].login # sessions[j].login
=============================================================================
