------------------------------ MODULE Sessions ------------------------------
(***************************************************************************)
(* Logins, their sessions and the end of these: the two-step login         *)
(* (api/auth_routes.py, api/mfa_routes.py), the tokens                     *)
(* (shared/auth.py, shared/mfa.py), the checks every request passes        *)
(* (api/auth_middleware.py), the list of revoked tokens                    *)
(* (shared/token_blacklist.py) and the WebSocket's own check               *)
(* (api/server.py).                                                        *)
(*                                                                         *)
(* A token is named by the login that got it: the access token of its      *)
(* session, and before it, when MFA is on, the token of its MFA session.   *)
(* Both are signed alike, and decode_token takes either; but the MFA       *)
(* session's has no jti, by which a token is revoked and its use noted.    *)
(* An MFA session that is used again after it has ended in a session       *)
(* counts as another login.                                                *)
(*                                                                         *)
(* Time is abstracted to what the checks tell apart: a token has expired   *)
(* or not, a session was active less than SESSION_INACTIVITY_MINUTES ago   *)
(* or not.                                                                 *)
(***************************************************************************)
EXTENDS FiniteSets, Naturals

CONSTANTS
    Members,    \* the accounts
    Logins,     \* login attempts, each with the session it may end in
    MfaChanges, \* POST /auth/mfa/verify and /disable requests
    AccountOf,  \* AccountOf[x]: the account login or request x is for
    MaxLives    \* bound: starts of the API

ASSUME SessionsAssumption ==
    /\ AccountOf \in [Logins \cup MfaChanges -> Members]
    /\ MaxLives \in Nat

Access(l) == <<l, "access">>
MfaSession(l) == <<l, "mfa">>
Tokens == Logins \X {"access", "mfa"}
HasJti(t) == t[2] = "access"

VARIABLES
    api,        \* "down", "load", "clean" or "up"
    lives,      \* how often the API was started
    mfa,        \* mfa[m]: users.mfa_enabled
    change,     \* change[c]: where MFA request c is
    login,      \* login[l]: where login l is
    token,      \* token[t]: "none", "valid" or "expired"
    activity,   \* activity[t]: what _session_activity says
    revoked,    \* TokenBlacklist._revoked
    revokedRows,\* the table revoked_tokens, committed
    logout,     \* logout[t]: where the logout with token t is
    turnedAway  \* history: tokens this life of the API answered 401

tokenVars == <<token, activity, revoked, revokedRows, logout, turnedAway>>
loginVars == <<mfa, change, login>>
sessionVars == <<api, lives, loginVars, tokenVars>>

SessionsTypeOK ==
    /\ api \in {"down", "load", "clean", "up"}
    /\ lives \in 0 .. MaxLives
    /\ mfa \in [Members -> BOOLEAN]
    /\ change \in [MfaChanges -> {"sent", "enable", "disable", "done"}]
    /\ login \in [Logins -> {"sent", "lookup", "mfa", "code", "stamp", "done"}]
    /\ token \in [Tokens -> {"none", "valid", "expired"}]
    /\ activity \in [Tokens -> {"none", "fresh", "idle"}]
    /\ revoked \subseteq Tokens
    /\ revokedRows \subseteq Tokens
    /\ logout \in [Tokens -> {"none", "writing", "answered"}]
    /\ turnedAway \subseteq Tokens

SessionsInit ==
    /\ api = "down" /\ lives = 0
    /\ mfa = [m \in Members |-> FALSE]
    /\ change = [c \in MfaChanges |-> "sent"]
    /\ login = [l \in Logins |-> "sent"]
    /\ token = [t \in Tokens |-> "none"]
    /\ activity = [t \in Tokens |-> "none"]
    /\ revoked = {} /\ revokedRows = {}
    /\ logout = [t \in Tokens |-> "none"]
    /\ turnedAway = {}

-----------------------------------------------------------------------------
(* The API's life.                                                         *)

StartSessions ==
    /\ api = "down" /\ lives < MaxLives
    /\ api' = "load"
    /\ lives' = lives + 1
    /\ UNCHANGED <<loginVars, tokenVars>>

Expired == {t \in Tokens : token[t] = "expired"}

\* Mutant: the server starts without the revocations of its last life.
LoadNothing ==
    /\ api = "load"
    /\ api' = "clean"
    /\ UNCHANGED <<lives, loginVars, tokenVars>>

\* load_from_db.
LoadRevoked ==
    /\ api = "load"
    /\ revoked' = revoked \cup (revokedRows \ Expired)
    /\ api' = "clean"
    /\ UNCHANGED <<lives, loginVars, token, activity, revokedRows, logout, turnedAway>>

\* cleanup_expired, which only the startup calls.
CleanupExpired ==
    /\ api = "clean"
    /\ revokedRows' = revokedRows \ Expired
    /\ revoked' = revoked \ (revokedRows \cap Expired)
    /\ api' = "up"
    /\ UNCHANGED <<lives, loginVars, token, activity, logout, turnedAway>>

\* The process ends: its memory, its requests and its connections are gone.
\* A client may send a login again; an MFA session lives on in its token.
StopSessions ==
    /\ api # "down"
    /\ api' = "down"
    /\ login' = [l \in Logins |-> CASE login[l] \in {"lookup", "stamp"} -> "sent"
                                    [] login[l] = "code" -> "mfa"
                                    [] OTHER -> login[l]]
    /\ change' = [c \in MfaChanges |-> IF change[c] = "sent" THEN "sent" ELSE "done"]
    /\ activity' = [t \in Tokens |-> "none"]
    /\ revoked' = {}
    /\ logout' = [t \in Tokens |-> IF logout[t] = "writing" THEN "none" ELSE logout[t]]
    /\ turnedAway' = {}
    /\ UNCHANGED <<lives, mfa, token, revokedRows>>

-----------------------------------------------------------------------------
(* Login.                                                                  *)

\* login up to get_by_email.
SendLogin(l) ==
    /\ api = "up" /\ login[l] = "sent"
    /\ login' = [login EXCEPT ![l] = "lookup"]
    /\ UNCHANGED <<api, lives, mfa, change, tokenVars>>

Give(t) == token' = [token EXCEPT ![t] = "valid"]

\* The row is read and the password right: the second factor, or the stamp.
CheckPassword(l) ==
    /\ api = "up" /\ login[l] = "lookup"
    /\ \/ /\ mfa[AccountOf[l]]
          /\ login' = [login EXCEPT ![l] = "mfa"]
          /\ Give(MfaSession(l))
       \/ /\ ~mfa[AccountOf[l]]
          /\ login' = [login EXCEPT ![l] = "stamp"]
          /\ UNCHANGED token
    /\ UNCHANGED <<api, lives, mfa, change,
                   activity, revoked, revokedRows, logout, turnedAway>>

\* 401, 403 or 429: no session comes of it.
RefuseLogin(l) ==
    /\ api = "up" /\ login[l] = "lookup"
    /\ login' = [login EXCEPT ![l] = "done"]
    /\ UNCHANGED <<api, lives, mfa, change, tokenVars>>

\* mfa_login up to verify_mfa_token: 400 when MFA is off by now.
CheckCode(l) ==
    /\ api = "up" /\ login[l] = "mfa" /\ token[MfaSession(l)] = "valid" /\ mfa[AccountOf[l]]
    /\ login' = [login EXCEPT ![l] = "code"]
    /\ UNCHANGED <<api, lives, mfa, change, tokenVars>>

\* The MFA session is over, its code wrong or MFA off, and the client gives up:
\* logging in again is another login.
MfaLoginFails(l) ==
    /\ api = "up" /\ login[l] = "mfa"
    /\ login' = [login EXCEPT ![l] = "done"]
    /\ UNCHANGED <<api, lives, mfa, change, tokenVars>>

\* update_last_login is through: create_access_token and the cookies.
IssueToken(l) ==
    /\ api = "up" /\ login[l] \in {"stamp", "code"}
    /\ login' = [login EXCEPT ![l] = "done"]
    /\ Give(Access(l))
    /\ UNCHANGED <<api, lives, mfa, change,
                   activity, revoked, revokedRows, logout, turnedAway>>

\* mfa_verify and mfa_disable: what get_by_id returned decides.
ReadMfa(c) ==
    /\ api = "up" /\ change[c] = "sent"
    /\ change' = [change EXCEPT ![c] = IF mfa[AccountOf[c]] THEN "disable" ELSE "enable"]
    /\ UNCHANGED <<api, lives, mfa, login, tokenVars>>

WriteMfa(c) ==
    /\ api = "up" /\ change[c] \in {"enable", "disable"}
    /\ mfa' = [mfa EXCEPT ![AccountOf[c]] = change[c] = "enable"]
    /\ change' = [change EXCEPT ![c] = "done"]
    /\ UNCHANGED <<api, lives, login, tokenVars>>

-----------------------------------------------------------------------------
(* Requests.                                                               *)

\* AuthMiddleware.dispatch: decode_token and _check_session_validity.
Admitted(t) ==
    /\ token[t] = "valid"
    /\ t \notin revoked
    /\ activity[t] # "idle"

\* _session_activity is noted by jti.
Used(t) == IF HasJti(t) THEN [activity EXCEPT ![t] = "fresh"] ELSE activity

\* Its CSRF check has no effect on the session when it fails.
Request(t) ==
    /\ api = "up" /\ Admitted(t)
    /\ activity' = Used(t)
    /\ UNCHANGED <<api, lives, loginVars, token, revoked, revokedRows, logout, turnedAway>>

\* Mutant: every request counts as activity, a refused one too.
RefuseTracked(t) ==
    /\ api = "up" /\ token[t] # "none" /\ ~Admitted(t)
    /\ turnedAway' = turnedAway \cup {t}
    /\ activity' = Used(t)
    /\ UNCHANGED <<api, lives, loginVars, token, revoked, revokedRows, logout>>

Refuse(t) ==
    /\ api = "up" /\ token[t] # "none" /\ ~Admitted(t)
    /\ turnedAway' = turnedAway \cup {t}
    /\ UNCHANGED <<api, lives, loginVars, token, activity, revoked, revokedRows, logout>>

\* logout: the token is revoked in memory, then in the database; one with no
\* jti is not revoked, and the answer is the same.
Logout(t) ==
    /\ api = "up" /\ Admitted(t) /\ logout[t] = "none"
    /\ activity' = Used(t)
    /\ \/ /\ HasJti(t)
          /\ revoked' = revoked \cup {t}
          /\ logout' = [logout EXCEPT ![t] = "writing"]
       \/ /\ ~HasJti(t)
          /\ logout' = [logout EXCEPT ![t] = "answered"]
          /\ UNCHANGED revoked
    /\ UNCHANGED <<api, lives, loginVars, token, revokedRows, turnedAway>>

StoreRevocation(t) ==
    /\ api = "up" /\ logout[t] = "writing"
    /\ revokedRows' = revokedRows \cup {t}
    /\ logout' = [logout EXCEPT ![t] = "answered"]
    /\ UNCHANGED <<api, lives, loginVars, token, activity, revoked, turnedAway>>

\* The database is locked: HTTP 500, and this life goes on without the session.
RevocationFails(t) ==
    /\ api = "up" /\ logout[t] = "writing"
    /\ logout' = [logout EXCEPT ![t] = "none"]
    /\ UNCHANGED <<api, lives, loginVars, token, activity, revoked, revokedRows, turnedAway>>

\* websocket_chat: checked once, when a connection is made.  The connections
\* are those of WebSockets.tla.
SocketAdmitted(t) == token[t] = "valid" /\ t \notin revoked

-----------------------------------------------------------------------------
(* Time.                                                                   *)

Expire(t) ==
    /\ token[t] = "valid"
    /\ token' = [token EXCEPT ![t] = "expired"]
    /\ UNCHANGED <<api, lives, loginVars, activity, revoked, revokedRows, logout, turnedAway>>

GoIdle(t) ==
    /\ activity[t] = "fresh"
    /\ activity' = [activity EXCEPT ![t] = "idle"]
    /\ UNCHANGED <<api, lives, loginVars, token, revoked, revokedRows, logout, turnedAway>>

SessionsNext ==
    \/ StartSessions \/ LoadRevoked \/ CleanupExpired \/ StopSessions
    \/ \E l \in Logins :
         \/ SendLogin(l) \/ CheckPassword(l) \/ RefuseLogin(l)
         \/ CheckCode(l) \/ MfaLoginFails(l) \/ IssueToken(l)
    \/ \E t \in Tokens :
         \/ Request(t) \/ Refuse(t) \/ Logout(t) \/ StoreRevocation(t) \/ RevocationFails(t)
         \/ Expire(t) \/ GoIdle(t)
    \/ \E c \in MfaChanges : ReadMfa(c) \/ WriteMfa(c)

-----------------------------------------------------------------------------
(* Properties.                                                             *)

\* A logout that was answered is final for a token that has a jti: whatever
\* restarts and cleanups follow, neither a request nor a WebSocket gets in with
\* it (auth_routes.py logout, token_blacklist.py).  The token of an MFA session
\* has none, and gets in until it expires.
EndedStaysEnded ==
    \A t \in Tokens :
        HasJti(t) /\ logout[t] = "answered" /\ api = "up" => ~Admitted(t) /\ ~SocketAdmitted(t)

\* Until the server restarts, a token that was once answered 401 stays
\* refused: trying again revives none (auth_middleware.py).
RefusedStaysRefused == \A t \in turnedAway : ~Admitted(t)

SessionsSpec == SessionsInit /\ [][SessionsNext]_sessionVars
=============================================================================
