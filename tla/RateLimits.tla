----------------------------- MODULE RateLimits -----------------------------
(***************************************************************************)
(* The two in-memory rate limiters of the API: the middleware that counts  *)
(* requests per address and path (api/rate_limiter.py), and the limiter    *)
(* of failed logins per address (api/rate_limit_login.py), as login uses   *)
(* it (api/auth_routes.py).  Time is an explicit clock.                    *)
(***************************************************************************)
EXTENDS FiniteSets, Integers, Lists, Sequences

CONSTANTS
    Paths,     \* pairs of an address and a path
    LimitOf,   \* LimitOf[p]: _get_limit_for_path
    Window,    \* the 60 s of the middleware
    Sweep,     \* _CLEANUP_INTERVAL_SECONDS
    Attempts,  \* login requests of one address
    MaxFailed, \* login_rate_limit_attempts
    LoginWindow,\* WINDOW_SECONDS
    MaxTime    \* bound: the clock

ASSUME LimitsAssumption ==
    /\ LimitOf \in [Paths -> Nat \ {0}]
    /\ {Window, Sweep, MaxFailed, LoginWindow} \subseteq Nat \ {0}
    /\ Window <= Sweep
    /\ IsFiniteSet(Attempts)
    /\ MaxTime \in Nat

VARIABLES
    now,       \* time.time()
    stamps,    \* stamps[p]: _requests, <<>> for no key as well
    swept,     \* _last_cleanup
    admitted,  \* history: admitted[p]: when requests were let through, up to a
               \* window before the newest
    attempt,   \* attempt[l]: where login request l is
    failures,  \* _attempts of the address
    failed     \* history: when logins failed since the last success, up to a
               \* window before the newest

limitVars == <<now, stamps, swept, admitted, attempt, failures, failed>>
failureVars == <<attempt, failures, failed>>

LimitsTypeOK ==
    /\ now \in 0 .. MaxTime /\ swept \in 0 .. MaxTime
    /\ stamps \in [Paths -> Seq(0 .. MaxTime)] /\ admitted \in [Paths -> Seq(0 .. MaxTime)]
    /\ attempt \in [Attempts -> {"new", "password", "done", "blocked"}]
    /\ failures \in Seq(0 .. MaxTime) /\ failed \in Seq(0 .. MaxTime)

LimitsInit ==
    /\ now = 0 /\ swept = 0
    /\ stamps = [p \in Paths |-> <<>>]
    /\ admitted = [p \in Paths |-> <<>>]
    /\ attempt = [l \in Attempts |-> "new"]
    /\ failures = <<>> /\ failed = <<>>

Since(times, start) == Kept(times, {t \in 0 .. MaxTime : t > start})

Tick ==
    /\ now < MaxTime
    /\ now' = now + 1
    /\ UNCHANGED <<stamps, swept, admitted, failureVars>>

-----------------------------------------------------------------------------
(* RateLimitMiddleware.dispatch: one step, nothing in it is awaited.       *)

\* _cleanup_old_entries: a key is stale when its newest entry is.
IsStale(times) == times # <<>> /\ times[Len(times)] < now - Sweep

\* Mutant: the sweep drops every key.
CleanedAll ==
    IF now - swept > Sweep THEN [p \in Paths |-> <<>>] ELSE stamps

Cleaned ==
    IF now - swept > Sweep
    THEN [p \in Paths |-> IF IsStale(stamps[p]) THEN <<>> ELSE stamps[p]]
    ELSE stamps

Dispatch(p) ==
    LET recent == Since(Cleaned[p], now - Window) IN
    /\ swept' = IF now - swept > Sweep THEN now ELSE swept
    /\ \/ /\ Len(recent) >= LimitOf[p]
          /\ stamps' = Cleaned
          /\ UNCHANGED admitted
       \/ /\ Len(recent) < LimitOf[p]
          /\ stamps' = [Cleaned EXCEPT ![p] = Append(recent, now)]
          /\ admitted' = [admitted EXCEPT ![p] = Append(Since(@, now - Window), now)]
    /\ UNCHANGED <<now, failureVars>>

-----------------------------------------------------------------------------
(* login: the limiter is asked first, the failure recorded after the user  *)
(* was read and the password checked.                                      *)

RecentFailures == Since(failures, now - LoginWindow)

\* Mutant: one failure more.
BlockedLate(n) == n > MaxFailed

Blocked(n) == n >= MaxFailed

\* is_blocked also forgets the old attempts.
AskLimiter(l) ==
    /\ attempt[l] = "new"
    /\ failures' = RecentFailures
    /\ attempt' = [attempt EXCEPT
           ![l] = IF Blocked(Len(RecentFailures)) THEN "blocked" ELSE "password"]
    /\ UNCHANGED <<now, stamps, swept, admitted, failed>>

\* record_failure: an unknown user or a wrong password.
LoginFails(l) ==
    /\ attempt[l] = "password"
    /\ attempt' = [attempt EXCEPT ![l] = "done"]
    /\ failures' = Append(failures, now)
    /\ failed' = Append(Since(failed, now - LoginWindow), now)
    /\ UNCHANGED <<now, stamps, swept, admitted>>

\* The account is deactivated: 403, and no record of it.
LoginForbidden(l) ==
    /\ attempt[l] = "password"
    /\ attempt' = [attempt EXCEPT ![l] = "done"]
    /\ UNCHANGED <<now, stamps, swept, admitted, failures, failed>>

\* reset.
LoginSucceeds(l) ==
    /\ attempt[l] = "password"
    /\ attempt' = [attempt EXCEPT ![l] = "done"]
    /\ failures' = <<>> /\ failed' = <<>>
    /\ UNCHANGED <<now, stamps, swept, admitted>>

\* The client tries again.
TryAgain(l) ==
    /\ attempt[l] \in {"done", "blocked"}
    /\ attempt' = [attempt EXCEPT ![l] = "new"]
    /\ UNCHANGED <<now, stamps, swept, admitted, failures, failed>>

\* The two limiters share nothing but the clock.
MiddlewareNext == Tick \/ \E p \in Paths : Dispatch(p)

LoginNext ==
    \/ Tick
    \/ \E l \in Attempts :
          \/ AskLimiter(l) \/ LoginFails(l) \/ LoginForbidden(l)
          \/ LoginSucceeds(l) \/ TryAgain(l)

LimitsSpec == LimitsInit /\ [][MiddlewareNext \/ LoginNext]_limitVars

-----------------------------------------------------------------------------
(* Properties.                                                             *)

Within(times, first, last) == {k \in DOMAIN times : times[k] \in first .. last}

\* "Sliding Window": in no window of the clock, wherever it starts, are more
\* requests of one address let through to a path than its limit, whatever
\* was trimmed and swept meanwhile (RateLimitMiddleware).
WindowLimit ==
    \A p \in Paths, t \in 0 .. now :
        Cardinality(Within(admitted[p], t, t + Window - 1)) <= LimitOf[p]

\* Logins that are past the limiter when it would close may all still fail:
\* no window sees more failures than the limit and those, unless a login
\* succeeded in it (is_blocked, record_failure).
FailuresBounded ==
    \A t \in 0 .. now :
        Cardinality(Within(failed, t, t + LoginWindow - 1))
            <= MaxFailed - 1 + Cardinality(Attempts)
=============================================================================
