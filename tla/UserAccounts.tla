---------------------------- MODULE UserAccounts ----------------------------
(***************************************************************************)
(* The table users (shared/user_repository.py) and the requests that       *)
(* change it: registration and password changes (api/auth_routes.py),      *)
(* roles and deletion (api/user_management_routes.py), and the default     *)
(* administrator the startup provides.  Every request reads a row, awaits, *)
(* and writes; the role of its caller is the one in the caller's token.    *)
(***************************************************************************)
EXTENDS FiniteSets, Naturals

CONSTANTS
    MaxUsers,     \* bound: users ever created
    Mails,        \* e-mail addresses
    AdminMail,    \* admin@sentinelclaw.local
    Rank,         \* Rank[r]: ROLES[r], for the roles that occur
    SystemAdmin, OrgAdmin, Analyst,
    Admins,       \* management requests
    PwChanges,    \* POST /auth/change-password requests
    NoRole,       \* of a row that is not there
    MaxBoots      \* bound: starts of the API

Roles == DOMAIN Rank

\* uuid4 draws ids; here they number the users in the order of their creation.
UserIds == 1 .. MaxUsers

NoMail == "none"

ASSUME AccountsAssumption ==
    /\ AdminMail \in Mails /\ NoMail \notin Mails
    /\ Rank \in [Roles -> Nat \ {0}]
    /\ {SystemAdmin, OrgAdmin, Analyst} \subseteq Roles
    /\ NoRole \notin Roles
    /\ MaxBoots \in Nat /\ MaxUsers \in Nat

VARIABLES
    serving,    \* whether the API accepts requests
    booted,     \* how often it was started
    role,       \* role[i]: the role in row i, NoRole when there is none
    mail,       \* mail[i]: its address, kept after the row is gone
    password,   \* password[i]: "seed", the one in the source, or "own"
    mustChange, \* mustChange[i]: must_change_password
    badge,      \* badge[i]: the role in the token of i's session
    request,    \* request[a]: what management request a has read and checked
    pwStep      \* pwStep[p]: where change p of a password is, and whose it is

accountVars == <<serving, booted, role, mail, password, mustChange, badge, request, pwStep>>

Idle == [kind |-> "idle"]
PwSteps == [kind : {"verified", "written"}, of : UserIds]
AccountRequests == [kind : {"register"}, mail : Mails]
              \cup [kind : {"delete"}, of : UserIds]
              \cup [kind : {"role"}, of : UserIds, to : Roles]

AccountsTypeOK ==
    /\ serving \in BOOLEAN
    /\ booted \in 0 .. MaxBoots
    /\ role \in [UserIds -> Roles \cup {NoRole}]
    /\ mail \in [UserIds -> Mails \cup {NoMail}]
    /\ password \in [UserIds -> {"seed", "own"}]
    /\ mustChange \in [UserIds -> BOOLEAN]
    /\ badge \in [UserIds -> Roles \cup {NoRole}]
    /\ request \in [Admins -> AccountRequests \cup {Idle}]
    /\ pwStep \in [PwChanges -> PwSteps \cup {Idle}]

AccountsInit ==
    /\ serving = FALSE /\ booted = 0
    /\ role = [i \in UserIds |-> NoRole]
    /\ mail = [i \in UserIds |-> NoMail]
    /\ password = [i \in UserIds |-> "own"]
    /\ mustChange = [i \in UserIds |-> FALSE]
    /\ badge = [i \in UserIds |-> NoRole]
    /\ request = [a \in Admins |-> Idle]
    /\ pwStep = [p \in PwChanges |-> Idle]

HasAccount(i) == role[i] # NoRole
WithMail(m) == {i \in UserIds : HasAccount(i) /\ mail[i] = m}
Fresh == {i \in UserIds : mail[i] = NoMail /\ \A j \in 1 .. i - 1 : mail[j] # NoMail}

-----------------------------------------------------------------------------
(* create                                                                  *)

Insert(i, m, r, pw, must) ==
    /\ role' = [role EXCEPT ![i] = r]
    /\ mail' = [mail EXCEPT ![i] = m]
    /\ password' = [password EXCEPT ![i] = pw]
    /\ mustChange' = [mustChange EXCEPT ![i] = must]

\* Mutant: the column has no UNIQUE, only the request's own check counts.
CreateAccountUnchecked(m, r, pw, must) ==
    \E i \in Fresh : Insert(i, m, r, pw, must)

\* The INSERT, refused by the UNIQUE on email when the address is taken.
CreateAccount(m, r, pw, must) ==
    IF WithMail(m) = {} THEN \E i \in Fresh : Insert(i, m, r, pw, must)
    ELSE UNCHANGED <<role, mail, password, mustChange>>

\* ensure_default_admin, before the server accepts requests.
StartAccounts ==
    /\ ~serving /\ booted < MaxBoots
    /\ WithMail(AdminMail) # {} \/ Fresh # {}
    /\ serving' = TRUE
    /\ booted' = booted + 1
    /\ IF WithMail(AdminMail) = {}
       THEN CreateAccount(AdminMail, SystemAdmin, "seed", TRUE)
       ELSE UNCHANGED <<role, mail, password, mustChange>>
    /\ UNCHANGED <<badge, request, pwStep>>

StopAccounts ==
    /\ serving
    /\ serving' = FALSE
    /\ request' = [a \in Admins |-> Idle]
    /\ pwStep' = [p \in PwChanges |-> Idle]
    /\ UNCHANGED <<booted, role, mail, password, mustChange, badge>>

-----------------------------------------------------------------------------
(* Tokens: the role is copied at login and not read again.  Bound: a user  *)
(* logs in once.                                                           *)

GetBadge(i) ==
    /\ serving /\ HasAccount(i) /\ badge[i] = NoRole
    /\ badge' = [badge EXCEPT ![i] = role[i]]
    /\ UNCHANGED <<serving, booted, role, mail, password, mustChange, request, pwStep>>

\* role_has_permission.
Permits(r, required) == Rank[r] >= Rank[required]

CalledBy(c, required) == serving /\ badge[c] # NoRole /\ Permits(badge[c], required)

Read(a, req) ==
    /\ request' = [request EXCEPT ![a] = req]
    /\ UNCHANGED <<serving, booted, role, mail, password, mustChange, badge, pwStep>>

-----------------------------------------------------------------------------
(* Management requests: the row read and checked, then the write.          *)

Register(a, c) ==
    /\ CalledBy(c, SystemAdmin) /\ request[a] = Idle
    /\ \E m \in Mails : WithMail(m) = {} /\ Read(a, [kind |-> "register", mail |-> m])

DeleteUser(a, c) ==
    /\ CalledBy(c, SystemAdmin) /\ request[a] = Idle
    /\ \E i \in UserIds \ {c} : HasAccount(i) /\ Read(a, [kind |-> "delete", of |-> i])

\* Only users below the caller, and no role above the caller's.
ChangeRole(a, c) ==
    /\ CalledBy(c, OrgAdmin) /\ request[a] = Idle
    /\ \E i \in UserIds, r \in Roles :
         /\ HasAccount(i)
         /\ ~Permits(role[i], badge[c])
         /\ Permits(badge[c], r)
         /\ Read(a, [kind |-> "role", of |-> i, to |-> r])

\* The write goes by id: no row, no effect.
Write(a) ==
    /\ serving /\ request[a] # Idle
    /\ \/ /\ request[a].kind = "register"
          /\ Fresh # {}
          /\ CreateAccount(request[a].mail, Analyst, "own", FALSE)
       \/ /\ request[a].kind = "delete"
          /\ role' = [role EXCEPT ![request[a].of] = NoRole]
          /\ password' = [password EXCEPT ![request[a].of] = "own"]
          /\ mustChange' = [mustChange EXCEPT ![request[a].of] = FALSE]
          /\ UNCHANGED mail
       \/ /\ request[a].kind = "role"
          /\ role' = [role EXCEPT ![request[a].of] = IF @ = NoRole THEN NoRole ELSE request[a].to]
          /\ UNCHANGED <<mail, password, mustChange>>
    /\ request' = [request EXCEPT ![a] = Idle]
    /\ UNCHANGED <<serving, booted, badge, pwStep>>

-----------------------------------------------------------------------------
(* change_password: the old one verified, then two writes of one row.  A   *)
(* new password meets validate_password, which the seeded one does not.    *)

VerifyOld(p, i) ==
    /\ serving /\ badge[i] # NoRole /\ HasAccount(i) /\ pwStep[p] = Idle
    /\ pwStep' = [pwStep EXCEPT ![p] = [kind |-> "verified", of |-> i]]
    /\ UNCHANGED <<serving, booted, role, mail, password, mustChange, badge, request>>

\* Mutant: the duty to change is lifted first.
ClearFirst(p) ==
    /\ serving /\ pwStep[p] # Idle /\ pwStep[p].kind = "verified"
    /\ mustChange' = [mustChange EXCEPT ![pwStep[p].of] = FALSE]
    /\ pwStep' = [pwStep EXCEPT ![p].kind = "written"]
    /\ UNCHANGED <<serving, booted, role, mail, password, badge, request>>

\* update_password.
UpdatePassword(p) ==
    /\ serving /\ pwStep[p] # Idle /\ pwStep[p].kind = "verified"
    /\ password' = [password EXCEPT ![pwStep[p].of] = "own"]
    /\ pwStep' = [pwStep EXCEPT ![p].kind = "written"]
    /\ UNCHANGED <<serving, booted, role, mail, mustChange, badge, request>>

\* clear_must_change.
ClearMustChange(p) ==
    /\ serving /\ pwStep[p] # Idle /\ pwStep[p].kind = "written"
    /\ mustChange' = [mustChange EXCEPT ![pwStep[p].of] = FALSE]
    /\ pwStep' = [pwStep EXCEPT ![p] = Idle]
    /\ UNCHANGED <<serving, booted, role, mail, password, badge, request>>

AccountsNext ==
    \/ StartAccounts \/ StopAccounts
    \/ \E i \in UserIds : GetBadge(i)
    \/ \E p \in PwChanges :
         \/ \E i \in UserIds : VerifyOld(p, i)
         \/ UpdatePassword(p) \/ ClearMustChange(p)
    \/ \E a \in Admins :
         \/ \E c \in UserIds : Register(a, c) \/ DeleteUser(a, c) \/ ChangeRole(a, c)
         \/ Write(a)

-----------------------------------------------------------------------------
(* Properties.                                                             *)

\* Two registrations of one address, both past their check that it is free,
\* leave one account (auth_routes.py register, the UNIQUE on users.email).
OneAccountPerMail == \A m \in Mails : Cardinality(WithMail(m)) <= 1

\* As long as an account has the password the source gives it, it has to
\* change it, wherever a change was cut off by a restart
\* (auth_routes.py change_password, user_repository.py).
SeedPasswordFlagged ==
    \A i \in UserIds : HasAccount(i) /\ password[i] = "seed" => mustChange[i]

AccountsSpec == AccountsInit /\ [][AccountsNext]_accountVars
=============================================================================
