----------------------------- MODULE MCServices -----------------------------
(***************************************************************************)
(* Small instances for TLC of the API's other services.  As in MCData, a   *)
(* behaviour is one of one component, the part, while the others stay in   *)
(* an initial state: they share no variable and none calls another.        *)
(***************************************************************************)
EXTENDS KillVerification, Sessions, UserAccounts, WebSockets, SandboxConfig,
        RateLimits, ScanComparison, ScanResults, ScopeValidation, TLC

\* Model values that definitions below refer to.
CONSTANTS m1, l1, c1, c2, w1, w2, w3, u1, u2, s1, sa, sb, x1, x2, y1, y2

VARIABLE part

mcVars == <<part, statusVars, sessionVars, accountVars, socketVars, configVars,
            limitVars, compareVars, resultVars, scopeVars>>

\* A login and two MFA changes of one account.
MCAccountOf == l1 :> m1 @@ c1 :> m1 @@ c2 :> m1

MCRank == "system_admin" :> 100 @@ "org_admin" :> 80 @@ "analyst" :> 40

\* One user with two windows, one with one.
MCOwnerOf == w1 :> u1 @@ w2 :> u1 @@ w3 :> u2
MCSendTo == s1 :> u1

\* Two entries for the same target.
MCHostOf == x1 :> "h1" @@ x2 :> "h1"

MCLimitOf == y1 :> 2 @@ y2 :> 1

\* B found twice what A found once.
MCStorable ==
    sa :> {[key |-> "k1", score |-> 1]}
    @@ sb :> {[key |-> "k1", score |-> 1], [key |-> "k1", score |-> 2]}
MCPairOf == [c \in Compares |-> <<sa, sb>>]

\* One phase whose results reference its row, two with findings, one with none.
MCPhases == <<"port_scan", "vuln_scan", "ssl_analysis", "analysis">>

-----------------------------------------------------------------------------
(* Addresses of three octets of one bit; the last two are forbidden.       *)
MCForbiddenNets == {<<6, 2>>}
MCLevelOf == "whois" :> 0 @@ "nmap" :> 1 @@ "sqlmap" :> 3
MCPatterns ==
    << [action |-> "denial_of_service", tools |-> {"nmap"}, marker |-> "-T5"],
       [action |-> "ransomware", tools |-> {"whois", "nmap", "sqlmap", "rm"},
        marker |-> "rm -rf"] >>

\* Labels no octet is written like.
MCDe   == 101
MCTest == 102
MCWww  == 103

\* A scope, 5/1 being the network 4 .. 7, and what is changed in it: the
\* targets, the ports, the time window, the lists of tools and actions.
MCScope ==
    [include |-> {Net(5, 1), Wild(<<MCTest, MCDe>>)}, exclude |-> {},
     ports |-> {<<0, 9>>}, portsExclude |-> {}, portsBroken |-> FALSE,
     start |-> NoTime, end |-> NoTime, naive |-> {}, maxLevel |-> 2, tools |-> {},
     forbiddenActions |-> {"denial_of_service", "ransomware"}]
MCScopes ==
    {[MCScope EXCEPT !.include = i, !.exclude = e] :
        i \in {{}, {Net(5, 1)}, {Ip(2), Wild(<<MCTest, MCDe>>)},
               {Wild(<<1, 0>>), Wild(<<0, 0, 1>>)}},
        e \in {{}, {Net(5, 2)}, {Wild(<<1>>)},
               {Ip(6), Name(<<MCWww, MCTest, MCDe>>)}}}
    \cup {[MCScope EXCEPT !.ports = p, !.portsExclude = x, !.portsBroken = b] :
        p \in {{<<0, 9>>}, {<<2, 2>>, <<3, 4>>}}, x \in {{}, {3}}, b \in BOOLEAN}
    \cup {[MCScope EXCEPT !.start = a, !.end = b, !.naive = n] :
        a, b \in {NoTime, 1}, n \in SUBSET {"start", "end"}}
    \cup {[MCScope EXCEPT !.tools = {"nmap"}, !.forbiddenActions = f] :
        f \in {{}, {"denial_of_service"}}}

\* Every address; networks and names, with every kind of port and tool.
MCCalls ==
    [target : {Ip(a) : a \in 0 .. 7}, port : {NoPort, 2},
     tool : {"nmap", "sqlmap"}, arguments : {{}, {"-T5"}}]
    \cup [target : {Ip(4), Net(5, 1), Name(<<MCTest, MCDe>>),
                    Name(<<MCWww, MCTest, MCDe>>),
                    Name(<<MCTest, MCTest, MCDe>>)},
          port : {NoPort, 0, 3, 8}, tool : {"nmap", "whois", "rm"},
          arguments : {{}}]

-----------------------------------------------------------------------------
MCInit ==
    /\ part \in {"kill_status", "sessions", "accounts", "sockets", "config",
                 "requests", "logins", "comparison", "results", "scope"}
    /\ VerifyInit /\ SessionsInit /\ AccountsInit /\ WebSocketsInit /\ ConfigInit
    /\ LimitsInit /\ CompareInit /\ ResultsInit /\ ScopeInit
    /\ part # "scope" => scope = MCScope

\* Bound: as many requests that change the whitelist as there are syncs.
NoMoreChangesThanSyncs ==
    Cardinality({e \in Entries : entryStep'[e] # "new"})
        + Cardinality({r \in Revokes : revoke'[r] # "new"}) <= MaxSyncs

MCNext ==
    /\ UNCHANGED part
    /\ IF part = "kill_status" THEN VerifyNext ELSE UNCHANGED statusVars
    /\ IF part = "sessions" THEN SessionsNext ELSE UNCHANGED sessionVars
    /\ IF part = "accounts" THEN AccountsNext ELSE UNCHANGED accountVars
    /\ IF part = "sockets" THEN WebSocketsNext ELSE UNCHANGED socketVars
    /\ IF part = "config" THEN ConfigNext /\ NoMoreChangesThanSyncs ELSE UNCHANGED configVars
    /\ CASE part = "requests" -> MiddlewareNext
         [] part = "logins"   -> LoginNext
         [] OTHER             -> UNCHANGED limitVars
    /\ IF part = "comparison" THEN CompareNext ELSE UNCHANGED compareVars
    /\ IF part = "results" THEN ResultsNext ELSE UNCHANGED resultVars
    /\ IF part = "scope" THEN ScopeNext ELSE UNCHANGED scopeVars

MCSpec == MCInit /\ [][MCNext]_mcVars

\* A component that stays in its initial state need not be looked at again.
MCTypeOK ==
    /\ part = "kill_status" => VerifyTypeOK
    /\ part = "sessions" => SessionsTypeOK
    /\ part = "accounts" => AccountsTypeOK
    /\ part = "sockets" => WebSocketsTypeOK
    /\ part = "config" => ConfigTypeOK
    /\ part \in {"requests", "logins"} => LimitsTypeOK
    /\ part = "comparison" => CompareTypeOK
    /\ part = "results" => ResultsTypeOK
    /\ part = "scope" => ScopeTypeOK

(* The types of the components, and what two requests that have both       *)
(* checked a table must not store together: a second account for an        *)
(* address (register), a second row for a target (authorize_target).       *)
MCInvariant == MCTypeOK /\ OneAccountPerMail /\ OneRowPerTarget
=============================================================================
