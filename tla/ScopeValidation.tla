--------------------------- MODULE ScopeValidation ---------------------------
(***************************************************************************)
(* ScopeValidator (shared/scope_validator.py) with its eight checks        *)
(* (shared/scope_checks.py), the forbidden actions                         *)
(* (shared/forbidden_action_map.py) and the scope itself                   *)
(* (shared/types/scope.py): is a tool call within the scope of a pentest?  *)
(* No other part of SentinelClaw calls it yet.                             *)
(*                                                                         *)
(* A target or an entry of a scope is a record: an IPv4 address ("ip",     *)
(* number), a network ("net", address, prefix length), a domain ("name",   *)
(* labels) or "*." and a domain ("wild", labels).  A label is a number, so *)
(* that one made of digits is an octet's text.  Arguments are the markers  *)
(* that the regular expressions of the forbidden actions look for.         *)
(***************************************************************************)
EXTENDS Integers, Sequences, FiniteSets

CONSTANTS
    Octets,         \* octets of an address (4)
    OctetBits,      \* bits of an octet (8)
    MaxPort,        \* the last port (65535)
    ForbiddenNets,  \* FORBIDDEN_IP_RANGES
    LevelOf,        \* DEFAULT_TOOL_ESCALATION_MAP: tool -> level
    Patterns,       \* FORBIDDEN_ACTION_PATTERNS: [action, tools, marker], in order
    Scopes,         \* the scopes there are
    Calls,          \* the calls to validate
    NoPort,         \* port = None
    NoTime          \* a side of the time window that is not set

Ip(a) == [form |-> "ip", value |-> a]
Net(a, len) == [form |-> "net", value |-> <<a, len>>]
Name(labels) == [form |-> "name", value |-> labels]
Wild(labels) == [form |-> "wild", value |-> labels]

\* Bits of an address.
Width == Octets * OctetBits

\* How many addresses that many bits tell apart.
AddressCount[bits \in 0 .. Width] ==
    IF bits = 0 THEN 1 ELSE 2 * AddressCount[bits - 1]

Addresses == 0 .. AddressCount[Width] - 1

Networks == Nat \X (0 .. Width)

\* ipaddress accepts no other addresses and networks; all else is a name.
IsEntry(e) ==
    \/ e.form = "ip" /\ e = Ip(e.value) /\ e.value \in Addresses
    \/ e.form = "net" /\ e.value \in Networks
    \/ e.form \in {"name", "wild"} /\ e.value \in Seq(Nat)

IsScope(s) ==
    /\ \A e \in s.include \cup s.exclude : IsEntry(e)
    /\ s.ports \subseteq Int \X Int /\ s.portsBroken \in BOOLEAN
    /\ s.start \in Int /\ s.end \in Int /\ s.naive \subseteq {"start", "end"}
    /\ s.maxLevel \in 0 .. 4

ASSUME ScopeAssumption ==
    /\ Octets \in Nat \ {0} /\ OctetBits \in Nat /\ MaxPort \in Nat \ {0}
    /\ NoPort \in Int \ (0 .. MaxPort + 1)
    /\ ForbiddenNets \subseteq Networks
    /\ \A t \in DOMAIN LevelOf : LevelOf[t] \in 0 .. 4
    /\ \A s \in Scopes : IsScope(s)
    /\ \A c \in Calls : IsEntry(c.target) /\ c.port \in Int

VARIABLES
    scope,      \* the PentestScope
    clock,      \* the time
    last        \* the call validated, with the time and the verdict

scopeVars == <<scope, clock, last>>

Checks == <<"target_in_scope", "target_not_excluded", "target_not_forbidden",
            "port_in_scope", "time_window", "escalation_level", "tool_allowed">>

Verdicts == {Checks[i] : i \in DOMAIN Checks}
                \cup {"forbidden_actions", "all_passed", "raised"}

ScopeTypeOK ==
    /\ scope \in Scopes
    /\ clock \in 0 .. 2
    /\ last \subseteq [call : Calls, time : 0 .. 2, verdict : Verdicts]

ScopeInit == scope \in Scopes /\ clock = 0 /\ last = {}

-----------------------------------------------------------------------------
(* Targets.                                                                *)

\* Mutant: a network written with host bits set begins at its own address.
InNetworkUnmasked(a, net) ==
    a - net[1] \in 0 .. AddressCount[Width - net[2]] - 1

(* ip_in_network, strict=False: host bits of the network are ignored.      *)
InNetwork(a, net) ==
    LET size == AddressCount[Width - net[2]]
    IN  a \div size = net[1] \div size

(* is_ip_address: networks count as well.                                  *)
IsIpAddress(target) == target.form \in {"ip", "net"}

\* The i-th octet of an address, and what stands between a target's dots.
Octet(a, i) ==
    (a \div AddressCount[(Octets - i) * OctetBits]) % AddressCount[OctetBits]

Dotted(target) ==
    IF target.form = "ip" THEN [i \in 1 .. Octets |-> Octet(target.value, i)]
                          ELSE target.value

(* target_matches_scope_entry: the same text, an address in a network, a   *)
(* text that ends like a wildcard: a name below it, but an address as      *)
(* well.  A network matches no other network.                              *)
MatchesEntry(target, entry) ==
    \/ target = entry
    \/ /\ target.form = "ip" /\ entry.form = "net"
       /\ InNetwork(target.value, entry.value)
    \/ /\ target.form \in {"ip", "name"} /\ entry.form = "wild"
       /\ LET text == Dotted(target)
              skip == Len(text) - Len(entry.value)
          IN  skip > 0 /\ SubSeq(text, skip + 1, Len(text)) = entry.value

TargetInScope(call) == \E e \in scope.include : MatchesEntry(call.target, e)

TargetExcluded(call) == \E e \in scope.exclude : MatchesEntry(call.target, e)

TargetForbidden(call) ==
    /\ IsIpAddress(call.target)
    /\ call.target.form = "ip"
    /\ \E n \in ForbiddenNets : InNetwork(call.target.value, n)

-----------------------------------------------------------------------------
(* Ports, time, tools.                                                     *)

(* parse_port_range: ranges are cut to 1 .. MaxPort; "80" is 80-80.        *)
ParsedPorts(parts) ==
    UNION {(IF p[1] > 1 THEN p[1] ELSE 1) ..
           (IF p[2] < MaxPort THEN p[2] ELSE MaxPort) : p \in parts}

(* A range whose ends are not numbers ("80-") raises ValueError; it is     *)
(* parsed only when a port is asked for that is not excluded.              *)
PortsRaise(call) ==
    /\ call.port # NoPort
    /\ call.port \notin scope.portsExclude
    /\ scope.portsBroken

PortInScope(call) ==
    \/ call.port = NoPort
    \/ /\ call.port \notin scope.portsExclude
       /\ call.port \in ParsedPorts(scope.ports)

(* A side given without a time zone cannot be compared with the time:      *)
(* TypeError, unless the start has already said no.                        *)
TimeRaises ==
    \/ scope.start # NoTime /\ "start" \in scope.naive
    \/ /\ scope.start # NoTime => clock >= scope.start
       /\ scope.end # NoTime /\ "end" \in scope.naive

InTimeWindow ==
    /\ scope.start # NoTime => clock >= scope.start
    /\ scope.end # NoTime => clock <= scope.end

LevelAllowed(call) ==
    /\ call.tool \in DOMAIN LevelOf
    /\ LevelOf[call.tool] <= scope.maxLevel

ToolAllowed(call) == scope.tools = {} \/ call.tool \in scope.tools

(* check_forbidden_action: patterns of actions the scope does not list are *)
(* skipped.                                                                *)
ForbiddenAction(call) ==
    \E i \in DOMAIN Patterns :
        /\ Patterns[i].action \in scope.forbiddenActions
        /\ call.tool \in Patterns[i].tools
        /\ Patterns[i].marker \in call.arguments

-----------------------------------------------------------------------------
(* ScopeValidator.validate: the forbidden actions first; then all seven    *)
(* standard checks are made before the first that failed is reported.      *)
Passes(call) ==
    [target_in_scope      |-> TargetInScope(call),
     target_not_excluded  |-> ~TargetExcluded(call),
     target_not_forbidden |-> ~TargetForbidden(call),
     port_in_scope        |-> PortInScope(call),
     time_window          |-> InTimeWindow,
     escalation_level     |-> LevelAllowed(call),
     tool_allowed         |-> ToolAllowed(call)]

Validation(call) ==
    LET failed == {i \in DOMAIN Checks : ~Passes(call)[Checks[i]]}
        raises == PortsRaise(call) \/ TimeRaises
    IN  CASE ForbiddenAction(call) -> "forbidden_actions"
          [] ~ForbiddenAction(call) /\ raises -> "raised"
          [] ~ForbiddenAction(call) /\ ~raises /\ failed = {} -> "all_passed"
          [] OTHER -> Checks[CHOOSE i \in failed : \A k \in failed : i <= k]

\* A validation leaves no trace, one for each scope and time is enough.
Validate(call) ==
    /\ last = {}
    /\ last' = {[call |-> call, time |-> clock, verdict |-> Validation(call)]}
    /\ UNCHANGED <<scope, clock>>

\* Time passes: before, in, after a window.
ScopeTick == clock < 2 /\ clock' = clock + 1 /\ UNCHANGED <<scope, last>>

ScopeNext == (\E call \in Calls : Validate(call)) \/ ScopeTick

ScopeSpec == ScopeInit /\ [][ScopeNext]_scopeVars

-----------------------------------------------------------------------------
(* The reference: what the entries of a scope stand for.                   *)

AddressesOf(entry) ==
    CASE entry.form = "ip" -> {entry.value}
      [] entry.form = "net" ->
            LET size == AddressCount[Width - entry.value[2]]
                low == entry.value[1] - (entry.value[1] % size)
            IN  low .. low + size - 1
      [] entry.form = "wild" ->
            LET labels == entry.value
            IN  {a \in Addresses :
                    /\ Len(labels) < Octets
                    /\ \A i \in DOMAIN labels :
                          labels[i] = Octet(a, Octets - Len(labels) + i)}
      [] OTHER -> {}

Covered(entries) == UNION {AddressesOf(e) : e \in entries}

(* ScopeValidator, docstring: all eight checks must pass, there is no      *)
(* "partly allowed".  A call to an address passes exactly when the address *)
(* is one the scope stands for (a wildcard for those that end in its       *)
(* labels), excludes nowhere and no range forbids, and port, time, level   *)
(* and tool are within their bounds; a port list or a time that cannot be  *)
(* judged lets nothing pass.                                               *)
AllowedIsWithinScope ==
    \A v \in last : v.call.target.form = "ip" =>
        (v.verdict = "all_passed" <=>
            /\ v.call.target.value \in Covered(scope.include)
                    \ (Covered(scope.exclude)
                        \cup Covered({Net(n[1], n[2]) : n \in ForbiddenNets}))
            /\ v.call.port = NoPort \/
                 /\ v.call.port \in 1 .. MaxPort \ scope.portsExclude
                 /\ \E p \in scope.ports : v.call.port \in p[1] .. p[2]
                 /\ ~scope.portsBroken
            /\ \/ scope.start = NoTime
               \/ scope.start <= v.time /\ "start" \notin scope.naive
            /\ \/ scope.end = NoTime
               \/ v.time <= scope.end /\ "end" \notin scope.naive
            /\ \E l \in 0 .. scope.maxLevel : <<v.call.tool, l>> \in
                    {<<t, LevelOf[t]>> : t \in DOMAIN LevelOf}
            /\ scope.tools # {} => v.call.tool \in scope.tools
            /\ \A i \in DOMAIN Patterns :
                 \/ Patterns[i].action \notin scope.forbiddenActions
                 \/ v.call.tool \notin Patterns[i].tools
                 \/ Patterns[i].marker \notin v.call.arguments)
=============================================================================
