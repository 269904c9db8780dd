----------------------------- MODULE WebSockets -----------------------------
(***************************************************************************)
(* The connections to the browsers (api/websocket_manager.py, the          *)
(* endpoint in api/server.py) and the messages sent through them, such as  *)
(* the lines of the sandbox's log (agents/sandbox_log_stream.py).          *)
(*                                                                         *)
(* send_to_user iterates over the list a user has registered, with an      *)
(* await per message.  The list is an object: connect appends to it in     *)
(* place, disconnect registers a new one.  So the lists are on a heap, and *)
(* a sender keeps the one it started with.                                 *)
(***************************************************************************)
EXTENDS FiniteSets, Lists, Naturals, Sequences, SequencesExt

CONSTANTS
    Sockets,   \* the connections that are made
    Clients,   \* the users who make them
    OwnerOf,   \* OwnerOf[w]: the user of connection w
    UserSends, \* calls of send_to_user
    Broadcasts,\* calls of broadcast
    SendTo     \* SendTo[s]: the user s is for

ASSUME WebSocketsAssumption ==
    /\ OwnerOf \in [Sockets -> Clients]
    /\ SendTo \in [UserSends -> Clients]
    /\ UserSends \cap Broadcasts = {}
    /\ IsFiniteSet(Clients)

Sends == UserSends \cup Broadcasts

VARIABLES
    socket,    \* socket[w]: "new", "open", "gone" (unnoticed) or "closed"
    lists,     \* every list object created so far
    entry,     \* entry[u]: the one _connections holds for u, 0 for no key
    sendStep,  \* sendStep[s]: "idle", "sending" or "done"
    queue,     \* queue[s]: users a send has yet to start with
    list,      \* list[s]: the list it iterates over, 0 for the empty default
    position,  \* position[s]: how many elements it has dealt with
    dead,      \* dead[s]: connections whose send raised
    present,   \* history: connections registered when s came to their user
    got        \* history: got[s][w]: how often w was sent the message of s

socketVars == <<socket, lists, entry, sendStep, queue, list, position, dead, present, got>>

WebSocketsTypeOK ==
    /\ socket \in [Sockets -> {"new", "open", "gone", "closed"}]
    /\ lists \in Seq(Seq(Sockets))
    /\ entry \in [Clients -> 0 .. Len(lists)]
    /\ sendStep \in [Sends -> {"idle", "sending", "done"}]
    /\ queue \in [Sends -> Seq(Clients)]
    /\ list \in [Sends -> 0 .. Len(lists)]
    /\ position \in [Sends -> Nat]
    /\ dead \in [Sends -> SUBSET Sockets]
    /\ present \in [Sends -> SUBSET Sockets]
    /\ got \in [Sends -> [Sockets -> Nat]]

WebSocketsInit ==
    /\ socket = [w \in Sockets |-> "new"]
    /\ lists = <<>>
    /\ entry = [u \in Clients |-> 0]
    /\ sendStep = [s \in Sends |-> "idle"]
    /\ queue = [s \in Sends |-> <<>>]
    /\ list = [s \in Sends |-> 0]
    /\ position = [s \in Sends |-> 0]
    /\ dead = [s \in Sends |-> {}]
    /\ present = [s \in Sends |-> {}]
    /\ got = [s \in Sends |-> [w \in Sockets |-> 0]]

Elements(k) == IF k = 0 THEN <<>> ELSE lists[k]
Registered(u) == ToSet(Elements(entry[u]))

\* connect, once the connection is accepted.
Connect(w) ==
    LET u == OwnerOf[w] IN
    /\ socket[w] = "new"
    /\ socket' = [socket EXCEPT ![w] = "open"]
    /\ IF entry[u] = 0
       THEN /\ lists' = Append(lists, <<w>>)
            /\ entry' = [entry EXCEPT ![u] = Len(lists) + 1]
       ELSE /\ lists' = [lists EXCEPT ![entry[u]] = Append(@, w)]
            /\ UNCHANGED entry
    /\ UNCHANGED <<sendStep, queue, list, position, dead, present, got>>

\* The browser goes away; the endpoint does not know yet.
Vanish(w) ==
    /\ socket[w] = "open"
    /\ socket' = [socket EXCEPT ![w] = "gone"]
    /\ UNCHANGED <<lists, entry, sendStep, queue, list, position, dead, present, got>>

\* Mutant: the list is changed in place.
DropInPlace(u, W) ==
    IF entry[u] = 0 THEN UNCHANGED <<lists, entry>>
    ELSE LET rest == Kept(lists[entry[u]], Sockets \ W) IN
         /\ lists' = [lists EXCEPT ![entry[u]] = rest]
         /\ entry' = [entry EXCEPT ![u] = IF rest = <<>> THEN 0 ELSE @]

\* Mutant: the user's key goes with the first connection that is dropped.
DropKey(u, W) ==
    IF entry[u] = 0 \/ W = {} THEN UNCHANGED <<lists, entry>>
    ELSE entry' = [entry EXCEPT ![u] = 0] /\ UNCHANGED lists

\* disconnect, for every connection in W: a new list without them, and no
\* key without connections.
Drop(u, W) ==
    IF entry[u] = 0 \/ W = {} THEN UNCHANGED <<lists, entry>>
    ELSE LET rest == Kept(lists[entry[u]], Sockets \ W) IN
         IF rest = <<>>
         THEN entry' = [entry EXCEPT ![u] = 0] /\ UNCHANGED lists
         ELSE /\ lists' = Append(lists, rest)
              /\ entry' = [entry EXCEPT ![u] = Len(lists) + 1]

\* websocket_chat: WebSocketDisconnect.
Disconnect(w) ==
    /\ socket[w] = "gone"
    /\ socket' = [socket EXCEPT ![w] = "closed"]
    /\ Drop(OwnerOf[w], {w})
    /\ UNCHANGED <<sendStep, queue, list, position, dead, present, got>>

-----------------------------------------------------------------------------
(* send_to_user and broadcast.                                             *)

\* A send comes to user u: the list registered now is the one it iterates.
Enter(s, u, rest) ==
    /\ queue' = [queue EXCEPT ![s] = rest]
    /\ list' = [list EXCEPT ![s] = entry'[u]]
    /\ position' = [position EXCEPT ![s] = 0]
    /\ dead' = [dead EXCEPT ![s] = {}]
    /\ present' = [present EXCEPT ![s] = @ \cup ToSet(IF entry'[u] = 0 THEN <<>> ELSE lists'[entry'[u]])]

Finish(s) ==
    /\ sendStep' = [sendStep EXCEPT ![s] = "done"]
    /\ list' = [list EXCEPT ![s] = 0]
    /\ position' = [position EXCEPT ![s] = 0]
    /\ dead' = [dead EXCEPT ![s] = {}]
    /\ UNCHANGED <<queue, present>>

\* The users a send is for: broadcast copies the keys.
Addressees(s) ==
    IF s \in UserSends THEN <<SendTo[s]>> ELSE SetToSeq({u \in Clients : entry[u] # 0})

StartSend(s) ==
    /\ sendStep[s] = "idle"
    /\ UNCHANGED <<lists, entry>>
    /\ IF Addressees(s) = <<>> THEN Finish(s)
       ELSE /\ sendStep' = [sendStep EXCEPT ![s] = "sending"]
            /\ Enter(s, Head(Addressees(s)), Tail(Addressees(s)))
    /\ UNCHANGED <<socket, got>>

\* One send_text, awaited.  One to a browser that is gone may still seem to
\* work; one to a closed connection raises.
SendOne(s) ==
    /\ sendStep[s] = "sending"
    /\ position[s] < Len(Elements(list[s]))
    /\ position' = [position EXCEPT ![s] = @ + 1]
    /\ LET w == Elements(list[s])[position[s] + 1] IN
       \/ /\ socket[w] \in {"open", "gone"}
          /\ got' = [got EXCEPT ![s][w] = @ + 1]
          /\ UNCHANGED dead
       \/ /\ socket[w] \in {"gone", "closed"}
          /\ dead' = [dead EXCEPT ![s] = @ \cup {w}]
          /\ UNCHANGED got
    /\ UNCHANGED <<socket, lists, entry, sendStep, queue, list, present>>

\* The end of the list: dead connections are dropped, the next user entered.
NextUser(s) ==
    /\ sendStep[s] = "sending"
    /\ position[s] >= Len(Elements(list[s]))
    /\ IF dead[s] = {} THEN UNCHANGED <<lists, entry>>
       ELSE Drop(OwnerOf[CHOOSE w \in dead[s] : TRUE], dead[s])
    /\ IF queue[s] = <<>> THEN Finish(s)
       ELSE Enter(s, Head(queue[s]), Tail(queue[s])) /\ UNCHANGED sendStep
    /\ UNCHANGED <<socket, got>>

WebSocketsNext ==
    \/ \E w \in Sockets : Connect(w) \/ Vanish(w) \/ Disconnect(w)
    \/ \E s \in Sends : StartSend(s) \/ SendOne(s) \/ NextUser(s)

-----------------------------------------------------------------------------
(* Properties.                                                             *)

\* A connection that was there when a send came to its user, and is open
\* still when the send is done, was sent the message, whoever else came and
\* went meanwhile; and nobody was sent it twice (send_to_user).
DeliveredOnce ==
    \A s \in Sends, w \in Sockets :
        /\ got[s][w] <= 1
        /\ sendStep[s] = "done" /\ w \in present[s] /\ socket[w] = "open" => got[s][w] = 1

\* Every open connection is reachable: it is in the list registered for its
\* user, once (connect, disconnect).
OpenIsRegistered ==
    \A w \in Sockets : socket[w] = "open" =>
        Cardinality({k \in DOMAIN Elements(entry[OwnerOf[w]]) : Elements(entry[OwnerOf[w]])[k] = w}) = 1

WebSocketsSpec == WebSocketsInit /\ [][WebSocketsNext]_socketVars
=============================================================================
