------------------------------ MODULE Authorize ------------------------------
(***************************************************************************)
(* Authorization of connections (networkservice/common/authorize): the     *)
(* element of a client, and the one of its server with the map that tells  *)
(* which connections each identity has.  The monitor server lets a client  *)
(* watch what the map says (tools/monitorconnection/authorize).  Policies  *)
(* are opaque: tokens run out, so that a check may fail at any time.       *)
(* begin runs the calls of one connection one by one.                      *)
(*                                                                         *)
(* Authorization of registrations (registry/common/authorize): the element *)
(* of a client, which registers for several others, and the one of its     *)
(* server.  Both keep the first id of the path with which a name was       *)
(* registered, and the policy lets only that id use the name.  Elements    *)
(* for network services and for endpoints are alike.  begin runs the calls *)
(* of one name one by one in the client; the element of the server comes   *)
(* before begin, so that calls of several peers meet there.                *)
(***************************************************************************)
EXTENDS Integers, Sequences, FiniteSets

CONSTANTS
    Conn,
    Owners,         \* functions from Conn to identities or None, to choose from
    None,
    MaxCalls,       \* bound: calls
    MaxOpen,        \* bound: calls at a time
    Id,             \* first ids of paths of registrations
    MaxRegistrations \* bound: calls of the registry

VARIABLES
    owner,                  \* identity of the peer of each connection (never changes)
    spiffeIDConnectionMap,  \* of each identity: a reference to its set, or 0
    sets,                   \* the sets of ids
    authorized,             \* connections with the flag in the metadata of the client
    has,                    \* connections that the rest of the chain has
    pc, ids,                \* of the call of each connection: its step, and its set
    calls,
    lost,                   \* history: connections whose Close was refused or failed
    forgotten,              \* history: connections whose entry went with a failed Request of another
    disturbed               \* history: identities whose entry an overlap may have broken

\* Registrations of one name.
VARIABLES
    kind,               \* of the elements: "ns" or "nse" (never changes)
    policies,           \* whether there are any (never changes)
    clientIds, serverIds,   \* pathIdsMap of each element: the first id of the name, or None
    registered,         \* what the rest of the chain has: the id, or None
    call,               \* of the client and of a peer of the server: its call, or None
    loose, unsure,      \* history: the map of the server, of the client may not fit
    taken               \* history: the name went to another id though the map of the server fits

authorizeVars == <<owner, spiffeIDConnectionMap, sets, authorized, has, pc, ids, calls, lost, forgotten, disturbed>>
registryAuthorizeVars == <<kind, policies, clientIds, serverIds, registered, call, calls, loose, unsure, taken>>
fixed == <<kind, policies>>

Identity == {o[c] : o \in Owners, c \in Conn} \ {None}

AuthorizeInit ==
    /\ owner \in Owners
    /\ spiffeIDConnectionMap = [i \in Identity |-> 0] /\ sets = <<>>
    /\ authorized = {} /\ has = {} /\ lost = {} /\ forgotten = {} /\ disturbed = {}
    /\ pc = [c \in Conn |-> "idle"] /\ ids = [c \in Conn |-> 0]
    /\ calls = 0

Set(r) == IF r = 0 THEN {} ELSE sets[r]
Goto(c, p) == pc' = [pc EXCEPT ![c] = p]
Returns(c) == Goto(c, "idle") /\ ids' = [ids EXCEPT ![c] = 0]
StoreIds(c, r) == spiffeIDConnectionMap' = [spiffeIDConnectionMap EXCEPT ![owner[c]] = r]

Mine(c) == {d \in Conn \ {c} : owner[d] = owner[c]}
Meets(c) == \E d \in Mine(c) : pc[d] # "idle"

\* Calls of one identity may overlap as long as another of its connections stays, which
\* keeps its set in the map.
Overlaps(c) ==
    /\ Meets(c)
    /\ \A d \in Mine(c) : pc[d] # "idle" \/ d \notin has \/ d \in lost \cup forgotten

Starts(c) ==
    /\ pc[c] = "idle" /\ Cardinality({d \in Conn : pc[d] # "idle"}) < MaxOpen
    /\ calls < MaxCalls /\ calls' = calls + 1
    /\ disturbed' = IF Overlaps(c) THEN disturbed \cup {owner[c]} ELSE disturbed

-----------------------------------------------------------------------------
(* Request.                                                                *)

\* The server accepts a Request and looks the peer up.  (One that it refuses changes nothing.)
Load(c) ==
    /\ Starts(c)
    /\ IF owner[c] = None THEN Goto(c, "rest") /\ UNCHANGED <<ids, sets>>
       ELSE LET r == spiffeIDConnectionMap[owner[c]] IN
            /\ sets' = IF r = 0 THEN Append(sets, {}) ELSE sets
            /\ ids' = [ids EXCEPT ![c] = IF r = 0 THEN Len(sets) + 1 ELSE r]
            /\ Goto(c, "add")
    /\ UNCHANGED <<owner, spiffeIDConnectionMap, authorized, has, lost, forgotten>>

Add(c) ==
    /\ pc[c] = "add" /\ Goto(c, "store")
    /\ sets' = [sets EXCEPT ![ids[c]] = @ \cup {c}]
    /\ UNCHANGED <<owner, spiffeIDConnectionMap, authorized, has, ids, calls, lost, disturbed, forgotten>>

Store(c) ==
    /\ pc[c] = "store" /\ Goto(c, "rest")
    /\ StoreIds(c, ids[c])
    /\ UNCHANGED <<owner, sets, authorized, has, ids, calls, lost, disturbed, forgotten>>

\* The rest of the chain.  When it fails the identity loses all its connections.
RequestReturns(c) ==
    /\ pc[c] = "rest" /\ Goto(c, "check")
    /\ has' = has \cup {c} /\ forgotten' = forgotten \ {c}
    /\ UNCHANGED <<owner, spiffeIDConnectionMap, sets, authorized, ids, calls, lost, disturbed>>

RequestFails(c) ==
    /\ pc[c] = "rest" /\ Returns(c)
    /\ IF owner[c] = None THEN UNCHANGED <<spiffeIDConnectionMap, forgotten, disturbed>>
       ELSE /\ StoreIds(c, 0)
            /\ forgotten' = forgotten \cup (has \cap ({c} \cup Mine(c)))
            /\ disturbed' = IF Meets(c) THEN disturbed \cup {owner[c]} ELSE disturbed
    /\ UNCHANGED <<owner, sets, authorized, has, calls, lost>>

\* The client checks the answer, and marks the connection.
Authorized(c) ==
    /\ pc[c] = "check" /\ Returns(c)
    /\ authorized' = authorized \cup {c} /\ lost' = lost \ {c}
    /\ UNCHANGED <<owner, spiffeIDConnectionMap, sets, has, calls, disturbed, forgotten>>

\* Or it refuses the answer: a new connection is closed, an established one stays.
NotAuthorized(c) ==
    /\ pc[c] = "check"
    /\ IF c \in authorized THEN Returns(c) ELSE Goto(c, "close") /\ UNCHANGED ids
    /\ UNCHANGED <<owner, spiffeIDConnectionMap, sets, authorized, has, calls, lost, disturbed, forgotten>>

-----------------------------------------------------------------------------
(* Close.                                                                  *)

\* The client forgets the connection, and then finds out whether it may close it.
Close(c) ==
    /\ c \in authorized /\ Starts(c)
    /\ authorized' = authorized \ {c}
    /\ \/ Goto(c, "close") /\ UNCHANGED lost
       \/ lost' = lost \cup {c} /\ UNCHANGED pc
    /\ UNCHANGED <<owner, spiffeIDConnectionMap, sets, has, ids, forgotten>>

\* The Close does not get to the server.
CloseLost(c) ==
    /\ pc[c] = "close" /\ Returns(c)
    /\ lost' = lost \cup {c}
    /\ UNCHANGED <<owner, spiffeIDConnectionMap, sets, authorized, has, calls, disturbed, forgotten>>

LoadToClose(c) ==
    /\ pc[c] = "close"
    /\ IF owner[c] = None THEN Goto(c, "closeRest") /\ UNCHANGED ids
       ELSE Goto(c, "delete") /\ ids' = [ids EXCEPT ![c] = spiffeIDConnectionMap[owner[c]]]
    /\ UNCHANGED <<owner, spiffeIDConnectionMap, sets, authorized, has, calls, lost, disturbed, forgotten>>

Delete(c) ==
    /\ pc[c] = "delete" /\ Goto(c, "closeStore")
    /\ sets' = IF ids[c] = 0 THEN sets ELSE [sets EXCEPT ![ids[c]] = @ \ {c}]
    /\ UNCHANGED <<owner, spiffeIDConnectionMap, authorized, has, ids, calls, lost, disturbed, forgotten>>

\* A bug: the entry goes with any of its connections.
StoreLeft_Deletes(c) ==
    /\ pc[c] = "closeStore" /\ Goto(c, "closeRest")
    /\ StoreIds(c, 0)
    /\ UNCHANGED <<owner, sets, authorized, has, ids, calls, lost, disturbed, forgotten>>

\* The entry goes with its last connection.
StoreLeft(c) ==
    /\ pc[c] = "closeStore" /\ Goto(c, "closeRest")
    /\ StoreIds(c, IF Set(ids[c]) = {} THEN 0 ELSE ids[c])
    /\ UNCHANGED <<owner, sets, authorized, has, ids, calls, lost, disturbed, forgotten>>

\* The server may close it and does, or it may not although it has forgotten the id.
CloseRest(c) ==
    /\ pc[c] = "closeRest" /\ Returns(c)
    /\ \/ has' = has \ {c} /\ lost' = lost \ {c}
       \/ lost' = lost \cup {c} /\ UNCHANGED has
    /\ forgotten' = forgotten \ {c}
    /\ UNCHANGED <<owner, spiffeIDConnectionMap, sets, authorized, calls, disturbed>>

\* The monitor server lets an identity watch a selector with one of its connections.
MonitorConnections(i, selector) == Set(spiffeIDConnectionMap[i]) \cap selector # {}

AuthorizeNext ==
    \E c \in Conn :
        \/ Load(c) \/ Add(c) \/ Store(c) \/ RequestReturns(c) \/ RequestFails(c)
        \/ Authorized(c) \/ NotAuthorized(c)
        \/ Close(c) \/ CloseLost(c) \/ LoadToClose(c) \/ Delete(c) \/ StoreLeft(c) \/ CloseRest(c)

-----------------------------------------------------------------------------
\* authorizeClient: between calls, the rest of the chain has just the connections that
\* the client has marked; one that it refused at the first Request is closed, one that
\* it refused later is not; but for those whose Close was refused or got lost.
RefusedIsClosed ==
    \A c \in Conn : pc[c] = "idle" /\ c \notin lost => (c \in has <=> c \in authorized)

\* authorizeServer: between calls, a client may watch just the connections that it has,
\* even when its calls overlap, as long as one of its connections stays.  A failed
\* Request takes the entries of all its connections, until each is refreshed.
WatchesItsOwn ==
    \A c \in Conn :
        pc[c] = "idle" /\ c \notin lost \cup forgotten /\ owner[c] # None /\ owner[c] \notin disturbed
            => (MonitorConnections(owner[c], {c}) <=> c \in has)

-----------------------------------------------------------------------------
(* Registrations.                                                          *)

\* The client, and another peer of the server: another client, or a call of ours that
\* is still in the server after its client has given up.
Caller == {"client", "peer"}
Other(c) == IF c = "client" THEN "peer" ELSE "client"

RegistryAuthorizeInit ==
    /\ kind \in {"ns", "nse"} /\ policies \in BOOLEAN
    /\ clientIds = None /\ serverIds = None /\ registered = None
    /\ call = [c \in Caller |-> None] /\ calls = 0
    /\ loose = FALSE /\ unsure = FALSE /\ taken = FALSE

\* The policy: a name is free, or its first id comes.
ClientAllowed(first, i) == policies => first \in {None, i}

Stored(first, i) == IF policies THEN i ELSE first
Forgotten(first) == IF policies THEN None ELSE first

GoOn(c, at) == call' = [call EXCEPT ![c].at = at]
Ends(c) == call' = [call EXCEPT ![c] = None]
Answers(c) == IF c = "client" THEN GoOn(c, "client") ELSE Ends(c)
At(c, at) == call[c] # None /\ call[c].at = at
InServer(c) == call[c] # None /\ call[c].at \in {"server", "store", "chain"}
Register(c, at) == At(c, at) /\ call[c].op = "Register"
Unregister(c, at) == At(c, at) /\ call[c].op = "Unregister"

\* Two calls at a time: they do no harm if both register for the same id.
Alike(r, s) == r.op = "Register" /\ s.op = "Register" /\ r.id = s.id
Crosses(c, r) == call[Other(c)] # None /\ ~ Alike(r, call[Other(c)])

NotAlone(r) == IF r = None THEN None ELSE [r EXCEPT !.alone = FALSE]

-----------------------------------------------------------------------------
(* Register.                                                               *)

\* The client, the peer passes a call on.  The server takes it if the policies let it,
\* whatever it is doing for the other: begin comes after this element, or not at all.
Enters(c, r) ==
    /\ ClientAllowed(serverIds, r.id)
    /\ call' = [call EXCEPT ![c] = [r EXCEPT !.at = "server", !.alone = r.alone /\ ~ Crosses(c, r)],
                            ![Other(c)] = IF Crosses(c, r) THEN NotAlone(call[Other(c)]) ELSE call[Other(c)]]
    /\ loose' = (loose \/ (Crosses(c, r) /\ InServer(Other(c))))
    /\ unsure' = (unsure \/ Crosses(c, r) \/ c = "peer")
    /\ UNCHANGED <<fixed, clientIds, serverIds, registered, taken>>

Begin(c, o, i) ==
    /\ call[c] = None /\ calls < MaxRegistrations /\ calls' = calls + 1
    /\ Enters(c, [op |-> o, id |-> i, at |-> "call", rollback |-> FALSE, alone |-> TRUE])

\* The rest of the chain registers the name.
Registered(c) ==
    /\ Register(c, "server") /\ GoOn(c, "store")
    /\ registered' = call[c].id
    /\ taken' = (taken \/ (~ loose /\ registered \notin {None, call[c].id}))
    /\ UNCHANGED <<fixed, clientIds, serverIds, calls, loose, unsure>>

\* The server keeps its id.
Stores(c) ==
    /\ Register(c, "store") /\ Answers(c)
    /\ serverIds' = Stored(serverIds, call[c].id) /\ loose' = (loose /\ ~ call[c].alone)
    /\ UNCHANGED <<fixed, clientIds, registered, calls, unsure, taken>>

\* The rest of the chain fails; if only the answer got lost the name is registered.
RegisterFails(c) ==
    /\ Register(c, "server") /\ Ends(c)
    /\ registered' \in {registered, call[c].id}
    /\ taken' = (taken \/ (~ loose /\ registered \notin {None, registered'}))
    /\ loose' = (loose \/ registered' # registered) /\ unsure' = TRUE
    /\ UNCHANGED <<fixed, clientIds, serverIds, calls>>

\* The client lets the answer through.
Kept ==
    /\ Register("client", "client") /\ Ends("client")
    /\ ClientAllowed(clientIds, call["client"].id)
    /\ clientIds' = Stored(clientIds, call["client"].id) /\ unsure' = ~ call["client"].alone
    /\ UNCHANGED <<fixed, serverIds, registered, calls, loose, taken>>

\* Or not: a name that it does not know is unregistered.
Refused ==
    /\ Register("client", "client") /\ policies
    /\ IF clientIds # None
       THEN Ends("client") /\ UNCHANGED unsure
       ELSE LET r == [call["client"] EXCEPT !.op = "Unregister", !.at = "call", !.rollback = TRUE]
            IN /\ call' = IF Crosses("client", r)
                          THEN [client |-> NotAlone(r), peer |-> NotAlone(call["peer"])]
                          ELSE [call EXCEPT !["client"] = r]
               /\ unsure' = (unsure \/ Crosses("client", r))
    /\ UNCHANGED <<fixed, clientIds, serverIds, registered, calls, loose, taken>>

-----------------------------------------------------------------------------
(* Unregister, of the client or after a refused answer.                    *)

\* The Unregister of a rollback gets to the server, or the server does not let it in.
Rollback ==
    /\ At("client", "call")
    /\ \/ Enters("client", call["client"])
       \/ /\ Ends("client") /\ unsure' = TRUE
          /\ UNCHANGED <<fixed, clientIds, serverIds, registered, loose, taken>>
    /\ UNCHANGED calls

\* The server forgets the name before it passes the call on.
Deletes(c) ==
    /\ Unregister(c, "server") /\ GoOn(c, "chain")
    /\ serverIds' = Forgotten(serverIds)
    /\ UNCHANGED <<fixed, clientIds, registered, calls, loose, unsure, taken>>

Unregistered(c) ==
    /\ Unregister(c, "chain")
    /\ IF call[c].rollback THEN Ends(c) ELSE Answers(c)
    /\ registered' = None /\ loose' = (loose /\ ~ call[c].alone)
    /\ UNCHANGED <<fixed, clientIds, serverIds, calls, unsure, taken>>

UnregisterFails(c) ==
    /\ Unregister(c, "chain") /\ Ends(c)
    /\ loose' = (loose \/ registered # None) /\ unsure' = TRUE
    /\ UNCHANGED <<fixed, clientIds, serverIds, registered, calls, taken>>

\* The client forgets it if its policies let it.
Forget ==
    /\ Unregister("client", "client") /\ Ends("client")
    /\ \/ /\ ClientAllowed(clientIds, call["client"].id)
          /\ clientIds' = Forgotten(clientIds) /\ unsure' = ~ call["client"].alone
       \/ policies /\ UNCHANGED clientIds /\ unsure' = TRUE
    /\ UNCHANGED <<fixed, serverIds, registered, calls, loose, taken>>

-----------------------------------------------------------------------------
\* An endpoint expires behind the server, which keeps its id.
Expires ==
    /\ kind = "nse" /\ registered # None /\ registered' = None
    /\ call' = [c \in Caller |-> NotAlone(call[c])]
    /\ loose' = TRUE /\ unsure' = TRUE
    /\ UNCHANGED <<fixed, clientIds, serverIds, calls, taken>>

-----------------------------------------------------------------------------
RegisterServer(c, i) == Begin(c, "Register", i) \/ Registered(c) \/ Stores(c) \/ RegisterFails(c)
UnregisterServer(c, i) == Begin(c, "Unregister", i) \/ Deletes(c) \/ Unregistered(c) \/ UnregisterFails(c)

authorizeNSClient_Register == kind = "ns" /\ (Kept \/ Refused \/ Rollback)
authorizeNSClient_Unregister == kind = "ns" /\ Forget
authorizeNSServer_Register(c, i) == kind = "ns" /\ RegisterServer(c, i)
authorizeNSServer_Unregister(c, i) == kind = "ns" /\ UnregisterServer(c, i)
authorizeNSEClient_Register == kind = "nse" /\ (Kept \/ Refused \/ Rollback)
authorizeNSEClient_Unregister == kind = "nse" /\ Forget
authorizeNSEServer_Register(c, i) == kind = "nse" /\ RegisterServer(c, i)
authorizeNSEServer_Unregister(c, i) == kind = "nse" /\ UnregisterServer(c, i)

RegistryAuthorizeNext ==
    \/ authorizeNSClient_Register \/ authorizeNSClient_Unregister
    \/ authorizeNSEClient_Register \/ authorizeNSEClient_Unregister
    \/ \E c \in Caller, i \in Id :
          \/ authorizeNSServer_Register(c, i) \/ authorizeNSServer_Unregister(c, i)
          \/ authorizeNSEServer_Register(c, i) \/ authorizeNSEServer_Unregister(c, i)
    \/ Expires

-----------------------------------------------------------------------------
\* authorizeNSServer, authorizeNSEServer: while a name is registered no other id gets it,
\* and when the server is idle its map fits the registry.  It need not after a call that
\* crossed another one in the server (two ids may both find a new name free), after the
\* rest of the chain failed, or after an endpoint expired; the next call that gets
\* through uncrossed puts it right.
OwnerKeepsName ==
    policies /\ ~ loose => ~ taken /\ ((\A c \in Caller : ~ InServer(c)) => serverIds = registered)

\* authorizeNSClient, authorizeNSEClient: between calls the client knows the names that
\* are registered, unless a call has failed, a peer has called or an endpoint has expired
\* after its last uncrossed call that got through: a name that it refuses at the first
\* Register is unregistered, one that it refuses later stays.
ClientKnowsNames == policies /\ ~ unsure /\ call["client"] = None => clientIds = registered
===============================================================================
