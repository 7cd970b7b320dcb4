------------------------------ MODULE MCChains ------------------------------
(***************************************************************************)
(* Ways of a call, one at a time (the variables that only others have are  *)
(* 0): every operation through every chain of module Next, and through     *)
(* small chains that nest chains, adapters and connect elements in all     *)
(* ways up to depth three; a sequence of calls through the processes of a  *)
(* path; and one through a manager, its forwarders and endpoints.  Then    *)
(* calls that are authorized, those of several connections at a time.      *)
(***************************************************************************)
EXTENDS Next, FiniteSets, TLC

CONSTANTS
    None,
    PathKinds, Routes,                                                      \* paths
    Forwarder, Endpoint, NsLabels, Matches, LabelsOf, Template, MaxChanges, \* discovery
    Conn, Owners, MaxOpen,                                                  \* authorization
    Id, MaxRegistrations,                                                   \* in the registry
    MaxCalls                                                                \* all of them but the chains

\* Calls of the registry, and those through a manager and a forwarder.
RegistryCall ==
    [op : {"Register", "Unregister"}, id : Id, at : {"call", "server", "store", "chain", "client"},
     rollback : BOOLEAN, alone : BOOLEAN]

DiscoverCall ==
    [op : {"Request", "Close"}, at : {"manager", "roundrobin", "endpoint", "forwarder", "done"},
     reselect : BOOLEAN, ok : BOOLEAN, was : Forwarder \union {None}, name : Forwarder \union {None},
     nse : Endpoint \union {None}, nses : Seq(Forwarder), found : SUBSET Forwarder, tried : SUBSET Forwarder,
     endpoints : Seq(Endpoint), selected : Endpoint \union {None}, left : Nat, failed : SUBSET Endpoint,
     others : Nat]

\* None is no id, forwarder, endpoint or call.  There are finitely many forwarders and
\* endpoints, and the matches of a network service are lists, with lists of routes.
ASSUME ChainsAssumption ==
    /\ None \notin Id \union Forwarder \union Endpoint \union RegistryCall
    /\ None \notin DiscoverCall
    /\ IsFiniteSet(Forwarder) /\ IsFiniteSet(Endpoint)
    /\ \A ms \in Matches : \A i \in DOMAIN ms : i \in Nat /\ Len(ms[i].routes) \in Nat

VARIABLES
    part,
    calls,                                                          \* of paths and discovery
    kind, creds, route, mine, known, last, ended, ids,              \* paths
    matches, registered, roundRobin, forwarderName, path, nseName, has, lost, changes,
    owner, spiffeIDConnectionMap, sets, authorized, pc, forgotten, disturbed, \* authorization
    policies, clientIds, serverIds, loose, unsure, taken            \* in the registry

-----------------------------------------------------------------------------
(* Small chains of network services *)

Server(n) == Element("server", n, {}, {})
Client(n) == Element("client", n, {}, {})

\* Clients of depth one and two: an element, chains of nothing, one or two.
Clients1 == {Client("a"), Chain("client", <<>>), Chain("client", <<Client("b"), Client("c")>>)}

\* The client of a connect element ends in an element that calls nobody.  (One
\* that ends otherwise would go on with the clients behind an enclosing
\* ServerToClient, which connect then calls a second time.)
ConnectTo(c) == Connect(Chain("client", <<c, Terminal(Client("z"))>>))

Servers1 ==
  {Server("d"), Chain("server", <<>>), Chain("server", <<Server("e"), Server("f")>>)}
    \union {ClientToServer(c) : c \in Clients1}
    \union {ConnectTo(c) : c \in Clients1}

Clients2 == {ServerToClient(s) : s \in Servers1} \union {Chain("client", <<ServerToClient(s), Client("g")>>) : s \in Servers1}

Servers2 == Servers1 \union {ClientToServer(c) : c \in Clients2} \union {ConnectTo(c) : c \in Clients2}

SmallChains == {Chain("server", <<s, t>>) : s \in Servers2, t \in Servers1}

-----------------------------------------------------------------------------
(* The chains of the repository *)

ServiceRoots ==
  {NewClient([DefaultClient EXCEPT !.url = "clienturl", !.heal = "heal", !.authorize = "authorize client"]),
   NewClient([DefaultClient EXCEPT !.cc = "clientconn(cc)"]),
   NewEndpoint(<<>>), NsmgrEndpoint, ProxyEndpoint}

NSRoots ==
  {NsmgrNSRegistry(r) : r \in Remote} \union {RegistryNSClient(r, <<>>) : r \in Resolvers}
    \union {ProxyNSServer, MemoryNS, ProxyDNSNS}

NSERoots ==
  {NsmgrNSERegistry(r) : r \in Remote} \union {RegistryNSEClient(r, <<"sendfd">>) : r \in Resolvers}
    \union {ProxyNSEServer, MemoryNSE, ProxyDNSNSE}

\* Registries that are only searched: by discoverforwarder, netsvcmonitor and
\* the discover element of the proxy.
NSFinds == {NsmgrNSClient(r) : r \in Remote} \union {ProxyNSClient}
NSEFinds == {NsmgrNSEClient(r) : r \in Remote} \union {ProxyNSEClient}

\* Elements the chains above have no use for: an adapted client among servers,
\* and choices between a chain, an element and neither.
Odds ==
  Chain("server",
        <<ClientToServer(Chain("client", <<SwitchCase("client", <<Client("a"), Chain("client", <<Client("b"), Client("c")>>)>>, FALSE)>>)),
          SwitchCase("server", <<Chain("server", <<Server("d"), Server("e")>>), Server("f")>>, FALSE), Server("g")>>)

\* Registry servers behind a connect.  Not for Unregister, which connect takes
\* to the next client instead of the next server (no chain of the repository
\* has a server there).
BehindConnect == Chain("server", <<ConnectTo(Client("a")), Server("d")>>)

\* Chains of servers without clients, for the two kinds of calls that have none.
ServerChains == {Chain("server", <<Server("a"), s, Server("b")>>) :
                   s \in {Chain("server", <<>>), Chain("server", <<Server("e"), Chain("server", <<Server("f")>>)>>)}}

MCCalls ==
  [root : ServiceRoots \union SmallChains \union {Odds}, api : {"networkservice"}, op : {"request", "close"}]
    \union [root : NSRoots \union {Odds}, api : {"ns"}, op : {"register", "unregister", "find"}]
    \union [root : NSERoots \union {Odds}, api : {"nse"}, op : {"register", "unregister", "find"}]
    \union [root : {NewMonitorConnectionServer} \union ServerChains, api : {"monitor"}, op : {"monitor"}]
    \union [root : {VL3DNSHandler} \union ServerChains, api : {"dns"}, op : {"serve"}]
    \union [root : {BehindConnect}, api : {"ns", "nse"}, op : {"register", "find"}]
    \union [root : NSFinds, api : {"ns"}, op : {"find"}]
    \union [root : NSEFinds, api : {"nse"}, op : {"find"}]

-----------------------------------------------------------------------------
(* Paths and discovery *)

Path == INSTANCE Paths

Discovery == INSTANCE Discover WITH MaxCalls <- MaxCalls - 1

Authorization == INSTANCE Authorize

\* Paths of connections and registrations, and their calls.
Seg == [name : Path!Process, id : Nat, token : Nat \union {None}]
ConnPath == [id : Nat \union {None}, index : Nat, segments : Seq(Seg), pathIds : {<<>>}]

Token == [of : Path!Process, token : Nat]
RegPath == [id : {None}, index : Nat, segments : Seq([token : Token \union {None}]), pathIds : Seq(Path!Process \union {None})]

PathCall(paths) ==
    [op : {"Request", "Close"}, at : Nat, down : BOOLEAN, saved : Seq([server : Nat, client : Nat]), expires : Nat,
     msg : paths]

\* A call passes different processes, the first of which is the client; None is no
\* token and no call.
ASSUME RoutesAssumption ==
    /\ PathKinds \subseteq {"conn", "ns", "nse"}
    /\ None \notin Token \union PathCall(ConnPath) \union PathCall(RegPath)
    /\ \A r \in Routes : /\ r \in Seq(Path!Process) /\ Len(r) > 0
                         /\ \A i, j \in 1 .. Len(r) : i # j => r[i] # r[j]
                         /\ \A s \in Routes : s[1] = r[1]

\* The route gets another process at the end, in the middle, or gets shorter.
MCRoutes == {<<"c", "m", "f", "e">>, <<"c", "m", "g", "e">>, <<"c", "m", "e">>, <<"c", "n", "f", "d">>}

Match(source, routes, fallthrough, metadata) ==
    [source |-> source, routes |-> routes, fallthrough |-> fallthrough, metadata |-> metadata]

\* No matches; a template and an endpoint that fits two routes behind matches that fall
\* through; a match without routes.
MCMatches ==
    {<<>>,
     <<Match(<<>>, <<[zone |-> "z9"]>>, TRUE, None), Match([app |-> "x"], <<<<>>>>, TRUE, None),
       Match([zone |-> "z1"], <<[zone |-> "{{.zone}}"], [role |-> "gw"]>>, TRUE, [p2p |-> "true"])>>,
     <<Match(<<>>, <<[role |-> "gw"]>>, TRUE, None), Match(<<>>, <<>>, FALSE, [p2p |-> "true"])>>}
MCNsLabels == [zone |-> "z1"]
MCTemplate == "{{.zone}}" :> "zone"
MCLabelsOf == "f1" :> [p2p |-> "true"] @@ "f2" :> [p2p |-> "true", fast |-> "yes"]
                 @@ "e1" :> [zone |-> "z1", role |-> "gw"] @@ "e2" :> None

\* Three connections of a client, or two and one whose peer has no identity.
MCOwners == {[c1 |-> o, c2 |-> "a", c3 |-> "a"] : o \in {"a", None}}

pathOnly == <<creds, route, mine, known, last, ended>>
discoverOnly == <<matches, roundRobin, forwarderName, path, nseName, changes>>
chainOnly == <<op, callee, ctx, stack, visited, missing, result>>
authorizeOnly == <<owner, spiffeIDConnectionMap, sets, authorized, pc, forgotten, disturbed>>
registryOnly == <<policies, clientIds, serverIds, loose, unsure, taken>>
shared == <<call, calls, kind, ids, registered, has, lost>>
allVars == <<part, shared, pathOnly, discoverOnly, chainOnly, authorizeOnly, registryOnly>>

NoPath == creds = 0 /\ route = 0 /\ mine = 0 /\ known = 0 /\ last = 0 /\ ended = 0
NoDiscovery == matches = 0 /\ roundRobin = 0 /\ forwarderName = 0 /\ path = 0 /\ nseName = 0 /\ changes = 0
NoChain == op = 0 /\ callee = 0 /\ ctx = 0 /\ stack = 0 /\ visited = 0 /\ missing = 0 /\ result = 0
NoAuthorization == owner = 0 /\ spiffeIDConnectionMap = 0 /\ sets = 0 /\ authorized = 0 /\ pc = 0 /\ forgotten = 0 /\ disturbed = 0
NoRegistration == policies = 0 /\ clientIds = 0 /\ serverIds = 0 /\ loose = 0 /\ unsure = 0 /\ taken = 0

MCInit ==
    \/ /\ part = "chain" /\ Init
       /\ calls = 0 /\ kind = 0 /\ ids = 0 /\ registered = 0 /\ has = 0 /\ lost = 0
       /\ NoPath /\ NoDiscovery /\ NoAuthorization /\ NoRegistration
    \/ /\ part = "path" /\ Path!PathsInit
       /\ registered = 0 /\ has = 0 /\ lost = 0
       /\ NoDiscovery /\ NoChain /\ NoAuthorization /\ NoRegistration
    \/ /\ part = "discover" /\ Discovery!DiscoverInit
       /\ kind = 0 /\ ids = 0
       /\ NoPath /\ NoChain /\ NoAuthorization /\ NoRegistration
    \/ /\ part = "authorize" /\ Authorization!AuthorizeInit
       /\ call = 0 /\ kind = 0 /\ registered = 0
       /\ NoPath /\ NoDiscovery /\ NoChain /\ NoRegistration
    \/ /\ part = "registry" /\ Authorization!RegistryAuthorizeInit
       /\ ids = 0 /\ has = 0 /\ lost = 0
       /\ NoPath /\ NoDiscovery /\ NoChain /\ NoAuthorization

MCNext ==
    /\ UNCHANGED part
    /\ \/ /\ part = "chain" /\ Next
          /\ UNCHANGED <<calls, kind, ids, registered, has, lost, pathOnly, discoverOnly, authorizeOnly, registryOnly>>
       \/ /\ part = "path" /\ Path!PathsNext
          /\ UNCHANGED <<registered, has, lost, discoverOnly, chainOnly, authorizeOnly, registryOnly>>
       \/ /\ part = "discover" /\ Discovery!DiscoverNext
          /\ UNCHANGED <<kind, ids, pathOnly, chainOnly, authorizeOnly, registryOnly>>
       \/ /\ part = "authorize" /\ Authorization!AuthorizeNext
          /\ UNCHANGED <<call, kind, registered, pathOnly, discoverOnly, chainOnly, registryOnly>>
       \/ /\ part = "registry" /\ Authorization!RegistryAuthorizeNext
          /\ UNCHANGED <<ids, has, lost, pathOnly, discoverOnly, chainOnly, authorizeOnly>>

\* A call through a chain ends; the sequences of calls end at their bounds.
Done == (part = "chain" => result \in {"ok", "failed"}) /\ UNCHANGED allVars

MCSpec == MCInit /\ [][MCNext \/ Done]_allVars

-----------------------------------------------------------------------------
\* A call reaches every element of a chain once and in order, and each finds in its
\* context what elements before it are to put there (module Next).
CallsTakeTheChain == part = "chain" => EachOnceInOrder /\ ContextIsComplete

\* updatepath, updatetoken, trimpath, grpcmetadata: whatever routes the earlier calls
\* took and wherever they failed, the path of the last good Request has one segment for
\* each process of its route, with the id under which that process knows the connection
\* and a token, until a good Close has ended all of them (module Paths).
PathIsRoute == part = "path" => Path!PathIsRoute

\* updatepath: a process that is where it was on the last route gets no other id for the
\* connection that the client has (module Paths).
IdsAreKept == [][part = "path" => Path!IdsAreKeptStep]_allVars

\* discoverforwarder: a connection moves to another forwarder only if reselected, or if
\* its own has failed or was not there, even if the manager has restarted; and a Close
\* leaves nothing behind that it could get to (module Discover).
ForwarderIsKept == part = "discover" => Discovery!ForwarderIsKept /\ Discovery!ClosedEverywhere

\* discover, roundrobin: a forwarder gives a Request up only after all candidates but one
\* for each time that a Request of another connection has turned the round robin, and a
\* match that falls through hides no candidate of a later one (module Discover).
AllCandidatesAreTried == part = "discover" => Discovery!AllCandidatesAreTried /\ Discovery!FallthroughFinds

\* authorize: between calls the rest of the chain has what the client has marked, and the
\* client may watch just that: also when its calls overlap, as long as one of its
\* connections stays, and after a failed Request from the next refresh on.  registry
\* authorize: while a name is registered no other id gets it, and the client knows the
\* names that are, unless calls of two peers crossed in the server, one failed or an
\* endpoint expired after the last call that got through uncrossed (module Authorize).
AuthorizationFits ==
    /\ part = "authorize" => Authorization!RefusedIsClosed /\ Authorization!WatchesItsOwn
    /\ part = "registry" => Authorization!OwnerKeepsName /\ Authorization!ClientKnowsNames
=============================================================================
