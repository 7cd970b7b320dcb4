-------------------------------- MODULE Next --------------------------------
(***************************************************************************)
(* How a call travels through a chain of elements: packages core/next,     *)
(* core/adapters and the element connect, in their three flavours (network *)
(* services, registration of network services, registration of endpoints). *)
(*                                                                         *)
(* An element is handed a context, does its work, and calls the element    *)
(* that the context says is next.  The next server and the next client     *)
(* live under different keys of the same context, and a chain may be an    *)
(* element of another chain, so "next" is a linked structure that every    *)
(* level of nesting extends.  One call is followed at a time; the order of *)
(* concurrent calls is the business of package begin.                      *)
(*                                                                         *)
(* The chains that the repository assembles are values: the client and the *)
(* endpoint of network services, the manager and its interdomain proxy,    *)
(* the registry clients, the memory registry and the DNS proxy registry.   *)
(* Their elements are reduced to what they expect of the context and what  *)
(* they put into it.                                                       *)
(***************************************************************************)
EXTENDS Integers, Sequences, SequencesExt

CONSTANT Calls            \* the calls that may be made: [root, api, op]

VARIABLES call,           \* the outermost call: [root, api, op]
          op,             \* the operation that is under way
          callee,         \* the element about to be called
          ctx,            \* its context: next server, next client, facts
          stack,          \* the calls of connect elements that wait
          visited,        \* the elements called so far, <<name, op>>
          missing,        \* facts that an element did not find in its context
          result          \* "calling", "returning", "failing", "ok" or "failed"

vars == <<call, op, callee, ctx, stack, visited, missing, result>>

-----------------------------------------------------------------------------
(* What a chain is made of *)

Sides == {"server", "client"}

\* What the context is made of where nobody has called anything yet: Server
\* and Client return the tail then.
ChainEnd(side) == [type |-> "tail", side |-> side]

\* An element that looks at the facts `uses`, adds `gives` to the context and
\* calls the next element of its side; one that ends the chain does not.
Element(side, name, uses, gives) ==
  [type |-> "element", side |-> side, name |-> name, uses |-> uses, gives |-> gives, last |-> FALSE]

Terminal(e) == [e EXCEPT !.last = TRUE]

Chain(side, elements) ==
  [type |-> "next", side |-> side, elements |-> elements, index |-> 1, parent |-> ChainEnd(side)]

ClientToServer(client) == [type |-> "adapter", side |-> "server", inner |-> client]

ServerToClient(server) == [type |-> "adapter", side |-> "client", inner |-> server]

Connect(client) == [type |-> "connect", side |-> "server", client |-> client]

\* default: the condition of the last case always holds.
SwitchCase(side, cases, default) == [type |-> "switch", side |-> side, cases |-> cases, default |-> default]

-----------------------------------------------------------------------------
(* Elements *)

\* begin.FromContext, which panics outside of begin.
UsesBegin == {"timeout", "refresh", "heal", "netsvcmonitor", "expire"}

\* metadata.Map, which panics outside of metadata.
ServiceUsesMetadata ==
  {"timeout", "monitor", "discoverforwarder", "netsvcmonitor", "metrics",
   "refresh", "clientconn", "clientconn(cc)", "heal", "dial", "authorize client", "trimpath", "trimpath client", "connect"}

RegistryUsesMetadata == {"setregistrationtime"}

\* clienturl puts its URL into the context; the client of network services
\* only when it has been given one.
clientURLClient(name) == IF name = "clienturl(nil)" THEN {} ELSE {"url"}
clientURLNSClient == {"url"}
clientURLNSEClient == {"url"}
clientURLNSEServer == {"url"}

\* clientconn makes room for the connection that dial will store.  The one of
\* network services keeps it in the metadata, and may bring its own.
clientConnClient(name) == IF name = "clientconn(cc)" THEN {"cc", "conn"} ELSE {}
clientConnNSClient == {"container"}
clientConnNSEClient == {"container"}

\* connect cannot do without the connection.
connectClient == {"conn", "metadata"}
connectNSClient == {"conn"}
connectNSEClient == {"conn"}

\* null only calls the next element.
nullClient == {}

If(p, s) == IF p THEN s ELSE {}

ServiceElement(side, name) ==
  Element(side, name,
          If(name \in UsesBegin, {"begin"}) \union If(name \in ServiceUsesMetadata, {"metadata"})
            \union If(name = "connect", connectClient) \union If(name = "null", nullClient),
          If(name \in {"begin", "metadata"}, {name}) \union If(name \in {"discover", "discoverforwarder"}, {"url"})
            \union If(name \in {"clienturl", "clienturl(nil)"}, clientURLClient(name))
            \union If(name \in {"clientconn", "clientconn(cc)"}, clientConnClient(name))
            \union If(name = "dial", {"conn"}))

RegistryElement(api, side, name) ==
  Element(side, name,
          If(name \in UsesBegin, {"begin"}) \union If(name \in RegistryUsesMetadata, {"metadata"})
            \union If(name = "dial", {"container"})
            \union If(name = "connect", IF api = "ns" THEN connectNSClient ELSE connectNSEClient),
          If(name \in {"begin", "metadata"}, {name}) \union If(name = "dnsresolve", {"url"})
            \union If(name = "clienturl", CASE api = "ns"        -> clientURLNSClient
                                             [] side = "client"   -> clientURLNSEClient
                                             [] OTHER             -> clientURLNSEServer)
            \union If(name = "clientconn", IF api = "ns" THEN clientConnNSClient ELSE clientConnNSEClient)
            \union If(name = "dial", {"conn"}))

EndLast(es) == [i \in DOMAIN es |-> IF i = Len(es) THEN Terminal(es[i]) ELSE es[i]]

ServiceServers(names) == [i \in DOMAIN names |-> ServiceElement("server", names[i])]
ServiceClients(names) == [i \in DOMAIN names |-> ServiceElement("client", names[i])]
NSServers(names) == [i \in DOMAIN names |-> RegistryElement("ns", "server", names[i])]
NSClients(names) == [i \in DOMAIN names |-> RegistryElement("ns", "client", names[i])]
NSEServers(names) == [i \in DOMAIN names |-> RegistryElement("nse", "server", names[i])]
NSEClients(names) == [i \in DOMAIN names |-> RegistryElement("nse", "client", names[i])]

\* chain.New...: next of the elements, each wrapped in a trace that changes
\* nothing of the call.
NewNetworkServiceServer(es) == Chain("server", es)
NewNetworkServiceClient(es) == Chain("client", es)
NewNetworkServiceRegistryServer(es) == Chain("server", es)
NewNetworkServiceRegistryClient(es) == Chain("client", es)
NewNetworkServiceEndpointRegistryServer(es) == Chain("server", es)
NewNetworkServiceEndpointRegistryClient(es) == Chain("client", es)

-----------------------------------------------------------------------------
(* chains/client and chains/endpoint *)

\* The options of a client: the names of the elements that stand for the
\* refresh, the heal and the authorization, where it connects to, and the
\* additional functionality.
DefaultClient ==
  [refresh |-> "refresh", heal |-> "null", authorize |-> "null",
   url |-> "clienturl(nil)", cc |-> "clientconn", additional |-> <<>>]

NewClient(o) ==
  NewNetworkServiceClient(EndLast(
    ServiceClients(<<"updatepath", "begin", "metadata", o.refresh, o.url, o.cc, o.heal, "dial">>)
      \o ServiceClients(o.additional) \o ServiceClients(<<o.authorize, "trimpath client", "connect">>)))

NewEndpoint(additional) ==
  NewNetworkServiceServer(
    ServiceServers(<<"updatepath", "begin", "updatetoken", "authorize", "metadata", "timeout", "monitor", "trimpath">>)
      \o additional)

-----------------------------------------------------------------------------
(* chains/nsmgr *)

\* Of the options of the manager only WithRegistry changes the chains.
Remote == BOOLEAN

NsmgrNSRegistry(remote) ==
  NewNetworkServiceRegistryServer(
    NSServers(<<"grpcmetadata", "updatepath", "authorize">>)
      \o (IF remote
          THEN <<Connect(NewNetworkServiceRegistryClient(EndLast(NSClients(
                   <<"clienturl", "begin", "clientconn", "authorize client", "grpcmetadata client", "dial", "connect">>))))>>
          ELSE NSServers(<<"memory">>)))

RemoteOrLocalRegistry(remote) ==
  NewNetworkServiceEndpointRegistryServer(
    IF remote
    THEN NSEServers(<<"localbypass">>)
           \o <<Connect(NewNetworkServiceEndpointRegistryClient(EndLast(NSEClients(
                  <<"begin", "clienturl", "clientconn", "authorize client", "grpcmetadata client", "dial", "connect">>))))>>
    ELSE NSEServers(<<"memory", "localbypass">>))

NsmgrNSERegistry(remote) ==
  NewNetworkServiceEndpointRegistryServer(
    NSEServers(<<"grpcmetadata", "updatepath", "authorize", "begin", "clientinfo", "expire", "recvfd", "sendfd">>)
      \o <<RemoteOrLocalRegistry(remote)>>)

NsmgrEndpoint ==
  NewEndpoint(
    <<ClientToServer(ServiceElement("client", "clientinfo"))>>
      \o ServiceServers(<<"discoverforwarder", "netsvcmonitor", "excludedprefixes", "recvfd", "metrics">>)
      \o <<Connect(NewClient([DefaultClient EXCEPT !.refresh = "null", !.additional = <<"recvfd client", "sendfd client">>]))>>
      \o ServiceServers(<<"sendfd">>))

\* discoverforwarder and netsvcmonitor ask the registries as clients.
NsmgrNSClient(remote) == ServerToClient(NsmgrNSRegistry(remote))
NsmgrNSEClient(remote) == ServerToClient(RemoteOrLocalRegistry(remote))

-----------------------------------------------------------------------------
(* chains/nsmgrproxy *)

ProxyNSEClient == NewNetworkServiceEndpointRegistryClient(EndLast(NSEClients(<<"begin", "clienturl", "clientconn", "dial", "connect">>)))

ProxyNSClient == NewNetworkServiceRegistryClient(EndLast(NSClients(<<"begin", "clienturl", "clientconn", "dial", "connect">>)))

ProxyEndpoint ==
  NewEndpoint(
    ServiceServers(<<"interdomainbypass", "discover", "swapip", "clusterinfo">>)
      \o <<Connect(NewClient([DefaultClient EXCEPT !.refresh = "null", !.additional = <<"swapip client">>]))>>)

ProxyNSServer ==
  NewNetworkServiceRegistryServer(
    NSServers(<<"grpcmetadata", "updatepath", "authorize">>)
      \o <<Connect(NewNetworkServiceRegistryClient(EndLast(NSClients(
             <<"begin", "clienturl", "clientconn", "authorize client", "grpcmetadata client", "dial", "connect">>))))>>)

ProxyNSEServer ==
  NewNetworkServiceEndpointRegistryServer(
    NSEServers(<<"grpcmetadata", "updatepath", "authorize", "begin", "clienturl", "interdomainbypass",
                 "swapip", "clusterinfo">>)
      \o <<Connect(NewNetworkServiceEndpointRegistryClient(EndLast(NSEClients(
             <<"clientconn", "authorize client", "grpcmetadata client", "dial", "connect">>))))>>)

-----------------------------------------------------------------------------
(* registry/chains *)

\* The options of a registry client that change its chains: who finds the URL of
\* the registry, and the additional functionality.
Resolvers == {"clienturl", "dnsresolve"}

RegistryNSClient(resolver, additional) ==
  NewNetworkServiceRegistryClient(EndLast(
    NSClients(<<"begin", "metadata", "retry", "authorize client", "heal", resolver, "clientconn",
                "grpcmetadata client", "dial">>)
      \o NSClients(additional) \o NSClients(<<"connect">>)))

RegistryNSEClient(resolver, additional) ==
  NewNetworkServiceEndpointRegistryClient(EndLast(
    NSEClients(<<"begin", "metadata", "retry", "heal", "refresh", "authorize client", resolver, "clientconn",
                 "grpcmetadata client", "dial">>)
      \o NSEClients(additional) \o NSEClients(<<"connect">>)))

\* The registry in memory hands interdomain names to the proxy registry, which
\* its options are taken to name.
MemoryNSE ==
  NewNetworkServiceEndpointRegistryServer(
    NSEServers(<<"grpcmetadata", "updatepath", "authorize", "begin", "metadata">>)
      \o <<SwitchCase("server", <<
             NewNetworkServiceEndpointRegistryServer(<<Connect(NewNetworkServiceEndpointRegistryClient(EndLast(NSEClients(
               <<"begin", "clienturl", "clientconn", "authorize client", "grpcmetadata client", "dial", "connect">>))))>>),
             NewNetworkServiceEndpointRegistryServer(NSEServers(<<"setregistrationtime", "expire", "memory">>))>>, TRUE)>>)

MemoryNS ==
  NewNetworkServiceRegistryServer(
    NSServers(<<"grpcmetadata", "updatepath", "authorize", "metadata", "setpayload">>)
      \o <<SwitchCase("server", <<
             Connect(NewNetworkServiceRegistryClient(EndLast(NSClients(
               <<"clienturl", "begin", "clientconn", "authorize client", "grpcmetadata client", "dial", "connect">>)))),
             RegistryElement("ns", "server", "memory")>>, TRUE)>>)

ProxyDNSNSE ==
  NewNetworkServiceEndpointRegistryServer(
    NSEServers(<<"grpcmetadata", "updatepath", "authorize", "begin", "dnsresolve">>)
      \o <<Connect(NewNetworkServiceEndpointRegistryClient(EndLast(NSEClients(
             <<"clientconn", "authorize client", "grpcmetadata client", "dial", "connect">>))))>>)

ProxyDNSNS ==
  NewNetworkServiceRegistryServer(
    NSServers(<<"grpcmetadata", "updatepath", "begin", "authorize", "dnsresolve">>)
      \o <<Connect(NewNetworkServiceRegistryClient(EndLast(NSClients(
             <<"clientconn", "authorize client", "grpcmetadata client", "dial", "connect">>))))>>)

-----------------------------------------------------------------------------
(* Monitor servers and DNS handlers *)

\* What guards the monitor server of an endpoint.
NewMonitorConnectionServer ==
  Chain("server", <<Element("server", "authorize monitor", {}, {}), Terminal(Element("server", "monitor", {}, {}))>>)

\* dnsconfigs puts the addresses of DNS servers and the search domains into the
\* context, searches and fanout take them from there.
DNSElement(name) ==
  Element("server", name, If(name \in {"searches", "fanout"}, {"dns"}), If(name = "dnsconfigs", {"dns"}))

NewDNSHandler(names) == Chain("server", [i \in DOMAIN names |-> DNSElement(names[i])])

\* The handler of vl3dns.
VL3DNSHandler == NewDNSHandler(<<"dnsconfigs", "noloop", "norecursion", "memory", "fanout">>)

-----------------------------------------------------------------------------
(* Contexts *)

Background == [server |-> ChainEnd("server"), client |-> ChainEnd("client"), facts |-> {}]

Other(side) == IF side = "server" THEN "client" ELSE "server"

-----------------------------------------------------------------------------
(* core/next *)

\* getServerAndContext that forgets the elements behind a nested chain.
getServerAndContext_NoParent(n, c) ==
  IF n.elements = <<>>
  THEN [element |-> ChainEnd(n.side), ctx |-> c]
  ELSE [element |-> n.elements[n.index],
        ctx |-> [c EXCEPT ![n.side] = IF n.index < Len(n.elements)
                                      THEN [n EXCEPT !.index = @ + 1]
                                      ELSE n.parent]]

\* The element that the chain n calls, and the context it is given: the rest
\* of the chain, or what comes after the chain when the element is the last.
getServerAndContext(n, c) ==
  LET parent == IF n.index = 1 THEN c[n.side] ELSE n.parent
  IN  IF n.elements = <<>>
      THEN [element |-> parent, ctx |-> c]
      ELSE [element |-> n.elements[n.index],
            ctx |-> [c EXCEPT ![n.side] = IF n.index < Len(n.elements)
                                          THEN [n EXCEPT !.index = @ + 1, !.parent = parent]
                                          ELSE parent]]

Enter(e, c) == callee' = e /\ ctx' = c

CallChain(api, side) ==
  /\ result = "calling"
  /\ call.api = api
  /\ callee.type = "next"
  /\ callee.side = side
  /\ LET r == getServerAndContext(callee, ctx) IN Enter(r.element, r.ctx)
  /\ UNCHANGED <<call, op, stack, visited, missing, result>>

nextServer == CallChain("networkservice", "server")
nextClient == CallChain("networkservice", "client")
nextNetworkServiceRegistryServer == CallChain("ns", "server")
nextNetworkServiceRegistryClient == CallChain("ns", "client")
nextNetworkServiceEndpointRegistryServer == CallChain("nse", "server")
nextNetworkServiceEndpointRegistryClient == CallChain("nse", "client")
nextMonitorConnectionServer == CallChain("monitor", "server")
nextDNSHandler == CallChain("dns", "server")

\* The end of a chain returns the connection or the registration it was given.
CallTail(api, sides) ==
  /\ result = "calling"
  /\ call.api = api
  /\ callee.type = "tail"
  /\ callee.side \in sides
  /\ result' = "returning"
  /\ UNCHANGED <<call, op, callee, ctx, stack, visited, missing>>

tailServer == CallTail("networkservice", {"server"})
tailClient == CallTail("networkservice", {"client"})
tailNetworkServiceRegistry == CallTail("ns", Sides)
tailNetworkServiceEndpointRegistry == CallTail("nse", Sides)
tailMonitorConnectionsServer == CallTail("monitor", {"server"})
tailDNSHandler == CallTail("dns", {"server"})

-----------------------------------------------------------------------------
(* core/adapters *)

\* A client (server) among servers (clients) is called as a chain of its own
\* side, whose last element is the next one of the other side.
CallAdapter(api, side) ==
  /\ result = "calling"
  /\ call.api = api
  /\ callee.type = "adapter"
  /\ callee.side = side
  /\ Enter(Chain(Other(side), <<callee.inner, [type |-> "callNext", side |-> Other(side), target |-> ctx[side]]>>), ctx)
  /\ UNCHANGED <<call, op, stack, visited, missing, result>>

clientToServer == CallAdapter("networkservice", "server")
serverToClient == CallAdapter("networkservice", "client")
networkServiceRegistryServer == CallAdapter("ns", "server")
networkServiceRegistryClient == CallAdapter("ns", "client")
networkServiceEndpointRegistryServer == CallAdapter("nse", "server")
networkServiceEndpointRegistryClient == CallAdapter("nse", "client")

CallNext(api, side) ==
  /\ result = "calling"
  /\ call.api = api
  /\ callee.type = "callNext"
  /\ callee.side = side
  /\ Enter(callee.target, ctx)
  /\ UNCHANGED <<call, op, stack, visited, missing, result>>

callNextServer == CallNext("networkservice", "client")
callNextClient == CallNext("networkservice", "server")
callNextNSServer == CallNext("ns", "client")
callNextNSClient == CallNext("ns", "server")
callNextNSEServer == CallNext("nse", "client")
callNextNSEClient == CallNext("nse", "server")

-----------------------------------------------------------------------------
(* Elements at work *)

\* The facts that an element looks for in vain.  Registration elements keep
\* nothing for a Find, which only needs the connection to the registry.
Lacks(e) == (IF op = "find" THEN e.uses \intersect {"conn"} ELSE e.uses) \ ctx.facts

\* begin, metadata, clienturl and clientconn put something into the context;
\* dial turns a URL into a connection.  Find does not enter an event factory,
\* and finds the metadata only of what is registered already.
Gives(e) ==
  LET given == IF op = "find" THEN e.gives \ {"begin", "metadata"} ELSE e.gives
  IN  IF "conn" \in given /\ "url" \notin ctx.facts /\ "cc" \notin given THEN given \ {"conn"} ELSE given

CallElement ==
  /\ result = "calling"
  /\ callee.type = "element"
  /\ visited' = Append(visited, <<callee.name, op>>)
  /\ missing' = missing \union Lacks(callee)
  /\ \/ /\ callee.last
        /\ result' = "returning"
        /\ UNCHANGED <<callee, ctx>>
     \/ /\ ~callee.last
        /\ Enter(ctx[callee.side], [ctx EXCEPT !.facts = @ \union Gives(callee)])
        /\ UNCHANGED result
  /\ UNCHANGED <<call, op, stack>>

\* Any element may return an error instead of calling the next one.  (To fail
\* after that is the same to those who called it.)
ElementFails ==
  /\ result = "calling"
  /\ callee.type = "element"
  /\ visited' = Append(visited, <<callee.name, op>>)
  /\ missing' = missing \union Lacks(callee)
  /\ result' = "failing"
  /\ UNCHANGED <<call, op, callee, ctx, stack>>

\* switchcase calls the action of the first condition that holds, or the next
\* element; conditions look at the request, so any of them may be the first.
CallSwitch(api, side) ==
  /\ result = "calling"
  /\ call.api = api
  /\ callee.type = "switch"
  /\ callee.side = side
  /\ \/ \E i \in DOMAIN callee.cases : Enter(callee.cases[i], ctx)
     \/ ~callee.default /\ Enter(ctx[side], ctx)
  /\ UNCHANGED <<call, op, stack, visited, missing, result>>

switchServer == CallSwitch("networkservice", "server")
switchClient == CallSwitch("networkservice", "client")
switchCaseNSServer == CallSwitch("ns", "server")
switchCaseNSClient == CallSwitch("ns", "client")
switchCaseNSEServer == CallSwitch("nse", "server")
switchCaseNSEClient == CallSwitch("nse", "client")

-----------------------------------------------------------------------------
(* connect *)

Undo(o) == IF o = "request" THEN "close" ELSE "unregister"

Makes(o) == o \in {"request", "register"}

Wait(phase) == stack' = <<[phase |-> phase, node |-> callee, ctx |-> ctx, failed |-> FALSE]>> \o stack

\* The client is called first, with the context of the server.
CallConnect(api) ==
  /\ result = "calling"
  /\ call.api = api
  /\ callee.type = "connect"
  /\ Wait("client")
  /\ Enter(callee.client, ctx)
  /\ UNCHANGED <<call, op, visited, missing, result>>

connectServer == CallConnect("networkservice")
connectNSServer == CallConnect("ns")
connectNSEServer == CallConnect("nse")

Pending(phase, api) ==
  /\ result \in {"returning", "failing"}
  /\ call.api = api
  /\ stack # <<>>
  /\ Head(stack).phase = phase

\* The side whose next element connect calls after its client: the servers,
\* except that the registries go on to the clients in Unregister.
NextSide(api) == IF api # "networkservice" /\ op = "unregister" THEN "client" ELSE "server"

\* The client has returned.  A failed Request, Register or Find returns; Close
\* and Unregister go on and keep the error for later.
ClientReturns(api) ==
  LET frame == Head(stack)
  IN  /\ Pending("client", api)
      /\ \/ /\ result = "failing"
            /\ op \notin {"close", "unregister"}
            /\ stack' = Tail(stack)
            /\ UNCHANGED <<callee, ctx, result>>
         \/ /\ result = "returning" \/ op \in {"close", "unregister"}
            /\ stack' = <<[frame EXCEPT !.phase = "server", !.failed = result = "failing"]>> \o Tail(stack)
            /\ Enter(frame.ctx[NextSide(api)], frame.ctx)
            /\ result' = "calling"
      /\ UNCHANGED <<call, op, visited, missing>>

\* The next server has returned.  When it failed, a Request or Register that
\* the client has made is taken back with the values of the first context.
ServerReturns(api) ==
  LET frame == Head(stack)
  IN  /\ Pending("server", api)
      /\ \/ /\ result = "failing"
            /\ Makes(op)
            /\ stack' = <<[frame EXCEPT !.phase = "undo"]>> \o Tail(stack)
            /\ op' = Undo(op)
            /\ Enter(frame.node.client, frame.ctx)
            /\ result' = "calling"
         \/ /\ result = "returning" \/ ~Makes(op)
            /\ stack' = Tail(stack)
            /\ result' = IF frame.failed THEN "failing" ELSE result
            /\ UNCHANGED <<op, callee, ctx>>
      /\ UNCHANGED <<call, visited, missing>>

\* The result of taking back is ignored: the error of the server is returned.
UndoReturns(api) ==
  /\ Pending("undo", api)
  /\ stack' = Tail(stack)
  /\ op' = IF api = "networkservice" THEN "request" ELSE "register"
  /\ result' = "failing"
  /\ UNCHANGED <<call, callee, ctx, visited, missing>>

connectReturns == ClientReturns("networkservice") \/ ServerReturns("networkservice") \/ UndoReturns("networkservice")
connectNSReturns == ClientReturns("ns") \/ ServerReturns("ns") \/ UndoReturns("ns")
connectNSEReturns == ClientReturns("nse") \/ ServerReturns("nse") \/ UndoReturns("nse")

-----------------------------------------------------------------------------

Start(c) ==
  /\ call = c
  /\ op = c.op
  /\ callee = c.root
  /\ ctx = Background
  /\ stack = <<>>
  /\ visited = <<>>
  /\ missing = {}
  /\ result = "calling"

Init == \E c \in Calls : Start(c)

Return ==
  /\ result \in {"returning", "failing"}
  /\ stack = <<>>
  /\ result' = IF result = "returning" THEN "ok" ELSE "failed"
  /\ UNCHANGED <<call, op, callee, ctx, stack, visited, missing>>

NextService ==
  nextServer \/ nextClient \/ tailServer \/ tailClient \/ clientToServer \/ serverToClient
    \/ callNextServer \/ callNextClient \/ connectServer \/ connectReturns
    \/ switchServer \/ switchClient

NextNS ==
  \/ nextNetworkServiceRegistryServer \/ nextNetworkServiceRegistryClient \/ tailNetworkServiceRegistry
  \/ networkServiceRegistryServer \/ networkServiceRegistryClient \/ callNextNSServer \/ callNextNSClient
  \/ connectNSServer \/ connectNSReturns \/ switchCaseNSServer \/ switchCaseNSClient

NextNSE ==
  \/ nextNetworkServiceEndpointRegistryServer \/ nextNetworkServiceEndpointRegistryClient
  \/ tailNetworkServiceEndpointRegistry
  \/ networkServiceEndpointRegistryServer \/ networkServiceEndpointRegistryClient
  \/ callNextNSEServer \/ callNextNSEClient
  \/ connectNSEServer \/ connectNSEReturns \/ switchCaseNSEServer \/ switchCaseNSEClient

NextOther == nextMonitorConnectionServer \/ tailMonitorConnectionsServer \/ nextDNSHandler \/ tailDNSHandler

Next == NextService \/ NextNS \/ NextNSE \/ NextOther \/ CallElement \/ ElementFails \/ Return

-----------------------------------------------------------------------------
(* Properties *)

\* What stands for e in a call: itself, the elements of a chain, the adapted or the
\* connected client in its place, or one of the cases.
Parts(e) ==
  CASE e.type = "element" -> {<<e>>}
    [] e.type = "next"    -> {e.elements}
    [] e.type = "adapter" -> {<<e.inner>>}
    [] e.type = "connect" -> {<<e.client>>}
    [] e.type = "switch"  -> {<<c>> : c \in Range(e.cases)} \union (IF e.default THEN {} ELSE {<<>>})

\* More than any chain of the repository is nested.
MaxDepth == 20

Flat(s) == \A i \in DOMAIN s : s[i].type = "element"

Unfold(s) == IF Flat(s) THEN {s} ELSE FoldLeft(LAMBDA ts, e : {t \o p : t \in ts, p \in Parts(e)}, {<<>>}, s)

\* The sequences of names that a call of e should visit: the elements of its
\* chains from left to right.
Orders(e) ==
  LET unfolded[n \in 0 .. MaxDepth] == IF n = 0 THEN {<<e>>} ELSE UNION {Unfold(s) : s \in unfolded[n - 1]}
  IN  {[i \in DOMAIN s |-> s[i].name] : s \in unfolded[MaxDepth]}

\* The elements of a chain are called once each and in order, however chains,
\* adapters and connect elements are nested, and all of them when no one
\* fails: what "the correct next.Server(ctx)" of core/next/server.go:50 means.
\* (A Close or an Unregister goes on behind a connect whose client failed.)
EachOnceInOrder ==
  LET made == [i \in DOMAIN SelectSeq(visited, LAMBDA v : v[2] = call.op) |->
                 SelectSeq(visited, LAMBDA v : v[2] = call.op)[i][1]]
  IN  \E s \in Orders(call.root) : IF result = "ok" THEN made = s ELSE call.op \in {"close", "unregister"} \/ IsPrefix(made, s)

\* No element of a chain misses what begin.FromContext, metadata.Map or
\* clientconn.Load must find in the context: the first two panic without it,
\* connect has nothing to connect to.
ContextIsComplete == missing = {}
=============================================================================
