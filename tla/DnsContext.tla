----------------------------- MODULE DnsContext -----------------------------
(***************************************************************************)
(* Elements that keep DNS up to date with connections: the server and the  *)
(* client of vl3dns, with the records and the configs that the DNS server  *)
(* of a vl3 endpoint uses (module Dns), the server and the client of       *)
(* dnscontext, and the resolv.conf that the latter rewrites when it        *)
(* starts, which may be after a crash.                                     *)
(***************************************************************************)
EXTENDS Integers, Sequences, FiniteSets, SequencesExt, FiniteSetsExt

CONSTANTS
    Conn,        \* connections
    NamesOf,     \* the DNS names that the templates give a connection, per request
    OwnIPs,      \* addresses that the DNS server of the endpoint gets, one after another
    OwnIP,       \* the one that the client of vl3dns has been given
    PeerIP,      \* addresses of others within the prefix of the vl3 network
    OtherIP,     \* and outside of it
    Originals,   \* contents of resolv.conf before the first start
    DefaultIP,   \* defaultNameServerIP
    None,
    MaxCalls,    \* bound: calls
    MaxCrashes   \* bound: crashes

VARIABLES
    serverIP,    \* vl3dns: dnsServerIP, or None
    ownIPs,      \* addresses it has had (history)
    records,     \* vl3dns: the connection whose addresses a name has, by name
    dnsConfigs,  \* configs by connection
    metadata,    \* names of each connection in its metadata, or None
    context,     \* DNS configs in each connection of the client
    names,       \* names of the request that runs, or None if none does
    asked,       \* clientsConfigs and dnsServerIPStr of that request, or None
    open,        \* connections whose last Request has succeeded with addresses, and not closed since
    lost,        \* connections that have lost the names of their metadata
    calls,
    original, file, \* resolv.conf, before the first start and now
    step,        \* where the start of dnscontext is: "restore", "open", "store", "append", "write" or "done"
    writing,     \* os.WriteFile has truncated the file: what is to be written and the step after it, or None
    torn,        \* the process has died while the file was truncated (history)
    conf,        \* dnscontext: resolvconfDNSConfig
    properties,  \* what it has read
    crashes

vl3Vars == <<serverIP, ownIPs, records, dnsConfigs, metadata, context, names, asked, open, lost, calls>>
resolvVars == <<original, file, step, writing, torn, conf, properties, crashes>>

Config == UNION {kSubset(k, PeerIP \cup OtherIP \cup OwnIPs) : k \in 1 .. 2}   \* DnsServerIps of a config

DnsContextInit ==
    /\ serverIP = None /\ ownIPs = {} /\ records = <<>> /\ calls = 0
    /\ dnsConfigs = [c \in Conn |-> None]
    /\ metadata = [c \in Conn |-> None]
    /\ context \in [Conn -> {{}, {{OwnIP}}} \cup {{{OwnIP, p}, {o}} : p \in PeerIP, o \in OtherIP}]
    /\ \A c \in Conn : NamesOf[c] = {} => context[c] = {}
    /\ names = [c \in Conn |-> None] /\ asked = [c \in Conn |-> None]
    /\ open = {} /\ lost = {}
    /\ original \in Originals /\ file = original
    /\ step = "restore" /\ writing = None /\ torn = FALSE
    /\ conf = None /\ properties = <<>> /\ crashes = 0

-----------------------------------------------------------------------------
(* vl3dns, server.  begin runs one call of a connection at a time.         *)

\* The goroutine of NewServer: the first address, or another one later.
ServerIPArrives ==
    /\ \E ip \in OwnIPs : serverIP' = ip /\ ownIPs' = ownIPs \cup {ip}
    /\ UNCHANGED <<records, dnsConfigs, metadata, context, names, asked, open, lost, calls>>

Without(ns) == [n \in DOMAIN records \ ns |-> records[n]]

\* addDNSContext: a config that is there already is not added again.
addDNSContext(configs) == configs \cup {{serverIP}}

\* Request, up to the call of the next element.  Without an address of the DNS server
\* it fails, unless the endpoint itself asks, in order to get that address.
Request(c, ns) ==
    /\ calls < MaxCalls /\ calls' = calls + 1 /\ names[c] = None
    /\ records' = IF metadata[c] # None /\ metadata[c] # ns THEN Without(metadata[c]) ELSE records
    /\ lost' = IF metadata[c] = ns THEN lost \cup {c} ELSE lost
    /\ metadata' = [metadata EXCEPT ![c] = None]
    /\ \/ /\ serverIP # None
          /\ context' = [context EXCEPT ![c] = addDNSContext(@)]
          /\ asked' = [asked EXCEPT ![c] = [ip |-> serverIP, configs |-> context[c]]]
          /\ names' = [names EXCEPT ![c] = ns]
          /\ UNCHANGED open
       \/ /\ serverIP = None /\ context[c] = {}
          /\ asked' = [asked EXCEPT ![c] = [ip |-> None, configs |-> {}]]
          /\ names' = [names EXCEPT ![c] = ns]
          /\ UNCHANGED <<context, open>>
       \/ /\ serverIP = None
          /\ open' = open \ {c}
          /\ UNCHANGED <<context, names, asked>>
    /\ UNCHANGED <<serverIP, ownIPs, dnsConfigs>>

\* Configs that the client brought which name a server within the prefix other than this
\* one, each with all the servers that it names.
vl3Configs(c) == {k \in asked[c].configs : \E ip \in k : ip # asked[c].ip /\ ip \in PeerIP \cup OwnIPs}

\* The next element answers, with addresses and with routes or without, or fails.
RequestReturns(c, addresses) ==
    /\ names[c] # None
    /\ IF addresses
       THEN /\ records' = [n \in DOMAIN records \cup names[c] |-> IF n \in names[c] THEN c ELSE records[n]]
            /\ metadata' = [metadata EXCEPT ![c] = names[c]]
            /\ open' = open \cup {c}
            /\ lost' = IF lost \cap {c} # {} /\ \A n \in DOMAIN records : records[n] = c => n \in names[c] THEN lost \ {c} ELSE lost
       ELSE /\ open' = open \ {c}
            /\ UNCHANGED <<records, metadata, lost>>
    /\ \E configs \in {{}, vl3Configs(c)} : dnsConfigs' = [dnsConfigs EXCEPT ![c] = configs]
    /\ names' = [names EXCEPT ![c] = None] /\ asked' = [asked EXCEPT ![c] = None]
    /\ UNCHANGED <<serverIP, ownIPs, context, calls>>

RequestFails(c) ==
    /\ names[c] # None
    /\ names' = [names EXCEPT ![c] = None] /\ asked' = [asked EXCEPT ![c] = None]
    /\ open' = open \ {c}
    /\ UNCHANGED <<serverIP, ownIPs, records, dnsConfigs, metadata, context, lost, calls>>

\* A bug: the records of the connection stay.
Close_Keeps(c) ==
    /\ calls < MaxCalls /\ calls' = calls + 1 /\ names[c] = None
    /\ dnsConfigs' = [dnsConfigs EXCEPT ![c] = None]
    /\ metadata' = [metadata EXCEPT ![c] = None]
    /\ open' = open \ {c}
    /\ UNCHANGED <<serverIP, ownIPs, records, context, names, asked, lost>>

Close(c) ==
    /\ calls < MaxCalls /\ calls' = calls + 1 /\ names[c] = None
    /\ dnsConfigs' = [dnsConfigs EXCEPT ![c] = None]
    /\ records' = IF metadata[c] # None THEN Without(metadata[c]) ELSE records
    /\ metadata' = [metadata EXCEPT ![c] = None]
    /\ open' = open \ {c}
    /\ UNCHANGED <<serverIP, ownIPs, context, names, asked, lost>>

-----------------------------------------------------------------------------
(* vl3dns, client: the same map of configs, for connections to other       *)
(* endpoints, which offers the address of the own server.                  *)

\* Every config with the own address is left out.
clientConfigs(configs) == {k \in configs : OwnIP \notin k}

ClientRequest(c) ==
    /\ calls < MaxCalls /\ calls' = calls + 1 /\ names[c] = None
    /\ \E answer \in Config : dnsConfigs' = [dnsConfigs EXCEPT ![c] = clientConfigs({{OwnIP}, answer})]
    /\ open' = open \cup {c}
    /\ UNCHANGED <<serverIP, ownIPs, records, metadata, context, names, asked, lost>>

VL3Next ==
    \/ ServerIPArrives
    \/ \E c \in Conn :
          \/ \E ns \in NamesOf[c] : Request(c, ns)
          \/ NamesOf[c] = {} /\ ClientRequest(c)
          \/ \E addresses \in BOOLEAN : RequestReturns(c, addresses)
          \/ RequestFails(c) \/ Close(c)

\* The names of an open connection lead to it, and a record that is not of an open
\* connection has been left by a Request that lost its names: the metadata forgets
\* them before the next element is called.
RecordsFollowConnections ==
    /\ \A c \in open : metadata[c] # None => \A n \in metadata[c] : n \in DOMAIN records /\ records[n] = c
    /\ \A n \in DOMAIN records :
          LET c == records[n] IN (metadata[c] # None /\ n \in metadata[c]) \/ c \in lost

\* What a client or an answer brought never makes the DNS server ask just itself, unless
\* its address has changed; and what an answer brought never makes it ask itself at all.
NeverAsksItself ==
    \A c \in Conn : dnsConfigs[c] # None =>
        \A k \in dnsConfigs[c] :
            IF NamesOf[c] = {} THEN OwnIP \notin k
            ELSE k \subseteq ownIPs => \E x, y \in ownIPs : x # y

-----------------------------------------------------------------------------
(* dnscontext, client: resolv.conf.  A line is a property with its value,  *)
(* or other text, behind a number of comment signs.                        *)

Line(hashes, property, value) == [hashes |-> hashes, property |-> property, value |-> value]

\* ClientConfigFromReader: has the text a name server?
HasServers(lines) == \E i \in DOMAIN lines : lines[i].hashes = 0 /\ lines[i].property = "nameserver"

\* The k-th smallest of a finite set of numbers.
Nth(numbers, k) == CHOOSE x \in numbers : Cardinality({y \in numbers : y <= x}) = k

Uncommented(lines) ==
    LET commented == {i \in DOMAIN lines : lines[i].hashes > 0}
    IN  [k \in 1 .. Cardinality(commented) |-> [lines[Nth(commented, k)] EXCEPT !.hashes = @ - 1]]

\* os.WriteFile truncates the file and then writes it.
WriteFile(lines, then) ==
    /\ file' = <<>>
    /\ writing' = [lines |-> lines, then |-> then] /\ step' = "write"

Write ==
    /\ step = "write"
    /\ file' = writing.lines /\ step' = writing.then /\ writing' = None
    /\ UNCHANGED <<original, torn, conf, properties, crashes>>

\* The commented part is what was there before, if it names a server.
restoreResolvConf ==
    /\ step = "restore"
    /\ IF HasServers(Uncommented(file)) THEN WriteFile(Uncommented(file), "open")
                                         ELSE step' = "open" /\ UNCHANGED <<file, writing>>
    /\ UNCHANGED <<original, torn, conf, properties, crashes>>

\* Of several lines with the same property the last one counts.
readProperties(lines) ==
    LET active == {i \in DOMAIN lines : lines[i].hashes = 0 /\ lines[i].property # "text"}
    IN  [p \in {lines[i].property : i \in active} |-> lines[Max({i \in active : lines[i].property = p})].value]

\* resolvconfDNSConfig of what was read, or none if this client has written it.
dnsConfig(p) ==
    LET value(k) == IF k \in DOMAIN p THEN p[k] ELSE None
    IN  IF value("nameserver") = DefaultIP THEN None ELSE [servers |-> value("nameserver"), domains |-> value("search")]

openResolveConfig ==
    /\ step = "open" /\ step' = "store"
    /\ properties' = readProperties(file)
    /\ UNCHANGED <<original, file, writing, torn, conf, crashes>>

\* Every line becomes a comment.
storeOriginalResolvConf ==
    /\ step = "store"
    /\ WriteFile([i \in DOMAIN file |-> [file[i] EXCEPT !.hashes = @ + 1]], "append")
    /\ UNCHANGED <<original, torn, conf, properties, crashes>>

\* The own name server is added, and the other properties that were there but search.
appendResolvConf ==
    /\ step = "append"
    /\ conf' = dnsConfig(properties)
    /\ LET others == DOMAIN properties \ {"nameserver", "search"}
       IN  WriteFile(file \o <<Line(0, "nameserver", DefaultIP)>> \o SetToSeq({Line(0, p, properties[p]) : p \in others}), "done")
    /\ UNCHANGED <<original, torn, properties, crashes>>

\* dnscontext, server: its configs are added to those of the connection, each once.
dnsContextServer(configs) == configs \cup {[servers |-> OwnIP, domains |-> None]}

\* The configs of the answer and the one of resolv.conf, which may be nil.
dnsContextClient_Request(c) ==
    /\ step = "done" /\ calls < MaxCalls /\ calls' = calls + 1
    /\ dnsConfigs' = [dnsConfigs EXCEPT ![c] = dnsContextServer({}) \cup {conf}]
    /\ UNCHANGED resolvVars

dnsContextClient_Close(c) ==
    /\ step = "done" /\ dnsConfigs[c] # None
    /\ dnsConfigs' = [dnsConfigs EXCEPT ![c] = None]
    /\ UNCHANGED <<calls, resolvVars>>

\* The process dies, between two accesses of the file, in the middle of a write or later,
\* and starts again.
Crash ==
    /\ crashes < MaxCrashes /\ crashes' = crashes + 1
    /\ torn' = (torn \/ step = "write")
    /\ step' = "restore" /\ writing' = None /\ conf' = None /\ properties' = <<>>
    /\ dnsConfigs' = [c \in Conn |-> None]
    /\ UNCHANGED <<calls, original, file>>

ResolvNext ==
    \/ /\ restoreResolvConf \/ openResolveConfig \/ storeOriginalResolvConf \/ appendResolvConf \/ Write
       /\ UNCHANGED <<dnsConfigs, calls>>
    \/ \E c \in Conn : dnsContextClient_Request(c) \/ dnsContextClient_Close(c)
    \/ Crash

\* Whenever the process dies, but for the middle of a write, which loses the text for
\* good, the next start finds the resolv.conf of before the first one again, and takes its
\* name server, not its own, for every connection.
OriginalSurvives ==
    HasServers(original) /\ ~ torn =>
        /\ LET text == IF step = "write" THEN writing.lines ELSE file
           IN  text = original \/ Uncommented(text) = original
        /\ step = "done" => conf = dnsConfig(readProperties(original))
        /\ \A c \in Conn : dnsConfigs[c] # None => dnsConfig(readProperties(original)) \in dnsConfigs[c]
=============================================================================
