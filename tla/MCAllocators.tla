---------------------------- MODULE MCAllocators ----------------------------
(***************************************************************************)
(* The parts that give out addresses, prefixes and numbers, or that keep   *)
(* descriptors and names for connections, one at a time: the initial state *)
(* chooses one, and the variables of the others stay as they are.          *)
(***************************************************************************)
EXTENDS Integers, Sequences, FiniteSets, TLC

CONSTANTS
    Conn, None,
    Networks, Excludes,                                                      \* ipam
    InitialNet, Subnets, NoNet, Foreign, Peer, MaxResets,                    \* vl3
    Whole, InitialSize, Asked, Avoided,                                      \* vl3 ipam
    SrcIP, Number,                                                           \* VNIs and VLANs
    Kinds, File, MaxFd, MaxCalls,                                            \* descriptors
    Client, NamesOf, OwnIPs, OwnIP, PeerIP, OtherIP, DefaultIP, Originals, MaxCrashes \* names

\* Numbers and addresses are positive.  The networks of an ipam are finite and have
\* no address in common, and neither have the prefixes of a vL3 endpoint, the one it
\* starts with among them; the address of another endpoint is in none of them.  The
\* prefixes of InitialSize that vl3IPAMServer is asked for are aligned.
\* None is no file, and neither a descriptor nor a map of them.
ASSUME AllocatorsAssumption ==
    /\ Number \subseteq Nat \ {0}
    /\ Networks \in Seq(SUBSET (Nat \ {0}))
    /\ \A i \in DOMAIN Networks : IsFiniteSet(Networks[i]) /\ Networks[i] # {}
    /\ \A i, j \in DOMAIN Networks : i # j => Networks[i] \cap Networks[j] = {}
    /\ \A net \in Subnets : net \in SUBSET Nat /\ net # {} /\ Foreign \notin net
    /\ \A net, other \in Subnets : net # other => net \cap other = {}
    /\ InitialNet \in Subnets /\ NoNet \notin Subnets
    /\ InitialSize \in Nat \ {0}
    /\ Asked \cup {Whole} \subseteq Nat \X Nat
    /\ \A p \in Asked : p[2] = InitialSize => p[1] % InitialSize = 0
    /\ IsFiniteSet(File) /\ MaxFd \in Nat
    /\ None \notin File
    /\ None \notin [conn : Conn, file : File]
    /\ None \notin [files : [File -> 0 .. MaxFd], names : [1 .. MaxFd -> File \cup {None}]]

VARIABLES
    part,
    tree, size, addrs,
    prefixes, connections, removed, forgotten,
    server, strict, pools, myIPs, info, ipamCall, held, stale, twice,
    renewed, used, self, ipPool, excluded, subnetMap, vl3Call, srcs, subs, round, cancel, done,
    peer, queued, told, resets,
    sized, streamPool, clientsPrefixes,
    element, recovers, keys, meta, freeVLANs, numberCall, number,
    count,
    kind, fds, fileMaps, transfer, heldFile, broken, orphans, strays,
    serverIP, ownIPs, records, dnsConfigs, metadata, context, names, asked, open, nameless,
    original, file, step, writing, torn, conf, properties, crashes

\* Words of two bits; networks of one address and larger ones.
Nets == {[start |-> a, end |-> a] : a \in {0, 2, 4, 6, 8, 10}}
        \cup {[start |-> 0, end |-> 3], [start |-> 4, end |-> 7], [start |-> 8, end |-> 15]}

\* Prefixes of a space of four bits.
Pool == INSTANCE Pools WITH
    Width <- 2, Wanted <- {2, 5, 9},
    Bits <- 4, PairLen <- 2, ExtraLen <- {3}, Holder <- Conn,
    Initial <- {<<0, 1>>, <<8, 2>>}, Unwanted <- {<<4, 2>>, <<8, 1>>, <<3, 4>>}

Ipam == INSTANCE IPAM WITH call <- ipamCall

Vl3 == INSTANCE VL3 WITH Client <- Conn, call <- vl3Call, Stream <- Conn, pool <- streamPool

Numbers == INSTANCE VNI WITH call <- numberCall, held <- number

Files == INSTANCE FDs WITH call <- transfer, held <- heldFile, calls <- count

Contexts == INSTANCE DnsContext WITH Conn <- Client, lost <- nameless, calls <- count

\* The templates give different connections different names.  resolv.conf has
\* lines behind comment signs and others, and no name server behind just one sign if it
\* has another: restoreResolvConf would take that one for the original.
ASSUME NamesAssumption ==
    /\ \A c \in Client : None \notin NamesOf[c]
    /\ \A c, d \in Client : c # d => \A ns \in NamesOf[c], ms \in NamesOf[d] : ns \cap ms = {}
    /\ OwnIP \in OwnIPs /\ None \notin OwnIPs
    /\ Originals \subseteq Seq([hashes : Nat, property : STRING, value : STRING])
    /\ \A lines \in Originals : Contexts!HasServers(lines) => ~ Contexts!HasServers(Contexts!Uncommented(lines))

-----------------------------------------------------------------------------
(* The instance that is checked.                                           *)

MCNetworks == <<1 .. 3, 5 .. 6>>
MCExcludes == {{}, {1, 2}, {5}}
MCInitialNet == 1 .. 3
MCSubnets == {1 .. 3, 5 .. 6, 9 .. 10}
MCWhole == <<0, 16>>
MCAsked == {<<0, 4>>, <<4, 4>>, <<8, 4>>, <<5, 1>>}
MCAvoided == {{}, {0, 1}, 4 .. 7}

\* Connections whose names change or stay, or that have none.
MCNamesOf == <<{{"a"}, {"a", "b"}}, {{"c"}}, {}>>

\* resolv.conf with a comment, several name servers and options, or without a name server.
FileLine(hashes, property, value) == [hashes |-> hashes, property |-> property, value |-> value]
MCOriginals ==
    {<<FileLine(0, "nameserver", "ip1"), FileLine(0, "search", "d")>>,
     <<FileLine(1, "text", ""), FileLine(0, "nameserver", "ip1"), FileLine(0, "nameserver", "ip2"),
       FileLine(0, "options", "o")>>,
     <<FileLine(0, "text", "")>>}

-----------------------------------------------------------------------------
poolVars == <<tree, size, addrs>>
prefixVars == <<prefixes, connections, removed, forgotten>>
ipamVars == <<server, strict, pools, myIPs, info, ipamCall, held, stale, twice>>
vl3Vars == <<renewed, used, self, ipPool, excluded, subnetMap, vl3Call, srcs, subs, round, cancel,
             done, peer, queued, told, resets>>
streamVars == <<sized, streamPool, clientsPrefixes>>
numberVars == <<element, recovers, keys, meta, freeVLANs, numberCall, number>>

fileVars == <<kind, fds, fileMaps, transfer, heldFile, broken, orphans, strays>>
recordVars == <<serverIP, ownIPs, records, metadata, context, names, asked, open, nameless>>
resolvVars == <<original, file, step, writing, torn, conf, properties, crashes>>
keeperVars == <<count, fileVars, recordVars, dnsConfigs, resolvVars>>
allocatorVars == <<poolVars, prefixVars, ipamVars, vl3Vars, streamVars, numberVars>>

\* The choices that a part makes in its initial state are made only for that part.
MCInit ==
    /\ part \in {"ippool", "prefixpool", "ipam", "vl3server", "vl3client", "vl3ipam", "numbers", "files", "vl3dns", "resolvconf"}
    /\ Pool!PoolInit /\ Pool!PrefixInit /\ Ipam!Init /\ Vl3!Init /\ Vl3!StreamInit /\ Numbers!Init
    /\ Files!FDsInit /\ Contexts!DnsContextInit
    /\ part # "ipam" => server = "p2p" /\ ~ strict
    /\ part \notin {"vl3server", "vl3client"} => ~ renewed
    /\ self = InitialNet
    /\ part # "vl3ipam" => ~ sized
    /\ part # "numbers" => element = "vni" /\ ~ recovers
    /\ part # "files" => kind = (CHOOSE k \in Kinds : TRUE)
    /\ part # "resolvconf" => original = (CHOOSE o \in Originals : TRUE)
    /\ part # "vl3dns" => context = [c \in Client |-> {}]

AllocatorNext ==
    \/ /\ part = "ippool" /\ Pool!PoolNext
       /\ UNCHANGED <<prefixVars, ipamVars, vl3Vars, streamVars, numberVars>>
    \/ /\ part = "prefixpool" /\ Pool!PrefixNext
       /\ UNCHANGED <<poolVars, ipamVars, vl3Vars, streamVars, numberVars>>
    \/ /\ part = "ipam" /\ Ipam!Next
       /\ UNCHANGED <<poolVars, prefixVars, vl3Vars, streamVars, numberVars>>
    \/ /\ \/ part = "vl3server" /\ Vl3!ServerNext
          \/ part = "vl3client" /\ Vl3!ClientNext
       /\ UNCHANGED <<poolVars, prefixVars, ipamVars, streamVars, numberVars>>
    \/ /\ part = "vl3ipam" /\ Vl3!StreamNext
       /\ UNCHANGED <<poolVars, prefixVars, ipamVars, vl3Vars, numberVars>>
    \/ /\ part = "numbers" /\ Numbers!Next
       /\ UNCHANGED <<poolVars, prefixVars, ipamVars, vl3Vars, streamVars>>

KeeperNext ==
    \/ part = "files" /\ Files!FDsNext /\ UNCHANGED <<recordVars, dnsConfigs, resolvVars>>
    \/ part = "vl3dns" /\ Contexts!VL3Next /\ UNCHANGED <<fileVars, resolvVars>>
    \/ part = "resolvconf" /\ Contexts!ResolvNext /\ UNCHANGED <<fileVars, recordVars>>

MCNext ==
    /\ UNCHANGED part
    /\ \/ AllocatorNext /\ UNCHANGED keeperVars
       \/ KeeperNext /\ UNCHANGED allocatorVars

MCSpec == MCInit /\ [][MCNext]_<<part, allocatorVars, keeperVars>>

\* IPPool: the tree is a red-black tree of exactly the addresses that are left.
\* PrefixPool: no network is given out twice, and none is lost but with a record that
\* another Extract replaces, or with one that has no network of its own (module Pools).
PoolsAreExact ==
    /\ part = "ippool" => Pool!TreeHoldsPool /\ Pool!RedBlack
    /\ part = "prefixpool" => Pool!PoolIsPartition

\* ipamServer, singlePIpam: no two connections share an address, and none of a client is
\* free, but those whose entry has outlived its addresses and the addresses that such an
\* entry frees again.  vl3Server: nor do they as long as Reset gets only new prefixes.
\* vl3IPAMServer: nor do streams share prefixes as long as all ask for one size.
\* vniServer, vlanServer: nor VNIs or VLANs as long as none brings its own number.
NothingIsShared ==
    /\ part = "ipam" => Ipam!NoSharedAddress
    /\ part = "vl3server" => Vl3!NoSharedVL3Address
    /\ part = "vl3ipam" => Vl3!PrefixesAreDisjoint
    /\ part = "numbers" => Numbers!NoSharedNumber

\* vl3Client: a peer that was told of an earlier prefix will be told of the new one.
PeersLearnPrefix == part = "vl3client" => Vl3!PeersLearnPrefix

\* sendfd, recvfd: no descriptor is left open that no element will close, but for those
\* that arrive for a Close whose context is done, and none of an established connection
\* is closed, whatever calls of others fail, unless a Request of its own has (module FDs).
FilesAreOwned == part = "files" => Files!OpenFilesAreOwned /\ Files!HeldFileIsOpen

\* vl3dns: the records are those of the open connections, and no DNS server is made to
\* ask just itself unless its address changes.  dnscontext: whenever the process dies, but
\* for the middle of a write, the resolv.conf of before its first start survives (module
\* DnsContext).
NamesFollowConnections ==
    /\ part = "vl3dns" => Contexts!RecordsFollowConnections /\ Contexts!NeverAsksItself
    /\ part = "resolvconf" => Contexts!OriginalSurvives

\* IPPool.GetPrefixes returns the addresses of the pool and no others.
PrefixesArePool == part = "ippool" => Pool!PrefixesArePool
=============================================================================
