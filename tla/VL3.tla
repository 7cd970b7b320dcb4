--------------------------------- MODULE VL3 --------------------------------
(***************************************************************************)
(* A vL3 endpoint (connectioncontext/ipcontext/vl3): vl3Server gives its   *)
(* clients addresses of the endpoint's prefix, vl3Client connects it to    *)
(* other endpoints with its own address, and both share an IPAM whose      *)
(* prefix Reset replaces while connections are established.                *)
(*                                                                         *)
(* The IPAM locks itself for every operation, so a Request and a Reset     *)
(* interleave between the operations.  A prefix is a set of addresses.     *)
(*                                                                         *)
(* vl3IPAMServer (pkg/ipam/vl3ipam), from which endpoints get their        *)
(* prefixes over streams: a stream that ends gives its prefixes back.      *)
(* There a prefix is its first address and the number of its addresses.    *)
(***************************************************************************)
EXTENDS Integers, FiniteSets, FiniteSetsExt

CONSTANTS
    Client,      \* connections that vl3Server serves
    Peer,        \* connections of vl3Client to other endpoints
    Subnets,     \* prefixes that Reset may be given
    NoNet,
    Foreign,     \* the address of another endpoint
    MaxResets,   \* bound on Resets
    Stream,      \* streams of ManagePrefixes
    Whole,       \* the prefix of NewIPAMServer
    InitialSize, \* addresses of a prefix of initalSize, a power of two
    Asked,       \* prefixes that endpoints ask for
    Avoided      \* sets of addresses that endpoints exclude

VARIABLES
    renewed,     \* may Reset be given a prefix it had before? (never changes)
    used,        \* the prefixes it had
    self,        \* IPAM: the prefix, {} before the first Reset
    ipPool,      \* IPAM: free addresses
    excluded,    \* IPAM: excludedPrefixes, the addresses that were given out
    subnetMap,   \* vl3Server: the prefix a connection got its address from
    call,        \* vl3Server: Requests in the rest of the chain
    srcs,        \* addresses of the established connections of vl3Server
    subs,        \* IPAM: subscriptions, of a connection and its n-th Request
    round,       \* vl3Client: number of the last Request of a connection
    cancel,      \* vl3Client: the Request whose cancel is in the metadata, or 0
    done,        \* vl3Client: Requests whose context is cancelled
    peer,        \* vl3Client: the Request in progress
    queued,      \* events that notify has put into the executor of begin
    told,        \* the prefix that the other endpoint was told of
    resets,
    sized,           \* vl3IPAMServer: do endpoints only ask for prefixes of InitialSize? (never changes)
    pool,            \* vl3IPAMServer: free addresses
    clientsPrefixes  \* vl3IPAMServer: what each stream has got

vl3Vars == <<renewed, used, self, ipPool, excluded, subnetMap, call, srcs, subs, round, cancel, done,
             peer, queued, told, resets>>
streamVars == <<sized, pool, clientsPrefixes>>

selfAddress == Min(self)

IdleCall == [pc |-> "idle", srcs |-> {}]

IdlePeer == [pc |-> "idle", self |-> NoNet]

Init ==
    /\ renewed \in BOOLEAN
    /\ self \in Subnets
    /\ used = {self}
    /\ ipPool = self \ {selfAddress}
    /\ excluded = {selfAddress}
    /\ subnetMap = [c \in Client |-> NoNet]
    /\ call = [c \in Client |-> IdleCall]
    /\ srcs = [c \in Client |-> {}]
    /\ subs = {}
    /\ round = [p \in Peer |-> 0]
    /\ cancel = [p \in Peer |-> 0]
    /\ done = {}
    /\ peer = [p \in Peer |-> IdlePeer]
    /\ queued = {}
    /\ told = [p \in Peer |-> NoNet]
    /\ resets = 0

serverVars == <<subnetMap, call, srcs>>
clientVars == <<round, cancel, done, peer, told>>

-----------------------------------------------------------------------------
(* IPAM.                                                                   *)

\* Mutant: the subscribers are not told.
Reset_Silent(net) ==
    /\ resets < MaxResets
    /\ renewed \/ net \notin used
    /\ used' = used \cup {net}
    /\ resets' = resets + 1
    /\ self' = net
    /\ ipPool' = net \ {Min(net)}
    /\ excluded' = {Min(net)}
    /\ UNCHANGED <<renewed, subnetMap, call, srcs, subs, round, cancel, done, peer, told, queued>>

\* Reset forgets what was given out, and notify runs every subscription, which
\* puts an event into the executor of its connection.
Reset(net) ==
    /\ resets < MaxResets
    /\ renewed \/ net \notin used
    /\ used' = used \cup {net}
    /\ resets' = resets + 1
    /\ self' = net
    /\ ipPool' = net \ {Min(net)}
    /\ excluded' = {Min(net)}
    /\ queued' = queued \cup subs
    /\ UNCHANGED <<renewed, subnetMap, call, srcs, subs, round, cancel, done, peer, told>>

allocated == Min(ipPool)

\* freeIfAllocated for each of the addresses.
freeIfAllocated(as) ==
    /\ excluded' = excluded \ as
    /\ ipPool' = ipPool \cup (as \cap excluded)

-----------------------------------------------------------------------------
(* vl3Server.                                                              *)

\* removePreviousPrefixFromIPContext
removePrevious(as, net) == {a \in as : a \notin net}

\* A connection that has no address of the server yet gets one, unless it is that
\* of another endpoint (it has addresses and names), and a connection from before
\* a Reset gets one in place of the addresses of the previous prefix.
ServerRequest(c, as, endpoint) ==
    LET known == subnetMap[c] # NoNet
        moved == known /\ subnetMap[c] # self
        first == ~ known /\ ~ (endpoint /\ as # {})
        rest == IF moved THEN removePrevious(as, subnetMap[c]) ELSE as
    IN  /\ call[c].pc = "idle"
        /\ IF moved \/ first
           THEN /\ ipPool # {}
                /\ ipPool' = ipPool \ {allocated}
                /\ excluded' = excluded \cup {allocated}
                /\ call' = [call EXCEPT ![c] = [pc |-> "store", srcs |-> rest \cup {allocated}]]
           ELSE /\ call' = [call EXCEPT ![c] = [pc |-> "next", srcs |-> as]]
                /\ UNCHANGED <<ipPool, excluded>>
        /\ UNCHANGED <<renewed, used, self, subnetMap, srcs, subs, clientVars, queued, resets>>

\* The prefix that is stored is read after the address was allocated.
ServerStore(c) ==
    /\ call[c].pc = "store"
    /\ subnetMap' = [subnetMap EXCEPT ![c] = self]
    /\ call' = [call EXCEPT ![c].pc = "next"]
    /\ UNCHANGED <<renewed, used, self, ipPool, excluded, srcs, subs, clientVars, queued, resets>>

ServerSuccess(c) ==
    /\ call[c].pc = "next"
    /\ srcs' = [srcs EXCEPT ![c] = call[c].srcs]
    /\ call' = [call EXCEPT ![c] = IdleCall]
    /\ UNCHANGED <<renewed, used, self, ipPool, excluded, subnetMap, subs, clientVars, queued, resets>>

\* The address of a refused connection is not given back.
ServerFailure(c) ==
    /\ call[c].pc = "next"
    /\ call' = [call EXCEPT ![c] = IdleCall]
    /\ UNCHANGED <<renewed, used, self, ipPool, excluded, subnetMap, srcs, subs, clientVars, queued,
                   resets>>

ServerClose(c) ==
    /\ call[c].pc = "idle" /\ srcs[c] # {}
    /\ freeIfAllocated(srcs[c])
    /\ subnetMap' = [subnetMap EXCEPT ![c] = NoNet]
    /\ srcs' = [srcs EXCEPT ![c] = {}]
    /\ UNCHANGED <<renewed, used, self, call, subs, clientVars, queued, resets>>

-----------------------------------------------------------------------------
(* vl3Client.  begin runs the calls of a connection one at a time; an      *)
(* event whose context is cancelled is dropped.                            *)

AtRest(p) == peer[p].pc \in {"idle", "failed"}

\* loadAndDeleteCancel and the call of what it finds.
CancelOld(p) == done' = IF cancel[p] = 0 THEN done ELSE done \cup {<<p, cancel[p]>>}

\* Request up to the subscription: the context of the previous Request is
\* cancelled and that of this one stored.
Subscribe(p) ==
    /\ round' = [round EXCEPT ![p] = @ + 1]
    /\ CancelOld(p)
    /\ cancel' = [cancel EXCEPT ![p] = round[p] + 1]
    /\ subs' = subs \cup {<<p, round[p] + 1>>}
    /\ peer' = [peer EXCEPT ![p] = [pc |-> "subscribed", self |-> NoNet]]
    /\ UNCHANGED <<renewed, used, self, ipPool, excluded, serverVars, told, resets>>

ClientRequest(p) ==
    /\ AtRest(p) /\ round[p] <= MaxResets
    /\ Subscribe(p)
    /\ UNCHANGED queued

\* eventFactory.Request, with the context that was current when it was fired.
ClientEvent(e) ==
    /\ AtRest(e[1])
    /\ queued' = queued \ {e}
    /\ IF e[2] = cancel[e[1]] /\ told[e[1]] # NoNet
       THEN Subscribe(e[1])
       ELSE UNCHANGED <<renewed, used, self, ipPool, excluded, serverVars, subs, clientVars, resets>>

\* The rest of Request reads the prefix after it has subscribed.
ReadSelf(p) ==
    /\ peer[p].pc = "subscribed"
    /\ peer' = [peer EXCEPT ![p].pc = "next", ![p].self = self]
    /\ UNCHANGED <<renewed, used, self, ipPool, excluded, serverVars, subs, round, cancel, done, queued, told,
                   resets>>

ClientSuccess(p) ==
    /\ peer[p].pc = "next"
    /\ told' = [told EXCEPT ![p] = peer[p].self]
    /\ peer' = [peer EXCEPT ![p] = IdlePeer]
    /\ UNCHANGED <<renewed, used, self, ipPool, excluded, serverVars, subs, round, cancel, done, queued,
                   resets>>

\* A refused connection loses its metadata, and with it the way to cancel its
\* subscription; one that was established before keeps them.
ClientFailure(p) ==
    /\ peer[p].pc = "next"
    /\ peer' = [peer EXCEPT ![p] = [pc |-> "failed", self |-> NoNet]]
    /\ cancel' = IF told[p] = NoNet THEN [cancel EXCEPT ![p] = 0] ELSE cancel
    /\ UNCHANGED <<renewed, used, self, ipPool, excluded, serverVars, subs, round, done, queued,
                   told, resets>>

ClientClose(p) ==
    /\ AtRest(p) /\ told[p] # NoNet
    /\ CancelOld(p)
    /\ cancel' = [cancel EXCEPT ![p] = 0]
    /\ told' = [told EXCEPT ![p] = NoNet]
    /\ UNCHANGED <<renewed, used, self, ipPool, excluded, serverVars, subs, round, peer, queued,
                   resets>>

\* The goroutine of a Request whose context is cancelled removes its subscription.
Unsubscribe(e) ==
    /\ e \in done
    /\ subs' = subs \ {e}
    /\ UNCHANGED <<renewed, used, self, ipPool, excluded, serverVars, clientVars, queued, resets>>

ServerNext ==
    \/ \E net \in Subnets : Reset(net)
    \/ \E c \in Client :
          \/ ServerRequest(c, srcs[c], FALSE)
          \/ srcs[c] = {} /\ ServerRequest(c, {Foreign}, TRUE)
          \/ ServerStore(c) \/ ServerSuccess(c) \/ ServerFailure(c) \/ ServerClose(c)

ClientNext ==
    \/ \E net \in Subnets : Reset(net)
    \/ \E p \in Peer :
          \/ ClientRequest(p) \/ ReadSelf(p) \/ ClientSuccess(p) \/ ClientFailure(p)
          \/ ClientClose(p)
    \/ \E e \in subs : Unsubscribe(e)
    \/ \E e \in queued : ClientEvent(e)

-----------------------------------------------------------------------------
\* Addresses of two clients of vl3Server are different, and none is that of the
\* endpoint; unless Reset was given a prefix that it had before, which frees
\* the addresses of all connections without moving them.
NoSharedVL3Address ==
    ~ renewed =>
        \A c \in Client :
            /\ \A d \in Client \ {c} :
                  subnetMap[c] = subnetMap[d] => srcs[c] \cap srcs[d] \cap self = {}
            /\ subnetMap[c] = self => srcs[c] \cap (ipPool \cup {selfAddress}) = {}

\* A peer that was told of an earlier prefix has an event to come, unless its last
\* Request has failed.
PeersLearnPrefix ==
    \A p \in Peer :
        peer[p].pc = "idle" /\ told[p] \notin {self, NoNet} => <<p, cancel[p]>> \in queued

-----------------------------------------------------------------------------
(* vl3IPAMServer.                                                          *)

In(p) == p[1] .. p[1] + p[2] - 1

StreamInit ==
    /\ sized \in BOOLEAN
    /\ pool = In(Whole)
    /\ clientsPrefixes = [s \in Stream |-> {}]

\* The network of InitialSize around the address that Pull returned.
Around(a) == <<a - (a % InitialSize), InitialSize>>

\* allocate: the prefix that was asked for if it is free (the excluded addresses
\* do not matter for it), or the one around the first address outside of ex.
allocate(p, ex) ==
    IF p \in Asked /\ In(p) \subseteq pool THEN {p}
    ELSE IF pool \ ex = {} THEN {} ELSE {Around(Min(pool \ ex))}

\* The stream ends when nothing can be allocated, and when it breaks.
Disconnect(s) ==
    /\ pool' = pool \cup UNION {In(p) : p \in clientsPrefixes[s]}
    /\ clientsPrefixes' = [clientsPrefixes EXCEPT ![s] = {}]
    /\ UNCHANGED sized

Allocate(s, p, ex) ==
    /\ sized => p[2] = InitialSize
    /\ \/ \E q \in allocate(p, ex) :
             /\ pool' = pool \ In(q)
             /\ clientsPrefixes' = [clientsPrefixes EXCEPT ![s] = @ \cup {q}]
             /\ UNCHANGED sized
       \/ allocate(p, ex) = {} /\ Disconnect(s)

\* delete: only a prefix of the stream itself.
DeletePrefix(s, p) ==
    /\ p \in clientsPrefixes[s]
    /\ pool' = pool \cup In(p)
    /\ clientsPrefixes' = [clientsPrefixes EXCEPT ![s] = @ \ {p}]
    /\ UNCHANGED sized

StreamNext ==
    \E s \in Stream :
        \/ \E p \in Asked, ex \in Avoided : Allocate(s, p, ex)
        \/ \E p \in clientsPrefixes[s] : DeletePrefix(s, p)
        \/ Disconnect(s)

-----------------------------------------------------------------------------
\* As long as all prefixes have the same size, no two streams have addresses in
\* common, and every address outside of the prefixes is free again.
PrefixesAreDisjoint ==
    sized =>
        /\ \A s, t \in Stream : \A p \in clientsPrefixes[s], q \in clientsPrefixes[t] :
              s # t => In(p) \cap In(q) = {}
        /\ In(Whole) \ UNION {In(p) : p \in UNION {clientsPrefixes[s] : s \in Stream}} \subseteq pool
=============================================================================
