-------------------------------- MODULE IPAM --------------------------------
(***************************************************************************)
(* The elements that give addresses to the connections of an endpoint:     *)
(* point2pointipam and singlepointipam (networkservice/ipam), alone or     *)
(* behind strictipam.                                                      *)
(*                                                                         *)
(* begin runs the calls of one connection one at a time.  A pool is the    *)
(* set of its free addresses, as module Pools shows; addresses are         *)
(* numbers.  The prefixes in Excludes may be asked to be avoided.          *)
(***************************************************************************)
EXTENDS Integers, Sequences, SequencesExt, FiniteSets, FiniteSetsExt

CONSTANTS
    Conn,
    Networks,    \* networks of NewServer, as a sequence of sets of addresses
    Excludes     \* sets of addresses that a request may exclude

VARIABLES
    server,      \* "p2p" or "single" (never changes)
    strict,      \* is strictipam in front? (never changes)
    pools,       \* ipPools: the free addresses of each network
    myIPs,       \* singlepointipam: the address of the endpoint in each network
    info,        \* the map of connectionInfo
    call,        \* the Request in progress, in the rest of the chain
    held,        \* addresses of established connections, as their clients know them
    stale,       \* connections whose entry outlived its addresses (history)
    twice        \* addresses that such an entry has freed again (history)

ipamVars == <<server, strict, pools, myIPs, info, call, held, stale, twice>>

NoInfo == [pool |-> 0, src |-> 0, dst |-> 0]

Idle == [pc |-> "idle", loaded |-> FALSE]

\* init: singlepointipam withholds the broadcast address.
Init ==
    /\ server \in {"p2p", "single"}
    /\ strict \in BOOLEAN
    /\ pools = [i \in DOMAIN Networks |->
                  IF server = "p2p" THEN Networks[i] ELSE Networks[i] \ {Max(Networks[i])}]
    /\ myIPs = <<>>
    /\ info = [c \in Conn |-> NoInfo]
    /\ call = [c \in Conn |-> Idle]
    /\ held = [c \in Conn |-> <<>>]
    /\ stale = {} /\ twice = {}

-----------------------------------------------------------------------------
shouldUpdate(i, ex) == i.src \in ex \/ i.dst \in ex

\* The addresses that an entry has for itself: that of the endpoint is not part of
\* them for singlepointipam.
OwnOf(i) == IF i = NoInfo THEN {} ELSE IF server = "p2p" THEN {i.src, i.dst} ELSE {i.src}

free(ps, i) == [ps EXCEPT ![i.pool] = @ \cup OwnOf(i)]

\* deleteAddr: the first of the addresses that is equal to addr.
deleteAddr(addrs, addr) ==
    LET equal == {k \in DOMAIN addrs : addrs[k] = addr} IN
    IF equal = {} THEN addrs ELSE RemoveAt(addrs, Min(equal))

\* PullIPString for one address after the other: the first that the pool has.
FirstIn(addrs, pool) ==
    LET ok == {k \in DOMAIN addrs : addrs[k] \in pool} IN IF ok = {} THEN 0 ELSE addrs[Min(ok)]

\* recoverAddrs: an address that was pulled stays out of the pool although the
\* other one of the pair is not there.
recoverAddrs(ps, srcs, dsts, ex) ==
    LET src(i) == FirstIn(srcs, ps[i] \ ex)
        dst(i) == FirstIn(dsts, ps[i] \ (ex \cup {src(i)}))
        pairs == {i \in DOMAIN ps : src(i) # 0 /\ dst(i) # 0}
        tried == {i \in DOMAIN ps : \A j \in pairs : i <= j}
    IN  IF srcs = <<>> \/ dsts = <<>> THEN [pools |-> ps, info |-> NoInfo]
        ELSE [pools |-> [i \in DOMAIN ps |-> IF i \in tried THEN ps[i] \ {src(i), dst(i)} ELSE ps[i]],
              info |-> IF pairs = {} THEN NoInfo
                       ELSE [pool |-> Min(pairs), src |-> src(Min(pairs)), dst |-> dst(Min(pairs))]]

\* getP2PAddrs: the first two addresses of the first pool that has them.
getP2PAddrs(ps, ex) ==
    LET ok == {i \in DOMAIN ps : Cardinality(ps[i] \ ex) >= 2}
        i == Min(ok)
        d == Min(ps[i] \ ex)
        s == Min(ps[i] \ (ex \cup {d}))
    IN  IF ok = {} THEN [pools |-> ps, info |-> NoInfo]
        ELSE [pools |-> [ps EXCEPT ![i] = @ \ {s, d}],
              info |-> [pool |-> i, src |-> s, dst |-> d]]

\* What Pull leaves in a pool until it has returned an address outside of ex.
PullPast(pool, ex) ==
    {a \in pool : pool \ ex # {} /\ a > Min(pool \ ex)}

\* setMyIP and getAddrs, for the pools up to the first that has an address: those
\* that are pulled and found excluded are not put back.  A pool that is empty
\* when its first address is wanted is passed over.
getAddrs(ps, mine, ex) ==
    LET unset(i) == i > Len(mine)
        pull(i) == unset(i) \/ mine[i] \in ex
        mineSet(i) == ~ pull(i) \/ ps[i] \ ex # {}
        my(i) == IF ~ pull(i) \/ ps[i] = {} THEN mine[i]
                 ELSE IF mineSet(i) THEN Min(ps[i] \ ex) ELSE Max(ps[i])
        left(i) == IF pull(i) THEN PullPast(ps[i], ex) ELSE ps[i]
        found == {i \in DOMAIN ps : mineSet(i) /\ left(i) \ ex # {}}
        tried == {i \in DOMAIN ps : ~ (unset(i) /\ ps[i] = {}) /\ \A j \in found : i <= j}
        new == SetToSortSeq({i \in tried : unset(i)}, <)
    IN  [pools |-> [i \in DOMAIN ps |-> IF i \notin tried THEN ps[i]
                                       ELSE IF mineSet(i) THEN PullPast(left(i), ex) ELSE {}],
         mine |-> [i \in DOMAIN mine |-> IF i \in tried THEN my(i) ELSE mine[i]] \o [k \in DOMAIN new |-> my(new[k])],
         info |-> IF found = {} THEN NoInfo
                  ELSE [pool |-> Min(found), src |-> Min(left(Min(found)) \ ex), dst |-> my(Min(found))]]

\* strictipam: addresses of a request are networks, which its pool does not find
\* as addresses, so any request with addresses loses its context.
areAddressesValid(addrs) == addrs = <<>>

-----------------------------------------------------------------------------
\* ipamServer.Request of point2pointipam up to the rest of the chain.  The request
\* has the addresses srcs and dsts and excludes ex.
P2PRequest(c, srcs, dsts, ex) ==
    LET old == info[c]
        update == old # NoInfo /\ shouldUpdate(old, ex)
        loaded == old # NoInfo /\ ~ update
        ps == IF update THEN free(pools, old) ELSE pools
        rec == recoverAddrs(ps, IF update THEN deleteAddr(srcs, old.src) ELSE srcs,
                                IF update THEN deleteAddr(dsts, old.dst) ELSE dsts, ex)
        x == IF rec.info # NoInfo THEN rec ELSE getP2PAddrs(rec.pools, ex)
    IN  /\ server = "p2p"
        /\ twice' = IF update /\ c \in stale THEN twice \cup OwnOf(old) ELSE twice
        /\ \/ /\ loaded
              /\ call' = [call EXCEPT ![c] = [pc |-> "next", loaded |-> TRUE]]
              /\ UNCHANGED <<pools, info, stale>>
           \/ /\ ~ loaded /\ x.info # NoInfo
              /\ pools' = x.pools
              /\ info' = [info EXCEPT ![c] = x.info]
              /\ call' = [call EXCEPT ![c] = [pc |-> "next", loaded |-> FALSE]]
              /\ stale' = stale \ {c}
           \/ /\ ~ loaded /\ x.info = NoInfo
              /\ pools' = x.pools
              /\ stale' = IF update THEN stale \cup {c} ELSE stale
              /\ UNCHANGED <<info, call>>
        /\ UNCHANGED <<myIPs, held>>

\* singlePIpam.Request up to the rest of the chain.
SingleRequest(c, ex) ==
    LET old == info[c]
        update == old # NoInfo /\ shouldUpdate(old, ex)
        loaded == old # NoInfo /\ ~ update
        x == getAddrs(IF update THEN free(pools, old) ELSE pools, myIPs, ex)
    IN  /\ server = "single"
        /\ twice' = IF update /\ c \in stale THEN twice \cup OwnOf(old) ELSE twice
        /\ \/ /\ loaded
              /\ call' = [call EXCEPT ![c] = [pc |-> "next", loaded |-> TRUE]]
              /\ UNCHANGED <<pools, myIPs, info, stale>>
           \/ /\ ~ loaded
              /\ pools' = x.pools
              /\ myIPs' = x.mine
              /\ IF x.info # NoInfo
                 THEN /\ info' = [info EXCEPT ![c] = x.info]
                      /\ call' = [call EXCEPT ![c] = [pc |-> "next", loaded |-> FALSE]]
                      /\ stale' = stale \ {c}
                 ELSE /\ stale' = IF update THEN stale \cup {c} ELSE stale
                      /\ UNCHANGED <<info, call>>
        /\ UNCHANGED held

\* strictIPAMServer.Request in front of either: a context that is reset has no
\* excluded prefixes any more.
Request(c, srcs, dsts, ex) ==
    LET reset == strict /\ ~ (areAddressesValid(srcs) /\ areAddressesValid(dsts))
        s == IF reset THEN <<>> ELSE srcs
        d == IF reset THEN <<>> ELSE dsts
        e == IF reset THEN {} ELSE ex
    IN  /\ call[c].pc = "idle"
        /\ P2PRequest(c, s, d, e) \/ SingleRequest(c, e)
        /\ UNCHANGED <<server, strict>>

\* The client has the addresses of the response.
RequestSuccess(c) ==
    /\ call[c].pc = "next"
    /\ held' = [held EXCEPT ![c] = <<info[c].src, info[c].dst>>]
    /\ call' = [call EXCEPT ![c] = Idle]
    /\ UNCHANGED <<server, strict, pools, myIPs, info, stale, twice>>

\* New addresses are freed, but not forgotten.
RequestFailure(c) ==
    /\ call[c].pc = "next"
    /\ pools' = IF call[c].loaded THEN pools ELSE free(pools, info[c])
    /\ stale' = IF call[c].loaded THEN stale ELSE stale \cup {c}
    /\ call' = [call EXCEPT ![c] = Idle]
    /\ UNCHANGED <<server, strict, myIPs, info, held, twice>>

\* Close, when it leaves the entries infos behind.
CloseWith(c, infos) ==
    /\ call[c].pc = "idle" /\ held[c] # <<>>
    /\ pools' = IF info[c] = NoInfo THEN pools ELSE free(pools, info[c])
    /\ twice' = IF c \in stale THEN twice \cup OwnOf(info[c]) ELSE twice
    /\ info' = infos
    /\ held' = [held EXCEPT ![c] = <<>>]
    /\ UNCHANGED <<server, strict, myIPs, call>>

\* Mutant: the addresses of the entry are freed, but it is kept.
Close_Keeps(c) == CloseWith(c, info) /\ UNCHANGED stale

\* ipamServer.Close removes the entry, singlePIpam.Close only reads it.  begin
\* passes only the Close of an established connection.
Close(c) ==
    /\ CloseWith(c, IF server = "p2p" THEN [info EXCEPT ![c] = NoInfo] ELSE info)
    /\ stale' = IF server = "p2p" THEN stale \ {c} ELSE stale \cup {c}

Held(c, k) == IF held[c] = <<>> THEN <<>> ELSE <<held[c][k]>>

\* A client sends the addresses it has, or none, or those it had from another
\* endpoint or before a restart.
Next ==
    \E c \in Conn :
        \/ \E ex \in Excludes :
              \/ Request(c, Held(c, 1), Held(c, 2), ex)
              \/ \E p \in DOMAIN Networks : \E s, d \in Networks[p] :
                    held[c] = <<>> /\ s = d + 1 /\ Request(c, <<s>>, <<d>>, ex)
        \/ RequestSuccess(c)
        \/ RequestFailure(c)
        \/ Close(c)

-----------------------------------------------------------------------------
\* The addresses of a connection that are its own.
Own(c) == IF held[c] = <<>> THEN {} ELSE IF server = "p2p" THEN {held[c][1], held[c][2]}
          ELSE {held[c][1]}

\* Connections at rest whose entry is right.
Settled == {c \in Conn \ stale : call[c].pc = "idle"}

\* point2pointipam and singlepointipam keep connections apart whose entries are right:
\* no address is given to two of them, and none that their clients have is free, but
\* for those that an entry has freed after it had outlived them.  An entry outlives its
\* addresses when a Request fails that has got new ones (point2pointipam/server.go:128,
\* singlepointipam/server.go:132) or finds none for those that it has freed (106, 116),
\* and at singlepointipam with every Close; its connection, if it is used on, may then
\* have the address of another.
NoSharedAddress ==
    \A c \in Settled :
        /\ \A d \in Settled \ {c} : Own(c) \cap Own(d) \subseteq twice
        /\ \A i \in DOMAIN pools : Own(c) \cap pools[i] \subseteq twice
=============================================================================
