------------------------------- MODULE MCCalls -------------------------------
(***************************************************************************)
(* Calls to the next server and to the DNS servers: the initial state      *)
(* chooses one of the two parts.  The dialer stays at rest while the       *)
(* handlers of DNS are looked at, whose variables are 0 otherwise.         *)
(***************************************************************************)
EXTENDS Dial, TLC

CONSTANTS
    Setups, TTLs, Ticks, V4, None    \* of DNS

VARIABLES part, setup, ids, cache, updated, now, query, asked, channel, served

Names == INSTANCE Dns

-----------------------------------------------------------------------------
Handlers == {"checkmsg", "norecursion", "dnsconfigs", "searches", "noloop", "cache", "memory", "fanout", "connect", "adapt"}

\* A chain has no handler twice and ends with one that has nobody behind it, which is
\* memory or sends queries away.  An original handler, which need not answer, is adapted
\* behind one that does; and from noloop an answer does not return to memory at once, as
\* a handler that remembers answers lies between them.
Sound(handlers) ==
    /\ handlers \in Seq(Handlers) /\ handlers # <<>>
    /\ \A i, j \in DOMAIN handlers : handlers[i] = handlers[j] => i = j
    /\ handlers[Len(handlers)] \in {"fanout", "connect", "adapt", "memory"}
    /\ \A i \in DOMAIN handlers :
          /\ handlers[i] \in {"fanout", "connect", "adapt"} => i = Len(handlers)
          /\ handlers[i] = "adapt" => i > 1 /\ handlers[i - 1] \in {"dnsconfigs", "searches"}
          /\ handlers[i] = "noloop" => \A j \in DOMAIN handlers : handlers[j] = "memory" =>
                i < j \/ \E k \in DOMAIN handlers : j < k /\ k < i /\ handlers[k] \in {"dnsconfigs", "searches"}

\* Chains are sound, and None is neither an answer nor an entry of the cache.
ASSUME DnsAssumption ==
    /\ \A s \in Setups : Sound(s.chain) /\ s.domains \in Seq(Names!Domain)
    /\ TTLs \subseteq Nat /\ Ticks \in Nat \ {0}
    /\ \A s \in Setups : s.until \in Nat
    /\ None \notin [code : {"ok", "empty", "fail"}, ttl : Nat, age : Nat, of : Names!Question \cup {None}]
    /\ None \notin [left : Nat, ttl : Nat, at : Nat, of : Names!Question \cup {None}]

-----------------------------------------------------------------------------
(* Chains and queries that are checked.                                    *)

Ask(id, name, qtype, n) == [id |-> id, name |-> name, qtype |-> qtype, client |-> n]
SameId == {Ask(1, "n", "A", 1), Ask(1, "n", "A", 2)}
Others == {Ask(1, "n", "A", 1), Ask(2, "n", "AAAA", 2)}
QTypes == {Ask(1, "n", "AAAA", 1), Ask(2, "v4", "PTR", 1), Ask(3, "n", "nil", 1)}

ThreeTimes == {Ask(i, "n", "A", i) : i \in 1 .. 3}

ClientChain == <<"dnsconfigs", "searches", "noloop", "cache", "fanout">>
VL3Chain == <<"dnsconfigs", "noloop", "norecursion", "memory", "fanout">>

Setup(handlers, queries, addresses, servers, domains, until) ==
    [chain |-> handlers, queries |-> queries, records |-> addresses, servers |-> servers, domains |-> domains, until |-> until]

\* The last one lets answers in the cache grow old.
MCSetups ==
    {Setup(ClientChain, SameId, <<>>, {"s1", "s2"}, <<>>, 2), Setup(ClientChain, Others, <<>>, {"s1"}, <<"d">>, 2),
     Setup(ClientChain, SameId, <<>>, {}, <<>>, 0), Setup(VL3Chain, QTypes, "n" :> {"v4"}, {"s1"}, <<>>, 0),
     Setup(VL3Chain, Others, <<>>, {"s1", "s2"}, <<>>, 0), Setup(<<"dnsconfigs", "memory">>, QTypes, <<>>, {}, <<>>, 0),
     Setup(<<"checkmsg", "connect">>, QTypes, <<>>, {}, <<>>, 0), Setup(<<"dnsconfigs", "adapt">>, Others, <<>>, {}, <<>>, 0),
     Setup(<<"memory", "dnsconfigs", "searches", "noloop", "fanout">>, SameId, <<>>, {"s1"}, <<"d">>, 0),
     Setup(<<"cache", "connect">>, ThreeTimes, <<>>, {}, <<>>, 12)}

-----------------------------------------------------------------------------
dnsVars == <<setup, ids, cache, updated, now, query, asked, channel, served>>
allVars == <<part, vars, dnsVars>>

NoDns ==
    /\ setup = 0 /\ ids = 0 /\ cache = 0 /\ updated = 0 /\ now = 0 /\ query = 0 /\ asked = 0 /\ channel = 0 /\ served = 0

MCInit ==
    /\ Init
    /\ \/ part = "dial" /\ NoDns
       \/ part = "dns" /\ element = "client" /\ Names!DnsInit

MCNext ==
    /\ UNCHANGED part
    /\ \/ part = "dial" /\ Next /\ UNCHANGED dnsVars
       \/ part = "dns" /\ Names!DnsNext /\ UNCHANGED vars

\* Goroutines that close connections are scheduled, and so are those that serve queries.
MCSpec ==
    /\ MCInit /\ [][MCNext]_allVars
    /\ WF_vars(Cleanup)
    /\ WF_dnsVars(part = "dns" /\ Names!Serve)

-----------------------------------------------------------------------------
\* dnsutils: a query fails only if nobody could answer it in time, an answer has records
\* of the name and type that were asked for, one from the cache is younger than twice its
\* time to live, and noloop forgets the queries that are over (module Dns).
AnswersAreRight ==
    part = "dns" => Names!FailureIsReal /\ Names!OwnAnswer /\ Names!CacheIsFresh /\ Names!IdsAreFreed

\* dnsutils: every query is answered (module Dns).
EveryQueryIsAnswered == []<>(part = "dns" => \A q \in DOMAIN query : query[q].at = 0)
=============================================================================
