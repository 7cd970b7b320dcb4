-------------------------------- MODULE Dns ---------------------------------
(***************************************************************************)
(* The DNS handlers (tools/dnsutils): chains of handlers that serve        *)
(* queries of several clients at the same time.  A query goes down the     *)
(* chain, handler by handler, and returns the same way; an answer is       *)
(* written to the writer that the handler was given, which dnsconfigs and  *)
(* searches replace by one that only remembers it, and cache by one that   *)
(* keeps it.  Time is counted in parts of a second.                        *)
(***************************************************************************)
EXTENDS Integers, Sequences, FiniteSets, SequencesExt, FiniteSetsExt

CONSTANTS
    Setups,     \* [chain, queries, records, servers, domains, until] to look at; until bounds the time
    TTLs,       \* times to live of answers, in seconds
    Ticks,      \* steps of time in a second
    V4,         \* addresses of version 4; the others are of version 6
    None

VARIABLES
    setup,      \* (never changes)
    ids,        \* noloop: ids of the queries that are in it
    cache,      \* cache: [left, ttl, at, of] by question, or None
    updated,    \* cache: lastTTLUpdate
    now,
    query,      \* where each query is
    asked,      \* fanout: servers whose answer to the query is still out
    channel,    \* fanout: responseCh
    served      \* the answer that the client of each query got, or None

dnsVars == <<setup, ids, cache, updated, now, query, asked, channel, served>>

Query == UNION {s.queries : s \in Setups}   \* [id, name, qtype, ...]
Name == {q.name : q \in Query}
chain == setup.chain         \* handlers
records == setup.records     \* memory: addresses of names
Domain == {""} \cup UNION {Range(s.domains) : s \in Setups}
Question == Name \X Domain \X {q.qtype : q \in Query}
Own(q) == <<q.name, "", q.qtype>>

\* Answers, and the question whose records they have.
Failed == [code |-> "fail", ttl |-> 0, age |-> 0, of |-> None]
Success(code, ttl, question) == [code |-> code, ttl |-> ttl, age |-> 0, of |-> question]
Answered(question) == {Success("ok", t, question) : t \in TTLs} \cup {Failed}

Idle == [at |-> 0, down |-> TRUE, name |-> None, servers |-> {}, todo |-> <<>>, got |-> None,
         caught |-> None, passed |-> FALSE, tcp |-> FALSE, expired |-> FALSE,
         loop |-> FALSE, good |-> FALSE]

DnsInit ==
    /\ setup \in Setups
    /\ ids = {} /\ cache = [q \in Question |-> None] /\ updated = 0 /\ now = 0
    /\ query = [q \in Query |-> Idle]
    /\ asked = [q \in Query |-> {}] /\ channel = [q \in Query |-> <<>>]
    /\ served = [q \in Query |-> None]

Tick ==
    /\ now < setup.until /\ now' = now + 1
    /\ UNCHANGED <<setup, ids, cache, updated, query, asked, channel, served>>

\* ListenAndServe gives each query 5 seconds, which only fanout minds.
ListenAndServe(q) ==
    /\ query[q] = Idle
    /\ query' = [query EXCEPT ![q] = [Idle EXCEPT !.at = 1, !.name = Own(q)]]
    /\ UNCHANGED <<setup, ids, cache, updated, now, asked, channel, served>>

Deadline(q) ==
    /\ query[q].at = Len(chain) + 1 /\ ~ query[q].expired
    /\ query' = [query EXCEPT ![q].expired = TRUE]
    /\ UNCHANGED <<setup, ids, cache, updated, now, asked, channel, served>>

-----------------------------------------------------------------------------
(* Writers and the way through the chain.                                  *)

Calls(q, handler) == query[q].at \in DOMAIN chain /\ query[q].down /\ chain[query[q].at] = handler
Returns(q, handler) == query[q].at \in DOMAIN chain /\ ~ query[q].down /\ chain[query[q].at] = handler

\* Back to the handler that has still something to do.
Waiting == {"dnsconfigs", "searches", "noloop", "memory"}
Return(s) ==
    LET back == {i \in 1 .. s.at - 1 : chain[i] \in Waiting}
    IN  IF back = {} THEN [Idle EXCEPT !.down = FALSE, !.expired = s.expired, !.loop = s.loop, !.good = s.good]
        ELSE [s EXCEPT !.at = Max(back), !.down = FALSE]

\* next.Handler(ctx).ServeDNS: the handler behind the last one does nothing.
NextHandler(s) == IF s.at < Len(chain) THEN [s EXCEPT !.at = @ + 1] ELSE Return([s EXCEPT !.at = @ + 1])

Behind(handlers, p) == {i \in 1 .. p - 1 : chain[i] \in handlers}
Captured(p) == IF Behind({"searches", "dnsconfigs"}, p) = {} THEN "client" ELSE chain[Max(Behind({"searches", "dnsconfigs"}, p))]
Between(handler, p) == \E i \in Behind({handler}, p) : \A j \in Behind({"searches", "dnsconfigs"}, p) : i > j

\* responseWriterWrapper.WriteMsg of cache: only a success is kept.
Cached(s, m) ==
    IF Between("cache", s.at) /\ m.code # "fail"
    THEN [cache EXCEPT ![s.name] = [left |-> IF m.code = "ok" THEN m.ttl ELSE 0, ttl |-> m.ttl, at |-> now, of |-> m.of]]
    ELSE cache

\* rw.WriteMsg(m), for the handler at s.at: what the query remembers of it.
WriteMsg(s, m) ==
    LET t == IF Between("memory", s.at) THEN [s EXCEPT !.passed = TRUE] ELSE s
    IN  CASE Captured(s.at) = "searches" -> [t EXCEPT !.got = m]
          [] Captured(s.at) = "dnsconfigs" -> [t EXCEPT !.caught = m]
          [] OTHER -> t

Answer(q, m) == served' = IF Captured(query[q].at) = "client" THEN [served EXCEPT ![q] = m] ELSE served

\* A handler that writes and returns, with the writers in front of it at work.
Reply(q, s, m) ==
    /\ query' = [query EXCEPT ![q] = Return(WriteMsg(s, m))]
    /\ cache' = Cached(s, m)
    /\ Answer(q, m)

HandleFailed(q) == Reply(q, query[q], Failed) /\ UNCHANGED <<setup, ids, updated, now, asked, channel>>

Pass(q) ==
    /\ query' = [query EXCEPT ![q] = NextHandler(@)]
    /\ UNCHANGED <<setup, ids, cache, updated, now, asked, channel, served>>

Unwind(q) ==
    /\ query' = [query EXCEPT ![q] = Return(@)]
    /\ UNCHANGED <<setup, ids, cache, updated, now, asked, channel, served>>

-----------------------------------------------------------------------------
(* The handlers.                                                           *)

checkMsgHandler(q) == Calls(q, "checkmsg") /\ IF q.qtype = "nil" THEN HandleFailed(q) ELSE Pass(q)

norecursionDNSHandler(q) == Calls(q, "norecursion") /\ Pass(q)

\* The servers and search domains of all connections at this moment; later changes do
\* not reach the query.
dnsConfigsHandler(q) ==
    /\ Calls(q, "dnsconfigs")
    /\ query' = [query EXCEPT ![q] = NextHandler([@ EXCEPT !.servers = setup.servers, !.todo = setup.domains, !.caught = None])]
    /\ UNCHANGED <<setup, ids, cache, updated, now, asked, channel, served>>

\* Without any response over UDP, once more over TCP.
dnsConfigsReturns(q) ==
    /\ Returns(q, "dnsconfigs")
    /\ IF query[q].caught # None THEN Reply(q, query[q], query[q].caught)
       ELSE IF query[q].tcp THEN Reply(q, query[q], Failed)
       ELSE /\ query' = [query EXCEPT ![q] = NextHandler([@ EXCEPT !.tcp = TRUE, !.down = TRUE])]
            /\ UNCHANGED <<cache, served>>
    /\ UNCHANGED <<setup, ids, updated, now, asked, channel>>

searchDomainsHandler(q) ==
    /\ Calls(q, "searches")
    /\ query' = [query EXCEPT ![q] = NextHandler([@ EXCEPT !.name = Own(q), !.got = None])]
    /\ UNCHANGED <<setup, ids, cache, updated, now, asked, channel, served>>

\* The next search domain, until one of the names has an answer.
searchDomainsReturns(q) ==
    /\ Returns(q, "searches")
    /\ LET s == [query[q] EXCEPT !.name = Own(q)] IN
          IF s.got # None /\ s.got.code # "fail" THEN Reply(q, s, s.got)
          ELSE IF s.todo = <<>> THEN Reply(q, s, Failed)
          ELSE /\ query' = [query EXCEPT ![q] = NextHandler([s EXCEPT !.name = <<q.name, Head(s.todo), q.qtype>>, !.todo = Tail(@), !.got = None, !.down = TRUE])]
               /\ UNCHANGED <<cache, served>>
    /\ UNCHANGED <<setup, ids, updated, now, asked, channel>>

noloopDNSHandler(q) ==
    /\ Calls(q, "noloop")
    /\ IF q.id \in ids
       THEN /\ Reply(q, [query[q] EXCEPT !.loop = TRUE], Failed) /\ UNCHANGED ids
       ELSE /\ ids' = ids \cup {q.id}
            /\ query' = [query EXCEPT ![q] = NextHandler(@)]
            /\ UNCHANGED <<cache, served>>
    /\ UNCHANGED <<setup, updated, now, asked, channel>>

noloopReturns(q) ==
    /\ Returns(q, "noloop")
    /\ ids' = ids \ {q.id}
    /\ query' = [query EXCEPT ![q] = Return(@)]
    /\ UNCHANGED <<setup, cache, updated, now, asked, channel, served>>

\* A bug: nothing grows old.
updateTTL_Never == cache

\* What is left of every answer, in whole seconds: the rest of the time since the
\* last update is forgotten.
updateTTL ==
    LET diff == (now - updated) \div Ticks
    IN  [k \in Question |-> IF cache[k] = None THEN None
                            ELSE [cache[k] EXCEPT !.left = IF @ < diff THEN 0 ELSE @ - diff]]

validateMsg(entry) == entry.left > 0

dnsCacheHandler(q) ==
    /\ Calls(q, "cache")
    /\ LET s == query[q]  entry == updateTTL[s.name] IN
          IF entry # None /\ validateMsg(entry)
          THEN LET m == [code |-> "ok", ttl |-> entry.ttl, age |-> now - entry.at, of |-> entry.of] IN
               /\ query' = [query EXCEPT ![q] = Return(WriteMsg(s, m))]
               /\ cache' = updateTTL
               /\ Answer(q, m)
          ELSE /\ query' = [query EXCEPT ![q] = NextHandler(s)]
               /\ cache' = [updateTTL EXCEPT ![s.name] = None]
               /\ UNCHANGED served
    /\ updated' = IF (now - updated) \div Ticks = 0 THEN updated ELSE now
    /\ UNCHANGED <<setup, ids, now, asked, channel>>

a(name) == IF name \in DOMAIN records THEN records[name] \cap V4 ELSE {}
aaaa(name) == IF name \in DOMAIN records THEN records[name] \ V4 ELSE {}
ptr(address) == {n \in DOMAIN records : address \in records[n]}

Answers(q) == CASE q.qtype = "A" -> a(q.name) [] q.qtype = "AAAA" -> aaaa(q.name) [] q.qtype = "PTR" -> ptr(q.name) [] OTHER -> {}

memoryHandler(q) ==
    /\ Calls(q, "memory")
    /\ IF Answers(q) # {} THEN Reply(q, query[q], Success("ok", 3600, query[q].name))
       ELSE IF q.name \in DOMAIN records THEN Reply(q, query[q], Success("empty", 0, query[q].name))
       ELSE /\ query' = [query EXCEPT ![q] = NextHandler([@ EXCEPT !.passed = FALSE])]
            /\ UNCHANGED <<cache, served>>
    /\ UNCHANGED <<setup, ids, updated, now, asked, channel>>

\* Something must be written: if nobody behind has, this handler does.
memoryReturns(q) ==
    /\ Returns(q, "memory")
    /\ IF query[q].passed THEN Unwind(q) ELSE HandleFailed(q)

fanoutHandler(q) ==
    /\ Calls(q, "fanout") /\ asked[q] = {} /\ channel[q] = <<>>
    /\ IF query[q].servers = {} THEN HandleFailed(q)
       ELSE /\ asked' = [asked EXCEPT ![q] = query[q].servers]
            /\ query' = [query EXCEPT ![q].at = Len(chain) + 1]
            /\ UNCHANGED <<setup, ids, cache, updated, now, channel, served>>

\* A goroutine of fanout has its response; an exchange that failed counts like a bad
\* response code, a success without records like one of time to live 0.
Exchange(q, s) ==
    /\ query[q].at = Len(chain) + 1
    /\ asked' = [asked EXCEPT ![q] = @ \ {s}]
    /\ \E m \in Answered(query[q].name) :
          /\ channel' = [channel EXCEPT ![q] = Append(@, m)]
          /\ query' = [query EXCEPT ![q].good = @ \/ m # Failed]
    /\ UNCHANGED <<setup, ids, cache, updated, now, served>>

\* The first success, or nothing when all have answered or the time is over.
waitResponse(q) ==
    LET good == {i \in DOMAIN channel[q] : channel[q][i] # Failed}
    IN  IF good = {} THEN None ELSE channel[q][Min(good)]

FanoutReturns(q, m) ==
    LET s == [query[q] EXCEPT !.at = Len(chain)] IN
    /\ query' = [query EXCEPT ![q] = Return(WriteMsg(s, m))]
    /\ cache' = Cached(s, m)
    /\ served' = IF Captured(Len(chain)) = "client" THEN [served EXCEPT ![q] = m] ELSE served
    /\ asked' = [asked EXCEPT ![q] = {}] /\ channel' = [channel EXCEPT ![q] = <<>>]
    /\ UNCHANGED <<setup, ids, updated, now>>

fanoutAnswers(q) ==
    /\ query[q].at = Len(chain) + 1 /\ waitResponse(q) # None
    /\ FanoutReturns(q, waitResponse(q))

\* A bug: the deadline of the query is not looked at.
fanoutFails_Waits(q) ==
    /\ query[q].at = Len(chain) + 1
    /\ asked[q] = {} /\ waitResponse(q) = None
    /\ FanoutReturns(q, Failed)

fanoutFails(q) ==
    /\ query[q].at = Len(chain) + 1
    /\ query[q].expired \/ (asked[q] = {} /\ waitResponse(q) = None)
    /\ FanoutReturns(q, Failed)

\* The original handler of adapt, and the exchange of connect, are external.
adaptedHandler(q) ==
    /\ Calls(q, "adapt")
    /\ \E m \in Answered(query[q].name) : Reply(q, query[q], m)
       \/ Unwind(q)
    /\ UNCHANGED <<setup, ids, updated, now, asked, channel>>

connectDNSHandler(q) ==
    /\ Calls(q, "connect")
    /\ \E m \in Answered(query[q].name) : Reply(q, query[q], m)
    /\ UNCHANGED <<setup, ids, updated, now, asked, channel>>

Handler(q) ==
    \/ checkMsgHandler(q) \/ norecursionDNSHandler(q) \/ dnsConfigsHandler(q) \/ dnsConfigsReturns(q)
    \/ searchDomainsHandler(q) \/ searchDomainsReturns(q) \/ noloopDNSHandler(q) \/ noloopReturns(q)
    \/ dnsCacheHandler(q) \/ memoryHandler(q) \/ memoryReturns(q)
    \/ fanoutHandler(q) \/ fanoutAnswers(q) \/ fanoutFails(q)
    \/ adaptedHandler(q) \/ connectDNSHandler(q)

Serve == \E q \in setup.queries : Deadline(q) \/ Handler(q)

DnsNext ==
    \/ Tick \/ Serve
    \/ \E q \in setup.queries : ListenAndServe(q) \/ \E s \in asked[q] : Exchange(q, s)

-----------------------------------------------------------------------------
InNoloop(q) ==
    /\ query[q].at # 0 /\ Contains(chain, "noloop")
    /\ \E p \in DOMAIN chain : chain[p] = "noloop" /\ (query[q].at > p \/ (query[q].at = p /\ ~ query[q].down))

\* Every query that ends has an answer, and a failure is the truth: no server has given a good
\* answer to any of the names that were tried and memory does not know the name,
\* unless the time was over, or another query with the same id was under way.
FailureIsReal ==
    /\ \A q \in Query : query[q].at = 0 /\ ~ query[q].down => served[q] # None
    /\ \A q \in Query : served[q] = Failed /\ q.qtype # "nil" =>
          \/ query[q].expired \/ query[q].loop
          \/ ~ query[q].good /\ (Contains(chain, "memory") => q.name \notin DOMAIN records)

\* An answer has records of the name that the query asks for, with one of the search
\* domains or none, and of its type.
OwnAnswer ==
    \A q \in Query : served[q] # None /\ served[q].code # "fail" =>
        served[q].of[1] = q.name /\ served[q].of[3] = q.qtype

\* An answer from the cache is younger than twice its time to live, less a second: every
\* look at the cache takes whole seconds off and forgets the rest of the time that has passed.
CacheIsFresh ==
    \A q \in Query : served[q] # None /\ served[q].code # "fail" =>
        served[q].age < (2 * served[q].ttl - 1) * Ticks \/ served[q].age = 0

\* An id is blocked by noloop only as long as a query with it is in there.
IdsAreFreed == \A i \in ids : \E q \in Query : q.id = i /\ InNoloop(q)
=============================================================================
