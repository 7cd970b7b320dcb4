# A TLA+ model of the Network Service Mesh SDK

This directory specifies, model-checks and proves properties of the SDK in `src/`: the elements
that chains of network service clients and servers, and of registry clients and servers, are made
of. `PROJECT.json` is its machine-readable index: components, runs, the source lines that each
definition models (`map`), the mutants that show that a property can fail, hazards, findings and
theorems.

## 1. The system

A *chain* is a list of elements. Each element handles `Request` and `Close` (in the registry
`Register`, `Unregister` and `Find`), does its own part and calls the next element. Applications
(network service managers, forwarders, endpoints, registries) are chains, put together in
`pkg/networkservice/chains` and `pkg/registry/chains`, that call each other over gRPC. What makes
them hard to test is that elements keep state per connection, start goroutines and timers, and fire
*events* that run the chain again from its beginning while calls of users are under way.

### Inventory

| component | state | operations | hard behaviour | what makes it correct |
|---|---|---|---|---|
| begin (network service, registry) | map Connection.Id or name -> event factory; per factory an executor (FIFO), last request and response, connection state | Request, Close, Register, Unregister; Request/Close events of other elements with a CancelContext | calls wait in the executor of a factory that is replaced meanwhile, and are made again from inside it; late events; failure of one step | one event at a time per id; Close with the last connection; nothing held is forgotten; no circular wait |
| metadata | map per Connection.Id, from the first Request to Close | load, store, delete | deleted before the Close goes down the chain | values of one session never reach the next |
| timeout | cancel function of the current timer (metadata) | Request arms, Close cancels, timer fires a Close event | timer races with refresh and Close; Close with a context error keeps the timer | an abandoned connection is closed, a live one is not |
| refresh, upstreamrefresh, registry refresh | timer goroutine per connection | Request/Register starts it, Close stops it, timer fires a Request event | as timeout; failed refreshes | a connection in use does not expire |
| heal | event loop with a `healingStartedCh` per connection (metadata) | Request replaces the loop, Close cancels it, a loss makes it fire Requests | Request waits for the loop it has cancelled; loop wins or loses the race to heal | a held connection is watched or being healed, by one loop; a loss is repaired |
| monitor | `connections`, `filters`, executors, an event loop per connection | Request, Close, `MonitorConnections`, `Send` | initial transfer against events; loop cancelled before its `Send`; dead streams | a watcher sees each event once and in order, and learns the final state |
| dial, connect, clienturl, clientconn (both worlds) | dialer: URL and gRPC connection; goroutine that closes it | Request/Register redials on a changed URL, Close, Find | asynchronous close of the old connection; failed dials and calls half-way | no leaked gRPC connection, none closed under its call, servers that were left are told |
| cleanup | counter, goroutine per Request, `doneCh` | Request, Close, end of the chain context | the end of the context races with Requests and Closes | all connections are closed once; the end is announced |
| onidle | set of active connections, timer, `timerFired` | Request, Close, timer function | the timer function waits for the mutex while connections come and go | never expires under a connection; does when idle |
| registry memory | map of registrations, executor, a bounded channel per watching Find | Register, Unregister, Find | map and events are not updated together; a full channel blocks the executor | watchers end up with what the map holds; nobody blocks for ever |
| registry expire, setregistrationtime | goroutine per endpoint, first registration time (metadata) | Register, Unregister, timer | timers against refreshes; several sources of the expiration time | what has expired is removed, nothing earlier |
| querycache | entry per name with expiry, goroutine that watches | Find, `storeInCache`, cleanup | concurrent Finds, a stream that ends after its name was stored anew | one watcher per entry, and the entry is what the registry holds |
| registry heal, retry (both worlds), registry refresh | stream and goroutine per name, map of cancel functions, timers | Register, Unregister, Find, events through begin | the registry crashes and returns empty | what is wanted is registered again, by one goroutine, and then all is quiet |
| streams: adapters, streamchannel, eventchannel, combined monitor | bounded channels, subscriber lists, merged initial events | Find, MonitorConnections | readers that leave, writers that run ahead, one of several servers that returns | nothing lost or out of order; cancelled calls return |
| netsvcmonitor, upstreamrefresh | goroutine or event loop per connection, notifier | Request, Close, events | event against replacement; loops that tell each other | at most one goroutine per open connection, the one that Close cancels; a mismatch is closed while it watches |
| discover, discoverforwarder, roundrobin | forwarder name (metadata, path), counters | Request, Close | candidates that fail or go; restart of the manager | the forwarder is kept, every candidate is tried |
| updatepath, updatetoken, trimpath, grpcmetadata | the path of a request | Request, Close, Register | old segments, changed routes, failures half-way | a path is the route, with stable ids and fresh tokens |
| authorize (both worlds) | connections by identity, ids by name | Request, Close, Register, Unregister, MonitorConnections | failures and overlaps between the steps on the maps | a client watches just its own; a name stays with its owner |
| core/next, adapters, chains | context with the next element | all | nesting of chains, adapters and connect | every element once, in order, with what it needs |
| ippool, prefixpool | red-black tree of ranges; tree of prefixes | add, exclude, allocate, release | splits and joins, last address of a word | exactly what is left, nothing twice |
| ipam, vl3, vl3ipam, vni, vlan | pools and what each connection has | Request, Close, Reset, ManagePrefixes | failed and repeated Requests, prefixes that change | nothing is shared; peers learn the new prefix |
| recvfd, sendfd | descriptors by inode and connection | Request, Close, Find | failures with some descriptors received | each descriptor is closed once, by its owner |
| dnsutils handlers | cache, ids under way, records | ServeDNS | several servers that refuse or do not answer, deadlines | right answers, one for every query |
| dnscontext, vl3dns | records, configs, resolv.conf | Request, Close, start | crashes between writes of resolv.conf; failed Requests | names follow connections, the original file survives |
| begin merge, mechanisms, switches by configuration file, small elements, tools | little or none | - | - | see section 7 |

*Interactions.* A call of a network service passes **updatepath** and enters the chain at **begin**,
which serialises it with the others of the same connection. In a registry server **grpcmetadata**,
**updatepath** and **authorize** come before begin, so that calls of one name may cross in them, and
the chains for network services of the manager and of the memory registry have no begin around them
(`nsmgr/server.go:254`, `memory/server.go:184`). Elements behind begin find the event factory in the
context of their call and fire Requests (refresh, heal) or Closes (timeout, cleanup) through it,
later and from goroutines of their own. Elements share state of a connection only in the
**metadata**. **monitor** of one application feeds **heal** and **monitor** of the previous one;
**clienturl** chosen by discover and roundrobin is what **dial** connects to.

The hazards in `PROJECT.json` list where this can go wrong, at which line, and which property
would notice.

## 2. Modules

The source's names are kept. A variable that chooses a variant of the code and never changes
(`element`, `kind`, `side`, `midchain`, `inTime`) is set in `Init`, so that one run covers all
variants and a property can speak about one of them. Payloads are abstracted to what the properties
tell apart; a connection of begin, for instance, is the number of the Request that produced it.

| module | models | checked by |
|---|---|---|
| `Begin` | what all begin elements share: the map, `LoadOrStore`, executors, recalls, events and `CancelContext`, and the rest of the chain as begin sees it; one Connection.Id, since entries share nothing | `MCBegin` |
| `BeginServer`, `BeginClient` | `common/begin/server.go`, `client.go`, `event_factory.go`, one action for each step between two points where others can run | `MCBegin` |
| `BeginRegistry` | the four elements of `registry/common/begin` | `MCBegin` |
| `BeginTimeout` | begin, metadata and `common/timeout` composed; refines `BeginServer` | `BeginTimeout` |
| `Monitor` | `common/monitor` in a passthrough server: any connections, watchers, selectors | `MCMonitor` |
| `Heal` | `common/heal` with the begin factory it fires through | `MCMonitor` |
| `OnIdle`, `Cleanup`, `RegistryMemory` | `common/onidle`, `common/cleanup`, `registry/common/memory` (both registries) | `MCElements` |
| `Refresh`, `Expire`, `NetSvcMonitor`, `UpstreamRefresh` | the elements that start a goroutine per connection or registration, each under begin | `MCTimers` |
| `Dial` | dial, connect, clienturl and clientconn of network services and of both registries | `MCCalls` |
| `Dns` | the handlers of `tools/dnsutils` in the chains of `dnscontext` and of the vl3 endpoint | `MCCalls` |
| `Pools` | `tools/ippool` (a red-black tree of ranges) and `tools/prefixpool` (lists of prefixes) | `MCAllocators` |
| `IPAM`, `VL3`, `VNI` | point2point and singlepoint ipam, alone or behind strictipam; the vl3 server and client, its IPAM and the server of prefixes; vxlan VNIs and VLANs | `MCAllocators` |
| `FDs`, `DnsContext` | sendfd and recvfd of connections and endpoints; vl3dns and dnscontext | `MCAllocators` |
| `Next` | `core/next`, adapters, connect, switchcase; the chains of the repository as values that `Next` walks | `MCChains` |
| `Paths`, `Discover`, `Authorize` | updatepath, updatetoken, trimpath and grpcmetadata; discover, discoverforwarder, roundrobin and matchutils; authorize of connections, registrations and monitor streams | `MCChains` |
| `FindStream`, `MonitorStreams` | the adapters of Find and of monitor streams; `core/eventchannel` and `combineMonitorServer` | `MCStreams` |
| `QueryCache`, `RegistryClient` | querycache; the loops of the three retry clients, and the registry client begin - retry - heal - refresh against a registry that crashes | `MCStreams` |
| `BeginProofs`, `MonitorProofs`, `ElementsProofs`, `TimersProofs`, `DialProofs`, `StreamsProofs`, `AllocatorsProofs`, `ChainsProofs` | theorems | TLAPS, section 5 |

A module `MC...` puts several parts, of which the initial state chooses one, into one run; the
variables of the others do not move then (or are 0). Nothing is shared between the parts, so this is
the same as a run for each; parts that do interact are composed within a module (`BeginTimeout`;
`Heal`, `Refresh`, `Expire`, `NetSvcMonitor`, `UpstreamRefresh` and `RegistryClient` with begin;
`Discover` with manager, forwarder and registry; the chains of `Next` with all).

**How the state corresponds.** In `Begin`, `entry` is the value the `genericsync.Map` holds, a
factory is the number of its creation, `queue[f]` is the queue of its `serialize.Executor` with the
running function at its head, and `phase[f]` says whether that function is inside the chain (and in
which of its calls), in a nested call (`recall`) or has not started. `held` is what the elements
behind begin hold. How these treat Close events is the variable `midchain`: `"orderly"` elements
cancel the CancelContext of the Close events of a session that has ended, `"careless"` ones may
not. `BeginTimeout` replaces this abstract rest of the chain by metadata and timeout, with the
goroutine of each timer as an event. In the other modules that have begin in front, `queue` holds
the calls and events that begin has taken and `run` the one in the chain; an event whose
CancelContext is done is skipped when its turn comes, as in `event_factory.go`. The registry part of
`Authorize` is the exception: its client's calls come one at a time, and a peer's may be in the server
at the same time, between any two of its steps on the map.

In `Monitor`, `queue` is the executor of the server and `fqueue[w]` that of the filter of watcher
`w`; `late` counts the event loops that were cancelled between looking at their context and `Send`.
In `RegistryMemory`, `unsent` holds events of calls that have changed the map and not yet reached
the executor, and `out` is what the running function has still to write to channels. In `Dial`,
`conns` keeps all gRPC connections ever dialled, each open, cancelled (its goroutine will close it)
or closed; `held` and `lost` are history variables about servers.

`Pools` represents the pointers of the red-black tree by paths from the root, so a rotation moves a
subtree, and 64-bit words by words of `Width` bits with the same wrapping arithmetic. `Refresh` and
`Expire` have a clock that moves only when nobody has anything to do; that of `Dns` moves at any
time, in `Ticks` parts of a second, because the cache takes whole seconds off and forgets the rest.
In `DnsContext` a write of `resolv.conf` is two steps, `WriteFile` that truncates it and `Write`. In
`UpstreamRefresh` the executor of the notifier is a queue of functions, and a loop waits for it
before it listens. In `MonitorStreams` the Sends of the servers of a combined monitor, which lock
nothing, are taken one at a time on the stream they share (gRPC does not allow two at once). `Next`
keeps the call stack and the two keys of the context (next server, next client) as a linked
structure; an element of a chain is reduced to what it demands of the context and what it puts
there. `FDs` uses descriptor numbers again once closed, so that closing twice closes somebody
else's.

**History variables.** Where the code knowingly or unknowingly gives a promise up, a variable
records it, and the property says what is true then. Each is explained in section 6 with the line
that causes it.

| variable | module | records |
|---|---|---|
| `unclosed` | `BeginTimeout` | a connection whose timer's own Close event ended with a context error |
| `unwatched` | `NetSvcMonitor` | a failed Request, an expired path or a dropped event |
| `lost` | `Dial`, `Discover`, `Authorize` | a Close that could not get through |
| `forgotten` | `Pools` | networks of a record that another one replaced |
| `stale`, `twice` | `IPAM` | entries that outlived their addresses, and what they freed again |
| `broken`, `orphans`, `strays` | `FDs` | connections of which a refresh failed; descriptors that a goroutine will close, or nobody |
| `lost`, `ownIPs` | `DnsContext` | names dropped by a failed Request; addresses the DNS server has had |
| `torn` | `DnsContext` | a crash in the middle of a write |
| `others` | `Discover` | turns of the counter by other Requests |
| `forgotten`, `disturbed` | `Authorize` | entries deleted with a failed Request; identities whose calls overlapped with no connection that stayed |
| `alone`, `loose`, `unsure`, `taken` | `Authorize` | registry calls that no other crossed; maps that may not fit the registry; a name that went to another id |
| `ended` | `Paths` | the segments of the path that the last good Close has ended |
| `unsent` | `MonitorStreams` | servers of which a Send failed, and whether the merged event's did |
| `missed` | `QueryCache` | an event between an answer and its watch |
| `gaveUp`, `blind` | `RegistryClient` | a retry that gave up; a name lost between Register and its watch |

**Abstract and detailed.** `BeginTimeout` is shown to implement `BeginServer` (`ImplementsBegin`):
`ctx` is mapped to the contexts of timers that have fired, and `midchain` to `orderly` exactly if no
Close, of a call, an event or a reselection, ends with a context error. So timeout is an orderly
midchain element in that case, and a careless one otherwise, which is what the begin theorems assume
and what the violated run shows. The refinement is checked by TLC and proved by TLAPS
(`TimeoutImplementsBegin`). The two pools of `Pools` are compared with the plain sets they stand for
(`addrs`, `Initial`); `IPAM` and `VL3` then use such sets.

## 3. Runs

`tlc -workers 2 -config <cfg> <module>` repeats a run.

| run | module / cfg | checks |
|---|---|---|
| `begin` | `MCBegin` | `Exclusivity`, `NoLeak`, `ClientCloseCorrectness` (with the Unregister calls of the registry), `WaitsForYounger`, `EvictedByOwner`, `UnregisterTakesEffect` on all six elements with orderly midchain elements; deadlock |
| `begin_timeout` | `BeginTimeout` | refinement `ImplementsBegin`; `LiveTimerIsCurrent`; liveness `AbandonedIsClosed`; deadlock |
| `monitor_heal` | `MCMonitor` | monitor: `ViewsAgree`, liveness `StreamsSettle`; heal: `WatchedByOneLoop`, liveness `LossIsRepaired` |
| `elements` | `MCElements` | onidle: `ExpiredIsEmpty`, `IdleIsTimed`; cleanup: `HeldHasRoutine`, liveness `AllCleaned`; memory registries: `WatchersLearn`, liveness `ExecutorGoesOn` |
| `timers` | `MCTimers` | `OneGoroutine` (exactly one of refresh; at most one of netsvcmonitor and upstreamrefresh, with the cases in which the first has none), `InTime` (refresh, expire), liveness `MismatchIsClosed` (netsvcmonitor, and Requests of upstreamrefresh return) |
| `calls` | `MCCalls` | dial: `DialIsSafe`, liveness `AllConnsClose`; DNS: `AnswersAreRight`, liveness `EveryQueryIsAnswered` |
| `allocators` | `MCAllocators` | `PoolsAreExact`, `NothingIsShared`, `PeersLearnPrefix`, `FilesAreOwned`, `NamesFollowConnections` |
| `chains` | `MCChains` | `CallsTakeTheChain`, `PathIsRoute`, `IdsAreKept`, `ForwarderIsKept`, `AllCandidatesAreTried`, `AuthorizationFits` |
| `streams` | `MCStreams` | `NothingIsLost`, liveness `StreamsEnd`, `HealedAndQuiet` |

Three runs show where the code does not do what its documentation says, each with one property that
TLC refutes:

| run | property | what happens |
|---|---|---|
| `begin_timeout_exclusivity` | `Exclusivity` | a Close that ended with a context error leaves its timer running; when it fires, the old factory is in the chain next to a new one |
| `upstreamrefresh_notify` | `AllConnectionsRefresh` | `Notify` sends on an unbuffered channel from inside its executor to a connection that has subscribed and does not listen, for ever |
| `ippool_prefixes` | `PrefixesArePool` | `getPrefixes` wraps at the last address of a word and returns networks that are not in the pool |

### Bounds

All bounds are constants with names, or set in the MC module.

* `begin`, `begin_timeout`: three calls, two events, four factories. A call can find a factory,
  which a second call closes, while a third stores the next one, so the first is stale and is made
  again; an event can belong to any of them. No reachable state of `begin` has a call that
  wants to store a fifth factory. In `begin_timeout` the two events are two timers: two Requests can
  succeed, a third can only fail. Calls and events are symmetric in `begin`, which has no liveness.
* `monitor_heal`: two connections, of which the watcher selects one, so that events that do not
  concern it occur; three calls and one event of the next hop on the selected connection and one
  call on the other, of which any four (`MaxSteps`). Heal has three loops at a time, three Requests
  of callers and three losses: a loop can heal while a refresh starts another, which is lost too.
  Numbers of ended loops are used again. A loss may be one of the control plane, one of the data
  plane or a stream that ends with `codes.Canceled`.
* `elements`: two connections; four idle periods, so that a function of an old period can meet a
  new one; two Requests per connection, the first one and a refresh. Memory: two names, of which
  `n1` is the one registered first, two watchers, two calls and channels of size 1, so each channel
  is full at once and one watcher can block the executor while the other waits.
* `timers`: two segments with different lifetimes and seven units of time for refresh; offers of an
  expiration time from none, one and two sources, three calls and seven units of time for expire; two
  endpoints, three calls and two changes of the service or failures of a stream, and a path that may
  expire at any time (netsvcmonitor); two connections and one event upstream, in
  `upstreamrefresh_notify` two, with streams that may fail (upstreamrefresh).
* `calls`: two URLs and three calls, enough to connect, go elsewhere and come back or close. DNS: ten
  setups of a chain, clients (also with the same id) and kinds of queries, up to two servers and a
  search domain. Answers live for two seconds of four parts (`Ticks`), so that two looks a quarter of
  a second apart take a whole second off or nothing. The clock of a setup runs until its last number:
  half a second where another question is asked, three seconds for three queries of one name through
  `<<"cache", "connect">>`, in which an answer is stored, updated and given out again at its latest.
* `allocators`: words of two bits, that is 16 addresses, with nine networks to add or exclude in any
  order: trees reach six ranges, and all cases of insertion and deletion occur. 16 addresses and
  two connections for prefixes; networks of three and of two addresses and three exclusions for ipam;
  three prefixes and two resets for vl3; two sources and two numbers for VNIs. Two files, four
  descriptors and four calls; three connections and five calls for vl3dns, whose DNS server has two
  addresses, one after the other; three crashes, between writes and in the middle of one, and three
  contents of resolv.conf.
* `chains`: every chain of the repository with the options that change its elements, all operations,
  and all nestings up to depth three. Four routes and four calls; two forwarders, two endpoints,
  three lists of matches, three calls and one change; three connections of one or two identities, four
  calls, two at a time of one identity (`MaxOpen`): one overlap, with or without a third connection
  that stays; two ids, the calls of the client and of a peer in the server at the same time, and six
  registrations, so that after two that crossed a call and its successor set the maps right.
* `streams`: channels of size two and up to three answers (one more than fits); two monitor servers
  and two updates, and Sends that fail; two subscribers with channels of size one; two concurrent
  Finds, two entries and two changes; three attempts; two crashes, three calls and a timer.

`begin`, `begin_timeout` and `chains` check deadlock; a state in which all calls have returned
stutters explicitly. In the others `CHECK_DEADLOCK FALSE` stands for the end of the bounded calls:
a server to which nobody speaks is quiet, and that is no error. That they do not stop too early is
the subject of their liveness properties.

### Fairness

Weak fairness is assumed of what the Go runtime schedules: goroutines, executors, timers (tokens do
expire) and calls of the rest of the chain, which return because every call has a context with a
deadline. It is never assumed of callers, losses, failures, DNS servers that could answer, or the
end of a context, of failures of a Send or of the expiry of a path; only the context of a DNS query
does end, since `ListenAndServe` gives it five seconds. A registry that has crashed comes back
(`Restart`), without which nothing could be healed. Strong fairness is used in three places:

* `Heal`, `EventStep` (the event that a loop has queued at begin gets its turn): the executor is
  FIFO, so an event cannot be overtaken for ever, although the model lets callers in between.
* `Heal`, `RequestSucceeds`: the loop repeats its Request; `LossIsRepaired` says that healing ends
  *if* repeated Requests do not fail for ever, which is a condition on the network.
* `Cleanup`, `RoutineStep`: a goroutine that waits for a connection to leave the executor of begin
  is enabled again and again, and the executor is FIFO.

## 4. What is only model-checked

* Liveness under fairness, which is out of the prover's reach.
* What a definition that recurs over data computes for every input: that the red-black tree of the
  IP pool holds its addresses and the prefix pool its networks (`PoolsAreExact`), and that `Next`
  walks a chain of any shape (`CallsTakeTheChain`). Their proofs would be inductions over trees,
  lists of prefixes and nested chains. TLC checks them for the instances above; the orders that a
  chain allows are unfolded `MaxDepth` = 20 times, and no chain of the repository is nested deeper.
* That the code does not do what is said of it: the properties of the three violated runs.

Every other invariant and action property of the runs that pass is proved.

## 5. What is proved

TLAPS checks the theorems for all values of the constants: any number of calls, events, factories,
connections, watchers, URLs, names, servers and subscribers, and any bounds on steps. The
assumptions are the named `ASSUME`s of the modules, which TLC evaluates in the runs: bounds are
natural numbers and channels have room (`MaxFactoryAssumption`, `OnIdleAssumption`,
`HealAssumption`, `DialAssumption`, `MonitorAssumption`, `ElementsAssumption`, `TimersAssumption`,
`StreamsAssumption`), numbers and addresses are positive and networks disjoint
(`AllocatorsAssumption`), names, chains and routes are what an application has to give
(`NamesAssumption`, `DnsAssumption`, `ChainsAssumption`, `RoutesAssumption`; these four and the
previous one are discussed below), calls are not events (`DisjointTasks`), selectors select
connections, the names of the registry are finitely many, tokens and offered times are in the future
when they are issued, and the values for "nothing" (`None`, `NoURL`) are not something else
(`NoneIsNoTimer`).

A theorem about the specification of an MC module holds for each part the initial state can choose.
The proofs have one form: the inductive invariant of a part says what is true between any two steps of
its goroutines, lemmas show that it holds initially and that every action keeps it, and the theorem
combines them with the fact that the invariant implies the property.

### `BeginProofs`: begin and timeout

*The server alone.* `TypeCorrect` is `Spec => []TypeOK`. `NoCircularWait` is
`Spec => []WaitsForYounger`, whatever midchain elements do. The invariant alone is not inductive:
that a recalled Request lands on a younger factory needs that the map holds the youngest factory
(`YoungestInMap`), that only stored factories have work (`WorkOfCreated`) and that a factory in a
recall is no longer in the map (`RecallIsStale`). `MutualExclusion`, `NothingLeaks` and
`OnlyOwnerEvicts` state `Exclusivity`, `NoLeak` and `EvictedByOwner` for
`Spec /\ MidchainOrderly`. Their invariant `SessionInv` says that a factory in the chain is the
map's (`ActiveInMap`), that a closed factory has no live Close event (`NoLateClose`), that Request
events run in established factories (`EventRequestEstablished`), that an event is in the queue of
its factory (`EventsInPlace`), and that what is held belongs to an established factory
(`HeldIsEstablished`). Without `NoLateClose` an event of an old session could re-enter the chain;
this is where the proviso is used.

*All six elements.* `AllExclusive`, `AllKeepTrack`, `AllWaitForYounger`, `CloseIsCorrect`,
`AllEvictThemselves` and `UnregisterIsDone` state the six safety and action properties of the run
`begin` for `MCSpec`, that is for the server, the client and the four elements of the registry. The
invariant is `AllInv`: the two invariants above, and for the elements other than the server

* `ElementInv`: an established factory keeps what the chain last returned, in the elements that
  clone it (`KeepsLast`), the factory of the map is not closed (`CurrentIsOpen`), one that was never
  established has no connection (`ZeroIsEmpty`), and the client and a reselection close established
  connections only (`ClosesEstablished`);
* `CallsInv`: a call in a queue was looked up for that factory (`CallsInPlace`) and is there once
  (`QueuedOnce`), and the phase of an executor fits the task at the head of its queue
  (`PhaseFits`). `UnregisterTakesEffect` needs these: when the call returns, the executor
  that ran it is that of the factory the call found.

The steps of the client and of the registry elements are first shown to be steps of one kind of
element (`ElementStep`), for which the invariants are proved once.

*With timeout.* `TimersAreCurrent` (`LiveTimerIsCurrent`) and `TimeoutImplementsBegin`
(`ImplementsBegin`) are about `TimeoutSpec`. `TimerInv` says that an event belongs to a timer that
has fired (`FiredByTimer`) and, if no Close ends with a context error, that the timer in the metadata
is that of the map's factory, which is established (`StoredIsCurrent`), and every other one is cancelled
(`OthersCancelled`). The refinement is proved step by step: `ChainInit` for the initial states, one
lemma per kind of action under `ChainStep`, where a step of timeout alone is a stuttering step or an
event of the abstract midchain. `ExclusiveInTime` combines the two: with timeout in the chain,
`Exclusivity` holds as long as no Close ends with a context error. That proviso is necessary, as the
run `begin_timeout_exclusivity` shows.

### `MonitorProofs`: monitor and heal

`TypeCorrect` and `StreamsAgree` (`ViewsAgree`), inductive with `NewIsUnfiltered`: a watcher that
has not called has no filter and an empty queue. The lemmas say what appending to and taking from a
filter's queue does to the last event about a connection.

`HeldIsWatched` is `WatchedByOneLoop` of heal. A Request takes the handle of the event loop out of
the metadata, works, and stores a new one, while the old loop may report a loss: so `HealInv` says in
addition that a Request in the chain has taken the handle and only an established connection is held
(`TakenByRequest`), that a connection held while a
Request runs has its old loop in the hands of that Request or is being healed (`HeldInRequest`), and
that only loops that heal have fired an event (`FiredByHealing`). A loop whose stream ended with
`codes.Canceled` is `"closed"`, and its connection is excepted until the next Request.

### `ElementsProofs`: onidle, cleanup, registry memory

`TypeCorrect`, `NeverExpiresUnderConnection` (`ExpiredIsEmpty`) and `IdleServerIsTimed`
(`IdleIsTimed`) are about onidle.

`HeldIsCleaned` (`HeldHasRoutine`): `CleanupInv` numbers the goroutines by the Requests that start
them. One that has not come back has started none (`StartedByReturn`), the one in the metadata goes
on (`StoredGoesOn`), all others that go on are cancelled (`OthersAreCancelled`), and a connection
that is held has one stored (`HeldIsStored`).

`WatchersAreTold` (`WatchersLearn`): an update passes from the map over a call that has not yet
reached the executor, its queue, the running function and a channel to the watcher. `MemInv` says of
every place that the last value there is the map's: `UnsentIsCurrent`, `WaitingIsCurrent`, and
`WatchersLearn` itself for the last two; the executor writes only to known channels
(`WritesToChannels`), and a watcher it does not know yet has been sent nothing (`NewKnowsNothing`,
`NewIsUnknown`).

### `TimersProofs`: goroutines with timers

`OneGoroutineEach` (`OneGoroutine`) and `TimersAreInTime` (the action property `InTime`).

* refresh: `RefreshInv` says that a goroutine that lives is the one in the metadata or cancelled
  (`LiveIsStored`), that events in begin's queue belong to goroutines (`EventsHaveRoutines`) and that
  an open connection has its refresh in a timer, in the queue or running (`OpenIsRefreshed`);
  `RefreshClock`, that the timer is due before a token expires.
* expire: `ExpireInv` says that what a call offers is not past while it waits (`OpsAreSound`), that
  an armed timer is stored or cancelled (`ArmedIsStored`), and that a registered endpoint has a timer
  for its time and the first registration time in the metadata (`RegisteredIsTimed`).
* netsvcmonitor: `MonitorInv`, with `LiveWatchesConn` and `RunHasCancelled`, and `OpenIsWatched`: an
  open connection has a goroutine that is not done, or one that has asked begin for a Close, as long
  as it is not `unwatched`. upstreamrefresh: `UpInv`, with `RunHasNoLoop`. A call of either has
  cancelled the old goroutine before it goes on. An open connection of upstreamrefresh may have no
  loop, since the stream of a loop can fail.

### `DialProofs`: dial, connect, clienturl, clientconn; DNS queries

`TypeCorrect`, `NoConnLeaks` (`ConnsHaveOwner`), `CallsKeepTheirConn` (`CallsRunOnTheirConn`),
`ServersAreTold` (`NoServerLeftBehind`), and their conjunction `DialSafety` (`DialIsSafe`), by the
inductive invariant `DialInv`: types, `ConnsHaveOwner`, and for each place of a call and of a Find
what its dialer's URL and connection are then (`CallInv`, `FindInv`). The last is needed because a
call is made of several steps between which the goroutines of old connections run.

`AnswersAreAlwaysRight` is `AnswersAreRight` for any chain of handlers, queries, records, servers and
search domains. `AnswersAreRight` speaks of queries that are over, so `DnsPartInv` has to say of a query
at each handler, on its way down and back, what its client will get. It has four parts, the first
three in `DnsInv`.

* `QueriesAreSound`, one query at a time. Its client has an answer only on the way back, when the
  handlers that remember answers (searches, dnsconfigs) are behind it (`ServedOnReturn`). A success of
  a server, or a name in memory, is never lost: on the way back it is where the next handler looks
  for it, which is the nearest handler in front that remembers answers, or the client
  (`GoodIsCarried`, `Dest`); so a search for the next domain, or another attempt over TCP, starts only
  when there was none. A query whose name is in memory does not get past it (`KnownStops`).
  In fanout, a success that was heard is in the channel.
* `CacheInv`: since an answer was stored, less than two seconds have passed up to the last update for
  each second that its time to live has lost, as an update takes away whole seconds only and up to one
  second more is forgotten.
* `IdsAreFreed` itself, since a return never skips noloop.
* `OwnInv`: what a query asks, has heard or waits for in its channel, and each entry of the cache, is
  of the name and type of its own question; a search domain or DNS server changes neither.

Lemmas about `Return` (it comes to the nearest handler that waits, `ReturnLands`) and about who gets
what is written (`CapturedIs`, `DestOfLanding`) come first; then one lemma each for a handler that
writes, calls on, or returns without a word (`ReplyStep`, `NextStep`, `UnwindStep`), which those of
the handlers cite. `DnsAssumption` is what they need of a chain (`Sound`), and all chains that the
repository builds of these handlers have it: no handler is in it twice; the last one answers or
sends the query away, and no other one sends queries away; an adapted handler, which need not
answer, has dnsconfigs or searches in front, which answer instead; and if memory is in front of
noloop, dnsconfigs or searches is between them.

### `StreamsProofs`: streams, querycache, retry, registry client

`NoStreamLoses` is `NothingIsLost` of the run `streams`, whose six parts have an invariant each:

* `FindInv`: answers are on their way in order from the registry over two channels and the adapter to
  the caller (`InOrder`), and whoever has ended has nothing left unless the caller has cancelled
  (`EndsInOrder`);
* `CombineInv`: nothing is sent before the merged initial event has been, or its Send has failed and
  its error was dropped (`Initializing`), and the last event about a server of which no Send has
  failed tells its version (`OutIsCurrent`, `unsent`);
* `FanoutInv`: the executor has the events that are not distributed yet, each once and in order, and
  adds a subscriber once (`EventsInLine`); who has not been added has no events, and a subscriber's
  channel is open (`SubsAreFresh`); what a subscriber has got follows on what it has seen without a
  gap, up to the last event distributed to it (`SubsAreServed`);
* `CacheInv`: an entry leaves the cache exactly when it is cleaned up, which its goroutine does before
  it is gone (`EntriesAreKept`), and the last event of its watch, or the entry itself when none is
  left and none was missed, is the registry's (`WatchIsCurrent`);
* `RetryInv`: the loop ends with an error only after a context is done;
* `ClientInv`: the goroutine of heal in the map is never one whose context is done
  (`HealersInOrder`); no other one reads its stream, and a registration that is wanted is watched or
  about to be healed (`Watched`), unless a retry has given up before or after the registry took it
  (`gaveUp`).

### `AllocatorsProofs`: addresses, prefixes, numbers, descriptors

`NothingIsEverShared`, `PeersAlwaysLearnPrefix` and `FilesAreAlwaysOwned` state `NothingIsShared`,
`PeersLearnPrefix` and `FilesAreOwned` of the run `allocators`. None of them is inductive: each
speaks of clients at rest, while a call has taken something from a pool that is not yet the client's,
or has given it back before the client knows. The invariant of a part says what the tables of the
element have to do with each other at every step of a call.

* `IpamInv` (point2point and singlepoint ipam): what an entry of the map holds is in the network of
  its pool, and free in no pool and in no other entry, unless the entry is `stale` (its addresses
  were freed and it was not deleted) or the address is one that a stale entry has freed again
  (`twice`); and a client at rest has what its entry says (`EntriesAreRight`). The lemmas below it
  say what `recoverAddrs`, `getAddrs`, `deleteAddr` and `free` take and give back, and that a
  stale entry that frees or takes disturbs no others but by `twice`.
* `ServerInv` (vl3 server): until a prefix comes back that was used before (`~ renewed`), the addresses
  that a connection has or is about to get are excluded, are not that of the endpoint, and have one
  owner, as far as they are of the current prefix. Addresses of earlier prefixes stay with
  their connections, so without the restriction to the current one it would not be inductive.
* `StreamInv` (vl3 IPAM): if all prefixes that are asked for are of the initial size (`sized`), what
  streams hold is aligned, none of its addresses is free, and all other addresses of the whole
  prefix are. The lemmas below it are about division: aligned prefixes of one size are equal or
  disjoint.
* `NumberInv` (VNIs and VLANs): unless a Request brings its own number (`recovers`), a number that a
  connection has, or that a call is about to return, is in the map together with its source address,
  or is not among the free VLANs, and a call has loaded a number exactly if the connection had one.
* `PeerInv` (vl3 client): the subscription of the current Request exists and is not cancelled as
  long as the connection, and its event is queued whenever the prefix a peer knows, or has read in a
  call that is under way, is no longer the endpoint's.
* `TransferInv` (sendfd, recvfd): descriptors that maps hold are open and are those of the file the
  map names, a goroutine of a Close closes only what is in no map (`MapsAreSound`), and of a call:
  the map it works on exists, its context is done only in a Close of the client, and the file of an
  established connection is in its map unless a later Request has failed (`broken`;
  `TransferIsSound`). `OpenFilesAreOwned` itself is a conjunct.

`AllocatorsAssumption` is what an application has to give these elements. The networks of one ipam
are disjoint, and so are the prefixes that a vL3 endpoint is given one after another (the first
among them); the code does not compare them, and addresses would be shared if they overlapped. They
have addresses, finitely many in the ipam. The address of another endpoint is not in them. A prefix
of the initial size that a stream asks for begins at a multiple of that size, as a prefix of an IP
network does. Numbers are positive (0 is "none" in a mechanism, `vni/server.go:88`). `None` is not a
file, a descriptor or a map. The provisos `stale`, `twice`, `renewed`, `sized` and `recovers` are
part of the properties, and section 6 says what happens otherwise.

`NamesAlwaysFollow` is `NamesFollowConnections`, the names of vl3dns and the file of dnscontext.

* `RecordsInv` (vl3dns): the names in the metadata of an open connection lead to it, and every record
  is of names in the metadata or of a connection whose Request has lost them. While a Request runs, its
  connection has no names in the metadata, since the server takes them out first; it has then read an
  address that the DNS server has or has had (`asked`), and no config is kept of a Request that came
  before the first one (`ConfigsComeLater`). That is why a config of own addresses alone is never taken
  for one of others, unless the address has changed since.
* `ResolvInv` (dnscontext): at each step of a start, and after a crash between two of them, the file is
  the original one, or it backs it (`Backs`): the original lines can be had again by taking the signs of
  a comment away. It speaks of the content once a write that was begun is over (`Text`) and of the step
  that comes next (`After`), as long as no crash has come between a truncation and its write (`torn`).

`NamesAssumption` says what is needed of the names: the templates of the endpoint give different
connections different ones, else a Close takes the names of another connection away; and the addresses
of the DNS server are not those of others. Of an original
`resolv.conf` it says that one with name servers has none behind a single comment sign. Section 6
says what the code does to others.

### `ChainsProofs`: authorization, forwarders and endpoints, paths

* `AuthorizationHolds` is `AuthorizationFits`. In the registry, `RegistryInv` says where the calls
  of the client and of a peer can be (`RegistryPlaces`), that calls which meet in the server while
  the maps fit are of one id or leave a trace in the history (`CallsMeet`), and what the two
  authorize elements know of the name: the server lets in only the id it has, which is that of the
  registry unless calls of two peers crossed, one failed or an endpoint expired (`ServerKnows`, with
  `OwnId` for a call that is in the server), and what the client has is the registry's, except in a
  call that it is about to undo (`ClientKnows`). Of connections, `AuthInv` is types (`AuthType`),
  that a set of ids in the map belongs to one identity although calls hold references to it
  (`SetsAreOwn`), what the rest of the chain has at each step of a call (`RefusedInv`), and, for
  identities that are not `disturbed`, how the place of a call, the set that it has in hand and the
  set in the map fit together (`WatchInv`: `Watched` and `OneStays`). `OneStays` is the reason why
  calls of one identity may overlap only while another of its connections stays: it is what keeps
  the set in the map.
* `ForwarderHolds` and `CandidatesHold` are `ForwarderIsKept` and `AllCandidatesAreTried`.
  `DiscoverInv` relates what the client, the manager, the forwarder and the path know
  (`ConnectionInv`); a Request that is under way knows what was known when it came (`KnownInv`), and
  what it has found is what it has tried and what is left (`TryingInv`). For roundrobin, the
  endpoints that have failed are those at the last positions of the counter (`Chosen`), but for as
  many as other Requests have turned it meanwhile (`Overtaken`, `RoundRobinInv`); so after as many
  steps as there are candidates, at most one for each of those turns has not been tried.
* `PathsFit` and `IdsStay` are `PathIsRoute` and the action property `IdsAreKept`. `PathsInv` says
  of a call at each process, on its way there and back, how far it has come and which indexes are to
  be set back (`WayInv`), and what path the client keeps (`MineInv`). `AwareInv` says which ids the
  processes know: those of the client's path (`IdsKnown`), those that an answer has passed although
  it may be lost before the client has it (`TakenInv`), and not those that a Close has passed
  (`ClosedInv`) or ended (`EndedInv`). `SegmentsInv` says of the path under way what its names and
  tokens are (`NamesInv`), its ids (`IdsInv`), its index (`PlaceInv`) and the segments it still has
  from before (`RestInv`). An id is stable because the client keeps the path of its last good
  Request whatever failed since, and a process writes a new id only where the segment is missing or
  another process's. `RegistrationInv` says that each hop of a registration has written its id.

`ChainsAssumption` says that the forwarders and endpoints are finitely many, and a match is a list of
routes; `RoutesAssumption` that a route passes a process once and always starts at the same client.

## 6. Findings and observations

`PROJECT.json` lists as findings the three violated runs above and six more disagreements between
the code and what is written about it, which are visible in the modules and have no run of their
own: the Unregister event of the registry's begin passes an old response; a cancelled event loop of
monitor sends its UPDATE after the DELETE of Close (`eventloop.go:92`); a first Request that fails
in `newEventLoop` leaves its UPDATE behind and closes the next *client* of a server chain
(`monitor/server.go:95`); `doneCh` of cleanup may never be closed (`cleanup/client.go:104`); the
Unregister of the registry's connect server goes to the next client (`nse_server.go:73`); and
`monitorServerToClient` waits for its first event without looking at its context.

Met while modelling, per part. Properties that have to except a case refer to these.

*begin, timeout, cleanup, onidle, heal*

* `eventFactoryServer` hands `f.request` itself to the chain, the client factory a clone: an
  element that replaces `request.Connection` and then fails changes what begin will close.
  `ClientCloseCorrectness` is stated of the client alone for that reason.
* `begin/doc.go` promises the order of arrival; a Request that is made again by a stale factory goes
  to the end of another queue. `CancelContext` keeps an event from starting and does not reach the
  chain, which gets a context with the timeout of the original call.
* The goroutine of `cleanup.NewClient` closes `doneCh` when no connection is counted, although a
  Request may be in the rest of the chain; its connection is still cleaned (`AllCleaned`).
* A timer function of onidle that waited for the mutex while a connection came and went expires the
  server at the start of the next idle period.
* timeout leaves its timer after any Close that ends with a context error, also one of an event or of a
  reselection (`timeout/server.go:90-97`). If that Close event was the timer's own, the timer has
  fired and nobody closes the rest of the chain any more (`unclosed`; `AbandonedIsClosed` excepts it).
* A monitor stream that ends with `codes.Canceled` on the server's side ends the heal loop as if the
  connection had been closed (`heal/eventloop.go:107-112`): it is neither watched nor healed until its
  next Request. `WatchedByOneLoop` excepts it.

*dial, streams, registry clients*

* A registry `dial` whose Register fails closes its dialer and leaves it in the clientconn map. A
  Close with a URL other than the dialer's goes to the new URL; the old server is left to its
  timeout (`lost` in `Dial`). `clientConnClient` drops the options of its calls.
* A Find without Watch that has more answers than `channelSize` waits until it is cancelled; a
  cancelled adapter returns a truncated list as a success; errors of a watching Find are dropped.
* eventchannel: the full channel of a subscriber that has gone blocks everybody.
* querycache: an endpoint unregistered between the answer of a Find and the start of its watch stays
  in the cache (`missed`).
* monitor drops the error of the initial Send (`monitor_connection_server.go:50-55`) and goes on: a
  combined stream may then have updates without a merged initial event (`unsent`).
* registry heal: a name lost between Register and the watching Find is not noticed (`blind`). A
  retry that gives up leaves no watcher, also if the registry has taken the registration and only
  the Find failed (`heal/nse_client.go:60-65`): the endpoint stays registered and unwatched until
  its next refresh, and a network service, which has no refresh, for good (`gaveUp`). The Find of
  retry sleeps without looking at the contexts.

*goroutines with timers*

* expire without any time to choose from takes the zero time: the endpoint is removed at once.
* netsvcmonitor: a failed Request leaves the connection without a goroutine, monitorCtx ends at the
  earliest Expires of the path, which closes nothing (`netsvcmonitor/server.go:60-73`), an error or an
  empty list of the endpoint's Find drops the event (`unwatched`), and the Close event has no
  CancelContext.
* upstreamrefresh with local notifications: a connection that has subscribed and does not listen
  stops the executor of the notifier for ever. There are four ways to it: `newEventLoop` failed
  after `subscribe`; `Recv` failed and ended the loop; the loop runs its own Request, which waits in
  `unsubscribe` for that executor; a new loop still waits in `get` for it. Without local
  notifications the calls return (`MismatchIsClosed`).

*paths, discovery, authorization*

* Registry paths keep a stale tail of ids when a route gets shorter; without tokens of the caller
  each hop overwrites the previous id by an empty one.
* Ids stay behind in processes that a connection has left, when its route changes or when a first
  Request fails or its answer is lost; timeout is what cleans them up. `PathIsRoute` speaks of the
  ids of the path that the client has.
* The counter of roundrobin is shared by concurrent Requests: one may try an endpoint twice and
  miss another, one for each turn of the others, though the error says that all candidates have failed
  (`roundrobin/server.go:54`). An endpoint that fits two routes of a match is a candidate twice. The
  Find by name ignores expiration.
* authorize: a failed Request deletes the whole entry of its identity (`server.go:99`), and two calls of
  one identity that overlap while none of its other connections stays lose one of their sets
  (`disturbed`). Close deletes its mark before the policy is asked.
* registry authorize comes before begin. Two Registers of a new name by different ids can both look
  at the map (`nse_server.go:72`) before either stores (`nse_server.go:80`); both pass, and the map
  has the one that stored last. Unregister forgets the name before the rest of the chain has, whose
  failure leaves it free for another id; an endpoint that expires keeps its id in the map (`loose`,
  `unsure`, `taken`).

*allocators, descriptors, DNS*

* point2pointipam keeps the entry of a connection whose addresses it frees because the rest of the
  chain failed (`point2pointipam/server.go:128`), or because they are excluded now and there are no
  others (`:106,114`); singlepointipam does so likewise, and at every Close. If such a connection is
  used again, it shares its addresses, and frees those of others (`stale`, `twice` in `IPAM`). vl3:
  a Reset to a prefix that was used before lets addresses be shared (`renewed`); prefixes of
  different sizes may overlap in vl3ipam (`sized`). vniServer does not look at the result of
  `LoadOrStore` for a VNI that a Request brings (`recovers`).
* prefixpool: `ExcludePrefixes` stops at the first prefix that intersects. `Extract` for a
  connection that has a record replaces it, and the networks of the old one are never free again
  (`prefixpool.go:188-235`, `forgotten` in `Pools`).
* recvfd: a failed refresh closes the descriptor of the established connection (`server.go:72`,
  `broken`); the registry's recvfd stores its map under the name in the request, so that of a renamed
  endpoint is not found again (`orphans`). Endpoints without a name would share the map under `""`, but
  begin refuses them before (`registry/common/begin/nse_server.go:36`), and every chain with recvfd has
  begin in front.
* resolv.conf is written with `os.WriteFile`, which truncates first: a crash before the write loses the
  text, and the next start finds neither the original nor its comments (`torn`;
  `dnscontext/client.go:108,123,133`).
* vl3dns: a config that names the own server and another one of the network is kept with both, and
  one with an address that the server had before is taken for one of others
  (`vl3dns/server.go:144-152`); `NeverAsksItself` is about configs of own addresses alone.
* DNS: two clients that use the same id refuse each other (noloop). `updateTTL` takes whole seconds
  off and forgets the rest at every look (`cache/handler.go:70-85`), so an answer that is looked at
  often lives almost twice its time. `readProperties` keeps the last nameserver of several; a
  `resolv.conf` that names 127.0.0.1 gives a nil config that Request appends. `restoreResolvConf`
  takes the comments of any `resolv.conf` for its own (`dnscontext/client.go:94`): one in which an
  administrator has commented out a name server is replaced by its comments. vl3dns loses the names
  of a connection whose Request fails, and its records stay (`lost`).

## 7. What is not modelled

* Code of gRPC, OPA, SPIFFE and the operating system. What the SDK sees of it (a dial fails, a
  stream ends, a policy refuses, a server does not answer) is a nondeterministic choice.
* Clocks, but for `Refresh`, `Expire` and `Dns`: durations are abstracted to the order of events; a
  timer that runs may fire at any time.
* Logging, tracing, formatting, configuration, test utilities, and elements that copy a value into a
  request. They are a large part of the lines that the map does not name.
* The three-way merge of `begin/merge.go`, and the rewriting of mechanism preferences: pure
  functions of one message, field by field.
* Elements that take a value from a file which another goroutine reads (excludedprefixes, swapip,
  externalips, policyroute): one atomic variable each.
* groupipam, which asks ipam servers one after another, and strictvl3ipam; `IPAM` has each of the
  servers that groupipam holds, and strictipam.
* passthrough, interdomainbypass, localbypass and the endpoint URLs of the registry: names and URLs
  replaced by request; the chains of `Next` have them as elements.
* Begin: the error for an empty id, and the pass-through of a begin element inside another begin.
* Heal: the filter of events is abstracted to whether it reports a loss. upstreamrefresh: likewise.
* Timeout: a previous path segment without expiration, which updatetoken rules out.
* Dial: Requests without a URL, or with a client connection given by the application, which do not
  touch the dialer. Cleanup: `WithoutGRPCCall`.
* Registry memory: matching of queries (taken as true) and Finds that do not watch, which read the
  map once.
* Descriptors on systems other than linux, and their way over the socket (grpcfd).

## 8. Plan

1. **Lemmas about the pools and `Next`**: that one rotation of the tree keeps its ranges, one split of
   a prefix its addresses, and one step of `Next` its place in the chain.
2. **Algorithms** against reference definitions: the merge of begin, mechanisms.
3. **localbypass**, with a Register that fails after the URL was replaced.
