------------------------------ MODULE MCTimers ------------------------------
(***************************************************************************)
(* The elements that start a goroutine for a connection or a registration, *)
(* one at a time: the initial state chooses one, and the variables that it *)
(* does not have are 0.                                                    *)
(***************************************************************************)
EXTENDS Integers, Sequences, TLC

CONSTANTS
    Conn,
    None,                                            \* no time, or no endpoint
    MaxTime,
    Lifetimes, MaxRefreshes,                         \* refresh
    Defaults, Offers, RequestTimeout, MaxRegisters,  \* expire
    Endpoint, MaxRequests, MaxChanges,               \* netsvcmonitor
    MaxCalls, MaxEvents                              \* upstreamrefresh

Positive == Nat \ {0}

\* Tokens and the times that clients offer have not expired yet.
ASSUME TimersAssumption ==
    /\ {MaxTime, MaxRefreshes, MaxRegisters, MaxRequests, MaxChanges, MaxCalls, MaxEvents} \subseteq Nat
    /\ Lifetimes \in Seq(SUBSET Positive) /\ Len(Lifetimes) # 0
    /\ Defaults \subseteq Nat /\ RequestTimeout \in Positive
    /\ Offers \subseteq [own : Positive \cup {None}, token : Positive \cup {None}, peer : Positive \cup {None}]
    /\ None \notin Nat \cup [expires : Nat \cup {None}, initial : Nat]

\* A path of two segments, and what clients may know of the lifetime of an endpoint.
TwoTokens == <<{6, 8}, {7}>>
SomeOffers ==
    {[own |-> None, token |-> None, peer |-> None], [own |-> 3, token |-> None, peer |-> None],
     [own |-> None, token |-> 3, peer |-> 2], [own |-> 2, token |-> 5, peer |-> None]}

VARIABLES
    part,
    calls, queue, run, cancel, cancelled, gens,          \* of all or most of them
    now, timers, due, conn,                              \* of some
    expires, index, failures,                            \* refresh
    default, registered, known, metadata, noTime,        \* expire
    matches, changes, monitors, watched, inbox, unwatched, \* netsvcmonitor
    local, asked, open, step, executor, left, channel, channels, loops, localCh, upstream, ended

Refresh == INSTANCE Refresh WITH MaxCalls <- MaxRefreshes

Expire == INSTANCE Expire WITH MaxCalls <- MaxRegisters

NetSvc == INSTANCE NetSvcMonitor WITH MaxCalls <- MaxRequests

Upstream == INSTANCE UpstreamRefresh WITH Locals <- BOOLEAN

common == <<calls, queue, run, cancel, cancelled, gens>>
refreshOnly == <<expires, index, failures>>
expireOnly == <<default, registered, known, metadata, noTime>>
netsvcOnly == <<matches, changes, monitors, watched, inbox, unwatched>>
upstreamOnly == <<local, asked, open, step, executor, left, channel, channels, loops, localCh, upstream, ended>>

notRefresh == <<expireOnly, netsvcOnly, upstreamOnly>>
notExpire == <<conn, refreshOnly, netsvcOnly, upstreamOnly>>
notNetsvc == <<now, timers, due, refreshOnly, expireOnly, upstreamOnly>>
notUpstream == <<now, timers, due, conn, refreshOnly, expireOnly, netsvcOnly>>

vars == <<part, common, now, timers, due, conn, refreshOnly, expireOnly, netsvcOnly, upstreamOnly>>

NoRefresh == expires = 0 /\ index = 0 /\ failures = 0
NoExpire == default = 0 /\ registered = 0 /\ known = 0 /\ metadata = 0 /\ noTime = 0
NoNetsvc == matches = 0 /\ changes = 0 /\ monitors = 0 /\ watched = 0 /\ inbox = 0 /\ unwatched = 0
NoUpstream ==
    /\ local = 0 /\ asked = 0 /\ open = 0 /\ step = 0 /\ executor = 0 /\ left = 0 /\ channel = 0
    /\ channels = 0 /\ loops = 0 /\ localCh = 0 /\ upstream = 0 /\ ended = 0
NoTimer == now = 0 /\ timers = 0 /\ due = 0

MCInit ==
    \/ part = "refresh" /\ Refresh!RefreshInit /\ NoExpire /\ NoNetsvc /\ NoUpstream
    \/ part = "expire" /\ Expire!ExpireInit /\ conn = 0 /\ NoRefresh /\ NoNetsvc /\ NoUpstream
    \/ part = "netsvc" /\ NetSvc!MonitorInit /\ NoTimer /\ NoRefresh /\ NoExpire /\ NoUpstream
    \/ part = "upstream" /\ Upstream!UpInit /\ conn = 0 /\ NoTimer /\ NoRefresh /\ NoExpire /\ NoNetsvc

MCNext ==
    /\ UNCHANGED part
    /\ \/ part = "refresh" /\ Refresh!RefreshNext /\ UNCHANGED notRefresh
       \/ part = "expire" /\ Expire!ExpireNext /\ UNCHANGED notExpire
       \/ part = "netsvc" /\ NetSvc!MonitorNext /\ UNCHANGED notNetsvc
       \/ part = "upstream" /\ Upstream!UpNext /\ UNCHANGED notUpstream

\* Goroutines and executors that can run do, and calls return.
NetSvcFairness ==
    /\ WF_vars(part = "netsvc" /\ NetSvc!Start /\ UNCHANGED <<part, notNetsvc>>)
    /\ WF_vars(part = "netsvc" /\ (NetSvc!Request \/ NetSvc!RequestFails) /\ UNCHANGED <<part, notNetsvc>>)
    /\ WF_vars(part = "netsvc" /\ NetSvc!Close /\ UNCHANGED <<part, notNetsvc>>)
    /\ \A g \in 1 .. MaxRequests :
          /\ WF_vars(part = "netsvc" /\ NetSvc!Find(g) /\ UNCHANGED <<part, notNetsvc>>)
          /\ WF_vars(part = "netsvc" /\ NetSvc!Compare(g) /\ UNCHANGED <<part, notNetsvc>>)

UpstreamFairness ==
    /\ \A c \in Conn :
          /\ WF_vars(part = "upstream" /\ Upstream!Start(c) /\ UNCHANGED <<part, notUpstream>>)
          /\ WF_vars(part = "upstream" /\ Upstream!Unsubscribed(c) /\ UNCHANGED <<part, notUpstream>>)
          /\ WF_vars(part = "upstream" /\ Upstream!Next(c) /\ UNCHANGED <<part, notUpstream>>)
          /\ WF_vars(part = "upstream" /\ Upstream!newEventLoop(c) /\ UNCHANGED <<part, notUpstream>>)

MCSpec == MCInit /\ [][MCNext]_vars /\ NetSvcFairness /\ UpstreamFairness

\* Whatever Requests, their failures, Closes and events do to each other, an open
\* connection has exactly one goroutine that refreshes it and at most one that watches
\* its service or listens upstream, which is the one that Close cancels; the one that
\* watches is missing only after a failed Request, the expiry of the path or its own
\* Close event.  A closed connection has none that is not cancelled.
OneGoroutine ==
    /\ part = "refresh" => Refresh!OneRefresher
    /\ part = "netsvc" => NetSvc!OneMonitor
    /\ part = "upstream" => Upstream!OneEventLoop

\* The client refreshes before its tokens expire.  The registry removes what has expired,
\* and nothing before its time has come (an endpoint for which no time is known at all
\* excepted); a new registration keeps the time of the first one.
InTime ==
    /\ []((part = "refresh" => Refresh!RefreshedInTime) /\ (part = "expire" => Expire!ExpiredIsGone))
    /\ [][part = "expire" /\ registered # None =>
             /\ registered' = None /\ run.op = "expire" => noTime \/ now >= registered.expires - RequestTimeout
             /\ registered' # None => registered'.initial = registered.initial]_vars

\* netsvcmonitor closes in the end a connection whose endpoint does not match its
\* service, unless it gets another endpoint, the service matches again, a Request has
\* failed, the path has expired or an event was dropped; and without local notifications
\* the calls of upstreamrefresh return.
MismatchIsClosed ==
    /\ (part = "netsvc" /\ conn # 0 /\ conn \notin matches) ~> (part = "netsvc" => conn = 0 \/ conn \in matches \/ unwatched)
    /\ \A c \in Conn : (part = "upstream" /\ local = FALSE /\ step[c] # "idle") ~> (part = "upstream" => step[c] = "idle")
=============================================================================
