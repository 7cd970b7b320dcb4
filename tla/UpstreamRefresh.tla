--------------------------- MODULE UpstreamRefresh --------------------------
(***************************************************************************)
(* upstreamRefreshClient (networkservice/common/upstreamrefresh) under     *)
(* begin: an event loop for each connection waits until the endpoint asks  *)
(* for a refresh and has begin request again.  With local notifications it *)
(* then tells the loops of the other connections, through a notifier that  *)
(* sends on unbuffered channels from within its executor.                  *)
(***************************************************************************)
EXTENDS Integers, Sequences, FiniteSets, SequencesExt

CONSTANTS
    Conn,        \* connections
    Locals,      \* with local notifications? (values to choose from)
    MaxCalls,    \* bound: Requests and Closes of the application
    MaxEvents    \* bound: refreshes that the endpoint asks for

MaxGens == MaxCalls + 2 * MaxEvents
Gen == 1 .. MaxGens

VARIABLES
    local,      \* (never changes)
    calls, asked,
    open,       \* begin: connections that are established
    queue,      \* begin: what waits for the executor of each connection
    run,        \* the one that runs
    step,       \* what it does: "idle", "unsubscribe", "next", "subscribe", "loop" or, for Close, "leave"
    executor,   \* notifier: functions that wait, and the first one runs
    left,       \* connections that the running Notify has still to tell
    channel,    \* notifier: the channel of each connection, or 0
    channels,   \* channels made so far
    loops,      \* event loops: "none", "start", "look", "found", "take", "select", "request", "notify" or "gone"
    localCh,    \* the channel that a loop reads
    cancel,     \* the loop of each connection whose cancel function is in the metadata
    cancelled,  \* loops whose context is done
    gens,
    upstream,   \* loops whose upstreamCh holds a request for a refresh
    ended       \* loops whose stream has failed: upstreamCh is closed

upVars == <<local, calls, asked, open, queue, run, step, executor, left, channel, channels, loops, localCh, cancel, cancelled, gens, upstream, ended>>

Loop == Conn \X Gen

Call(op, g) == [op |-> op, loop |-> g]
NoCall == Call("none", 0)

UpInit ==
    /\ local \in Locals
    /\ calls = 0 /\ asked = 0
    /\ open = {} /\ ended = {}
    /\ queue = [c \in Conn |-> <<>>]
    /\ run = [c \in Conn |-> NoCall]
    /\ step = [c \in Conn |-> "idle"]
    /\ executor = <<>> /\ left = {}
    /\ channel = [c \in Conn |-> 0] /\ channels = 0
    /\ loops = [l \in Loop |-> "none"]
    /\ localCh = [l \in Loop |-> 0]
    /\ cancel = [c \in Conn |-> 0] /\ cancelled = {} /\ gens = 0
    /\ upstream = {}

Function(op, c) == [op |-> op, conn |-> c]

\* Calls of the notifier wait until the executor has run their function; a nil
\* notifier does nothing.
AsyncExec(op, c) == executor' = IF local THEN Append(executor, Function(op, c)) ELSE executor
Ran(op, c) == Function(op, c) \notin ToSet(executor)

Application(c, op) ==
    /\ calls < MaxCalls /\ calls' = calls + 1
    /\ queue' = [queue EXCEPT ![c] = Append(@, Call(op, 0))]
    /\ UNCHANGED <<local, asked, open, run, step, executor, left, channel, channels, loops, localCh, cancel, cancelled, gens, upstream, ended>>

\* A bug: the event loop of the previous Request goes on.
Start_NoCancel(c) ==
    /\ step[c] = "idle" /\ queue[c] # <<>>
    /\ queue' = [queue EXCEPT ![c] = Tail(@)]
    /\ IF Head(queue[c]).op # "Request" /\ c \notin open
       THEN UNCHANGED <<run, step, cancel, executor>>
       ELSE /\ run' = [run EXCEPT ![c] = Head(queue[c])]
            /\ step' = [step EXCEPT ![c] = IF Head(queue[c]).op = "Close" THEN "leave" ELSE "unsubscribe"]
            /\ cancel' = IF Head(queue[c]).op = "Close" THEN cancel ELSE [cancel EXCEPT ![c] = 0]
            /\ AsyncExec("unsubscribe", c)
    /\ UNCHANGED <<local, calls, asked, open, left, channel, channels, loops, localCh, cancelled, gens, upstream, ended>>

CancelLoop(c) ==
    /\ cancelled' = IF cancel[c] = 0 THEN cancelled ELSE cancelled \cup {<<c, cancel[c]>>}
    /\ cancel' = [cancel EXCEPT ![c] = 0]

\* A Request cancels the event loop of the connection and unsubscribes it, a Close
\* unsubscribes it first.
\* begin does not run an event of a connection that is not established.
Start(c) ==
    /\ step[c] = "idle" /\ queue[c] # <<>>
    /\ queue' = [queue EXCEPT ![c] = Tail(@)]
    /\ IF Head(queue[c]).op # "Request" /\ c \notin open
       THEN UNCHANGED <<run, step, cancel, cancelled, executor>>
       ELSE /\ run' = [run EXCEPT ![c] = Head(queue[c])]
            /\ IF Head(queue[c]).op = "Close"
               THEN step' = [step EXCEPT ![c] = "leave"] /\ UNCHANGED <<cancel, cancelled>>
               ELSE step' = [step EXCEPT ![c] = "unsubscribe"] /\ CancelLoop(c)
            /\ AsyncExec("unsubscribe", c)
    /\ UNCHANGED <<local, calls, asked, open, left, channel, channels, loops, localCh, gens, upstream, ended>>

Ends(c) == run' = [run EXCEPT ![c] = NoCall] /\ step' = [step EXCEPT ![c] = "idle"]

Unsubscribed(c) ==
    /\ step[c] \in {"unsubscribe", "leave"} /\ Ran("unsubscribe", c)
    /\ IF step[c] = "leave"
       THEN Ends(c) /\ open' = open \ {c} /\ CancelLoop(c)
       ELSE step' = [step EXCEPT ![c] = "next"] /\ UNCHANGED <<run, open, cancel, cancelled>>
    /\ UNCHANGED <<local, calls, asked, queue, executor, left, channel, channels, loops, localCh, gens, upstream, ended>>

\* The rest of the chain answers, or fails and leaves the connection without a loop.
Next(c) ==
    /\ step[c] = "next"
    /\ \/ /\ step' = [step EXCEPT ![c] = "subscribe"]
          /\ AsyncExec("subscribe", c)
          /\ UNCHANGED run
       \/ Ends(c) /\ UNCHANGED executor
    /\ UNCHANGED <<local, calls, asked, open, queue, left, channel, channels, loops, localCh, cancel, cancelled, gens, upstream, ended>>

\* Without a stream of events the connection is closed behind this element and the
\* Request fails.
newEventLoop(c) ==
    /\ step[c] = "subscribe" /\ Ran("subscribe", c)
    /\ Ends(c)
    /\ \/ /\ gens < MaxGens /\ gens' = gens + 1
          /\ open' = open \cup {c}
          /\ cancel' = [cancel EXCEPT ![c] = gens + 1]
          /\ loops' = [loops EXCEPT ![<<c, gens + 1>>] = "start"]
       \/ UNCHANGED <<open, gens, cancel, loops>>
    /\ UNCHANGED <<local, calls, asked, queue, executor, left, channel, channels, localCh, cancelled, upstream, ended>>

-----------------------------------------------------------------------------
(* The notifier.                                                           *)

subscribe ==
    /\ left = {} /\ executor # <<>> /\ Head(executor).op = "subscribe"
    /\ executor' = Tail(executor)
    /\ channels' = channels + 1
    /\ channel' = [channel EXCEPT ![Head(executor).conn] = channels + 1]
    /\ UNCHANGED <<local, calls, asked, open, queue, run, step, left, loops, localCh, cancel, cancelled, gens, upstream, ended>>

\* Closing the channel ends the loop that reads it.
unsubscribe ==
    /\ left = {} /\ executor # <<>> /\ Head(executor).op = "unsubscribe"
    /\ executor' = Tail(executor)
    /\ channel' = [channel EXCEPT ![Head(executor).conn] = 0]
    /\ UNCHANGED <<local, calls, asked, open, queue, run, step, left, channels, loops, localCh, cancel, cancelled, gens, upstream, ended>>

Notify ==
    /\ left = {} /\ executor # <<>> /\ Head(executor).op = "notify"
    /\ LET others == {d \in Conn \ {Head(executor).conn} : channel[d] # 0} IN
          IF others = {} THEN executor' = Tail(executor) /\ UNCHANGED left
          ELSE left' = others /\ UNCHANGED executor
    /\ UNCHANGED <<local, calls, asked, open, queue, run, step, channel, channels, loops, localCh, cancel, cancelled, gens, upstream, ended>>

\* A send on an unbuffered channel waits for the loop that reads it.
Tell(l) ==
    /\ loops[l] = "select" /\ l[1] \in left /\ localCh[l] = channel[l[1]]
    /\ left' = left \ {l[1]}
    /\ executor' = IF left = {l[1]} THEN Tail(executor) ELSE executor
    /\ loops' = [loops EXCEPT ![l] = "request"]
    /\ queue' = [queue EXCEPT ![l[1]] = Append(@, Call("event", l[2]))]
    /\ upstream' = upstream \ {l}
    /\ UNCHANGED <<local, calls, asked, open, run, step, channel, channels, localCh, cancel, cancelled, gens, ended>>

-----------------------------------------------------------------------------
(* The event loop.  Its order of reading is that of select: any that is ready. *)

\* The loop looks twice for its channel, and each time waits for the notifier's executor.
LoopStarts(l) ==
    /\ loops[l] \in {"start", "found"}
    /\ IF local
       THEN /\ loops' = [loops EXCEPT ![l] = IF @ = "start" THEN "look" ELSE "take"]
            /\ executor' = Append(executor, Function("get", l))
       ELSE loops' = [loops EXCEPT ![l] = "select"] /\ UNCHANGED executor
    /\ UNCHANGED <<local, calls, asked, open, queue, run, step, left, channel, channels, localCh, cancel, cancelled, gens, upstream, ended>>

get(l) ==
    /\ left = {} /\ executor # <<>> /\ Head(executor) = Function("get", l)
    /\ loops[l] \in {"look", "take"}
    /\ executor' = Tail(executor)
    /\ IF loops[l] = "look" /\ channel[l[1]] # 0
       THEN loops' = [loops EXCEPT ![l] = "found"] /\ UNCHANGED localCh
       ELSE /\ loops' = [loops EXCEPT ![l] = "select"]
            /\ localCh' = [localCh EXCEPT ![l] = channel[l[1]]]
    /\ UNCHANGED <<local, calls, asked, open, queue, run, step, left, channel, channels, cancel, cancelled, gens, upstream, ended>>

\* External: the endpoint asks for a refresh of an open connection.
Waiting(l) == loops[l] \in {"start", "look", "found", "take", "select"}

EndpointAsks(l) ==
    /\ asked < MaxEvents /\ asked' = asked + 1
    /\ Waiting(l) /\ l \notin upstream \cup ended
    /\ upstream' = upstream \cup {l}
    /\ UNCHANGED <<local, calls, open, queue, run, step, executor, left, channel, channels, loops, localCh, cancel, cancelled, gens, ended>>

\* Recv fails, and monitorUpstream closes its channel.
StreamFails(l) ==
    /\ Waiting(l) /\ l \notin upstream \cup ended
    /\ ended' = ended \cup {l}
    /\ UNCHANGED <<local, calls, asked, open, queue, run, step, executor, left, channel, channels, loops, localCh, cancel, cancelled, gens, upstream>>

eventLoop(l) ==
    /\ loops[l] = "select"
    /\ \/ /\ l \in upstream
          /\ loops' = [loops EXCEPT ![l] = IF local THEN "notify" ELSE "request"]
          /\ queue' = [queue EXCEPT ![l[1]] = Append(@, Call("event", l[2]))]
          /\ upstream' = upstream \ {l}
       \/ /\ l \in cancelled \cup ended \/ (localCh[l] # 0 /\ channel[l[1]] # localCh[l])
          /\ loops' = [loops EXCEPT ![l] = "gone"]
          /\ UNCHANGED <<queue, upstream>>
    /\ UNCHANGED <<local, calls, asked, open, run, step, executor, left, channel, channels, localCh, cancel, cancelled, gens, ended>>

\* The event has run: its executor is past it.  The loop that the endpoint asked
\* tells the others and ends.
EventRan(l) ==
    /\ loops[l] \in {"request", "notify"}
    /\ Call("event", l[2]) \notin ToSet(queue[l[1]]) /\ run[l[1]] # Call("event", l[2])
    /\ loops' = [loops EXCEPT ![l] = "gone"]
    /\ IF loops[l] = "notify" THEN AsyncExec("notify", l[1]) ELSE UNCHANGED executor
    /\ UNCHANGED <<local, calls, asked, open, queue, run, step, left, channel, channels, localCh, cancel, cancelled, gens, upstream, ended>>

UpNext ==
    \/ \E c \in Conn :
          \/ Application(c, "Request") \/ Application(c, "Close")
          \/ Start(c) \/ Unsubscribed(c) \/ Next(c) \/ newEventLoop(c)
    \/ subscribe \/ unsubscribe \/ Notify
    \/ \E l \in Loop :
          Tell(l) \/ LoopStarts(l) \/ get(l) \/ EndpointAsks(l) \/ StreamFails(l) \/ eventLoop(l) \/ EventRan(l)

UpFairness ==
    /\ \A c \in Conn : WF_upVars(Start(c)) /\ WF_upVars(Unsubscribed(c)) /\ WF_upVars(Next(c)) /\ WF_upVars(newEventLoop(c))
    /\ WF_upVars(subscribe) /\ WF_upVars(unsubscribe) /\ WF_upVars(Notify)
    /\ \A l \in Loop :
          /\ WF_upVars(Tell(l)) /\ WF_upVars(LoopStarts(l)) /\ WF_upVars(get(l))
          /\ WF_upVars(eventLoop(l)) /\ WF_upVars(EventRan(l))

UpSpec == UpInit /\ [][UpNext]_upVars /\ UpFairness

-----------------------------------------------------------------------------
\* A connection has at most one loop that still listens, and it is the one that
\* Close will cancel.
OneEventLoop == \A l \in Loop : Waiting(l) /\ l \notin cancelled => cancel[l[1]] = l[2]

\* Without local notifications every call returns, whatever the endpoint asks for.
CallsReturn == \A c \in Conn : (~ local /\ step[c] # "idle") ~> step[c] = "idle"

\* options.go: "allows all connections to receive events, if at least one of them
\* received an event from upstream": a connection that Notify is to tell receives the event.
AllConnectionsRefresh == \A c \in Conn : c \in left ~> c \notin left
=============================================================================
