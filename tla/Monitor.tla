------------------------------ MODULE Monitor ------------------------------
(***************************************************************************)
(* monitor.NewServer (common/monitor): the chain element that reports the  *)
(* connections of its chain to the streams of MonitorConnections.          *)
(*                                                                         *)
(* Requests, Closes and event loops hand events to one executor, which     *)
(* keeps the connections and the filters and hands each event to the       *)
(* executor of every filter, which sends it on a stream.  The element is   *)
(* part of a passthrough server: an event loop forwards what the next hop  *)
(* reports on each connection.  begin runs one Request or Close of a       *)
(* connection at a time.                                                   *)
(***************************************************************************)
EXTENDS Naturals, Sequences

CONSTANTS
    Conn,       \* Connection.Ids
    Watcher,    \* calls of MonitorConnections
    Selector,   \* the connections that each watcher selects
    MaxCalls,   \* bound on Requests and Closes of each connection
    MaxEvents   \* bound on the events each connection receives from the next hop

ASSUME MonitorAssumption ==
    /\ Selector \in [Watcher -> SUBSET Conn]
    /\ MaxCalls \in [Conn -> Nat] /\ MaxEvents \in [Conn -> Nat]

State   == {"up", "down"}
Missing == "missing"   \* the value of a connection that is not in a map

Ops == [op : {"event"}, conn : Conn, value : State \cup {Missing}]
         \cup [op : {"monitor", "remove"}, watcher : Watcher]

Events == [type : {"event"}, conn : Conn, value : State \cup {Missing}]
            \cup [type : {"initial"}, value : [Conn -> State \cup {Missing}]]

VARIABLES
    connections, \* m.connections
    filters,     \* the watchers in m.filters
    queue,       \* the queue of m.executor
    fqueue,      \* the queue of the executor of each filter
    stream,      \* the stream of each watcher: new, open or done
    view,        \* what each watcher has received of each connection
    status,      \* what begin knows of each connection
    call,        \* the call of each connection that is in the chain, or none
    stored,      \* is the cancel function of an event loop in the metadata?
    loaded,      \* has the current Request found one there?
    loop,        \* the event loop of each connection: off, recv or send
    late,        \* cancelled loops of each connection that are about to Send
    calls, events

serverVars == <<connections, filters, queue, fqueue>>
watchVars  == <<stream, view>>
connVars   == <<status, call, stored, loaded, loop, late, calls, events>>
vars       == <<serverVars, watchVars, connVars>>

Init ==
    /\ connections = [c \in Conn |-> Missing]
    /\ filters = {}
    /\ queue = <<>>
    /\ fqueue = [w \in Watcher |-> <<>>]
    /\ stream = [w \in Watcher |-> "new"]
    /\ view = [w \in Watcher |-> [c \in Conn |-> Missing]]
    /\ status = [c \in Conn |-> "new"]
    /\ call = [c \in Conn |-> "none"]
    /\ stored = [c \in Conn |-> FALSE]
    /\ loaded = [c \in Conn |-> FALSE]
    /\ loop = [c \in Conn |-> "off"]
    /\ late = [c \in Conn |-> 0]
    /\ calls = [c \in Conn |-> 0]
    /\ events = [c \in Conn |-> 0]

-----------------------------------------------------------------------------
(* Streams.                                                                *)

MonitorConnections(w) ==
    /\ stream[w] = "new"
    /\ stream' = [stream EXCEPT ![w] = "open"]
    /\ queue' = Append(queue, [op |-> "monitor", watcher |-> w])
    /\ UNCHANGED <<connections, filters, fqueue, view, connVars>>

\* The context of the stream is done; Send on it fails from now on.
StreamEnds(w) ==
    /\ stream[w] = "open"
    /\ stream' = [stream EXCEPT ![w] = "done"]
    /\ UNCHANGED <<serverVars, view, connVars>>

-----------------------------------------------------------------------------
(* The executors.                                                          *)

\* A connection that is missing is an event of type DELETE, otherwise UPDATE.
RunEvent ==
    /\ queue # <<>>
    /\ Head(queue).op = "event"
    /\ LET e == Head(queue)
       IN  /\ connections' = [connections EXCEPT ![e.conn] = e.value]
           /\ fqueue' = [w \in Watcher |->
                           IF w \in filters
                             THEN Append(fqueue[w], [type |-> "event", conn |-> e.conn,
                                                     value |-> e.value])
                             ELSE fqueue[w]]
    /\ queue' = Tail(queue)
    /\ UNCHANGED <<filters, watchVars, connVars>>

\* The watcher gets only what happens after it has come.
InitialTransfer_Empty == [type |-> "initial", value |-> [c \in Conn |-> Missing]]

\* The initial transfer is what the connections are when the filter is added.
InitialTransfer == [type |-> "initial", value |-> connections]

RunMonitor ==
    /\ queue # <<>>
    /\ Head(queue).op = "monitor"
    /\ LET w == Head(queue).watcher
       IN  /\ filters' = filters \cup {w}
           /\ fqueue' = [fqueue EXCEPT ![w] = Append(@, InitialTransfer)]
    /\ queue' = Tail(queue)
    /\ UNCHANGED <<connections, watchVars, connVars>>

RunRemove ==
    /\ queue # <<>>
    /\ Head(queue).op = "remove"
    /\ filters' = filters \ {Head(queue).watcher}
    /\ queue' = Tail(queue)
    /\ UNCHANGED <<connections, fqueue, watchVars, connVars>>

\* What a watcher sees of connection c once it has received event e.
Received(w, e, c) ==
    IF c \in Selector[w] /\ (e.type = "event" => e.conn = c)
      THEN IF e.type = "event" THEN e.value ELSE e.value[c]
      ELSE view[w][c]

\* The executor of the filter sends the next event on an open stream.
FilterSends(w) ==
    /\ fqueue[w] # <<>>
    /\ stream[w] = "open"
    /\ view' = [view EXCEPT ![w] = [c \in Conn |-> Received(w, Head(fqueue[w]), c)]]
    /\ fqueue' = [fqueue EXCEPT ![w] = Tail(@)]
    /\ UNCHANGED <<connections, filters, queue, stream, connVars>>

\* Events on a stream that is done are dropped and the filter stays.
FilterFails_Ignored(w) ==
    /\ fqueue[w] # <<>>
    /\ stream[w] = "done"
    /\ fqueue' = [fqueue EXCEPT ![w] = Tail(@)]
    /\ UNCHANGED <<connections, filters, queue, watchVars, connVars>>

\* The stream is done: the filter is to be removed.  The error of an initial
\* transfer is ignored.
FilterFails(w) ==
    /\ fqueue[w] # <<>>
    /\ stream[w] = "done"
    /\ queue' = IF Head(fqueue[w]).type = "event"
                  THEN Append(queue, [op |-> "remove", watcher |-> w])
                  ELSE queue
    /\ fqueue' = [fqueue EXCEPT ![w] = Tail(@)]
    /\ UNCHANGED <<connections, filters, watchVars, connVars>>

-----------------------------------------------------------------------------
(* Requests, Closes and event loops.                                       *)

\* EventConsumer.Send: the event waits for the executor.
Send(c, v) == queue' = Append(queue, [op |-> "event", conn |-> c, value |-> v])

\* The event loop of c is cancelled.  One that has looked at its context before
\* will Send nevertheless.
CancelEventLoop(c) ==
    /\ loop' = [loop EXCEPT ![c] = "off"]
    /\ late' = [late EXCEPT ![c] = IF loop[c] = "send" THEN @ + 1 ELSE @]
    /\ stored' = [stored EXCEPT ![c] = FALSE]

Call(c, what) ==
    /\ call[c] = "none"
    /\ calls[c] < MaxCalls[c]
    /\ call' = [call EXCEPT ![c] = what]
    /\ calls' = [calls EXCEPT ![c] = @ + 1]
    /\ loaded' = [loaded EXCEPT ![c] = stored[c]]
    /\ CancelEventLoop(c)
    /\ UNCHANGED <<serverVars, watchVars, status, events>>

Request(c) == Call(c, "request")

\* begin lets through a Close of an established connection only.
Close(c) == status[c] = "established" /\ Call(c, "close")

Return(c, st) ==
    /\ call' = [call EXCEPT ![c] = "none"]
    /\ status' = [status EXCEPT ![c] = st]
    /\ UNCHANGED <<connections, filters, fqueue, watchVars, loaded, late, calls, events>>

\* What begin knows of a connection after a Request that failed.
AfterFailure(c) == IF status[c] = "established" THEN "established" ELSE "failed"

RequestSucceeds(c) ==
    /\ call[c] = "request"
    /\ Send(c, "up")
    /\ loop' = [loop EXCEPT ![c] = "recv"]
    /\ stored' = [stored EXCEPT ![c] = TRUE]
    /\ Return(c, "established")

\* The next hop cannot be monitored.  The connection has been reported; the
\* Close is of next.Client, which is the tail of a client chain here.
RequestUnmonitored(c) ==
    /\ call[c] = "request"
    /\ Send(c, "up")
    /\ Return(c, AfterFailure(c))
    /\ UNCHANGED <<loop, stored>>

\* The chain fails: a refreshed connection is reported as DOWN.
RequestFails(c) ==
    /\ call[c] = "request"
    /\ IF loaded[c] THEN Send(c, "down") ELSE UNCHANGED queue
    /\ Return(c, AfterFailure(c))
    /\ UNCHANGED <<loop, stored>>

CloseReturns(c) ==
    /\ call[c] = "close"
    /\ Send(c, Missing)
    /\ Return(c, "closed")
    /\ UNCHANGED <<loop, stored>>

\* Recv returns an event or an error and the loop is not cancelled yet.
LoopReceives(c) ==
    /\ loop[c] = "recv"
    /\ events[c] < MaxEvents[c]
    /\ loop' = [loop EXCEPT ![c] = "send"]
    /\ events' = [events EXCEPT ![c] = @ + 1]
    /\ UNCHANGED <<serverVars, watchVars, status, call, stored, loaded, late, calls>>

\* The loop sends what it has received; after an error it sends DOWN and ends.
LoopSends(c) ==
    /\ loop[c] = "send"
    /\ \/ /\ \E v \in State : Send(c, v)
          /\ loop' = [loop EXCEPT ![c] = "recv"]
       \/ /\ Send(c, "down")
          /\ loop' = [loop EXCEPT ![c] = "off"]
    /\ UNCHANGED <<connections, filters, fqueue, watchVars, status, call, stored, loaded,
                   late, calls, events>>

\* So does a loop that was cancelled meanwhile.
LateLoopSends(c) ==
    /\ late[c] > 0
    /\ \E v \in State : Send(c, v)
    /\ late' = [late EXCEPT ![c] = @ - 1]
    /\ UNCHANGED <<connections, filters, fqueue, watchVars, status, call, stored, loaded,
                   loop, calls, events>>

-----------------------------------------------------------------------------
ServerStep == RunEvent \/ RunMonitor \/ RunRemove

FilterStep(w) == FilterSends(w) \/ FilterFails(w)

WatcherStep(w) == MonitorConnections(w) \/ StreamEnds(w)

CallReturns(c) ==
    RequestSucceeds(c) \/ RequestUnmonitored(c) \/ RequestFails(c) \/ CloseReturns(c)

ConnStep(c) ==
    \/ Request(c) \/ Close(c) \/ CallReturns(c)
    \/ LoopReceives(c) \/ LoopSends(c) \/ LateLoopSends(c)

Next ==
    \/ ServerStep
    \/ \E w \in Watcher : FilterStep(w) \/ WatcherStep(w)
    \/ \E c \in Conn : ConnStep(c)

Spec == Init /\ [][Next]_vars

\* The executors run what they are given.
Fairness ==
    /\ WF_vars(ServerStep)
    /\ \A w \in Watcher : WF_vars(FilterStep(w))

-----------------------------------------------------------------------------
TypeOK ==
    /\ connections \in [Conn -> State \cup {Missing}]
    /\ filters \subseteq Watcher
    /\ queue \in Seq(Ops)
    /\ fqueue \in [Watcher -> Seq(Events)]
    /\ stream \in [Watcher -> {"new", "open", "done"}]
    /\ view \in [Watcher -> [Conn -> State \cup {Missing}]]
    /\ status \in [Conn -> {"new", "established", "failed", "closed"}]
    /\ call \in [Conn -> {"none", "request", "close"}]
    /\ stored \in [Conn -> BOOLEAN]
    /\ loaded \in [Conn -> BOOLEAN]
    /\ loop \in [Conn -> {"off", "recv", "send"}]
    /\ late \in [Conn -> Nat]
    /\ calls \in [Conn -> Nat]
    /\ events \in [Conn -> Nat]

\* The positions of the queue of watcher w that tell it about connection c.
About(w, c) == {i \in 1 .. Len(fqueue[w]) : fqueue[w][i].type = "event" => fqueue[w][i].conn = c}

\* What watcher w will see of c once its queue is empty.
WillSee(w, c, v) ==
    \/ About(w, c) = {} /\ view[w][c] = v
    \/ \E i \in About(w, c) :
         /\ \A j \in About(w, c) : j <= i
         /\ v = Received(w, fqueue[w][i], c)

\* The initial transfer and the events that follow it are neither lost nor out
\* of order: at any moment the events that wait for the stream of a watcher lead
\* from what it has seen to what the server knows, for every connection it
\* selects.
ViewsAgree ==
    \A w \in filters : stream[w] = "open" =>
        \A c \in Selector[w] : WillSee(w, c, connections[c])

\* A watcher that stays learns what became of its connections, and the filter of a
\* stream that is done goes away with the next event, so that streams of clients that
\* come and go do not pile up.
StreamsSettle ==
    /\ \A w \in Watcher : w \in filters ~>
           \/ stream[w] = "done"
           \/ \A c \in Selector[w] : view[w][c] = connections[c]
    /\ \A w \in Watcher :
           (stream[w] = "done" /\ \E i \in 1 .. Len(fqueue[w]) : fqueue[w][i].type = "event")
               ~> w \notin filters
=============================================================================
