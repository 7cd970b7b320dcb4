--------------------------- MODULE MonitorProofs ---------------------------
(***************************************************************************)
(* Proofs about Monitor: its type invariant, and that every stream is led  *)
(* from what its watcher has seen to what the server knows.  And about     *)
(* Heal, as MCMonitor composes the two: a connection that is held is       *)
(* watched or being healed.                                                *)
(***************************************************************************)
EXTENDS MCMonitor, WellFoundedInduction, TLAPS

Values == State \cup {Missing}

\* What Append and Tail do to a sequence, index by index.
LEMMA AppendFacts ==
    ASSUME NEW S, NEW s \in Seq(S), NEW e \in S
    PROVE  /\ Append(s, e) \in Seq(S)
           /\ Len(Append(s, e)) = Len(s) + 1
           /\ \A i \in 1 .. Len(s) : Append(s, e)[i] = s[i]
           /\ Append(s, e)[Len(s) + 1] = e
  OBVIOUS

LEMMA TailFacts ==
    ASSUME NEW S, NEW s \in Seq(S), s # <<>>
    PROVE  /\ Head(s) \in S
           /\ Head(s) = s[1]
           /\ Tail(s) \in Seq(S)
           /\ Len(s) \in Nat /\ Len(s) >= 1
           /\ Len(Tail(s)) = Len(s) - 1
           /\ \A i \in 1 .. Len(s) - 1 : Tail(s)[i] = s[i + 1]
  OBVIOUS

\* Send keeps the queue well formed.
LEMMA SendType ==
    ASSUME queue \in Seq(Ops), NEW c \in Conn, NEW v \in Values, Send(c, v)
    PROVE  queue' \in Seq(Ops)
  <1>1. [op |-> "event", conn |-> c, value |-> v] \in Ops
    BY DEF Ops, Values
  <1>2. QED
    BY <1>1, AppendFacts DEF Send

-----------------------------------------------------------------------------
(* The type invariant.                                                     *)

\* The head of a queue that is not empty is an operation, with the fields of
\* its kind.
LEMMA HeadOp ==
    ASSUME TypeOK, queue # <<>>
    PROVE  /\ Tail(queue) \in Seq(Ops)
           /\ Head(queue).op = "event" => Head(queue).conn \in Conn /\ Head(queue).value \in Values
           /\ Head(queue).op # "event" => Head(queue).watcher \in Watcher
  <1>1. queue \in Seq(Ops)
    BY DEF TypeOK
  <1>2. Head(queue) \in Ops /\ Tail(queue) \in Seq(Ops)
    BY <1>1, TailFacts
  <1>3. QED
    BY <1>2 DEF Ops, Values

LEMMA HeadEvent ==
    ASSUME TypeOK, NEW w \in Watcher, fqueue[w] # <<>>
    PROVE  /\ fqueue[w] \in Seq(Events)
           /\ Tail(fqueue[w]) \in Seq(Events)
           /\ Head(fqueue[w]).type = "event" =>
                Head(fqueue[w]).conn \in Conn /\ Head(fqueue[w]).value \in Values
           /\ Head(fqueue[w]).type # "event" => Head(fqueue[w]).value \in [Conn -> Values]
  <1>1. fqueue[w] \in Seq(Events)
    BY DEF TypeOK
  <1>2. Head(fqueue[w]) \in Events /\ Tail(fqueue[w]) \in Seq(Events)
    BY <1>1, TailFacts
  <1>3. QED
    BY <1>1, <1>2 DEF Events, Values

LEMMA InitType == Init => TypeOK
  BY MonitorAssumption DEF Init, TypeOK, State

LEMMA ServerType ==
    ASSUME TypeOK, ServerStep
    PROVE  TypeOK'
  <1>1. CASE RunEvent
    <2> DEFINE e == [type |-> "event", conn |-> Head(queue).conn, value |-> Head(queue).value]
    <2>1. /\ queue' \in Seq(Ops)
          /\ Head(queue).conn \in Conn /\ Head(queue).value \in Values
      BY <1>1, HeadOp DEF RunEvent
    <2>2. e \in Events
      BY <2>1 DEF Events, Values
    <2>3. connections' \in [Conn -> Values]
      BY <1>1, <2>1 DEF RunEvent, TypeOK, Values
    <2>4. \A w \in Watcher : fqueue[w] \in Seq(Events) /\ Append(fqueue[w], e) \in Seq(Events)
      BY <2>2, AppendFacts DEF TypeOK
    <2>5. fqueue' \in [Watcher -> Seq(Events)]
      <3>1. fqueue' = [w \in Watcher |-> IF w \in filters THEN Append(fqueue[w], e) ELSE fqueue[w]]
        BY <1>1 DEF RunEvent
      <3>2. QED
        BY <3>1, <2>4
    <2>6. QED
      BY <1>1, <2>1, <2>3, <2>5 DEF RunEvent, TypeOK, Values, watchVars, connVars
  <1>2. CASE RunMonitor
    <2>1. queue' \in Seq(Ops) /\ Head(queue).watcher \in Watcher
      BY <1>2, HeadOp DEF RunMonitor
    <2>2. InitialTransfer \in Events
      BY DEF InitialTransfer, Events, TypeOK
    <2>3. \A w \in Watcher : Append(fqueue[w], InitialTransfer) \in Seq(Events)
      BY <2>2, AppendFacts DEF TypeOK
    <2>4. fqueue' \in [Watcher -> Seq(Events)] /\ filters' \subseteq Watcher
      BY <1>2, <2>1, <2>3 DEF RunMonitor, TypeOK
    <2>5. QED
      BY <1>2, <2>1, <2>4 DEF RunMonitor, TypeOK, watchVars, connVars
  <1>3. CASE RunRemove
    <2>1. queue' \in Seq(Ops)
      BY <1>3, HeadOp DEF RunRemove
    <2>2. QED
      BY <1>3, <2>1 DEF RunRemove, TypeOK, watchVars, connVars
  <1>4. QED
    BY <1>1, <1>2, <1>3 DEF ServerStep

LEMMA WatchType ==
    ASSUME TypeOK, NEW w \in Watcher, FilterStep(w) \/ WatcherStep(w)
    PROVE  TypeOK'
  <1>1. CASE MonitorConnections(w)
    <2>1. [op |-> "monitor", watcher |-> w] \in Ops
      BY DEF Ops
    <2>2. queue' \in Seq(Ops)
      BY <1>1, <2>1, AppendFacts DEF MonitorConnections, TypeOK
    <2>3. QED
      BY <1>1, <2>2 DEF MonitorConnections, TypeOK, connVars
  <1>2. CASE StreamEnds(w)
    BY <1>2 DEF StreamEnds, TypeOK, serverVars, connVars
  <1>3. CASE FilterSends(w)
    <2> DEFINE e == Head(fqueue[w])
    <2>1. Tail(fqueue[w]) \in Seq(Events)
      BY <1>3, HeadEvent DEF FilterSends
    <2>2. fqueue' \in [Watcher -> Seq(Events)]
      BY <1>3, <2>1 DEF FilterSends, TypeOK
    <2>3. /\ e.type = "event" => e.value \in Values
          /\ e.type # "event" => e.value \in [Conn -> Values]
      BY <1>3, HeadEvent DEF FilterSends
    <2>4. view[w] \in [Conn -> Values]
      BY DEF TypeOK, Values
    <2>5. \A c \in Conn : Received(w, e, c) \in Values
      BY <2>3, <2>4 DEF Received
    <2>6. [c \in Conn |-> Received(w, e, c)] \in [Conn -> Values]
      BY <2>5
    <2>7. view' \in [Watcher -> [Conn -> Values]]
      <3> HIDE DEF e
      <3>1. view' = [view EXCEPT ![w] = [c \in Conn |-> Received(w, e, c)]]
        BY <1>3 DEF FilterSends, e
      <3>2. view \in [Watcher -> [Conn -> Values]]
        BY DEF TypeOK, Values
      <3>3. QED
        BY <3>1, <3>2, <2>6
    <2>8. QED
      BY <1>3, <2>2, <2>7 DEF FilterSends, TypeOK, Values, connVars
  <1>4. CASE FilterFails(w)
    <2>1. [op |-> "remove", watcher |-> w] \in Ops
      BY DEF Ops
    <2>2. queue' \in Seq(Ops)
      BY <1>4, <2>1, AppendFacts DEF FilterFails, TypeOK
    <2>3. Tail(fqueue[w]) \in Seq(Events)
      BY <1>4, HeadEvent DEF FilterFails
    <2>4. fqueue' \in [Watcher -> Seq(Events)]
      BY <1>4, <2>3 DEF FilterFails, TypeOK
    <2>5. QED
      BY <1>4, <2>2, <2>4 DEF FilterFails, TypeOK, watchVars, connVars
  <1>5. QED
    BY <1>1, <1>2, <1>3, <1>4 DEF FilterStep, WatcherStep

LEMMA ConnType ==
    ASSUME TypeOK, NEW c \in Conn, ConnStep(c)
    PROVE  TypeOK'
  <1> USE DEF Values, State
  <1>0. queue \in Seq(Ops) /\ "up" \in Values /\ "down" \in Values /\ Missing \in Values
    BY DEF TypeOK
  <1>1. CASE Request(c) \/ Close(c)
    <2>1. PICK what \in {"request", "close"} : Call(c, what)
      BY <1>1 DEF Request, Close
    <2>2. late' \in [Conn -> Nat] /\ calls' \in [Conn -> Nat]
      BY <2>1 DEF Call, CancelEventLoop, TypeOK
    <2>3. stored' \in [Conn -> BOOLEAN] /\ loop' \in [Conn -> {"off", "recv", "send"}]
      BY <2>1 DEF Call, CancelEventLoop, TypeOK
    <2>4. loaded' \in [Conn -> BOOLEAN]
      BY <2>1, Zenon DEF Call, TypeOK
    <2>5. call' \in [Conn -> {"none", "request", "close"}]
      BY <2>1 DEF Call, TypeOK
    <2>6. QED
      BY <2>1, <2>2, <2>3, <2>4, <2>5 DEF Call, TypeOK, serverVars, watchVars
  <1>2. CASE RequestSucceeds(c)
    <2>1. queue' \in Seq(Ops)
      BY <1>0, <1>2, SendType DEF RequestSucceeds
    <2>2. QED
      BY <1>2, <2>1 DEF RequestSucceeds, Return, TypeOK, watchVars
  <1>3. CASE RequestUnmonitored(c)
    <2>1. queue' \in Seq(Ops)
      BY <1>0, <1>3, SendType DEF RequestUnmonitored
    <2>2. QED
      BY <1>3, <2>1 DEF RequestUnmonitored, AfterFailure, Return, TypeOK, watchVars
  <1>4. CASE RequestFails(c)
    <2>1. queue' \in Seq(Ops)
      BY <1>0, <1>4, SendType DEF RequestFails
    <2>2. QED
      BY <1>4, <2>1 DEF RequestFails, AfterFailure, Return, TypeOK, watchVars
  <1>5. CASE CloseReturns(c)
    <2>1. queue' \in Seq(Ops)
      BY <1>0, <1>5, SendType DEF CloseReturns
    <2>2. QED
      BY <1>5, <2>1 DEF CloseReturns, Return, TypeOK, watchVars
  <1>6. CASE LoopReceives(c)
    BY <1>6 DEF LoopReceives, TypeOK, serverVars, watchVars
  <1>7. CASE LoopSends(c)
    <2>1. queue' \in Seq(Ops)
      BY <1>0, <1>7, SendType DEF LoopSends
    <2>2. QED
      BY <1>7, <2>1 DEF LoopSends, TypeOK, watchVars
  <1>8. CASE LateLoopSends(c)
    <2>1. queue' \in Seq(Ops)
      BY <1>0, <1>8, SendType DEF LateLoopSends
    <2>2. QED
      BY <1>8, <2>1 DEF LateLoopSends, TypeOK, watchVars
  <1>9. QED
    BY <1>1, <1>2, <1>3, <1>4, <1>5, <1>6, <1>7, <1>8 DEF ConnStep, CallReturns

LEMMA NextType ==
    ASSUME TypeOK, [Next]_vars
    PROVE  TypeOK'
  <1>1. CASE UNCHANGED vars
    BY <1>1 DEF TypeOK, vars, serverVars, watchVars, connVars
  <1>2. QED
    BY <1>1, ServerType, WatchType, ConnType DEF Next

\* The variables of monitorServer keep their types, for any set of connections
\* and watchers.
THEOREM TypeCorrect == Spec => []TypeOK
  <1>1. QED
    BY InitType, NextType, PTL DEF Spec

-----------------------------------------------------------------------------
(* ViewsAgree.                                                             *)

\* Only MonitorConnections asks for a filter, and it opens the stream.
NewIsUnfiltered ==
    \A w \in Watcher : stream[w] = "new" =>
        /\ w \notin filters
        /\ \A i \in 1 .. Len(queue) : queue[i] # [op |-> "monitor", watcher |-> w]

\* Nothing changes for the streams that are open.
LEMMA OpenUnchanged ==
    ASSUME ViewsAgree, UNCHANGED <<connections, view>>,
           \A w \in filters' : stream'[w] = "open" =>
               w \in filters /\ stream[w] = "open" /\ fqueue'[w] = fqueue[w]
    PROVE  ViewsAgree'
  BY DEF ViewsAgree, WillSee, About, Received

\* An event at the end of the queue of w decides what w will see of c if it is
\* about c; otherwise nothing changes for c.
LEMMA AppendedEvent ==
    ASSUME TypeOK, NEW w \in Watcher, NEW c \in Selector[w], NEW e \in Events, NEW v,
           view' = view, fqueue'[w] = Append(fqueue[w], e)
    PROVE  IF e.type = "event" => e.conn = c
             THEN v = (IF e.type = "event" THEN e.value ELSE e.value[c]) => WillSee(w, c, v)'
             ELSE WillSee(w, c, v) => WillSee(w, c, v)'
  <1> DEFINE n == Len(fqueue[w])
  <1>1. /\ n \in Nat
        /\ Len(fqueue'[w]) = n + 1
        /\ \A i \in 1 .. n : fqueue'[w][i] = fqueue[w][i]
        /\ fqueue'[w][n + 1] = e
    BY AppendFacts DEF TypeOK
  <1>2. CASE e.type = "event" => e.conn = c
    <2>1. n + 1 \in About(w, c)' /\ \A j \in About(w, c)' : j <= n + 1
      BY <1>1, <1>2 DEF About
    <2>2. Received(w, e, c)' = IF e.type = "event" THEN e.value ELSE e.value[c]
      BY <1>2 DEF Received
    <2>3. QED
      BY <1>1, <1>2, <2>1, <2>2 DEF WillSee, Received
  <1>3. CASE ~(e.type = "event" => e.conn = c)
    <2>1. About(w, c)' = About(w, c)
      BY <1>1, <1>3 DEF About
    <2>2. \A i \in About(w, c) : fqueue'[w][i] = fqueue[w][i]
      BY <1>1 DEF About
    <2>3. QED
      BY <1>3, <2>1, <2>2 DEF WillSee, Received
  <1>4. QED
    BY <1>2, <1>3

\* Sending the head of the queue changes what w has seen, not what it will see.
LEMMA SentEvent ==
    ASSUME TypeOK, NEW w \in Watcher, FilterSends(w), NEW c \in Selector[w], NEW v,
           WillSee(w, c, v)
    PROVE  WillSee(w, c, v)'
  <1> DEFINE n == Len(fqueue[w])
             e == Head(fqueue[w])
  <1>0. c \in Conn
    BY MonitorAssumption
  <1>1. /\ n \in Nat /\ n >= 1
        /\ e = fqueue[w][1]
        /\ fqueue'[w] = Tail(fqueue[w])
        /\ Len(fqueue'[w]) = n - 1
        /\ \A i \in 1 .. n - 1 : fqueue'[w][i] = fqueue[w][i + 1]
    BY TailFacts DEF FilterSends, TypeOK
  <1>2. view'[w][c] = Received(w, e, c)
    BY <1>0 DEF FilterSends, TypeOK
  <1>3. \A i \in 1 .. n - 1 : i \in About(w, c)' <=> i + 1 \in About(w, c)
    BY <1>1 DEF About
  <1>4. About(w, c)' \subseteq 1 .. n - 1 /\ About(w, c) \subseteq 1 .. n
    BY <1>1 DEF About
  <1>5. CASE About(w, c) = {}
    <2>1. About(w, c)' = {}
      BY <1>1, <1>3, <1>4, <1>5
    <2>2. 1 \notin About(w, c)
      BY <1>5
    <2>3. view'[w][c] = view[w][c]
      BY <1>1, <1>2, <2>2 DEF About, Received
    <2>4. QED
      BY <1>5, <2>1, <2>3 DEF WillSee
  <1>6. CASE About(w, c) # {}
    <2>1. PICK i \in About(w, c) :
            /\ \A j \in About(w, c) : j <= i
            /\ v = Received(w, fqueue[w][i], c)
      BY <1>6 DEF WillSee
    <2>2. CASE i = 1
      <3>1. About(w, c)' = {}
        BY <1>1, <1>3, <1>4, <2>1, <2>2
      <3>2. QED
        BY <1>1, <1>2, <2>1, <2>2, <3>1 DEF WillSee
    <2>3. CASE i # 1
      <3>1. i - 1 \in About(w, c)' /\ \A j \in About(w, c)' : j <= i - 1
        BY <1>1, <1>3, <1>4, <2>1, <2>3
      <3>2. fqueue'[w][i - 1] = fqueue[w][i]
        BY <1>1, <1>4, <2>1, <2>3
      <3>3. fqueue[w][i].type = "event" => fqueue[w][i].conn = c
        BY <2>1 DEF About
      <3>4. v = Received(w, fqueue[w][i - 1], c)'
        BY <2>1, <3>2, <3>3 DEF Received
      <3>5. QED
        BY <3>1, <3>4 DEF WillSee
    <2>4. QED
      BY <2>2, <2>3
  <1>7. QED
    BY <1>5, <1>6

LEMMA RunEventAgrees ==
    ASSUME TypeOK, ViewsAgree, RunEvent
    PROVE  ViewsAgree'
  <1> DEFINE e == [type |-> "event", conn |-> Head(queue).conn, value |-> Head(queue).value]
  <1>1. SUFFICES ASSUME NEW w \in filters, stream[w] = "open", NEW c \in Selector[w]
                 PROVE  WillSee(w, c, connections[c])'
    BY DEF ViewsAgree, RunEvent, watchVars
  <1>2. w \in Watcher /\ c \in Conn
    BY MonitorAssumption DEF TypeOK
  <1>3. Head(queue).conn \in Conn /\ Head(queue).value \in Values
    BY HeadOp DEF RunEvent
  <1>4. e \in Events
    BY <1>3 DEF Events, Values
  <1>5. view' = view /\ fqueue'[w] = Append(fqueue[w], e)
    BY <1>2 DEF RunEvent, watchVars
  <1>6. connections' = [connections EXCEPT ![e.conn] = e.value]
    BY DEF RunEvent
  <1>7. WillSee(w, c, connections[c])
    BY <1>1, <1>2 DEF ViewsAgree
  <1>8. \A v : /\ e.conn = c /\ v = e.value => WillSee(w, c, v)'
               /\ e.conn # c /\ WillSee(w, c, v) => WillSee(w, c, v)'
    <2>1. e.type = "event"
      OBVIOUS
    <2> HIDE DEF e
    <2>2. QED
      BY <1>2, <1>4, <1>5, <2>1, AppendedEvent
  <1>9. connections'[c] = IF e.conn = c THEN e.value ELSE connections[c]
    BY <1>2, <1>6 DEF TypeOK
  <1>10. QED
    BY <1>7, <1>8, <1>9

LEMMA RunMonitorAgrees ==
    ASSUME TypeOK, ViewsAgree, RunMonitor
    PROVE  ViewsAgree'
  <1>1. SUFFICES ASSUME NEW w \in filters', stream[w] = "open", NEW c \in Selector[w]
                 PROVE  WillSee(w, c, connections[c])'
    BY DEF ViewsAgree, RunMonitor, watchVars
  <1>2. Head(queue).watcher \in Watcher
    BY HeadOp DEF RunMonitor
  <1>3. w \in Watcher /\ c \in Conn
    BY <1>2, MonitorAssumption DEF TypeOK, RunMonitor
  <1>4. view' = view /\ connections' = connections
    BY DEF RunMonitor, watchVars
  <1>5. CASE w = Head(queue).watcher
    <2>1. InitialTransfer \in Events
      BY DEF InitialTransfer, Events, TypeOK
    <2>2. fqueue'[w] = Append(fqueue[w], InitialTransfer)
      BY <1>2, <1>5 DEF RunMonitor, TypeOK
    <2>3. /\ InitialTransfer.type # "event"
          /\ InitialTransfer.value[c] = connections[c]
      BY DEF InitialTransfer
    <2>4. QED
      BY <1>3, <1>4, <2>1, <2>2, <2>3, AppendedEvent
  <1>6. CASE w # Head(queue).watcher
    <2>1. w \in filters /\ fqueue'[w] = fqueue[w]
      BY <1>2, <1>3, <1>6 DEF RunMonitor, TypeOK
    <2>2. WillSee(w, c, connections[c])
      BY <1>1, <2>1 DEF ViewsAgree
    <2>3. QED
      BY <1>4, <2>1, <2>2 DEF WillSee, About, Received
  <1>7. QED
    BY <1>5, <1>6

LEMMA FilterSendsAgrees ==
    ASSUME TypeOK, ViewsAgree, NEW u \in Watcher, FilterSends(u)
    PROVE  ViewsAgree'
  <1>1. SUFFICES ASSUME NEW w \in filters, stream[w] = "open", NEW c \in Selector[w]
                 PROVE  WillSee(w, c, connections[c])'
    BY DEF ViewsAgree, FilterSends
  <1>2. w \in Watcher /\ connections' = connections
    BY DEF TypeOK, FilterSends
  <1>3. WillSee(w, c, connections[c])
    BY <1>1 DEF ViewsAgree
  <1>4. CASE w = u
    BY <1>2, <1>3, <1>4, SentEvent
  <1>5. CASE w # u
    <2>1. fqueue'[w] = fqueue[w] /\ view'[w] = view[w]
      BY <1>2, <1>5 DEF FilterSends, TypeOK
    <2>2. QED
      BY <1>2, <1>3, <2>1 DEF WillSee, About, Received
  <1>6. QED
    BY <1>4, <1>5

LEMMA NextAgrees ==
    ASSUME TypeOK, ViewsAgree, NewIsUnfiltered, [Next]_vars
    PROVE  ViewsAgree'
  <1>1. CASE RunRemove
    BY <1>1, OpenUnchanged DEF RunRemove, watchVars
  <1>2. ASSUME NEW u \in Watcher, FilterStep(u) \/ WatcherStep(u)
        PROVE  ViewsAgree'
    <2>1. CASE StreamEnds(u)
      BY <2>1, OpenUnchanged DEF StreamEnds, serverVars, TypeOK
    <2>2. CASE MonitorConnections(u)
      BY <2>2, OpenUnchanged DEF MonitorConnections, TypeOK, NewIsUnfiltered
    <2>3. CASE FilterFails(u)
      BY <2>3, OpenUnchanged DEF FilterFails, watchVars, TypeOK
    <2>4. QED
      BY <1>2, <2>1, <2>2, <2>3, FilterSendsAgrees DEF FilterStep, WatcherStep
  <1>3. ASSUME NEW c \in Conn, ConnStep(c)
        PROVE  ViewsAgree'
    <2>1. UNCHANGED <<connections, filters, fqueue, stream, view>>
      BY <1>3 DEF ConnStep, CallReturns, Request, Close, Call, RequestSucceeds,
         RequestUnmonitored, RequestFails, CloseReturns, Return, LoopReceives, LoopSends,
         LateLoopSends, serverVars, watchVars
    <2>2. QED
      BY <2>1, OpenUnchanged
  <1>4. CASE UNCHANGED vars
    BY <1>4, OpenUnchanged DEF vars, serverVars, watchVars
  <1>5. QED
    BY <1>1, <1>2, <1>3, <1>4, RunEventAgrees, RunMonitorAgrees DEF Next, ServerStep

\* Streams do not become new again, and what is added to the queue is no filter
\* of a new stream.
LEMMA QueueUnfiltered ==
    ASSUME TypeOK, NewIsUnfiltered,
           \A w \in Watcher : stream'[w] = "new" => stream[w] = "new" /\ w \notin filters',
           \/ queue' = queue
           \/ queue # <<>> /\ queue' = Tail(queue)
           \/ \E o \in Ops : /\ queue' = Append(queue, o)
                             /\ o.op = "monitor" => stream'[o.watcher] # "new"
    PROVE  NewIsUnfiltered'
  <1>1. SUFFICES ASSUME NEW w \in Watcher, stream'[w] = "new", NEW i \in 1 .. Len(queue')
                 PROVE  queue'[i] # [op |-> "monitor", watcher |-> w]
    BY DEF NewIsUnfiltered
  <1>2. queue \in Seq(Ops) /\ Len(queue) \in Nat
    BY DEF TypeOK
  <1>3. \A j \in 1 .. Len(queue) : queue[j] # [op |-> "monitor", watcher |-> w]
    BY <1>1 DEF NewIsUnfiltered
  <1>4. CASE queue' = queue
    BY <1>3, <1>4
  <1>5. CASE queue # <<>> /\ queue' = Tail(queue)
    BY <1>2, <1>3, <1>5, TailFacts
  <1>6. ASSUME NEW o \in Ops, queue' = Append(queue, o),
               o.op = "monitor" => stream'[o.watcher] # "new"
        PROVE  queue'[i] # [op |-> "monitor", watcher |-> w]
    BY <1>1, <1>2, <1>3, <1>6, AppendFacts
  <1>7. QED
    BY <1>4, <1>5, <1>6

\* Send adds no filter.
LEMMA SendUnfiltered ==
    ASSUME TypeOK, NewIsUnfiltered, UNCHANGED <<stream, filters>>,
           queue' = queue \/ \E c \in Conn, v \in Values : Send(c, v)
    PROVE  NewIsUnfiltered'
  <1>1. ASSUME NEW c \in Conn, NEW v \in Values
        PROVE  [op |-> "event", conn |-> c, value |-> v] \in Ops
    BY DEF Ops, Values
  <1>2. \A w \in Watcher : stream'[w] = "new" => stream[w] = "new" /\ w \notin filters'
    BY DEF NewIsUnfiltered
  <1>3. CASE queue' = queue
    BY <1>2, <1>3, QueueUnfiltered
  <1>4. ASSUME NEW c \in Conn, NEW v \in Values, Send(c, v)
        PROVE  NewIsUnfiltered'
    BY <1>1, <1>2, <1>4, QueueUnfiltered DEF Send
  <1>5. QED
    BY <1>3, <1>4

LEMMA NextUnfiltered ==
    ASSUME TypeOK, NewIsUnfiltered, [Next]_vars
    PROVE  NewIsUnfiltered'
  <1>1. CASE RunEvent \/ RunRemove
    <2>1. \A w \in Watcher : stream'[w] = "new" => stream[w] = "new" /\ w \notin filters'
      BY <1>1 DEF RunEvent, RunRemove, watchVars, NewIsUnfiltered
    <2>2. QED
      BY <1>1, <2>1, QueueUnfiltered DEF RunEvent, RunRemove
  <1>2. CASE RunMonitor
    <2> DEFINE u == Head(queue).watcher
    <2>1. u \in Watcher /\ queue[1] = Head(queue) /\ 1 \in 1 .. Len(queue)
      BY <1>2, HeadOp, TailFacts DEF RunMonitor, TypeOK
    <2>2. Head(queue) = [op |-> "monitor", watcher |-> u]
      <3>1. Head(queue) \in Ops
        BY <1>2, TailFacts DEF RunMonitor, TypeOK
      <3>2. QED
        BY <1>2, <3>1 DEF RunMonitor, Ops
    <2>3. stream[u] # "new"
      BY <2>1, <2>2 DEF NewIsUnfiltered
    <2>4. \A w \in Watcher : stream'[w] = "new" => stream[w] = "new" /\ w \notin filters'
      BY <1>2, <2>3 DEF RunMonitor, watchVars, NewIsUnfiltered
    <2>5. QED
      BY <1>2, <2>4, QueueUnfiltered DEF RunMonitor
  <1>3. ASSUME NEW u \in Watcher, FilterStep(u) \/ WatcherStep(u)
        PROVE  NewIsUnfiltered'
    <2>1. \A w \in Watcher : stream'[w] = "new" => stream[w] = "new" /\ w \notin filters'
      BY <1>3 DEF FilterStep, WatcherStep, FilterSends, FilterFails, MonitorConnections,
         StreamEnds, watchVars, serverVars, TypeOK, NewIsUnfiltered
    <2>2. \A op \in {"monitor", "remove"} : [op |-> op, watcher |-> u] \in Ops
      BY DEF Ops
    <2>3. CASE MonitorConnections(u)
      <3>1. stream'[u] # "new"
        BY <2>3 DEF MonitorConnections, TypeOK
      <3>2. QED
        BY <2>1, <2>2, <2>3, <3>1, QueueUnfiltered DEF MonitorConnections
    <2>4. CASE FilterFails(u)
      BY <2>1, <2>2, <2>4, QueueUnfiltered DEF FilterFails
    <2>5. CASE FilterSends(u) \/ StreamEnds(u)
      BY <2>1, <2>5, QueueUnfiltered DEF FilterSends, StreamEnds, serverVars
    <2>6. QED
      BY <1>3, <2>3, <2>4, <2>5 DEF FilterStep, WatcherStep
  <1>4. ASSUME NEW c \in Conn, ConnStep(c)
        PROVE  NewIsUnfiltered'
    <2>1. queue' = queue \/ \E v \in Values : Send(c, v)
      BY <1>4 DEF ConnStep, CallReturns, Request, Close, Call, RequestSucceeds,
         RequestUnmonitored, RequestFails, CloseReturns, LoopReceives, LoopSends,
         LateLoopSends, serverVars, Values, State
    <2>2. UNCHANGED <<stream, filters>>
      BY <1>4 DEF ConnStep, CallReturns, Request, Close, Call, RequestSucceeds,
         RequestUnmonitored, RequestFails, CloseReturns, Return, LoopReceives, LoopSends,
         LateLoopSends, serverVars, watchVars
    <2>3. QED
      BY <2>1, <2>2, SendUnfiltered
  <1>5. CASE UNCHANGED vars
    BY <1>5, SendUnfiltered DEF vars, serverVars, watchVars
  <1>6. QED
    BY <1>1, <1>2, <1>3, <1>4, <1>5 DEF Next, ServerStep

\* Every stream of MonitorConnections is led from what its watcher has seen to
\* what the server knows, for any connections, watchers and selectors: no event
\* falls between the initial transfer and the filter's registration.
THEOREM StreamsAgree == Spec => []ViewsAgree
  <1> DEFINE Inv == TypeOK /\ NewIsUnfiltered /\ ViewsAgree
  <1>1. Init => Inv
    <2>1. Init => NewIsUnfiltered /\ ViewsAgree
      BY DEF Init, NewIsUnfiltered, ViewsAgree
    <2>2. QED
      BY <2>1, InitType
  <1>2. Inv /\ [Next]_vars => Inv'
    BY NextType, NextUnfiltered, NextAgrees
  <1>3. QED
    BY <1>1, <1>2, PTL DEF Spec


-----------------------------------------------------------------------------
(* healClient, as MCMonitor composes it with monitor.                      *)

USE DEF Healing!None

\* A set of numbers that is not empty has a least one.
LEMMA LeastExists ==
    ASSUME NEW S \in SUBSET Nat, S # {}
    PROVE  \E n \in S : \A m \in S : n <= m
<1> DEFINE R == OpToRel(<, Nat)
<1>1. IsWellFoundedOn(R, Nat)
  BY NatLessThanWellFounded
<1>2. \A m, n \in Nat : m < n => <<m, n>> \in R
  BY DEF OpToRel
<1> HIDE DEF R
<1>3. PICK n \in S : \A m \in S : <<m, n>> \notin R
  BY <1>1, WFMin
<1>4. \A m \in S : ~(m < n)
  BY <1>2, <1>3
<1> QED
  BY <1>4

HealTypes ==
    /\ state \in {"zero", "established", "closed"}
    /\ held \in BOOLEAN
    /\ loops \in [Healing!Loops -> {"off", "watching", "healing", "ended", "closed"}]
    /\ cancelled \in [Healing!Loops -> BOOLEAN]
    /\ lost \in [Healing!Loops -> BOOLEAN]
    /\ reselect \in [Healing!Loops -> BOOLEAN]
    /\ handle \in Healing!Loops \cup {0}
    /\ fired \in [Healing!Loops -> BOOLEAN]
    /\ by \in Healing!Loops \cup {0, Healing!Caller}
    /\ step \in {"idle", "await", "chain"}
    /\ (step = "idle") <=> (by = 0)
    /\ taken \in Healing!Loops \cup {0}

SomeHeals == \E l \in Healing!Loops : loops[l] = "healing"

\* A Request takes the handle, and only an established connection is held.
TakenByRequest ==
    /\ by # 0 => handle = 0
    /\ held => state = "established"

\* While a Request is in the chain, a connection that is held was watched by the
\* loop whose handle the Request has taken, or is being healed.
HeldInRequest == by # 0 /\ held => taken # 0 \/ SomeHeals

\* Only loops that heal fire, and the loop whose Request is in the chain waits for it.
FiredByHealing ==
    /\ \A l \in Healing!Loops : fired[l] => loops[l] = "healing"
    /\ by \in Healing!Loops => fired[by]

HealInv ==
    HealTypes /\ TakenByRequest /\ HeldInRequest /\ FiredByHealing /\ Healing!WatchedByOneLoop

LEMMA CallerIsNoLoop == Healing!Caller \notin Healing!Loops /\ Healing!Caller # 0 /\ 0 \notin Healing!Loops
BY HealAssumption DEF Healing!Caller, Healing!Loops

\* newEventLoop starts a loop of which nothing is left, and only that one.
LEMMA StartsFreeLoop ==
    ASSUME NEW ls, Healing!StartEventLoop(ls)
    PROVE  \E n \in Healing!Loops :
              /\ ls[n] \in {"off", "ended", "closed"}
              /\ handle' = n
              /\ loops' = [ls EXCEPT ![n] = "watching"]
              /\ cancelled' = [cancelled EXCEPT ![n] = FALSE]
              /\ lost' = [lost EXCEPT ![n] = FALSE]
              /\ reselect' = [reselect EXCEPT ![n] = FALSE]
<1> DEFINE free == {l \in Healing!Loops : ls[l] \in {"off", "ended", "closed"}}
           n == CHOOSE l \in free : \A m \in free : l <= m
<1>1. free \in SUBSET Nat /\ free # {}
  BY HealAssumption DEF Healing!Loops, Healing!StartEventLoop
<1>2. n \in free
  <2>1. \E l \in free : \A m \in free : l <= m
    BY <1>1, LeastExists
  <2> QED
    BY <2>1
<1>3. /\ handle' = n
      /\ loops' = [ls EXCEPT ![n] = "watching"]
      /\ cancelled' = [cancelled EXCEPT ![n] = FALSE]
      /\ lost' = [lost EXCEPT ![n] = FALSE]
      /\ reselect' = [reselect EXCEPT ![n] = FALSE]
  BY DEF Healing!StartEventLoop
<1> HIDE DEF n
<1> QED
  BY <1>2, <1>3

LEMMA HealInit == Healing!Init => HealInv
BY CallerIsNoLoop DEF Healing!Init, HealInv, HealTypes, TakenByRequest, HeldInRequest, FiredByHealing,
   Healing!WatchedByOneLoop

LEMMA HealStep == HealInv /\ [Healing!Next]_healVars => HealInv'
<1> SUFFICES ASSUME HealInv, [Healing!Next]_healVars PROVE HealInv'
  OBVIOUS
<1> USE CallerIsNoLoop
    DEF HealInv, HealTypes, Healing!loopVars, Healing!requestVars
<1> DEFINE Rest == TakenByRequest /\ HeldInRequest /\ FiredByHealing
<1>1. ASSUME NEW l \in Healing!Loops, Healing!ControlPlaneLost(l) \/ Healing!DataPlaneLost(l)
      PROVE  HealInv'
  <2>1. /\ UNCHANGED <<state, held, loops, cancelled, handle, fired, by, step, taken>>
        /\ lost' \in [Healing!Loops -> BOOLEAN]
    BY <1>1 DEF Healing!ControlPlaneLost, Healing!DataPlaneLost, Healing!PlaneLost
  <2>2. reselect' \in [Healing!Loops -> BOOLEAN]
    BY <1>1 DEF Healing!ControlPlaneLost, Healing!DataPlaneLost, Healing!PlaneLost
  <2>3. HealTypes'
    BY <2>1, <2>2
  <2> QED
    BY <2>1, <2>3 DEF TakenByRequest, HeldInRequest, FiredByHealing, SomeHeals,
                      Healing!WatchedByOneLoop
<1>2. ASSUME NEW l \in Healing!Loops, Healing!HealingStarts(l) PROVE HealInv'
  <2> USE <1>2 DEF Healing!HealingStarts
  <2>1. HealTypes'
    OBVIOUS
  <2>2. SomeHeals'
    BY DEF SomeHeals
  <2>3. Rest'
    BY <2>2 DEF TakenByRequest, HeldInRequest, FiredByHealing
  <2>4. Healing!WatchedByOneLoop'
    BY <2>2 DEF Healing!WatchedByOneLoop, SomeHeals
  <2> QED
    BY <2>1, <2>3, <2>4
<1>3. ASSUME NEW l \in Healing!Loops, Healing!WatchEnds(l) \/ Healing!ControlPlaneClosed(l) PROVE HealInv'
  <2> USE <1>3 DEF Healing!WatchEnds, Healing!ControlPlaneClosed
  <2>1. HealTypes'
    OBVIOUS
  <2>2. SomeHeals' <=> SomeHeals
    BY DEF SomeHeals
  <2>3. Rest'
    BY <2>2 DEF TakenByRequest, HeldInRequest, FiredByHealing
  <2>4. Healing!WatchedByOneLoop'
    BY <2>2 DEF Healing!WatchedByOneLoop, SomeHeals
  <2> QED
    BY <2>1, <2>3, <2>4
<1>4. ASSUME NEW l \in Healing!Loops, Healing!HealingFires(l) PROVE HealInv'
  <2> USE <1>4 DEF Healing!HealingFires
  <2>1. HealTypes'
    OBVIOUS
  <2>2. Rest' /\ Healing!WatchedByOneLoop'
    BY DEF TakenByRequest, HeldInRequest, FiredByHealing, SomeHeals, Healing!WatchedByOneLoop
  <2> QED
    BY <2>1, <2>2
<1>5. ASSUME NEW l \in Healing!Loops, Healing!EventRequest(l) PROVE HealInv'
  <2> USE <1>5 DEF Healing!EventRequest, Healing!TakeHandle
  <2>1. HealTypes'
    OBVIOUS
  <2>2. SomeHeals /\ SomeHeals'
    BY DEF FiredByHealing, SomeHeals
  <2>3. Rest'
    BY <2>2 DEF TakenByRequest, HeldInRequest, FiredByHealing
  <2>4. Healing!WatchedByOneLoop'
    BY DEF Healing!WatchedByOneLoop
  <2> QED
    BY <2>1, <2>3, <2>4
<1>6. ASSUME NEW l \in Healing!Loops, Healing!EventSkipped(l) PROVE HealInv'
  <2> USE <1>6 DEF Healing!EventSkipped
  <2>1. HealTypes' /\ ~held
    BY DEF TakenByRequest
  <2>2. Rest'
    BY <2>1 DEF TakenByRequest, HeldInRequest, FiredByHealing
  <2>3. Healing!WatchedByOneLoop'
    BY <2>1 DEF Healing!WatchedByOneLoop
  <2> QED
    BY <2>1, <2>2, <2>3
<1>7. CASE Healing!CallerRequest
  <2> USE <1>7 DEF Healing!CallerRequest, Healing!TakeHandle
  <2>1. HealTypes'
    OBVIOUS
  <2>2. held => handle # 0 \/ SomeHeals
    BY DEF Healing!WatchedByOneLoop, SomeHeals
  <2>3. Rest'
    BY <2>2 DEF TakenByRequest, HeldInRequest, FiredByHealing, SomeHeals
  <2>4. Healing!WatchedByOneLoop'
    BY DEF Healing!WatchedByOneLoop
  <2> QED
    BY <2>1, <2>3, <2>4
<1>8. CASE Healing!HandleAnswers
  <2> USE <1>8 DEF Healing!HandleAnswers
  <2>1. HealTypes'
    OBVIOUS
  <2>2. Rest' /\ Healing!WatchedByOneLoop'
    BY DEF TakenByRequest, HeldInRequest, FiredByHealing, SomeHeals, Healing!WatchedByOneLoop
  <2> QED
    BY <2>1, <2>2
\* A Request returns and has started a new loop.
<1>9. ASSUME NEW ls \in {loops, [l \in Healing!Loops |-> IF l = by THEN "ended" ELSE loops[l]]},
             step = "chain", Healing!StartEventLoop(ls), Healing!RequestReturns,
             state' \in {"zero", "established", "closed"}, held' \in BOOLEAN,
             held' => state' = "established"
      PROVE  HealInv'
  <2> USE <1>9 DEF Healing!RequestReturns
  <2>0. ls \in [Healing!Loops -> {"off", "watching", "healing", "ended", "closed"}]
    OBVIOUS
  <2>1. PICK n \in Healing!Loops :
           /\ ls[n] \in {"off", "ended", "closed"}
           /\ handle' = n
           /\ loops' = [ls EXCEPT ![n] = "watching"]
           /\ cancelled' = [cancelled EXCEPT ![n] = FALSE]
           /\ lost' = [lost EXCEPT ![n] = FALSE]
           /\ reselect' = [reselect EXCEPT ![n] = FALSE]
    BY StartsFreeLoop
  <2>2. HealTypes'
    BY <2>0, <2>1
  <2>3. FiredByHealing'
    BY <2>0, <2>1 DEF FiredByHealing
  <2>4. \A l \in Healing!Loops : l # n /\ loops'[l] = "watching" => cancelled'[l]
    <3>1. \A l \in Healing!Loops : loops[l] = "watching" => cancelled[l]
      BY DEF Healing!WatchedByOneLoop, TakenByRequest
    <3> QED
      BY <2>0, <2>1, <3>1
  <2>5. Healing!WatchedByOneLoop'
    BY <2>0, <2>1, <2>4 DEF Healing!WatchedByOneLoop
  <2> QED
    BY <2>2, <2>3, <2>5 DEF TakenByRequest, HeldInRequest
\* A Request returns and has started none.
<1>10. ASSUME step = "chain", Healing!NoEventLoop, Healing!RequestReturns,
              state' \in {"zero", "established", "closed"},
              held' = FALSE \/ (UNCHANGED held /\ (held => SomeHeals /\ state' = "established"))
       PROVE  HealInv'
  <2> USE <1>10 DEF Healing!RequestReturns, Healing!NoEventLoop
  <2>1. HealTypes'
    OBVIOUS
  <2>2. Rest'
    BY DEF TakenByRequest, HeldInRequest, FiredByHealing
  <2>3. Healing!WatchedByOneLoop'
    BY DEF Healing!WatchedByOneLoop, SomeHeals
  <2> QED
    BY <2>1, <2>2, <2>3
<1>11. CASE Healing!RequestSucceeds
  BY <1>9, <1>11 DEF Healing!RequestSucceeds
<1>12. CASE Healing!MonitorFails
  BY <1>10, <1>12 DEF Healing!MonitorFails, Healing!AfterFailure
<1>13. CASE Healing!RequestFails
  <2> USE <1>13 DEF Healing!RequestFails, Healing!AfterFailure, TakenByRequest
  <2>1. CASE Healing!StartEventLoop(loops) /\ UNCHANGED held
    BY <1>9, <2>1
  <2>2. CASE Healing!NoEventLoop /\ held' = FALSE
    BY <1>10, <2>2
  <2>3. CASE ~Healing!MustWatchAgain /\ Healing!NoEventLoop /\ UNCHANGED held
    <3>1. held => SomeHeals
      BY <2>3 DEF Healing!MustWatchAgain, HeldInRequest, SomeHeals
    <3> QED
      BY <1>10, <2>3, <3>1
  <2> QED
    BY <2>1, <2>2, <2>3
<1>14. CASE Healing!Close
  <2> USE <1>14 DEF Healing!Close
  <2>1. HealTypes'
    OBVIOUS
  <2>2. Rest' /\ Healing!WatchedByOneLoop'
    BY DEF TakenByRequest, HeldInRequest, FiredByHealing, Healing!WatchedByOneLoop
  <2> QED
    BY <2>1, <2>2
<1>15. CASE UNCHANGED healVars
  BY <1>15 DEF healVars, TakenByRequest, HeldInRequest, FiredByHealing, SomeHeals,
               Healing!WatchedByOneLoop
<1> QED
  BY <1>1, <1>2, <1>3, <1>4, <1>5, <1>6, <1>7, <1>8, <1>11, <1>12, <1>13, <1>14, <1>15
     DEF Healing!Next, Healing!LoopStep, Healing!EventStep

\* Whatever Requests of callers and of loops of healClient succeed or fail, a
\* connection that is held is watched by a loop that nobody has cancelled or is
\* being healed, but from the end of its stream with codes.Canceled to its next
\* Request; and a loop that watches can be cancelled through its handle.
THEOREM HeldIsWatched == MCFairSpec => []WatchedByOneLoop
<1>1. MCInit => HealInv
  BY HealInit DEF MCInit
<1>2. HealInv /\ [MCNext]_<<part, vars, healVars>> => HealInv'
  <2>1. [MCNext]_<<part, vars, healVars>> => [Healing!Next]_healVars
    BY DEF MCNext
  <2> QED
    BY <2>1, HealStep
<1>3. HealInv => WatchedByOneLoop
  BY DEF HealInv, WatchedByOneLoop
<1> QED
  BY <1>1, <1>2, <1>3, PTL DEF MCFairSpec
=============================================================================
