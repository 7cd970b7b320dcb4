---------------------------- MODULE TimersProofs ----------------------------
(***************************************************************************)
(* Proofs about the elements of MCTimers, for any numbers of calls and     *)
(* changes, any connections and endpoints, any lifetimes of tokens and any *)
(* expiration times that have not come when they are offered.              *)
(***************************************************************************)
EXTENDS MCTimers, WellFoundedInduction, TLAPS

-----------------------------------------------------------------------------
(* refresh.                                                                *)

RefreshOps == [op : {"none", "Request", "Close", "refresh"}, gen : Nat]

RefreshTypes ==
    /\ queue \in Seq(RefreshOps)
    /\ run \in RefreshOps
    /\ gens \in Nat
    /\ cancel \in 0 .. gens
    /\ cancelled \subseteq 1 .. gens
    /\ timers \in [Refresh!Gen -> {"none", "armed", "waiting", "gone"}]

\* A goroutine that has not been cancelled is the one in the metadata, whether it
\* waits for its timer or its event is in the queue or runs.
LiveIsStored ==
    /\ \A g \in Refresh!Gen : timers[g] \in {"armed", "waiting"} => g \in cancelled \/ g = cancel
    /\ \A i \in DOMAIN queue : queue[i].op = "refresh" => queue[i].gen \in cancelled \cup {cancel}
    /\ run.op = "refresh" => run.gen \in cancelled \cup {cancel}

\* begin: events that wait or run belong to goroutines.
EventsHaveRoutines ==
    /\ \A i \in DOMAIN queue : queue[i].op = "refresh" => queue[i].gen \in Refresh!Gen
    /\ run.op = "refresh" => run.gen \in Refresh!Gen

\* The refresh of an open connection waits for its timer, in the queue, or runs.
OpenIsRefreshed ==
    /\ conn = "open" =>
          /\ cancel \in Refresh!Gen /\ cancel \notin cancelled
          /\ \/ timers[cancel] = "armed"
             \/ \E i \in DOMAIN queue : queue[i] = Refresh!Op("refresh", cancel)
             \/ run = Refresh!Op("refresh", cancel)
    /\ conn # "open" => cancel = 0

RefreshInv ==
    /\ RefreshTypes
    /\ LiveIsStored
    /\ EventsHaveRoutines
    /\ OpenIsRefreshed

LEMMA RefreshBegins == Refresh!RefreshInit => RefreshInv
  BY DEF Refresh!RefreshInit, RefreshInv, RefreshTypes, RefreshOps, LiveIsStored, EventsHaveRoutines, OpenIsRefreshed,
         Refresh!Nothing, Refresh!Op

\* A call or an event is put into the queue of begin.
LEMMA RefreshAppends ==
    ASSUME RefreshInv, NEW o \in RefreshOps, queue' = Append(queue, o),
           UNCHANGED <<conn, run, cancel, cancelled, gens>>,
           o.op = "refresh" => o.gen \in Refresh!Gen /\ o.gen \in cancelled \cup {cancel},
           \/ UNCHANGED timers
           \/ /\ o.op = "refresh"
              /\ o = Refresh!Op("refresh", o.gen)
              /\ timers' = [timers EXCEPT ![o.gen] = "waiting"]
    PROVE  RefreshInv'
  <1> USE DEF RefreshInv
  <1>1. queue \in Seq(RefreshOps)
    BY DEF RefreshTypes
  <1>2. /\ \A i \in DOMAIN queue' : (i \in DOMAIN queue /\ queue'[i] = queue[i]) \/ queue'[i] = o
        /\ \A i \in DOMAIN queue : i \in DOMAIN queue' /\ queue'[i] = queue[i]
        /\ \E i \in DOMAIN queue' : queue'[i] = o
    BY <1>1
  <1>3. RefreshTypes'
    BY <1>1 DEF RefreshTypes
  <1>4. LiveIsStored'
    BY <1>2 DEF LiveIsStored, RefreshTypes
  <1>5. EventsHaveRoutines'
    BY <1>2 DEF EventsHaveRoutines
  <1>6. OpenIsRefreshed'
    BY <1>2 DEF OpenIsRefreshed, RefreshTypes, Refresh!Op
  <1>7. QED
    BY <1>3, <1>4, <1>5, <1>6

LEMMA RefreshStarts ==
    ASSUME RefreshInv, Refresh!Start
    PROVE  RefreshInv'
  <1> USE DEF RefreshInv
  <1> DEFINE o == Head(queue)
  <1> DEFINE skipped == o.op = "refresh" /\ (conn # "open" \/ o.gen \in cancelled)
  <1>1. /\ run = Refresh!Nothing /\ queue # <<>> /\ queue' = Tail(queue)
        /\ skipped => timers' = [timers EXCEPT ![o.gen] = "gone"] /\ UNCHANGED run
        /\ ~skipped => run' = o /\ UNCHANGED timers
        /\ UNCHANGED <<conn, cancel, cancelled, gens>>
    BY DEF Refresh!Start
  <1>2. /\ queue \in Seq(RefreshOps) /\ queue' \in Seq(RefreshOps) /\ o \in RefreshOps
        /\ \A i \in DOMAIN queue' : i + 1 \in DOMAIN queue /\ queue'[i] = queue[i + 1]
        /\ \A i \in DOMAIN queue : queue[i] = o \/ (i - 1 \in DOMAIN queue' /\ queue'[i - 1] = queue[i])
        /\ 1 \in DOMAIN queue /\ queue[1] = o
    BY <1>1 DEF RefreshTypes
  <1> HIDE DEF o
  <1>3. RefreshTypes'
    BY <1>1, <1>2 DEF RefreshTypes
  <1>4. LiveIsStored'
    BY <1>1, <1>2 DEF LiveIsStored, RefreshTypes
  <1>5. EventsHaveRoutines'
    BY <1>1, <1>2 DEF EventsHaveRoutines
  <1>6. OpenIsRefreshed'
    <2>1. CASE conn # "open"
      BY <1>1, <2>1 DEF OpenIsRefreshed
    <2>2. CASE conn = "open" /\ timers[cancel] = "armed"
      BY <1>1, <2>2 DEF OpenIsRefreshed, RefreshTypes
    <2>3. ASSUME conn = "open", NEW i \in DOMAIN queue, queue[i] = Refresh!Op("refresh", cancel)
          PROVE  OpenIsRefreshed'
      <3>1. CASE queue[i] = o
        BY <1>1, <2>3, <3>1 DEF OpenIsRefreshed, Refresh!Op
      <3>2. CASE i - 1 \in DOMAIN queue' /\ queue'[i - 1] = queue[i]
        BY <1>1, <2>3, <3>2 DEF OpenIsRefreshed, Refresh!Op
      <3>3. QED
        BY <1>2, <3>1, <3>2
    <2>4. run # Refresh!Op("refresh", cancel)
      BY <1>1 DEF Refresh!Op, Refresh!Nothing
    <2>5. QED
      BY <2>1, <2>2, <2>3, <2>4 DEF OpenIsRefreshed
  <1>7. QED
    BY <1>3, <1>4, <1>5, <1>6

LEMMA RefreshRequest ==
    ASSUME RefreshInv, Refresh!Request
    PROVE  RefreshInv'
  <1> USE DEF RefreshInv
  <1>1. /\ gens < Refresh!MaxGens /\ gens' = gens + 1 /\ cancel' = gens + 1
        /\ conn' = "open" /\ run' = Refresh!Nothing
        /\ cancelled' = IF cancel = 0 THEN cancelled ELSE cancelled \cup {cancel}
        /\ timers' = [g \in Refresh!Gen |-> IF g = gens + 1 THEN "armed" ELSE
                                            IF run = Refresh!Op("refresh", g) THEN "gone" ELSE timers[g]]
        /\ queue' = queue
    BY DEF Refresh!Request, Refresh!Cancel
  <1>2. gens + 1 \in Refresh!Gen
    BY <1>1, TimersAssumption DEF RefreshTypes, Refresh!Gen, Refresh!MaxGens
  <1>3. RefreshTypes'
    <2>1. cancelled' \subseteq 1 .. gens'
      BY <1>1 DEF RefreshTypes
    <2>2. timers' \in [Refresh!Gen -> {"none", "armed", "waiting", "gone"}]
      BY <1>1 DEF RefreshTypes
    <2>3. run' \in RefreshOps
      BY <1>1 DEF Refresh!Nothing, Refresh!Op, RefreshOps
    <2>4. QED
      BY <1>1, <2>1, <2>2, <2>3 DEF RefreshTypes
  <1>4. \A g \in cancelled \cup {cancel} : g \in Refresh!Gen => g \in cancelled'
    BY <1>1 DEF Refresh!Gen
  <1>5. run'.op # "refresh"
    BY <1>1 DEF Refresh!Nothing, Refresh!Op
  <1>6. LiveIsStored'
    BY <1>1, <1>4, <1>5 DEF LiveIsStored, EventsHaveRoutines, RefreshTypes
  <1>7. EventsHaveRoutines'
    BY <1>1, <1>5 DEF EventsHaveRoutines
  <1>8. gens + 1 \notin cancelled'
    BY <1>1 DEF RefreshTypes
  <1>9. OpenIsRefreshed'
    BY <1>1, <1>2, <1>8 DEF OpenIsRefreshed
  <1>10. QED
    BY <1>3, <1>6, <1>7, <1>9

LEMMA RefreshFails ==
    ASSUME RefreshInv, Refresh!RequestFails
    PROVE  RefreshInv'
  <1> USE DEF RefreshInv
  <1>1. /\ run.op = "refresh" => timers' = [timers EXCEPT ![run.gen] = "armed"]
        /\ run.op # "refresh" => timers' = timers
        /\ run' = Refresh!Nothing
        /\ UNCHANGED <<conn, queue, cancel, cancelled, gens>>
    BY DEF Refresh!RequestFails
  <1>2. run'.op # "refresh" /\ run' \in RefreshOps
    BY <1>1 DEF Refresh!Nothing, Refresh!Op, RefreshOps
  <1>3. RefreshTypes'
    BY <1>1, <1>2 DEF RefreshTypes
  <1>4. LiveIsStored'
    BY <1>1, <1>2 DEF LiveIsStored, RefreshTypes
  <1>5. EventsHaveRoutines'
    BY <1>1, <1>2 DEF EventsHaveRoutines
  <1>6. OpenIsRefreshed'
    BY <1>1 DEF OpenIsRefreshed, EventsHaveRoutines, RefreshTypes, Refresh!Op
  <1>7. QED
    BY <1>3, <1>4, <1>5, <1>6

LEMMA RefreshCloses ==
    ASSUME RefreshInv, Refresh!Close
    PROVE  RefreshInv'
  <1> USE DEF RefreshInv
  <1>1. /\ cancelled' = IF cancel = 0 THEN cancelled ELSE cancelled \cup {cancel}
        /\ cancel' = 0 /\ conn' # "open" /\ run' = Refresh!Nothing
        /\ UNCHANGED <<queue, timers, gens>>
    BY DEF Refresh!Close, Refresh!Cancel
  <1>2. run'.op # "refresh" /\ run' \in RefreshOps
    BY <1>1 DEF Refresh!Nothing, Refresh!Op, RefreshOps
  <1>3. RefreshTypes'
    BY <1>1, <1>2 DEF RefreshTypes
  <1>4. \A g \in cancelled \cup {cancel} : g \in Refresh!Gen => g \in cancelled'
    BY <1>1 DEF Refresh!Gen
  <1>5. LiveIsStored'
    BY <1>1, <1>2, <1>4 DEF LiveIsStored, EventsHaveRoutines
  <1>6. EventsHaveRoutines'
    BY <1>1, <1>2 DEF EventsHaveRoutines
  <1>7. OpenIsRefreshed'
    BY <1>1 DEF OpenIsRefreshed
  <1>8. QED
    BY <1>3, <1>5, <1>6, <1>7

LEMMA RefreshStep ==
    ASSUME RefreshInv, Refresh!RefreshNext
    PROVE  RefreshInv'
  <1>1. ASSUME NEW name \in {"Request", "Close"}, Refresh!Application(name)
        PROVE  RefreshInv'
    <2> DEFINE o == Refresh!Op(name, 0)
    <2>1. o \in RefreshOps /\ o.op # "refresh"
      BY DEF Refresh!Op, RefreshOps
    <2> HIDE DEF o
    <2>2. queue' = Append(queue, o) /\ UNCHANGED <<conn, run, cancel, cancelled, gens, timers>>
      BY <1>1 DEF Refresh!Application, o
    <2>3. QED
      BY <2>1, <2>2, RefreshAppends
  <1>2. ASSUME NEW g \in Refresh!Gen, Refresh!TimerCancelled(g)
        PROVE  RefreshInv'
    <2>1. RefreshTypes' /\ LiveIsStored' /\ EventsHaveRoutines'
      BY <1>2 DEF Refresh!TimerCancelled, RefreshInv, RefreshTypes, LiveIsStored, EventsHaveRoutines
    <2>2. OpenIsRefreshed'
      BY <1>2 DEF Refresh!TimerCancelled, RefreshInv, OpenIsRefreshed, RefreshTypes, Refresh!Op
    <2>3. QED
      BY <2>1, <2>2 DEF RefreshInv
  <1>3. ASSUME NEW g \in Refresh!Gen, Refresh!TimerFires(g)
        PROVE  RefreshInv'
    <2> DEFINE o == Refresh!Op("refresh", g)
    <2>1. o \in RefreshOps /\ o.op = "refresh" /\ o.gen = g /\ o = Refresh!Op("refresh", o.gen)
      BY TimersAssumption DEF Refresh!Op, RefreshOps, Refresh!Gen, Refresh!MaxGens
    <2>2. g \in cancelled \cup {cancel}
      BY <1>3 DEF Refresh!TimerFires, RefreshInv, LiveIsStored
    <2>3. /\ queue' = Append(queue, o)
          /\ timers' = [timers EXCEPT ![o.gen] = "waiting"]
          /\ UNCHANGED <<conn, run, cancel, cancelled, gens>>
      BY <1>3, <2>1 DEF Refresh!TimerFires
    <2> HIDE DEF o
    <2>4. QED
      BY <2>1, <2>2, <2>3, RefreshAppends
  <1>4. CASE Refresh!Tick
    BY <1>4 DEF Refresh!Tick, RefreshInv, RefreshTypes, LiveIsStored, EventsHaveRoutines, OpenIsRefreshed, Refresh!Op
  <1>5. QED
    BY <1>1, <1>2, <1>3, <1>4, RefreshStarts, RefreshRequest, RefreshFails, RefreshCloses DEF Refresh!RefreshNext

LEMMA RefreshOne ==
    ASSUME RefreshInv
    PROVE  Refresh!OneRefresher
  <1> SUFFICES ASSUME run = Refresh!Nothing
               PROVE  /\ \A g \in Refresh!Gen : timers[g] \in {"armed", "waiting"} => g \in cancelled \/ g = cancel
                      /\ conn = "open" => /\ cancel # 0 /\ cancel \notin cancelled
                                          /\ \/ timers[cancel] = "armed"
                                             \/ Refresh!Op("refresh", cancel) \in Refresh!ToSet(queue)
                      /\ conn # "open" => cancel = 0
    BY DEF Refresh!OneRefresher
  <1>1. run # Refresh!Op("refresh", cancel)
    BY DEF Refresh!Nothing, Refresh!Op
  <1>2. \A i \in DOMAIN queue : queue[i] \in Refresh!ToSet(queue)
    BY DEF Refresh!ToSet, RefreshInv, RefreshTypes
  <1>3. QED
    BY <1>1, <1>2 DEF RefreshInv, LiveIsStored, OpenIsRefreshed, Refresh!Gen

-----------------------------------------------------------------------------
(* netsvcmonitor.                                                          *)

LiveMonitor(g) == monitors[g] \in {"find", "watch"} /\ g \notin cancelled

MonitorOps == [op : {"Request", "Close", "event"}, gen : Nat]

MonitorTypes ==
    /\ gens \in Nat
    /\ queue \in Seq(MonitorOps)
    /\ monitors \in [NetSvc!Gen -> {"none", "find", "watch", "gone"}]
    /\ watched \in [NetSvc!Gen -> Endpoint \cup {0}]
    /\ cancel \in 0 .. gens
    /\ cancelled \subseteq 0 .. gens

\* The goroutine that is not cancelled watches for the endpoint of the connection.
LiveWatchesConn ==
    \A g \in NetSvc!Gen : LiveMonitor(g) => g = cancel /\ watched[g] = conn

\* A Request or Close that runs has cancelled it.
RunHasCancelled ==
    run # NetSvc!Nothing => \A g \in NetSvc!Gen : ~LiveMonitor(g)

ClosesSoon == \E i \in DOMAIN queue : queue[i].op = "event"

\* A connection that is open has a goroutine, or begin is to close it.
OpenIsWatched ==
    run = NetSvc!Nothing /\ conn # 0 /\ ~unwatched =>
        (cancel \in NetSvc!Gen /\ LiveMonitor(cancel)) \/ ClosesSoon

MonitorInv ==
    /\ MonitorTypes
    /\ LiveWatchesConn
    /\ RunHasCancelled
    /\ OpenIsWatched
    /\ matches \subseteq Endpoint
    /\ conn \in Endpoint \cup {0}

LEMMA MonitorBegins == NetSvc!MonitorInit => MonitorInv
  BY DEF NetSvc!MonitorInit, MonitorInv, MonitorTypes, LiveWatchesConn, RunHasCancelled, OpenIsWatched, LiveMonitor

\* A longer queue keeps its events.
LEMMA MonitorAppends ==
    ASSUME MonitorTypes, NEW o \in MonitorOps, queue' = Append(queue, o)
    PROVE  /\ queue' \in Seq(MonitorOps)
           /\ ClosesSoon \/ o.op = "event" => ClosesSoon'
  <1>1. queue \in Seq(MonitorOps)
    BY DEF MonitorTypes
  <1>2. /\ Len(queue') = Len(queue) + 1 /\ Len(queue) \in Nat
        /\ \A i \in 1 .. Len(queue) : queue'[i] = queue[i]
        /\ queue'[Len(queue) + 1] = o
        /\ DOMAIN queue = 1 .. Len(queue) /\ DOMAIN queue' = 1 .. Len(queue')
    BY <1>1
  <1>3. CASE o.op = "event"
    BY <1>1, <1>2, <1>3 DEF ClosesSoon
  <1>4. CASE ClosesSoon
    BY <1>1, <1>2, <1>4 DEF ClosesSoon
  <1>5. QED
    BY <1>1, <1>3, <1>4

LEMMA MonitorStep ==
    ASSUME MonitorInv, NetSvc!MonitorNext
    PROVE  MonitorInv'
  <1> USE DEF MonitorInv, MonitorTypes, LiveWatchesConn, RunHasCancelled, OpenIsWatched, LiveMonitor
  <1>n. NetSvc!Nothing' = NetSvc!Nothing
    BY DEF NetSvc!Nothing
  <1>1. CASE NetSvc!ServiceChanges
    BY <1>1, <1>n DEF NetSvc!ServiceChanges, ClosesSoon
  <1>2. ASSUME NEW name \in {"Request", "Close"}, NetSvc!ClientCalls(name)
        PROVE  MonitorInv'
    <2>1. /\ queue' = Append(queue, NetSvc!Op(name, 0)) /\ NetSvc!Op(name, 0) \in MonitorOps
          /\ UNCHANGED <<matches, conn, run, cancel, cancelled, monitors, watched, gens, unwatched>>
      BY <1>2 DEF NetSvc!ClientCalls, NetSvc!Op, MonitorOps
    <2>2. QED
      BY <1>n, <2>1, MonitorAppends
  <1>3. CASE NetSvc!Start
    <2>1. UNCHANGED <<matches, conn, cancel, monitors, watched, gens, unwatched>>
      BY <1>3 DEF NetSvc!Start
    <2>2. cancelled \subseteq cancelled'
      BY <1>3 DEF NetSvc!Start
    <2>3. run' # NetSvc!Nothing' => cancel = 0 \/ cancel \in cancelled'
      BY <1>3 DEF NetSvc!Start, NetSvc!Nothing
    <2>4. 0 \notin NetSvc!Gen
      BY DEF NetSvc!Gen
    <2>5. queue' \in Seq(MonitorOps) /\ Head(queue) \in MonitorOps
      BY <1>3 DEF NetSvc!Start
    <2>6. run' = NetSvc!Nothing' => conn = 0
      BY <1>3, <2>5 DEF NetSvc!Start, NetSvc!Nothing, MonitorOps
    <2>7. cancelled' \subseteq 0 .. gens
      BY <1>3 DEF NetSvc!Start
    <2>8. QED
      BY <2>1, <2>2, <2>3, <2>4, <2>5, <2>6, <2>7
  <1>4. CASE NetSvc!Request
    <2>1. run # NetSvc!Nothing
      BY <1>4 DEF NetSvc!Request, NetSvc!Nothing
    <2>2. gens + 1 \in NetSvc!Gen
      BY <1>4, TimersAssumption DEF NetSvc!Request, NetSvc!Gen, NetSvc!MaxGens
    <2>3. PICK e \in Endpoint : conn' = e /\ watched' = [watched EXCEPT ![gens + 1] = e]
      BY <1>4 DEF NetSvc!Request
    <2>4. /\ gens' = gens + 1 /\ cancel' = gens + 1
          /\ monitors' = [monitors EXCEPT ![gens + 1] = "find"]
          /\ run' = NetSvc!Nothing' /\ UNCHANGED <<matches, cancelled, queue>>
      BY <1>4 DEF NetSvc!Request, NetSvc!Nothing
    <2>5. gens + 1 \notin cancelled
      OBVIOUS
    <2>6. QED
      BY <2>1, <2>2, <2>3, <2>4, <2>5
  <1>5. CASE NetSvc!RequestFails \/ NetSvc!Close
    <2>1. run # NetSvc!Nothing /\ run' = NetSvc!Nothing'
      BY <1>5 DEF NetSvc!RequestFails, NetSvc!Close, NetSvc!Nothing
    <2>2. /\ UNCHANGED <<matches, cancelled, monitors, watched, gens, queue>>
          /\ conn' \in {conn, 0}
          /\ cancel' \in {cancel, 0}
          /\ conn' # 0 => unwatched'
      BY <1>5 DEF NetSvc!RequestFails, NetSvc!Close
    <2>3. QED
      BY <2>1, <2>2
  <1>6. ASSUME NEW g \in NetSvc!Gen, NetSvc!PathExpires(g)
        PROVE  MonitorInv'
    <2>1. /\ g = cancel /\ cancelled' = cancelled \cup {g} /\ unwatched'
          /\ UNCHANGED <<matches, conn, queue, run, cancel, monitors, watched, gens>>
      BY <1>6 DEF NetSvc!PathExpires
    <2>2. cancelled' \subseteq 0 .. gens
      BY <2>1
    <2>3. QED
      BY <1>n, <2>1, <2>2
  <1>7. ASSUME NEW g \in NetSvc!Gen,
               NetSvc!Find(g) \/ NetSvc!StreamEnds(g) \/ NetSvc!FindFails(g)
        PROVE  MonitorInv'
    <2>1. /\ UNCHANGED <<matches, conn, run, cancel, cancelled, watched, gens, queue>>
          /\ unwatched => unwatched'
          /\ monitors' \in [NetSvc!Gen -> {"none", "find", "watch", "gone"}]
          /\ \A h \in NetSvc!Gen : monitors'[h] \in {"find", "watch"} => monitors[h] \in {"find", "watch"}
          /\ \A h \in NetSvc!Gen : LiveMonitor(h) => LiveMonitor(h)'
      BY <1>7 DEF NetSvc!Find, NetSvc!StreamEnds, NetSvc!FindFails
    <2>2. ClosesSoon' = ClosesSoon
      BY <2>1 DEF ClosesSoon
    <2>3. OpenIsWatched'
      BY <1>n, <2>1, <2>2
    <2>4. LiveWatchesConn' /\ RunHasCancelled'
      BY <1>n, <2>1
    <2>5. QED
      BY <2>1, <2>3, <2>4
  <1>8. ASSUME NEW g \in NetSvc!Gen, NetSvc!Compare(g)
        PROVE  MonitorInv'
    <2>1. /\ UNCHANGED <<matches, conn, run, cancel, cancelled, watched, gens, unwatched>>
          /\ monitors' \in {monitors, [monitors EXCEPT ![g] = "gone"]}
      BY <1>8 DEF NetSvc!Compare
    <2>2. \/ UNCHANGED queue /\ (monitors' = monitors \/ g \in cancelled)
          \/ queue' = Append(queue, NetSvc!Op("event", g))
      BY <1>8 DEF NetSvc!Compare
    <2>3. NetSvc!Op("event", g) \in MonitorOps /\ NetSvc!Op("event", g).op = "event"
      BY DEF NetSvc!Op, MonitorOps, NetSvc!Gen
    <2>4. CASE UNCHANGED queue /\ (monitors' = monitors \/ g \in cancelled)
      <3>1. ClosesSoon' = ClosesSoon /\ \A h \in NetSvc!Gen : LiveMonitor(h) => LiveMonitor(h)'
        BY <2>1, <2>4 DEF ClosesSoon
      <3>2. QED
        BY <1>n, <2>1, <2>4, <3>1
    <2>5. CASE queue' = Append(queue, NetSvc!Op("event", g))
      BY <1>n, <2>1, <2>3, <2>5, MonitorAppends
    <2>6. QED
      BY <2>2, <2>4, <2>5
  <1>9. QED
    BY <1>1, <1>2, <1>3, <1>4, <1>5, <1>6, <1>7, <1>8 DEF NetSvc!MonitorNext

LEMMA MonitorOne ==
    ASSUME MonitorInv
    PROVE  NetSvc!OneMonitor
  <1>1. 0 \notin NetSvc!Gen
    BY DEF NetSvc!Gen
  <1>2. QED
    BY <1>1 DEF MonitorInv, LiveWatchesConn, OpenIsWatched, ClosesSoon, LiveMonitor, NetSvc!OneMonitor

-----------------------------------------------------------------------------
(* upstreamrefresh.                                                        *)

LoopSteps == {"none", "start", "look", "found", "take", "select", "request", "notify", "gone"}

UpTypes ==
    /\ gens \in Nat
    /\ cancel \in [Conn -> Nat]
    /\ step \in [Conn -> {"idle", "unsubscribe", "next", "subscribe", "leave"}]
    /\ loops \in [Upstream!Loop -> LoopSteps]

\* A Request that runs has taken the event loop out of the metadata.
RunHasNoLoop == \A c \in Conn : step[c] \notin {"idle", "leave"} => cancel[c] = 0

UpInv ==
    /\ UpTypes
    /\ RunHasNoLoop
    /\ Upstream!OneEventLoop

LEMMA UpBegins == Upstream!UpInit => UpInv
  BY DEF Upstream!UpInit, UpInv, UpTypes, LoopSteps, RunHasNoLoop, Upstream!OneEventLoop, Upstream!Waiting

LEMMA UpLoops == \A l \in Upstream!Loop : l[1] \in Conn /\ l[2] \in Nat \ {0} /\ l = <<l[1], l[2]>>
  BY TimersAssumption DEF Upstream!Loop, Upstream!Gen, Upstream!MaxGens

\* The loop that the metadata holds, the only one that listens, is cancelled.
LEMMA UpCancels ==
    ASSUME UpInv, NEW c \in Conn, Upstream!CancelLoop(c), UNCHANGED <<gens, loops>>,
           NEW s \in {"idle", "unsubscribe"}, step' = [step EXCEPT ![c] = s]
    PROVE  UpInv'
  <1> USE DEF UpInv, UpTypes, RunHasNoLoop
  <1>1. /\ cancelled' = IF cancel[c] = 0 THEN cancelled ELSE cancelled \cup {<<c, cancel[c]>>}
        /\ cancel' = [cancel EXCEPT ![c] = 0]
    BY DEF Upstream!CancelLoop
  <1>2. ASSUME NEW l \in Upstream!Loop, Upstream!Waiting(l)', l \notin cancelled'
        PROVE  cancel'[l[1]] = l[2]
    <2>1. cancel[l[1]] = l[2]
      BY <1>1, <1>2 DEF Upstream!OneEventLoop, Upstream!Waiting
    <2>2. l[1] # c
      BY UpLoops, <1>1, <1>2, <2>1
    <2>3. QED
      BY UpLoops, <1>1, <2>1, <2>2
  <1>3. UpTypes' /\ RunHasNoLoop'
    BY <1>1
  <1>4. QED
    BY <1>2, <1>3 DEF Upstream!OneEventLoop

LEMMA UpStep ==
    ASSUME UpInv, Upstream!UpNext
    PROVE  UpInv'
  <1> USE DEF UpInv, UpTypes, RunHasNoLoop
  <1>1. ASSUME UNCHANGED <<gens, cancel, cancelled>>,
               step' \in [Conn -> {"idle", "unsubscribe", "next", "subscribe", "leave"}],
               \A c \in Conn : step'[c] \notin {"idle", "leave"} => step[c] \notin {"idle", "leave"},
               loops' \in [Upstream!Loop -> LoopSteps],
               \A l \in Upstream!Loop : Upstream!Waiting(l)' => Upstream!Waiting(l)
        PROVE  UpInv'
    BY <1>1 DEF Upstream!OneEventLoop
  <1>2. ASSUME NEW c \in Conn, Upstream!Application(c, "Request") \/ Upstream!Application(c, "Close")
        PROVE  UpInv'
    BY <1>1, <1>2 DEF Upstream!Application, Upstream!Waiting
  <1>3. ASSUME NEW c \in Conn, Upstream!Start(c)
        PROVE  UpInv'
    <2>1. UNCHANGED <<gens, loops>>
      BY <1>3 DEF Upstream!Start
    <2>2. CASE UNCHANGED <<step, cancel, cancelled>>
      BY <1>1, <2>1, <2>2 DEF Upstream!Waiting
    <2>3. CASE step' = [step EXCEPT ![c] = "leave"] /\ UNCHANGED <<cancel, cancelled>>
      BY <1>1, <2>1, <2>3 DEF Upstream!Waiting
    <2>4. CASE step' = [step EXCEPT ![c] = "unsubscribe"] /\ Upstream!CancelLoop(c)
      BY <2>1, <2>4, UpCancels
    <2>5. QED
      BY <1>3, <2>2, <2>3, <2>4 DEF Upstream!Start
  <1>4. ASSUME NEW c \in Conn, Upstream!Unsubscribed(c)
        PROVE  UpInv'
    <2>1. UNCHANGED <<gens, loops>> /\ step[c] \in {"unsubscribe", "leave"}
      BY <1>4 DEF Upstream!Unsubscribed
    <2>2. CASE step[c] = "leave"
      <3>1. step' = [step EXCEPT ![c] = "idle"] /\ Upstream!CancelLoop(c)
        BY <1>4, <2>2 DEF Upstream!Unsubscribed, Upstream!Ends
      <3>2. QED
        BY <2>1, <3>1, UpCancels
    <2>3. CASE step[c] = "unsubscribe"
      <3>1. step' = [step EXCEPT ![c] = "next"] /\ UNCHANGED <<cancel, cancelled>>
        BY <1>4, <2>3 DEF Upstream!Unsubscribed
      <3>2. QED
        BY <1>1, <2>1, <2>3, <3>1 DEF Upstream!Waiting
    <2>4. QED
      BY <2>1, <2>2, <2>3
  <1>5. ASSUME NEW c \in Conn, Upstream!Next(c)
        PROVE  UpInv'
    <2>1. /\ UNCHANGED <<gens, cancel, cancelled, loops>>
          /\ step[c] = "next"
          /\ \E s \in {"idle", "subscribe"} : step' = [step EXCEPT ![c] = s]
      BY <1>5 DEF Upstream!Next, Upstream!Ends
    <2>2. QED
      BY <1>1, <2>1 DEF Upstream!Waiting
  <1>6. ASSUME NEW c \in Conn, Upstream!newEventLoop(c)
        PROVE  UpInv'
    <2>1. step[c] = "subscribe" /\ step' = [step EXCEPT ![c] = "idle"] /\ UNCHANGED cancelled
      BY <1>6 DEF Upstream!newEventLoop, Upstream!Ends
    <2>2. CASE UNCHANGED <<gens, cancel, loops>>
      BY <1>1, <2>1, <2>2 DEF Upstream!Waiting
    <2>3. CASE /\ gens < Upstream!MaxGens /\ gens' = gens + 1
               /\ cancel' = [cancel EXCEPT ![c] = gens + 1]
               /\ loops' = [loops EXCEPT ![<<c, gens + 1>>] = "start"]
      <3>1. <<c, gens + 1>> \in Upstream!Loop
        BY <2>3, TimersAssumption DEF Upstream!Loop, Upstream!Gen, Upstream!MaxGens
      <3>2. cancel[c] = 0
        BY <2>1
      <3>3. ASSUME NEW l \in Upstream!Loop, Upstream!Waiting(l)', l \notin cancelled'
            PROVE  cancel'[l[1]] = l[2]
        <4>1. CASE l = <<c, gens + 1>>
          BY <2>3, <4>1
        <4>2. CASE l # <<c, gens + 1>>
          <5>1. cancel[l[1]] = l[2]
            BY <2>1, <2>3, <3>3, <4>2 DEF Upstream!OneEventLoop, Upstream!Waiting
          <5>2. l[1] # c
            BY UpLoops, <3>2, <5>1
          <5>3. QED
            BY UpLoops, <2>3, <5>1, <5>2
        <4>3. QED
          BY <4>1, <4>2
      <3>4. UpTypes' /\ RunHasNoLoop'
        BY <2>1, <2>3, <3>1 DEF LoopSteps
      <3>5. QED
        BY <3>3, <3>4 DEF Upstream!OneEventLoop
    <2>4. QED
      BY <1>6, <2>2, <2>3 DEF Upstream!newEventLoop
  <1>7. CASE Upstream!subscribe \/ Upstream!unsubscribe \/ Upstream!Notify
    BY <1>1, <1>7 DEF Upstream!subscribe, Upstream!unsubscribe, Upstream!Notify, Upstream!Waiting
  <1>8. ASSUME NEW l \in Upstream!Loop,
               \/ Upstream!Tell(l) \/ Upstream!LoopStarts(l) \/ Upstream!get(l) \/ Upstream!EndpointAsks(l) \/ Upstream!StreamFails(l)
               \/ Upstream!eventLoop(l) \/ Upstream!EventRan(l)
        PROVE  UpInv'
    <2>1. UNCHANGED <<gens, cancel, cancelled, step>>
      BY <1>8 DEF Upstream!Tell, Upstream!LoopStarts, Upstream!get, Upstream!EndpointAsks, Upstream!StreamFails,
                  Upstream!eventLoop, Upstream!EventRan
    <2>2. \/ UNCHANGED loops
          \/ loops[l] \in {"start", "found"} /\ \E s \in {"look", "take", "select"} : loops' = [loops EXCEPT ![l] = s]
          \/ loops[l] \in {"look", "take"} /\ \E s \in {"found", "select"} : loops' = [loops EXCEPT ![l] = s]
          \/ \E s \in {"request", "notify", "gone"} : loops' = [loops EXCEPT ![l] = s]
      BY <1>8 DEF Upstream!Tell, Upstream!LoopStarts, Upstream!get, Upstream!EndpointAsks, Upstream!StreamFails,
                  Upstream!eventLoop, Upstream!EventRan
    <2>3. QED
      BY <1>1, <2>1, <2>2 DEF Upstream!Waiting, LoopSteps
  <1>9. QED
    BY <1>2, <1>3, <1>4, <1>5, <1>6, <1>7, <1>8 DEF Upstream!UpNext

-----------------------------------------------------------------------------
(* Time.                                                                   *)

\* A set of times has an earliest one.
LEMMA EarliestExists ==
    ASSUME NEW S \in SUBSET Nat, S # {}
    PROVE  \E n \in S : \A m \in S : n <= m
  <1> DEFINE R == OpToRel(<, Nat)
  <1>1. IsWellFoundedOn(R, Nat)
    BY NatLessThanWellFounded
  <1>2. \A m, n \in Nat : m < n => <<m, n>> \in R
    BY DEF OpToRel
  <1> HIDE DEF R
  <1>3. PICK n \in S : \A m \in S : <<m, n>> \notin R
    BY <1>1, WFMin
  <1>4. \A m \in S : ~(m < n)
    BY <1>2, <1>3
  <1>5. QED
    BY <1>4

LEMMA RefreshMin ==
    ASSUME NEW S \in SUBSET Nat, S # {}
    PROVE  Refresh!Min(S) \in S /\ \A m \in S : Refresh!Min(S) <= m
  BY EarliestExists, Zenon DEF Refresh!Min

LEMMA ExpireMin ==
    ASSUME NEW S \in SUBSET Nat, S # {}
    PROVE  Expire!Min(S) \in S
  <1>1. \E n \in S : \A m \in S : n <= m
    BY EarliestExists
  <1>2. QED
    BY <1>1, Zenon DEF Expire!Min

LEMMA Division ==
    ASSUME NEW a \in Nat, NEW b \in Nat \ {0}
    PROVE  a \div b \in Nat /\ b * (a \div b) <= a
  OBVIOUS

\* The client waits for less than the time that is left of the shortest token.
LEMMA AfterIsEarly ==
    ASSUME NEW t \in Nat, NEW L \in Positive, NEW i \in 0 .. (L - 1),
           NEW path \in [1 .. L -> Nat], \A k \in 1 .. L : path[k] > t
    PROVE  /\ Refresh!after(path, i, t) \in Nat
           /\ \A k \in 1 .. L : t + Refresh!after(path, i, t) < path[k]
  <1> DEFINE S == {path[k] - t : k \in DOMAIN path}
  <1> DEFINE m == Refresh!Min(S)
  <1> USE DEF Positive
  <1>1. S \in SUBSET Nat /\ S # {} /\ \A s \in S : s # 0
    <2>1. \A k \in 1 .. L : path[k] - t \in Nat \ {0}
      OBVIOUS
    <2>2. 1 \in DOMAIN path /\ path[1] - t \in S
      OBVIOUS
    <2>3. QED
      BY <2>1, <2>2
  <1>2. \A k \in 1 .. L : path[k] - t \in S
    OBVIOUS
  <1> HIDE DEF S
  <1>3. m \in S /\ \A s \in S : m <= s
    BY <1>1, RefreshMin
  <1>4. m \in Nat \ {0}
    BY <1>1, <1>3
  <1>5. Len(path) = L
    OBVIOUS
  <1> DEFINE a == Refresh!after(path, i, t)
  <1>6. a = IF m <= 0 THEN 0
            ELSE IF L > 1 THEN (m * (L + i)) \div (5 * L) ELSE m \div 3
    BY <1>5 DEF Refresh!after, S
  <1> HIDE DEF m, a
  <1>7. a \in Nat /\ a < m
    <2>1. CASE L > 1
      <3> DEFINE q == (m * (L + i)) \div (5 * L)
      <3>1. m * (L + i) \in Nat /\ 5 * L \in Nat \ {0}
        BY <1>4
      <3>2. q \in Nat /\ (5 * L) * q <= m * (L + i)
        BY <3>1, Division, Zenon
      <3> HIDE DEF q
      <3>3. m * (L + i) < m * (5 * L) /\ m * (5 * L) = (5 * L) * m
        BY <1>4
      <3>4. ASSUME q >= m
            PROVE  (5 * L) * q >= (5 * L) * m
        BY <1>4, <3>1, <3>2, <3>4
      <3>5. q < m
        BY <1>4, <3>1, <3>2, <3>3, <3>4
      <3>6. a = q
        BY <1>4, <1>6, <2>1 DEF q
      <3>7. QED
        BY <3>2, <3>5, <3>6
    <2>2. CASE ~(L > 1)
      BY <1>4, <1>6, <2>2
    <2>3. QED
      BY <2>1, <2>2
  <1>8. ASSUME NEW k \in 1 .. L
        PROVE  t + a < path[k]
    BY <1>2, <1>3, <1>4, <1>7
  <1>9. QED
    BY <1>7, <1>8 DEF a

\* The timer of an open connection is due before a token expires.
RefreshClock ==
    /\ now \in Nat
    /\ due \in [Refresh!Gen -> Nat]
    /\ failures \in Nat
    /\ index \in 0 .. (Len(Lifetimes) - 1)
    /\ conn = "open" => DOMAIN expires = 1 .. Len(Lifetimes) /\ expires \in [1 .. Len(Lifetimes) -> Nat]
    /\ conn = "open" /\ failures = 0 =>
          now <= due[cancel] /\ \A k \in DOMAIN expires : due[cancel] < expires[k]

LEMMA ClockBegins == Refresh!RefreshInit => RefreshClock
  BY TimersAssumption DEF Refresh!RefreshInit, RefreshClock

LEMMA ClockStep ==
    ASSUME RefreshInv, RefreshClock, Refresh!RefreshNext
    PROVE  RefreshClock'
  <1> USE DEF RefreshClock
  <1>1. ASSUME UNCHANGED <<now, due, expires, index, failures>>,
               conn' = "open" => conn = "open" /\ cancel' = cancel
        PROVE  RefreshClock'
    BY <1>1
  <1>2. CASE \/ Refresh!Application("Request") \/ Refresh!Application("Close")
             \/ \E g \in Refresh!Gen : Refresh!TimerCancelled(g) \/ Refresh!TimerFires(g)
             \/ Refresh!Start
    BY <1>1, <1>2 DEF Refresh!Application, Refresh!TimerCancelled, Refresh!TimerFires, Refresh!Start
  <1>3. CASE Refresh!Close
    BY <1>1, <1>3 DEF Refresh!Close
  <1>4. CASE Refresh!RequestFails
    <2>1. CASE run.op = "refresh"
      <3>1. due' \in [Refresh!Gen -> Nat] /\ failures' \in Nat \ {0} /\ UNCHANGED <<now, index, conn, expires>>
        BY <1>4, <2>1 DEF Refresh!RequestFails, RefreshInv, EventsHaveRoutines, Refresh!RetryInterval
      <3>2. QED
        BY <3>1
    <2>2. CASE run.op # "refresh"
      BY <1>1, <1>4, <2>2 DEF Refresh!RequestFails
    <2>3. QED
      BY <2>1, <2>2
  <1>5. CASE Refresh!Request
    <2> DEFINE L == Len(Lifetimes)
    <2>1. PICK path \in [DOMAIN Lifetimes -> UNION {Lifetimes[k] : k \in DOMAIN Lifetimes}] :
              /\ \A k \in DOMAIN path : path[k] \in Lifetimes[k]
              /\ expires' = [k \in DOMAIN path |-> now + path[k]]
              /\ due' = [due EXCEPT ![gens + 1] =
                            now + Refresh!after([k \in DOMAIN path |-> now + path[k]], index, now)]
      BY <1>5 DEF Refresh!Request
    <2>2. L \in Positive /\ DOMAIN Lifetimes = 1 .. L /\ \A k \in 1 .. L : Lifetimes[k] \subseteq Positive
      BY TimersAssumption DEF Positive
    <2>3. \A k \in 1 .. L : path[k] \in Positive
      BY <2>1, <2>2
    <2>4. /\ expires' \in [1 .. L -> Nat] /\ DOMAIN expires' = 1 .. L
          /\ \A k \in 1 .. L : expires'[k] > now
      <3>1. expires' = [k \in 1 .. L |-> now + path[k]]
        BY <2>1, <2>2
      <3>2. \A k \in 1 .. L : now + path[k] \in Nat /\ now + path[k] > now
        BY <2>3 DEF Positive
      <3>3. QED
        BY <3>1, <3>2
    <2>5. due' = [due EXCEPT ![gens + 1] = now + Refresh!after(expires', index, now)]
      BY <2>1
    <2> DEFINE a == Refresh!after(expires', index, now)
    <2>6. a \in Nat /\ \A k \in 1 .. L : now + a < expires'[k]
      BY <2>2, <2>4, AfterIsEarly
    <2> HIDE DEF a
    <2>7. gens + 1 \in Refresh!Gen /\ cancel' = gens + 1 /\ failures' = 0 /\ UNCHANGED <<now, index>>
      BY <1>5, TimersAssumption DEF Refresh!Request, RefreshInv, RefreshTypes, Refresh!Gen, Refresh!MaxGens
    <2>8. due' \in [Refresh!Gen -> Nat] /\ due'[cancel'] = now + a
      BY <2>5, <2>6, <2>7 DEF a
    <2>9. now' <= due'[cancel'] /\ \A k \in DOMAIN expires' : due'[cancel'] < expires'[k]
      BY <2>4, <2>6, <2>7, <2>8
    <2>10. QED
      BY <2>4, <2>7, <2>8, <2>9
  <1>6. CASE Refresh!Tick
    <2>1. /\ now' = now + 1 /\ run = Refresh!Nothing /\ queue = <<>>
          /\ \A g \in Refresh!Gen : timers[g] = "armed" => g \notin cancelled /\ due[g] > now
          /\ UNCHANGED <<conn, expires, index, cancel, due, failures>>
      BY <1>6 DEF Refresh!Tick
    <2>2. ASSUME conn = "open"
          PROVE  cancel \in Refresh!Gen /\ due[cancel] > now
      <3>1. run # Refresh!Op("refresh", cancel)
        BY <2>1 DEF Refresh!Nothing, Refresh!Op
      <3>2. cancel \in Refresh!Gen /\ timers[cancel] = "armed"
        BY <2>1, <2>2, <3>1 DEF RefreshInv, OpenIsRefreshed
      <3>3. QED
        BY <2>1, <3>2
    <2>3. QED
      BY <2>1, <2>2
  <1>7. QED
    BY <1>2, <1>3, <1>4, <1>5, <1>6 DEF Refresh!RefreshNext

LEMMA ClockInTime ==
    ASSUME RefreshInv, RefreshClock
    PROVE  Refresh!RefreshedInTime
  <1> SUFFICES ASSUME conn = "open", failures = 0, NEW k \in DOMAIN expires
               PROVE  now < expires[k]
    BY DEF Refresh!RefreshedInTime
  <1>1. now \in Nat /\ due[cancel] \in Nat /\ expires[k] \in Nat
    BY DEF RefreshInv, OpenIsRefreshed, RefreshClock
  <1>2. QED
    BY <1>1 DEF RefreshClock

-----------------------------------------------------------------------------
(* expire and setregistrationtime.                                         *)

MaybeTime == Nat \cup {None}

ExpireOps == [op : {"none", "Register", "Unregister", "expire"},
              own : MaybeTime, token : MaybeTime, peer : MaybeTime, gen : Nat]

ExpireTypes ==
    /\ now \in Nat /\ default \in Nat
    /\ registered \in [expires : MaybeTime, initial : Nat] \cup {None}
    /\ metadata \in MaybeTime
    /\ known \in BOOLEAN /\ noTime \in BOOLEAN
    /\ queue \in Seq(ExpireOps)
    /\ run \in ExpireOps
    /\ gens \in Nat
    /\ cancel \in 0 .. gens
    /\ cancelled \subseteq 1 .. gens
    /\ timers \in [Expire!Gen -> {"none", "armed", "gone"}]
    /\ due \in [Expire!Gen -> Int]

\* What a call offers has not expired: no time passes while it waits or runs.
Ahead(o) == \A t \in {o.own, o.token, o.peer} : t # None => t > now

\* The event of a goroutine whose timer has fired.
Fired(o) ==
    o.op = "expire" =>
        /\ o.gen \in Expire!Gen /\ o = Expire!Event(o.gen)
        /\ o.gen \in cancelled \cup {cancel}
        /\ due[o.gen] <= now

OpsAreSound ==
    /\ \A i \in DOMAIN queue : Ahead(queue[i]) /\ Fired(queue[i])
    /\ Ahead(run) /\ Fired(run)
    /\ run.op = "expire" => run.gen \notin cancelled

ArmedIsStored == \A g \in Expire!Gen : timers[g] = "armed" => g \in cancelled \cup {cancel}

\* A registered endpoint has a goroutine, whose timer is due before the endpoint
\* expires, and it has the first of its registration times in the metadata.
RegisteredIsTimed ==
    registered # None =>
        /\ known
        /\ metadata = registered.initial
        /\ cancel \in Expire!Gen /\ cancel \notin cancelled
        /\ \/ timers[cancel] = "armed"
           \/ \E i \in DOMAIN queue : queue[i] = Expire!Event(cancel)
           \/ run = Expire!Event(cancel)
        /\ registered.expires # None => now < registered.expires /\ due[cancel] < registered.expires
        /\ noTime \/ (registered.expires # None /\ due[cancel] = registered.expires - RequestTimeout)

ExpireInv ==
    /\ ExpireTypes
    /\ OpsAreSound
    /\ ArmedIsStored
    /\ RegisteredIsTimed

LEMMA NothingIsSound ==
    ASSUME NEW o, o = Expire!Nothing
    PROVE  o \in ExpireOps /\ o.op = "none" /\ Ahead(o) /\ Fired(o) /\ Ahead(o)' /\ Fired(o)'
  BY DEF Expire!Nothing, Expire!Call, ExpireOps, MaybeTime, Ahead, Fired

LEMMA ExpireBegins == Expire!ExpireInit => ExpireInv
  <1> SUFFICES ASSUME Expire!ExpireInit
               PROVE  ExpireInv
    OBVIOUS
  <1> USE DEF Expire!ExpireInit
  <1>1. ExpireTypes
    <2>1. run \in ExpireOps
      BY NothingIsSound
    <2>2. default \in Nat
      BY TimersAssumption
    <2>3. registered \in {None} /\ metadata \in MaybeTime /\ known \in BOOLEAN /\ noTime \in BOOLEAN
      BY DEF MaybeTime
    <2>4. now \in Nat /\ gens \in Nat /\ cancel \in 0 .. gens /\ cancelled \subseteq 1 .. gens
      OBVIOUS
    <2>5. queue \in Seq(ExpireOps)
      OBVIOUS
    <2>6. timers \in [Expire!Gen -> {"none", "armed", "gone"}] /\ due \in [Expire!Gen -> Int]
      OBVIOUS
    <2>7. QED
      BY <2>1, <2>2, <2>3, <2>4, <2>5, <2>6 DEF ExpireTypes
  <1>2. OpsAreSound
    BY NothingIsSound DEF OpsAreSound
  <1>3. ArmedIsStored /\ RegisteredIsTimed
    BY DEF ArmedIsStored, RegisteredIsTimed
  <1>4. QED
    BY <1>1, <1>2, <1>3 DEF ExpireInv

\* A call or an event is put into the queue of begin.
LEMMA ExpireAppends ==
    ASSUME ExpireInv, NEW o \in ExpireOps, Ahead(o), Fired(o), queue' = Append(queue, o),
           UNCHANGED <<default, now, registered, known, metadata, run, cancel, cancelled, due, gens, noTime>>,
           \/ UNCHANGED timers
           \/ o.op = "expire" /\ timers' = [timers EXCEPT ![o.gen] = "gone"]
    PROVE  ExpireInv'
  <1> USE DEF ExpireInv
  <1>1. queue \in Seq(ExpireOps)
    BY DEF ExpireTypes
  <1>2. /\ \A i \in DOMAIN queue' : (i \in DOMAIN queue /\ queue'[i] = queue[i]) \/ queue'[i] = o
        /\ \A i \in DOMAIN queue : i \in DOMAIN queue' /\ queue'[i] = queue[i]
        /\ \E i \in DOMAIN queue' : queue'[i] = o
    BY <1>1
  <1>3. ExpireTypes'
    BY <1>1 DEF ExpireTypes
  <1>4. \A p : (Ahead(p) => Ahead(p)') /\ (Fired(p) => Fired(p)')
    BY DEF Ahead, Fired, Expire!Event
  <1>5. OpsAreSound'
    <2>1. \A i \in DOMAIN queue' : Ahead(queue'[i]) /\ Fired(queue'[i])
      BY <1>2 DEF OpsAreSound
    <2>2. Ahead(run') /\ Fired(run')
      BY DEF OpsAreSound
    <2>3. QED
      BY <1>4, <2>1, <2>2 DEF OpsAreSound, Ahead, Fired, Expire!Event
  <1>6. ArmedIsStored'
    BY DEF ArmedIsStored, ExpireTypes
  <1>7. RegisteredIsTimed'
    <2> SUFFICES ASSUME registered # None
                 PROVE  RegisteredIsTimed'
      BY DEF RegisteredIsTimed
    <2>1. CASE timers'[cancel] = timers[cancel]
      BY <1>2, <2>1 DEF RegisteredIsTimed, Expire!Event
    <2>2. CASE timers'[cancel] # timers[cancel]
      <3>1. o = Expire!Event(cancel)
        <4>1. cancel \in Expire!Gen /\ timers \in [Expire!Gen -> {"none", "armed", "gone"}]
          BY DEF RegisteredIsTimed, ExpireTypes
        <4>2. o.op = "expire" /\ o.gen = cancel
          BY <2>2, <4>1
        <4>3. QED
          BY <4>2 DEF Fired
      <3>2. QED
        BY <1>2, <3>1 DEF RegisteredIsTimed, Expire!Event
    <2>3. QED
      BY <2>1, <2>2
  <1>8. QED
    BY <1>3, <1>5, <1>6, <1>7

LEMMA ExpireStarts ==
    ASSUME ExpireInv, Expire!Start
    PROVE  ExpireInv'
  <1> USE DEF ExpireInv
  <1> DEFINE o == Head(queue)
  <1> DEFINE skipped == o.op = "expire" /\ (~known \/ o.gen \in cancelled)
  <1>1. /\ run = Expire!Nothing /\ queue # <<>> /\ queue' = Tail(queue)
        /\ run' = IF skipped THEN Expire!Nothing ELSE o
        /\ UNCHANGED <<default, now, registered, known, metadata, cancel, cancelled, timers, due, gens, noTime>>
    BY DEF Expire!Start
  <1>2. /\ queue \in Seq(ExpireOps) /\ queue' \in Seq(ExpireOps) /\ o \in ExpireOps
        /\ \A i \in DOMAIN queue' : i + 1 \in DOMAIN queue /\ queue'[i] = queue[i + 1]
        /\ \A i \in DOMAIN queue : queue[i] = o \/ (i - 1 \in DOMAIN queue' /\ queue'[i - 1] = queue[i])
        /\ 1 \in DOMAIN queue /\ queue[1] = o
    BY <1>1 DEF ExpireTypes
  <1> HIDE DEF o
  <1>3. ExpireTypes'
    BY <1>1, <1>2, NothingIsSound DEF ExpireTypes
  <1>4. OpsAreSound'
    <2>1. \A i \in DOMAIN queue' : Ahead(queue'[i]) /\ Fired(queue'[i])
      BY <1>2 DEF OpsAreSound
    <2>2. Ahead(run') /\ Fired(run')
      BY <1>1, <1>2, NothingIsSound DEF OpsAreSound
    <2>3. run'.op = "expire" => run'.gen \notin cancelled
      BY <1>1, NothingIsSound
    <2>4. QED
      BY <1>1, <2>1, <2>2, <2>3 DEF OpsAreSound, Ahead, Fired, Expire!Event
  <1>5. ArmedIsStored'
    BY <1>1 DEF ArmedIsStored
  <1>6. RegisteredIsTimed'
    <2> SUFFICES ASSUME registered # None
                 PROVE  /\ \/ timers[cancel] = "armed"
                           \/ \E i \in DOMAIN queue' : queue'[i] = Expire!Event(cancel)
                           \/ run' = Expire!Event(cancel)
      BY <1>1 DEF RegisteredIsTimed, Expire!Event
    <2>1. run # Expire!Event(cancel)
      BY <1>1 DEF Expire!Nothing, Expire!Call, Expire!Event
    <2>2. ASSUME o = Expire!Event(cancel)
          PROVE  run' = Expire!Event(cancel)
      BY <1>1, <2>2 DEF RegisteredIsTimed, Expire!Event
    <2>3. QED
      BY <1>2, <2>1, <2>2 DEF RegisteredIsTimed
  <1>7. QED
    BY <1>3, <1>4, <1>5, <1>6

\* selectMinExpirationTime finds a time that has not come, or none.
LEMMA SelectedIsAhead ==
    ASSUME ExpireInv
    PROVE  LET selected == Expire!selectMinExpirationTime(run)
           IN  selected # None => selected \in Nat /\ selected > now
  <1> DEFINE times == {run.token, run.peer} \cup (IF default = 0 THEN {} ELSE {now + default})
  <1> DEFINE selected == Expire!selectMinExpirationTime(run)
  <1>1. run.token \in MaybeTime /\ run.peer \in MaybeTime /\ now \in Nat /\ default \in Nat
    BY DEF ExpireInv, ExpireTypes, ExpireOps
  <1>2. \A t \in times : t # None => t \in Nat /\ t > now
    BY <1>1 DEF ExpireInv, OpsAreSound, Ahead, MaybeTime
  <1>3. selected = IF times = {None} THEN None ELSE Expire!Min(times \ {None})
    BY DEF Expire!selectMinExpirationTime
  <1>4. run.token \in times
    OBVIOUS
  <1> HIDE DEF times, selected
  <1>5. CASE times = {None}
    BY <1>3, <1>5 DEF selected
  <1>6. CASE times # {None}
    <2>1. times \ {None} \in SUBSET Nat /\ times \ {None} # {}
      BY <1>2, <1>4, <1>6
    <2>2. selected \in times \ {None}
      BY <1>3, <1>6, <2>1, ExpireMin
    <2>3. QED
      BY <1>2, <2>2 DEF selected
  <1>7. QED
    BY <1>5, <1>6

LEMMA ExpireRegisters ==
    ASSUME ExpireInv, Expire!Register
    PROVE  /\ ExpireInv'
           /\ registered # None => registered'.initial = registered.initial
           /\ registered' # None
  <1> USE DEF ExpireInv
  <1> DEFINE selected == Expire!selectMinExpirationTime(run)
  <1> DEFINE time == IF run.own = None THEN selected
                     ELSE IF selected = None THEN run.own ELSE Expire!Min({run.own, selected})
  <1> DEFINE initial == IF metadata # None THEN metadata ELSE now
  <1>1. /\ gens < Expire!MaxGens /\ gens' = gens + 1 /\ cancel' = gens + 1
        /\ registered' = [expires |-> time, initial |-> initial]
        /\ due' = [due EXCEPT ![gens + 1] = IF selected = None THEN now ELSE time - RequestTimeout]
        /\ noTime' = (selected = None)
        /\ metadata' = initial
        /\ known' = TRUE /\ run' = Expire!Nothing
        /\ cancelled' = IF cancel = 0 THEN cancelled ELSE cancelled \cup {cancel}
        /\ timers' = [timers EXCEPT ![gens + 1] = "armed"]
        /\ UNCHANGED <<default, now, queue>>
    BY DEF Expire!Register, Expire!CancelOld, Expire!initialRegistrationTime
  <1>2. selected # None => selected \in Nat /\ selected > now
    BY SelectedIsAhead
  <1>3. run.own \in MaybeTime /\ (run.own # None => run.own > now)
    BY DEF ExpireTypes, ExpireOps, OpsAreSound, Ahead
  <1>4. None \notin Nat /\ None \notin [expires : MaybeTime, initial : Nat]
    BY TimersAssumption DEF MaybeTime
  <1>5. initial \in Nat /\ (registered # None => initial = registered.initial)
    BY <1>4 DEF ExpireTypes, MaybeTime, RegisteredIsTimed
  <1> HIDE DEF selected, initial
  <1>6. /\ time # None => time \in Nat /\ time > now
        /\ selected # None => time # None
    <2>1. CASE run.own = None \/ selected = None
      BY <1>2, <1>3, <2>1 DEF MaybeTime
    <2>2. CASE run.own # None /\ selected # None
      <3>1. {run.own, selected} \in SUBSET Nat /\ {run.own, selected} # {}
        BY <1>2, <1>3, <2>2 DEF MaybeTime
      <3>2. time \in {run.own, selected}
        BY <2>2, <3>1, ExpireMin
      <3>3. QED
        BY <1>2, <1>3, <1>4, <2>2, <3>1, <3>2
    <2>3. QED
      BY <2>1, <2>2
  <1> HIDE DEF time
  <1>7. time \in MaybeTime
    BY <1>6 DEF MaybeTime
  <1>8. gens + 1 \in Expire!Gen
    BY <1>1, TimersAssumption DEF ExpireTypes, Expire!Gen, Expire!MaxGens
  <1>9. RequestTimeout \in Nat \ {0} /\ now \in Nat /\ gens \in Nat
    BY TimersAssumption DEF Positive, ExpireTypes
  <1>10. /\ due' \in [Expire!Gen -> Int]
         /\ selected = None => due'[gens + 1] = now
         /\ selected # None => due'[gens + 1] = time - RequestTimeout
         /\ \A g \in Expire!Gen \ {gens + 1} : due'[g] = due[g]
    BY <1>1, <1>6, <1>8, <1>9 DEF ExpireTypes
  <1>11. registered' \in [expires : MaybeTime, initial : Nat] /\ registered' # None
    BY <1>1, <1>4, <1>5, <1>7
  <1>12. ExpireTypes'
    <2>1. run' \in ExpireOps
      BY <1>1, NothingIsSound
    <2>2. cancelled' \subseteq 1 .. gens' /\ cancel' \in 0 .. gens' /\ gens' \in Nat
      BY <1>1, <1>9 DEF ExpireTypes
    <2>3. timers' \in [Expire!Gen -> {"none", "armed", "gone"}]
      BY <1>1 DEF ExpireTypes
    <2>4. metadata' \in MaybeTime /\ known' \in BOOLEAN /\ noTime' \in BOOLEAN
      BY <1>1, <1>5 DEF MaybeTime
    <2>5. QED
      BY <1>1, <1>10, <1>11, <2>1, <2>2, <2>3, <2>4 DEF ExpireTypes
  <1>13. \A g \in Expire!Gen : g \in cancelled \cup {cancel} => g \in cancelled' /\ g # gens + 1
    BY <1>1, <1>9 DEF ExpireTypes, Expire!Gen
  <1>14. \A p : (Ahead(p) => Ahead(p)') /\ (Fired(p) => Fired(p)')
    BY <1>1, <1>10, <1>13 DEF Ahead, Fired, Expire!Event
  <1>15. OpsAreSound'
    <2>1. run'.op # "expire" /\ Ahead(run') /\ Fired(run')
      BY <1>1, NothingIsSound
    <2>2. Ahead(run)' /\ Fired(run)'
      BY <1>1, <2>1 DEF Ahead, Fired
    <2>3. \A i \in DOMAIN queue : Ahead(queue[i])' /\ Fired(queue[i])'
      BY <1>1, <1>10, <1>13 DEF OpsAreSound, Ahead, Fired, Expire!Event
    <2>4. QED
      BY <1>1, <2>1, <2>2, <2>3 DEF OpsAreSound
  <1>16. ArmedIsStored'
    BY <1>1, <1>13 DEF ArmedIsStored, ExpireTypes
  <1>17. gens + 1 \notin cancelled'
    BY <1>1, <1>9 DEF ExpireTypes
  <1>18. timers'[gens + 1] = "armed"
    BY <1>1, <1>8 DEF ExpireTypes
  <1>19. registered'.expires = time /\ registered'.initial = initial
    BY <1>1
  <1>20. time # None => now < time /\ due'[gens + 1] < time
    BY <1>6, <1>9, <1>10
  <1>21. RegisteredIsTimed'
    BY <1>1, <1>6, <1>8, <1>10, <1>17, <1>18, <1>19, <1>20 DEF RegisteredIsTimed
  <1>22. QED
    BY <1>5, <1>11, <1>12, <1>15, <1>16, <1>19, <1>21

\* The event that runs is the one of the goroutine in the metadata, which was due.
LEMMA ExpireUnregisters ==
    ASSUME ExpireInv, Expire!Unregister
    PROVE  /\ ExpireInv'
           /\ registered' = None
           /\ registered # None /\ run.op = "expire" => noTime \/ now >= registered.expires - RequestTimeout
  <1> USE DEF ExpireInv
  <1>1. /\ cancelled' = IF cancel = 0 THEN cancelled ELSE cancelled \cup {cancel}
        /\ cancel' = 0 /\ metadata' = None /\ registered' = None /\ known' = FALSE
        /\ run' = Expire!Nothing
        /\ UNCHANGED <<default, now, queue, timers, due, gens, noTime>>
    BY DEF Expire!Unregister, Expire!CancelOld
  <1>2. ExpireTypes'
    <2>1. run' \in ExpireOps
      BY <1>1, NothingIsSound
    <2>2. cancelled' \subseteq 1 .. gens' /\ cancel' \in 0 .. gens'
      BY <1>1 DEF ExpireTypes
    <2>3. registered' \in {None} /\ metadata' \in MaybeTime
      BY <1>1 DEF MaybeTime
    <2>4. QED
      BY <1>1, <2>1, <2>2, <2>3 DEF ExpireTypes
  <1>3. \A g \in Expire!Gen : g \in cancelled \cup {cancel} => g \in cancelled'
    BY <1>1 DEF Expire!Gen
  <1>4. OpsAreSound'
    <2>1. run'.op # "expire" /\ Ahead(run)' /\ Fired(run)'
      BY <1>1, NothingIsSound DEF Ahead, Fired
    <2>2. \A i \in DOMAIN queue : Ahead(queue[i])' /\ Fired(queue[i])'
      BY <1>1, <1>3 DEF OpsAreSound, Ahead, Fired, Expire!Event
    <2>3. QED
      BY <1>1, <2>1, <2>2 DEF OpsAreSound
  <1>5. ArmedIsStored'
    BY <1>1, <1>3 DEF ArmedIsStored
  <1>6. RegisteredIsTimed'
    BY <1>1 DEF RegisteredIsTimed
  <1>7. ASSUME registered # None, run.op = "expire", ~noTime
        PROVE  now >= registered.expires - RequestTimeout
    <2>1. run.gen = cancel /\ due[run.gen] <= now
      BY <1>7 DEF OpsAreSound, Fired
    <2>2. due[cancel] = registered.expires - RequestTimeout
      BY <1>7 DEF RegisteredIsTimed
    <2>3. QED
      BY <2>1, <2>2
  <1>8. QED
    BY <1>1, <1>2, <1>4, <1>5, <1>6, <1>7

LEMMA ExpireTicks ==
    ASSUME ExpireInv, Expire!Tick
    PROVE  ExpireInv'
  <1> USE DEF ExpireInv
  <1>1. /\ now' = now + 1 /\ run = Expire!Nothing /\ queue = <<>>
        /\ \A g \in Expire!Gen : timers[g] = "armed" => g \notin cancelled /\ due[g] > now
        /\ UNCHANGED <<default, registered, known, metadata, queue, run, cancel, cancelled, timers, due, gens, noTime>>
    BY DEF Expire!Tick
  <1>2. ExpireTypes'
    BY <1>1 DEF ExpireTypes
  <1>3. OpsAreSound'
    <2>1. run'.op # "expire" /\ Ahead(run)' /\ Fired(run)'
      BY <1>1, NothingIsSound DEF Ahead, Fired
    <2>2. QED
      BY <1>1, <2>1 DEF OpsAreSound
  <1>4. ArmedIsStored'
    BY <1>1 DEF ArmedIsStored
  <1>5. RegisteredIsTimed'
    <2> SUFFICES ASSUME registered # None
                 PROVE  RegisteredIsTimed'
      BY <1>1 DEF RegisteredIsTimed
    <2>1. run # Expire!Event(cancel)
      BY <1>1 DEF Expire!Nothing, Expire!Call, Expire!Event
    <2>2. cancel \in Expire!Gen /\ timers[cancel] = "armed" /\ due[cancel] > now
      BY <1>1, <2>1 DEF RegisteredIsTimed
    <2>3. now \in Nat /\ due[cancel] \in Int
      BY <2>2 DEF ExpireTypes
    <2>4. registered.expires # None => registered.expires \in Nat
      BY DEF ExpireTypes, MaybeTime
    <2>5. registered.expires # None => now + 1 < registered.expires
      BY <2>2, <2>3, <2>4 DEF RegisteredIsTimed
    <2>6. QED
      BY <1>1, <2>2, <2>5 DEF RegisteredIsTimed
  <1>6. QED
    BY <1>2, <1>3, <1>4, <1>5

LEMMA ExpireStep ==
    ASSUME ExpireInv, Expire!ExpireNext
    PROVE  /\ ExpireInv'
           /\ registered # None =>
                 /\ registered' = None /\ run.op = "expire" => noTime \/ now >= registered.expires - RequestTimeout
                 /\ registered' # None => registered'.initial = registered.initial
  <1>1. ASSUME NEW o \in Offers, Expire!ClientRegister(o)
        PROVE  ExpireInv' /\ UNCHANGED registered
    <2> DEFINE call == Expire!Call("Register", Expire!At(o.own), Expire!At(o.token), Expire!At(o.peer))
    <2>1. \A t \in {o.own, o.token, o.peer} :
              Expire!At(t) \in MaybeTime /\ (Expire!At(t) # None => Expire!At(t) > now)
      <3>1. now \in Nat
        BY DEF ExpireInv, ExpireTypes
      <3>2. \A t \in {o.own, o.token, o.peer} : t = None \/ t \in Nat \ {0}
        BY TimersAssumption DEF Positive
      <3>3. QED
        BY <3>1, <3>2 DEF Expire!At, MaybeTime
    <2>2. call \in ExpireOps /\ call.op # "expire" /\ Ahead(call)
      BY <2>1 DEF Expire!Call, ExpireOps, Ahead
    <2> HIDE DEF call
    <2>3. /\ queue' = Append(queue, call)
          /\ UNCHANGED <<default, now, registered, known, metadata, run, cancel, cancelled, timers, due, gens, noTime>>
      BY <1>1 DEF Expire!ClientRegister, call
    <2>4. QED
      BY <2>2, <2>3, ExpireAppends DEF Fired
  <1>2. ASSUME Expire!ClientUnregister
        PROVE  ExpireInv' /\ UNCHANGED registered
    <2> DEFINE call == Expire!Call("Unregister", None, None, None)
    <2>1. call \in ExpireOps /\ call.op # "expire" /\ Ahead(call)
      BY DEF Expire!Call, ExpireOps, Ahead, MaybeTime
    <2> HIDE DEF call
    <2>2. /\ queue' = Append(queue, call)
          /\ UNCHANGED <<default, now, registered, known, metadata, run, cancel, cancelled, timers, due, gens, noTime>>
      BY <1>2 DEF Expire!ClientUnregister, call
    <2>3. QED
      BY <2>1, <2>2, ExpireAppends DEF Fired
  <1>3. ASSUME NEW g \in Expire!Gen, Expire!TimerFires(g)
        PROVE  ExpireInv' /\ UNCHANGED registered
    <2> DEFINE event == Expire!Event(g)
    <2>1. g \in cancelled \cup {cancel} /\ due[g] <= now /\ g \in Nat
      BY <1>3, TimersAssumption DEF Expire!TimerFires, ExpireInv, ArmedIsStored, Expire!Gen, Expire!MaxGens
    <2>2. event \in ExpireOps /\ event.op = "expire" /\ event.gen = g /\ Ahead(event) /\ Fired(event)
      BY <2>1 DEF Expire!Event, ExpireOps, Ahead, Fired, MaybeTime
    <2>3. /\ queue' = Append(queue, event)
          /\ timers' = [timers EXCEPT ![event.gen] = "gone"]
          /\ UNCHANGED <<default, now, registered, known, metadata, run, cancel, cancelled, due, gens, noTime>>
      BY <1>3, <2>2 DEF Expire!TimerFires
    <2> HIDE DEF event
    <2>4. QED
      BY <2>2, <2>3, ExpireAppends
  <1>4. ASSUME NEW g \in Expire!Gen, Expire!TimerCancelled(g)
        PROVE  ExpireInv' /\ UNCHANGED registered
    <2>1. /\ g \in cancelled
          /\ timers' = [timers EXCEPT ![g] = "gone"]
          /\ UNCHANGED <<default, now, registered, known, metadata, queue, run, cancel, cancelled, due, gens, noTime>>
      BY <1>4 DEF Expire!TimerCancelled
    <2>2. ExpireTypes' /\ OpsAreSound' /\ ArmedIsStored'
      BY <2>1 DEF ExpireInv, ExpireTypes, OpsAreSound, Ahead, Fired, Expire!Event, ArmedIsStored
    <2>3. RegisteredIsTimed'
      BY <2>1 DEF ExpireInv, ExpireTypes, RegisteredIsTimed, Expire!Event
    <2>4. QED
      BY <2>1, <2>2, <2>3 DEF ExpireInv
  <1>5. ASSUME Expire!RegisterFails
        PROVE  ExpireInv' /\ UNCHANGED registered
    <2>1. /\ run.op = "Register" /\ run' = Expire!Nothing
          /\ UNCHANGED <<default, now, registered, known, metadata, queue, cancel, cancelled, timers, due, gens, noTime>>
      BY <1>5 DEF Expire!RegisterFails
    <2>2. run' \in ExpireOps /\ run'.op # "expire" /\ Ahead(run)' /\ Fired(run)'
      BY <2>1, NothingIsSound DEF Ahead, Fired
    <2>3. ExpireTypes' /\ ArmedIsStored'
      BY <2>1, <2>2 DEF ExpireInv, ExpireTypes, ArmedIsStored
    <2>4. OpsAreSound'
      BY <2>1, <2>2 DEF ExpireInv, OpsAreSound, Ahead, Fired, Expire!Event
    <2>5. RegisteredIsTimed'
      BY <2>1 DEF ExpireInv, RegisteredIsTimed, Expire!Event
    <2>6. QED
      BY <2>1, <2>3, <2>4, <2>5 DEF ExpireInv
  <1>6. ASSUME Expire!Start \/ Expire!Tick
        PROVE  ExpireInv' /\ UNCHANGED registered
    BY <1>6, ExpireStarts, ExpireTicks DEF Expire!Start, Expire!Tick
  <1>7. CASE UNCHANGED registered /\ ExpireInv'
    BY <1>7
  <1>8. QED
    BY <1>1, <1>2, <1>3, <1>4, <1>5, <1>6, <1>7, ExpireRegisters, ExpireUnregisters DEF Expire!ExpireNext

LEMMA ExpireGone ==
    ASSUME ExpireInv
    PROVE  Expire!ExpiredIsGone
  <1>1. \A i \in DOMAIN queue : queue[i] \in Expire!ToSet(queue)
    BY DEF Expire!ToSet, ExpireInv, ExpireTypes
  <1>2. run = Expire!Nothing => run # Expire!Event(cancel)
    BY DEF Expire!Nothing, Expire!Call, Expire!Event
  <1>3. 0 \notin Expire!Gen
    BY DEF Expire!Gen
  <1>4. QED
    BY <1>1, <1>2, <1>3 DEF Expire!ExpiredIsGone, ExpireInv, RegisteredIsTimed

-----------------------------------------------------------------------------
(* All of them.                                                            *)

TimersInv ==
    /\ part = "refresh" => RefreshInv /\ RefreshClock
    /\ part = "expire" => ExpireInv
    /\ part = "netsvc" => MonitorInv
    /\ part = "upstream" => UpInv

LEMMA TimersBegin == MCInit => TimersInv
  BY RefreshBegins, ClockBegins, ExpireBegins, MonitorBegins, UpBegins DEF MCInit, TimersInv

LEMMA TimersSame ==
    ASSUME TimersInv, UNCHANGED vars
    PROVE  TimersInv'
  <1>1. RefreshInv => RefreshInv'
    BY DEF vars, common, RefreshInv, RefreshTypes, LiveIsStored, EventsHaveRoutines, OpenIsRefreshed, Refresh!Op
  <1>2. RefreshClock => RefreshClock'
    BY DEF vars, common, refreshOnly, RefreshClock
  <1>3. ExpireInv => ExpireInv'
    BY DEF vars, common, expireOnly, ExpireInv, ExpireTypes, OpsAreSound, Ahead, Fired, ArmedIsStored,
           RegisteredIsTimed, Expire!Event
  <1>4. MonitorInv => MonitorInv'
    BY DEF vars, common, netsvcOnly, MonitorInv, MonitorTypes, LiveWatchesConn, RunHasCancelled, OpenIsWatched, ClosesSoon, LiveMonitor,
           NetSvc!Nothing
  <1>5. UpInv => UpInv'
    BY DEF vars, common, upstreamOnly, UpInv, UpTypes, RunHasNoLoop, Upstream!OneEventLoop, Upstream!Waiting
  <1>6. QED
    BY <1>1, <1>2, <1>3, <1>4, <1>5 DEF TimersInv, vars

LEMMA TimersStep ==
    ASSUME TimersInv, [MCNext]_vars
    PROVE  TimersInv'
  <1> SUFFICES ASSUME MCNext
               PROVE  TimersInv'
    BY TimersSame
  <1>1. part' = part
    BY DEF MCNext
  <1>2. CASE part = "refresh" /\ Refresh!RefreshNext
    BY <1>1, <1>2, RefreshStep, ClockStep DEF TimersInv
  <1>3. CASE part = "expire" /\ Expire!ExpireNext
    BY <1>1, <1>3, ExpireStep DEF TimersInv
  <1>4. CASE part = "netsvc" /\ NetSvc!MonitorNext
    BY <1>1, <1>4, MonitorStep DEF TimersInv
  <1>5. CASE part = "upstream" /\ Upstream!UpNext
    BY <1>1, <1>5, UpStep DEF TimersInv
  <1>6. QED
    BY <1>2, <1>3, <1>4, <1>5 DEF MCNext

\* refresh, netsvcmonitor, upstreamrefresh: for any numbers of Requests, failed ones,
\* Closes and events, an open connection has exactly one goroutine that refreshes it, and
\* at most one that monitors its service or listens upstream, which is the one that Close
\* cancels.  The monitor is missing only after a failed Request, the expiry of the path, a
\* dropped event or its own Close event.  A closed connection has none that is not
\* cancelled.
THEOREM OneGoroutineEach == MCSpec => []OneGoroutine
  <1>1. TimersInv => OneGoroutine
    BY RefreshOne, MonitorOne DEF TimersInv, OneGoroutine, UpInv
  <1>2. QED
    BY <1>1, TimersBegin, TimersStep, PTL DEF MCSpec

\* refresh, expire, setregistrationtime: for any lifetimes, no token of an open
\* connection expires unless a refresh has failed, no endpoint stays in the registry after
\* its time, none is removed before it, and the first registration time is kept.
THEOREM TimersAreInTime == MCSpec => InTime
  <1> DEFINE A == /\ part = "refresh" => Refresh!RefreshedInTime
                  /\ part = "expire" => Expire!ExpiredIsGone
             B == part = "expire" /\ registered # None =>
                     /\ registered' = None /\ run.op = "expire" =>
                            noTime \/ now >= registered.expires - RequestTimeout
                     /\ registered' # None => registered'.initial = registered.initial
  <1>1. TimersInv => A
    BY ClockInTime, ExpireGone DEF TimersInv
  <1>2. TimersInv /\ [MCNext]_vars => [B]_vars
    <2> SUFFICES ASSUME TimersInv, MCNext
                 PROVE  B
      OBVIOUS
    <2>1. CASE part = "expire"
      <3>1. ExpireInv /\ Expire!ExpireNext
        BY <2>1 DEF MCNext, TimersInv
      <3>2. QED
        BY <3>1, ExpireStep
    <2>2. CASE part # "expire"
      BY <2>2
    <2>3. QED
      BY <2>1, <2>2
  <1>3. MCSpec => []A /\ [][B]_vars
    <2> HIDE DEF A, B
    <2>1. QED
      BY <1>1, <1>2, TimersBegin, TimersStep, PTL DEF MCSpec
  <1>4. QED
    BY <1>3, PTL DEF InTime
=============================================================================
