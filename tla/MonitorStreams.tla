---------------------------- MODULE MonitorStreams --------------------------
(***************************************************************************)
(* Streams of connection events with several ends.                         *)
(*                                                                         *)
(* combineMonitorServer (chains/endpoint) makes one stream of those of     *)
(* several monitor servers.  Their initial states are merged into one      *)
(* event, and what a server sends later waits until that event is out, or  *)
(* has failed.  When one of them returns the whole stream ends.            *)
(*                                                                         *)
(* core/eventchannel gives the events of one channel to several streams:   *)
(* monitorConnectionClient writes each event to the bounded channel of     *)
(* every subscriber, monitorConnectionServer sends it on the stream of     *)
(* every subscriber; subscribers come and go, and a serialize executor     *)
(* runs the changes of their list and the distribution of events one after *)
(* the other.                                                              *)
(***************************************************************************)
EXTENDS Integers, Sequences, SequencesExt, FiniteSetsExt

CONSTANTS
    Servers,     \* combineMonitorServer: how many monitorServers
    MaxUpdates,  \* bound: events of a server after its initial state
    Sub,         \* eventchannel: subscribers, which are calls of MonitorConnections
    Cap,         \* capacity of a channel of monitorConnectionClient
    MaxEvents    \* bound: events of eventCh

Server == 1 .. Servers

-----------------------------------------------------------------------------
(* combineMonitorServer.                                                   *)

VARIABLES
    pc,       \* what the goroutine of each server does
    version,  \* the state of the connections of each server
    initCh,   \* initChs: the version in the initial event of a server, or nothing
    merged,   \* the versions that processInitEvent has put into initEvent
    errCh,    \* errors that errCh holds, and whether it is closed
    main,     \* what MonitorConnections does: "init", "wait" or "returned"
    done,     \* is ctx done?
    out,      \* what the stream has been sent
    unsent    \* history: servers of which a Send failed, and 0 if the merged event did

combineVars == <<pc, version, initCh, merged, errCh, main, done, out, unsent>>

CombineInit ==
    /\ pc = [s \in Server |-> "start"]
    /\ version = [s \in Server |-> 1]
    /\ initCh = [s \in Server |-> <<>>]
    /\ merged = <<>>
    /\ errCh = [errors |-> 0, closed |-> FALSE]
    /\ main = "init"
    /\ done = FALSE
    /\ out = <<>> /\ unsent = {}

\* Send of INITIAL_STATE_TRANSFER, always the first event of a monitor server.
SendInitial(s) ==
    /\ pc[s] = "start"
    /\ initCh' = [initCh EXCEPT ![s] = <<version[s]>>]
    /\ pc' = [pc EXCEPT ![s] = "initializing"]
    /\ UNCHANGED <<version, merged, errCh, main, done, out, unsent>>

\* It returns what errCh gives: one of the errors, or none once the channel is
\* closed.  The monitor server drops the error and goes on.
Initialized(s) ==
    /\ pc[s] \in {"initializing", "leaving"}
    /\ \/ errCh.errors > 0 /\ errCh' = [errCh EXCEPT !.errors = @ - 1]
       \/ errCh.errors = 0 /\ errCh.closed /\ UNCHANGED errCh
    /\ pc' = [pc EXCEPT ![s] = IF @ = "leaving" THEN "returned" ELSE "running"]
    /\ UNCHANGED <<version, initCh, merged, main, done, out, unsent>>

Event(type, conns) == [type |-> type, conns |-> conns]

\* The connections of a server change and it sends the change.  When the Send fails
\* the server removes its filter, after the events that wait behind this one.
SendUpdate(s) ==
    /\ pc[s] = "running"
    /\ version[s] <= MaxUpdates
    /\ version' = [version EXCEPT ![s] = @ + 1]
    /\ \/ /\ out' = Append(out, Event("update", [t \in {s} |-> version[s] + 1]))
          /\ UNCHANGED <<pc, unsent>>
       \/ /\ unsent' = unsent \cup {s}
          /\ \E p \in {"running", "silent"} : pc' = [pc EXCEPT ![s] = p]
          /\ UNCHANGED out
    /\ UNCHANGED <<initCh, merged, errCh, main, done>>

\* startMonitorConnectionsServer ends: the server returns when the context is done,
\* or on its own.  It cancels the context of all and waits for the initial Send.
startMonitorConnectionsServer(s) ==
    /\ pc[s] \in {"start", "initializing", "running", "silent"}
    /\ pc' = [pc EXCEPT ![s] = IF @ = "initializing" THEN "leaving" ELSE "returned"]
    /\ done' = TRUE
    /\ UNCHANGED <<version, initCh, merged, errCh, main, out, unsent>>

\* The server whose initial event processInitEvent waits for.
Reads == Len(merged) + 1

\* A bug: errCh stays open when the context is done.
ReadInitial_Open ==
    /\ main = "init" /\ Reads <= Servers
    /\ \/ /\ initCh[Reads] # <<>>
          /\ merged' = Append(merged, initCh[Reads][1])
          /\ initCh' = [initCh EXCEPT ![Reads] = <<>>]
          /\ UNCHANGED main
       \/ /\ done
          /\ main' = "wait"
          /\ UNCHANGED <<merged, initCh>>
    /\ UNCHANGED <<pc, version, done, out, unsent, errCh>>

\* processInitEvent reads the initial events one after the other, sends their union
\* and closes errCh.
ReadInitial ==
    /\ main = "init" /\ Reads <= Servers
    /\ \/ /\ initCh[Reads] # <<>>
          /\ merged' = Append(merged, initCh[Reads][1])
          /\ initCh' = [initCh EXCEPT ![Reads] = <<>>]
          /\ UNCHANGED <<main, errCh>>
       \/ /\ done
          /\ errCh' = [errCh EXCEPT !.closed = TRUE]
          /\ main' = "wait"
          /\ UNCHANGED <<merged, initCh>>
    /\ UNCHANGED <<pc, version, done, out, unsent>>

\* The Send of the stream fails when the stream is broken.
processInitEvent ==
    /\ main = "init" /\ Reads > Servers
    /\ main' = "wait"
    /\ \/ /\ out' = Append(out, Event("initial", merged))
          /\ errCh' = [errCh EXCEPT !.closed = TRUE]
          /\ UNCHANGED unsent
       \/ /\ errCh' = [errors |-> Servers, closed |-> TRUE]
          /\ unsent' = 0 .. Servers
          /\ UNCHANGED out
    /\ UNCHANGED <<pc, version, initCh, merged, done>>

\* combineMonitorServer.MonitorConnections returns when the context is done.  The
\* caller may be the one who ends it.
CombineReturns ==
    /\ main = "wait" /\ done
    /\ main' = "returned"
    /\ UNCHANGED <<pc, version, initCh, merged, errCh, done, out, unsent>>

CallerEnds ==
    /\ ~ done /\ done' = TRUE
    /\ UNCHANGED <<pc, version, initCh, merged, errCh, main, out, unsent>>

CombineNext ==
    \/ \E s \in Server : SendInitial(s) \/ Initialized(s) \/ SendUpdate(s) \/ startMonitorConnectionsServer(s)
    \/ ReadInitial \/ processInitEvent \/ CombineReturns \/ CallerEnds

-----------------------------------------------------------------------------
(* eventchannel.  The order in which the subscribers of an event are       *)
(* served is that of a list in the code, and any here.                     *)

VARIABLES
    side,      \* "client" or "server" (never changes)
    produced,  \* events that the loop has taken from eventCh
    ended,     \* has the loop seen the end of eventCh?
    executor,  \* functions that wait for the executor
    subs,      \* fanoutEventChs, or servers
    left,      \* subscribers that the running function has still to serve
    ran,       \* the last event that all subscribers have been served with
    stopped,   \* closeCh of monitorConnectionServer
    state,     \* of each subscriber: "new", "live", "ended" (no more events), "done" (its context)
    ch,        \* the channel of each subscriber
    closes,    \* how often it was closed
    got        \* the last event that a subscriber received, or that came before it

eventVars == <<side, produced, ended, executor, subs, left, ran, stopped, state, ch, closes, got>>

EventInit ==
    /\ side \in {"client", "server"}
    /\ produced = 0 /\ ended = FALSE
    /\ executor = <<>> /\ subs = {} /\ left = {} /\ ran = 0
    /\ stopped = FALSE
    /\ state = [c \in Sub |-> "new"]
    /\ ch = [c \in Sub |-> <<>>]
    /\ closes = [c \in Sub |-> 0]
    /\ got = [c \in Sub |-> 0]

AddSub(c) == [op |-> "add", sub |-> c]
RemoveSub(c) == [op |-> "remove", sub |-> c]
Distribute(e) == [op |-> "event", event |-> e]
End == [op |-> "end"]

AsyncExec(f) == executor' = Append(executor, f)
Added(c) == state[c] # "new" /\ AddSub(c) \notin ToSet(executor)

\* MonitorConnections of either side.  The server refuses once it has stopped.
MonitorConnections(c) ==
    /\ state[c] = "new" /\ ~ stopped
    /\ state' = [state EXCEPT ![c] = "live"]
    /\ AsyncExec(AddSub(c))
    /\ UNCHANGED <<side, produced, ended, subs, left, ran, stopped, ch, closes, got>>

\* eventLoop: it takes an event, or sees that there will be no more.  That of the
\* client is started by the first subscriber that is added.
eventLoop ==
    /\ ~ ended
    /\ side = "client" => \E c \in Sub : Added(c)
    /\ \/ /\ produced < MaxEvents
          /\ produced' = produced + 1
          /\ AsyncExec(Distribute(produced + 1))
          /\ UNCHANGED ended
       \/ ended' = TRUE /\ AsyncExec(End) /\ UNCHANGED produced
    /\ UNCHANGED <<side, subs, left, ran, stopped, state, ch, closes, got>>

\* The context of a subscriber is done; the goroutine of the client, or the call of
\* the server, has it removed.  A client is told only once it has been added.
Leave(c) ==
    /\ state[c] \in {"live", "ended"}
    /\ side = "client" => Added(c)
    /\ state' = [state EXCEPT ![c] = "done"]
    /\ AsyncExec(RemoveSub(c))
    /\ UNCHANGED <<side, produced, ended, subs, left, ran, stopped, ch, closes, got>>

\* The server side also removes a subscriber when it has stopped.
ServerStopped(c) ==
    /\ side = "server" /\ stopped /\ state[c] = "live"
    /\ state' = [state EXCEPT ![c] = "done"]
    /\ AsyncExec(RemoveSub(c))
    /\ UNCHANGED <<side, produced, ended, subs, left, ran, stopped, ch, closes, got>>

\* The functions of the executor.  Only the distribution of an event takes more than
\* one step: left holds the subscribers still to be served.
Runs(f) == left = {} /\ executor # <<>> /\ Head(executor) = f
Pops == executor' = Tail(executor)

RunAdd(c) ==
    /\ Runs(AddSub(c)) /\ Pops
    /\ subs' = subs \cup {c}
    /\ got' = [got EXCEPT ![c] = ran]
    /\ UNCHANGED <<side, produced, ended, left, ran, stopped, state, ch, closes>>

\* The client closes the channel of the subscriber, if it is still in the list.
RunRemove(c) ==
    /\ Runs(RemoveSub(c)) /\ Pops
    /\ subs' = subs \ {c}
    /\ closes' = IF side = "client" /\ c \in subs THEN [closes EXCEPT ![c] = @ + 1] ELSE closes
    /\ UNCHANGED <<side, produced, ended, left, ran, stopped, state, ch, got>>

\* The client closes all channels and empties the list; the server closes closeCh.
RunEnd ==
    /\ Runs(End) /\ Pops
    /\ IF side = "client"
       THEN /\ closes' = [c \in Sub |-> IF c \in subs THEN closes[c] + 1 ELSE closes[c]]
            /\ subs' = {}
            /\ UNCHANGED stopped
       ELSE stopped' = TRUE /\ UNCHANGED <<closes, subs>>
    /\ UNCHANGED <<side, produced, ended, left, ran, state, ch, got>>

\* What is left to serve with the event e, which is over when that is nobody.
Serves(e, s) ==
    /\ left' = s
    /\ IF s = {} THEN Pops /\ ran' = e ELSE UNCHANGED <<executor, ran>>

RunEvent(e) ==
    /\ Runs(Distribute(e))
    /\ Serves(e, subs)
    /\ UNCHANGED <<side, produced, ended, subs, stopped, state, ch, closes, got>>

\* The client blocks on a full channel, whoever has to read it; the Send of a stream
\* gives up when the context of its subscriber is done.
Deliver(c) ==
    /\ c \in left
    /\ \/ /\ Len(ch[c]) < Cap
          /\ ch' = [ch EXCEPT ![c] = Append(@, Head(executor).event)]
       \/ side = "server" /\ state[c] = "done" /\ UNCHANGED ch
    /\ Serves(Head(executor).event, left \ {c})
    /\ UNCHANGED <<side, produced, ended, subs, stopped, state, closes, got>>

\* Recv of a subscriber; events come before the end of its channel.
Recv(c) ==
    /\ state[c] = "live"
    /\ \/ /\ ch[c] # <<>>
          /\ got' = [got EXCEPT ![c] = Head(ch[c])]
          /\ ch' = [ch EXCEPT ![c] = Tail(@)]
          /\ UNCHANGED state
       \/ /\ ch[c] = <<>> /\ closes[c] > 0
          /\ state' = [state EXCEPT ![c] = "ended"]
          /\ UNCHANGED <<got, ch>>
    /\ UNCHANGED <<side, produced, ended, executor, subs, left, ran, stopped, closes>>

EventNext ==
    \/ \E c \in Sub :
          \/ MonitorConnections(c) \/ Leave(c) \/ ServerStopped(c) \/ Recv(c)
          \/ RunAdd(c) \/ RunRemove(c) \/ Deliver(c)
    \/ \E e \in 1 .. produced : RunEvent(e)
    \/ eventLoop \/ RunEnd

-----------------------------------------------------------------------------
\* What a client knows of a server after it has applied the events of the stream.
Known(s) ==
    LET told == {i \in DOMAIN out : s \in DOMAIN out[i].conns}
    IN  IF told = {} THEN 0 ELSE out[Max(told)].conns[s]

\* While the stream is up and nobody is kept at its initial event, a client knows the
\* latest state of every server of which no Send has failed.  The merged event comes
\* first, once and with all servers; if its Send failed it never comes, and updates
\* may come without it.
CombinedViewIsCurrent ==
    ~ done =>
        /\ (\E s \in Server : pc[s] \in {"running", "silent"}) =>
               \A s \in Server \ unsent : Known(s) = version[s]
        /\ \A i \in DOMAIN out : out[i].type = "initial" => i = 1
        /\ out # <<>> /\ 0 \notin unsent => out[1].type = "initial" /\ DOMAIN out[1].conns = Server

\* When one server returns, or the caller ends the stream, everybody returns.
CombineEnds == done ~> main = "returned" /\ \A s \in Server : pc[s] = "returned"

\* No channel is closed twice or written after it is closed (either is a panic), and
\* every subscriber gets the events that follow its subscription, in order and
\* without a gap.
FanoutIsSound ==
    /\ \A c \in Sub :
          /\ closes[c] <= 1
          /\ \A i \in DOMAIN ch[c] : state[c] = "live" => ch[c][i] = got[c] + i
    /\ \A c \in left : closes[c] = 0
=============================================================================
