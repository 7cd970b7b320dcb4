---------------------------- MODULE NetSvcMonitor ---------------------------
(***************************************************************************)
(* monitorServer (networkservice/common/netsvcmonitor) under begin: after  *)
(* each Request a goroutine watches the network service of the connection  *)
(* and has begin close it when its endpoint does not match the service any *)
(* more.  One connection, two endpoints.                                   *)
(***************************************************************************)
EXTENDS Integers, Sequences, SequencesExt

CONSTANTS
    Endpoint,
    MaxCalls,    \* bound: calls of the client
    MaxChanges   \* bound: changes of the network service, broken streams and dropped events

MaxGens == MaxCalls
Gen == 1 .. MaxGens

VARIABLES
    matches,    \* the endpoints that match the service now
    changes,
    calls,
    conn,       \* the endpoint of the open connection, or 0
    queue, run, \* begin
    cancel,     \* the generation whose cancel function is in the metadata, or 0
    cancelled,  \* generations whose monitorCtx is done (cancelled or timed out)
    monitors,   \* goroutines: "none", "find", "watch" or "gone"
    watched,    \* the endpoint of the connection that a goroutine watches for
    inbox,      \* services that its stream has still to give it
    gens,
    unwatched   \* since the last successful Request, has one failed, the path expired or an event been dropped?

monitorVars == <<matches, changes, calls, conn, queue, run, cancel, cancelled, monitors, watched, inbox, gens, unwatched>>

Nothing == [op |-> "none", gen |-> 0]
Op(name, g) == [op |-> name, gen |-> g]

MonitorInit ==
    /\ matches = Endpoint /\ changes = 0 /\ calls = 0
    /\ conn = 0 /\ queue = <<>> /\ run = Nothing
    /\ cancel = 0 /\ cancelled = {} /\ gens = 0
    /\ monitors = [g \in Gen |-> "none"]
    /\ watched = [g \in Gen |-> 0]
    /\ inbox = [g \in Gen |-> <<>>]
    /\ unwatched = FALSE

\* External: the network service changes, and the watching streams tell.
ServiceChanges ==
    /\ changes < MaxChanges /\ changes' = changes + 1
    /\ \E m \in SUBSET Endpoint \ {matches} :
          /\ matches' = m
          /\ inbox' = [g \in Gen |-> IF monitors[g] = "watch" THEN Append(inbox[g], m) ELSE inbox[g]]
    /\ UNCHANGED <<calls, conn, queue, run, cancel, cancelled, monitors, watched, gens, unwatched>>

ClientCalls(name) ==
    /\ calls < MaxCalls /\ calls' = calls + 1
    /\ queue' = Append(queue, Op(name, 0))
    /\ UNCHANGED <<matches, changes, conn, run, cancel, cancelled, monitors, watched, inbox, gens, unwatched>>

\* A bug: the goroutine of the previous Request goes on.
Start_NoCancel ==
    /\ run = Nothing /\ queue # <<>>
    /\ queue' = Tail(queue)
    /\ run' = IF Head(queue).op # "Request" /\ conn = 0 THEN Nothing ELSE Head(queue)
    /\ UNCHANGED <<matches, changes, calls, conn, cancel, cancelled, monitors, watched, inbox, gens, unwatched>>

\* begin: the Close event of the goroutine has no context, only the state is looked at.
\* Request and Close call the cancel function in the metadata first.
Start ==
    /\ run = Nothing /\ queue # <<>>
    /\ queue' = Tail(queue)
    /\ IF Head(queue).op # "Request" /\ conn = 0
       THEN UNCHANGED <<run, cancelled>>
       ELSE /\ run' = Head(queue)
            /\ cancelled' = IF cancel = 0 THEN cancelled ELSE cancelled \cup {cancel}
    /\ UNCHANGED <<matches, changes, calls, conn, cancel, monitors, watched, inbox, gens, unwatched>>

\* The rest of the chain connects to an endpoint that matches, or keeps the one it has.
Request ==
    /\ run.op = "Request" /\ gens < MaxGens
    /\ \E e \in (matches \cup {conn}) \ {0} :
          /\ conn' = e
          /\ watched' = [watched EXCEPT ![gens + 1] = e]
    /\ gens' = gens + 1 /\ cancel' = gens + 1
    /\ monitors' = [monitors EXCEPT ![gens + 1] = "find"]
    /\ unwatched' = FALSE
    /\ run' = Nothing
    /\ UNCHANGED <<matches, changes, calls, queue, cancelled, inbox>>

\* The connection stays as it was, but its goroutine has been cancelled.
RequestFails ==
    /\ run.op = "Request"
    /\ unwatched' = (conn # 0)
    /\ run' = Nothing
    /\ UNCHANGED <<matches, changes, calls, conn, queue, cancel, cancelled, monitors, watched, inbox, gens>>

Close ==
    /\ run.op \in {"Close", "event"}
    /\ conn' = 0 /\ cancel' = 0 /\ unwatched' = FALSE
    /\ run' = Nothing
    /\ UNCHANGED <<matches, changes, calls, queue, cancelled, monitors, watched, inbox, gens>>

\* monitorCtx has a deadline: the earliest Expires of the path that the last Request
\* returned.  Nothing is closed then, and nobody watches until the next Request.
PathExpires(g) ==
    /\ monitors[g] \in {"find", "watch"} /\ g \notin cancelled
    /\ cancelled' = cancelled \cup {g}
    /\ unwatched' = (unwatched \/ g = cancel)
    /\ UNCHANGED <<matches, changes, calls, conn, queue, run, cancel, monitors, watched, inbox, gens>>

\* A bug: only later changes of the service are looked at.
Find_Skips(g) ==
    /\ monitors[g] = "find"
    /\ monitors' = [monitors EXCEPT ![g] = IF g \in cancelled THEN "gone" ELSE "watch"]
    /\ UNCHANGED <<matches, changes, calls, conn, queue, run, cancel, cancelled, watched, inbox, gens, unwatched>>

\* monitorNetworkService: a stream that starts with the service as it is.
Find(g) ==
    /\ monitors[g] = "find"
    /\ IF g \in cancelled THEN monitors' = [monitors EXCEPT ![g] = "gone"] /\ UNCHANGED inbox
       ELSE /\ monitors' = [monitors EXCEPT ![g] = "watch"]
            /\ inbox' = [inbox EXCEPT ![g] = <<matches>>]
    /\ UNCHANGED <<matches, changes, calls, conn, queue, run, cancel, cancelled, watched, gens, unwatched>>

\* The stream breaks: another Find after a while.
StreamEnds(g) ==
    /\ monitors[g] = "watch"
    /\ changes < MaxChanges /\ changes' = changes + 1
    /\ monitors' = [monitors EXCEPT ![g] = "find"]
    /\ inbox' = [inbox EXCEPT ![g] = <<>>]
    /\ UNCHANGED <<matches, calls, conn, queue, run, cancel, cancelled, watched, gens, unwatched>>

\* One event: the endpoint is compared with the service that came with it.
Compare(g) ==
    /\ monitors[g] = "watch"
    /\ \/ /\ g \in cancelled
          /\ monitors' = [monitors EXCEPT ![g] = "gone"]
          /\ UNCHANGED <<inbox, queue>>
       \/ /\ inbox[g] # <<>>
          /\ inbox' = [inbox EXCEPT ![g] = Tail(@)]
          /\ IF watched[g] \in Head(inbox[g]) THEN UNCHANGED <<monitors, queue>>
             ELSE /\ monitors' = [monitors EXCEPT ![g] = "gone"]
                  /\ queue' = Append(queue, Op("event", g))
    /\ UNCHANGED <<matches, changes, calls, conn, run, cancel, cancelled, watched, gens, unwatched>>

\* The endpoint is not found, or its Find fails: the event is dropped.
FindFails(g) ==
    /\ monitors[g] = "watch" /\ inbox[g] # <<>>
    /\ changes < MaxChanges /\ changes' = changes + 1
    /\ inbox' = [inbox EXCEPT ![g] = Tail(@)]
    /\ unwatched' = TRUE
    /\ UNCHANGED <<matches, calls, conn, queue, run, cancel, cancelled, monitors, watched, gens>>

MonitorNext ==
    \/ ServiceChanges \/ ClientCalls("Request") \/ ClientCalls("Close")
    \/ Start \/ Request \/ RequestFails \/ Close
    \/ \E g \in Gen : PathExpires(g) \/ Find(g) \/ StreamEnds(g) \/ Compare(g) \/ FindFails(g)

MonitorFairness ==
    /\ WF_monitorVars(Start)
    /\ WF_monitorVars(Request \/ RequestFails)
    /\ WF_monitorVars(Close)
    /\ \A g \in Gen : WF_monitorVars(Find(g)) /\ WF_monitorVars(Compare(g))

-----------------------------------------------------------------------------
\* While nothing runs, a connection has no more than one goroutine that is not done: the
\* one of its last Request, for its endpoint.  An open connection has one, or its
\* goroutine has asked begin to close it, unless a Request has failed since, the path
\* expired or an event was dropped.
OneMonitor ==
    run = Nothing =>
        /\ \A g \in Gen : monitors[g] \in {"find", "watch"} /\ g \notin cancelled => g = cancel /\ watched[g] = conn
        /\ conn # 0 /\ ~unwatched =>
              \/ cancel # 0 /\ monitors[cancel] \in {"find", "watch"} /\ cancel \notin cancelled
              \/ \E i \in DOMAIN queue : queue[i].op = "event"

\* A connection whose endpoint does not match its service is closed in the end, or
\* gets another endpoint or the service matches again; unless a Request has failed
\* since or the path has expired, which leave it without a goroutine, or an event was dropped.
MismatchIsClosed == (conn # 0 /\ conn \notin matches) ~> (conn = 0 \/ conn \in matches \/ unwatched)
=============================================================================
