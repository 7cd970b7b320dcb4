------------------------------- MODULE Refresh ------------------------------
(***************************************************************************)
(* refreshClient (networkservice/common/refresh) under begin, for one      *)
(* connection and an endpoint that fails now and then.  Each successful    *)
(* Request starts a goroutine that waits for a part of the time until the  *)
(* first token of the path expires and then has begin request again; a     *)
(* failed refresh is tried again after a short time.                       *)
(*                                                                         *)
(* Time passes only when nobody has anything to do: timers fire in time    *)
(* and calls take no time.                                                 *)
(***************************************************************************)
EXTENDS Integers, Sequences, SequencesExt, FiniteSetsExt

CONSTANTS
    Lifetimes,   \* lifetimes of the tokens of a path, one set per position
    MaxTime,     \* bound: time
    MaxCalls     \* bound: calls of the application

RetryInterval == 1   \* 200 ms
MaxGens == MaxCalls + MaxTime
Gen == 1 .. MaxGens

VARIABLES
    now,
    calls,
    conn,       \* begin: "none", "open" or "closed"
    expires,    \* expiration times along the path of the connection
    index,      \* place of this client in the path
    queue,      \* begin: calls and events that wait for the executor
    run,        \* the one that runs
    cancel,     \* refresh: the generation in the metadata, or 0
    cancelled,  \* generations whose cancelCtx is done
    timers,     \* goroutines: "none", "armed", "waiting" (for its event) or "gone"
    due,        \* when the timer fires
    gens,       \* generations so far
    failures    \* refreshes that failed since the last successful Request

refreshVars == <<now, calls, conn, expires, index, queue, run, cancel, cancelled, timers, due, gens, failures>>

Op(name, g) == [op |-> name, gen |-> g]
Nothing == Op("none", 0)

RefreshInit ==
    /\ now = 0 /\ calls = 0
    /\ conn = "none" /\ expires = <<>>
    /\ index \in 0 .. Len(Lifetimes) - 1
    /\ queue = <<>> /\ run = Nothing
    /\ cancel = 0 /\ cancelled = {} /\ gens = 0
    /\ timers = [g \in Gen |-> "none"]
    /\ due = [g \in Gen |-> 0]
    /\ failures = 0

\* The time to wait: a third of what is left of the shortest token, or between 0.2
\* and 0.4 of it, the less the nearer the client is to the start of a longer path.
after_Whole(path, i, t) == Min({path[k] - t : k \in DOMAIN path}) + 1

after(path, i, t) ==
    LET minTimeout == Min({path[k] - t : k \in DOMAIN path}) IN
    IF minTimeout <= 0 THEN 0
    ELSE IF Len(path) > 1 THEN (minTimeout * (Len(path) + i)) \div (5 * Len(path))
    ELSE minTimeout \div 3

Application(name) ==
    /\ calls < MaxCalls /\ calls' = calls + 1
    /\ queue' = Append(queue, Op(name, 0))
    /\ UNCHANGED <<now, conn, expires, index, run, cancel, cancelled, timers, due, gens, failures>>

\* The goroutine ends when it is cancelled, or hands its event to begin.
TimerCancelled(g) ==
    /\ timers[g] = "armed" /\ g \in cancelled
    /\ timers' = [timers EXCEPT ![g] = "gone"]
    /\ UNCHANGED <<now, calls, conn, expires, index, queue, run, cancel, cancelled, due, gens, failures>>

TimerFires(g) ==
    /\ timers[g] = "armed" /\ due[g] <= now
    /\ timers' = [timers EXCEPT ![g] = "waiting"]
    /\ queue' = Append(queue, Op("refresh", g))
    /\ UNCHANGED <<now, calls, conn, expires, index, run, cancel, cancelled, due, gens, failures>>

\* begin: an event of a connection that is not open, or with a context that is done,
\* does not run, and its goroutine ends without an error.
Start ==
    /\ run = Nothing /\ queue # <<>>
    /\ queue' = Tail(queue)
    /\ LET c == Head(queue) IN
          IF c.op = "refresh" /\ (conn # "open" \/ c.gen \in cancelled)
          THEN timers' = [timers EXCEPT ![c.gen] = "gone"] /\ UNCHANGED run
          ELSE run' = c /\ UNCHANGED timers
    /\ UNCHANGED <<now, calls, conn, expires, index, cancel, cancelled, due, gens, failures>>

\* A bug: the goroutine of the previous Request stays.
Cancel_Keeps == UNCHANGED cancelled

\* Request: the old goroutine is cancelled once the endpoint has answered, not before.
Cancel == cancelled' = IF cancel = 0 THEN cancelled ELSE cancelled \cup {cancel}

Request ==
    /\ run.op \in {"Request", "refresh"} /\ gens < MaxGens
    /\ \E path \in {p \in [DOMAIN Lifetimes -> UNION {Lifetimes[k] : k \in DOMAIN Lifetimes}] :
                      \A k \in DOMAIN p : p[k] \in Lifetimes[k]} :
          LET tokens == [k \in DOMAIN path |-> now + path[k]] IN
          /\ expires' = tokens
          /\ due' = [due EXCEPT ![gens + 1] = now + after(tokens, index, now)]
    /\ conn' = "open"
    /\ Cancel
    /\ gens' = gens + 1 /\ cancel' = gens + 1
    /\ timers' = [g \in Gen |-> IF g = gens + 1 THEN "armed" ELSE IF run = Op("refresh", g) THEN "gone" ELSE timers[g]]
    /\ failures' = 0
    /\ run' = Nothing
    /\ UNCHANGED <<now, calls, index, queue>>

RequestFails ==
    /\ run.op \in {"Request", "refresh"}
    /\ IF run.op = "refresh"
       THEN /\ timers' = [timers EXCEPT ![run.gen] = "armed"]
            /\ due' = [due EXCEPT ![run.gen] = now + RetryInterval]
            /\ failures' = failures + 1
       ELSE UNCHANGED <<timers, due, failures>>
    /\ run' = Nothing
    /\ UNCHANGED <<now, calls, conn, expires, index, queue, cancel, cancelled, gens>>

Close ==
    /\ run.op = "Close"
    /\ Cancel /\ cancel' = 0
    /\ conn' = IF conn = "open" THEN "closed" ELSE conn
    /\ run' = Nothing
    /\ UNCHANGED <<now, calls, expires, index, queue, timers, due, gens, failures>>

Tick ==
    /\ now < MaxTime /\ now' = now + 1
    /\ run = Nothing /\ queue = <<>>
    /\ \A g \in Gen : timers[g] = "armed" => g \notin cancelled /\ due[g] > now
    /\ UNCHANGED <<calls, conn, expires, index, queue, run, cancel, cancelled, timers, due, gens, failures>>

RefreshNext ==
    \/ Application("Request") \/ Application("Close")
    \/ \E g \in Gen : TimerCancelled(g) \/ TimerFires(g)
    \/ Start \/ Request \/ RequestFails \/ Close \/ Tick

-----------------------------------------------------------------------------
\* Between calls an open connection has exactly one goroutine that will refresh it,
\* also after Requests that failed, and a closed one has none that is not cancelled.
OneRefresher ==
    run = Nothing =>
        /\ \A g \in Gen : timers[g] \in {"armed", "waiting"} => g \in cancelled \/ g = cancel
        /\ conn = "open" => /\ cancel # 0 /\ cancel \notin cancelled
                            /\ timers[cancel] = "armed" \/ Op("refresh", cancel) \in ToSet(queue)
        /\ conn # "open" => cancel = 0

\* No token of an open connection expires unless a refresh has failed.
RefreshedInTime ==
    conn = "open" /\ failures = 0 => \A k \in DOMAIN expires : now < expires[k]
=============================================================================
