-------------------------------- MODULE Paths --------------------------------
(***************************************************************************)
(* The path of a connection, or of a registration: every process that a    *)
(* call goes through finds or adds its segment, with the id under which it *)
(* knows the connection and with tokens, and sets the index back when the  *)
(* call returns (updatepath, updatetoken, trimpath; grpcmetadata and       *)
(* updatepath of the registry, where the path travels next to the          *)
(* registration, which has the ids of the processes).  Between two calls   *)
(* the route may change.  Indexes count from 0 as in the code.             *)
(***************************************************************************)
EXTENDS Integers, Sequences, FiniteSets, SequencesExt, FiniteSetsExt

CONSTANTS
    PathKinds,  \* to choose from: "conn", "ns", "nse"
    Routes,     \* sequences of processes, the first of which is the client
    None,
    MaxCalls    \* bound: calls

VARIABLES
    kind,       \* (never changes)
    creds,      \* does a call carry a token of the caller? (never changes)
    route,      \* of the next call
    mine,       \* what the client has
    call,       \* the call, or None
    known,      \* the ids under which each process has the connection
    last,       \* route of the last successful Request
    ended,      \* segments of the connection that the last call has closed (history)
    ids,        \* ids that were generated
    calls

pathVars == <<kind, creds, route, mine, call, known, last, ended, ids, calls>>

Process == UNION {Range(r) : r \in Routes}
NoPath == [id |-> None, index |-> 0, segments |-> <<>>, pathIds |-> <<>>]

PathsInit ==
    /\ kind \in PathKinds /\ creds \in BOOLEAN /\ route \in Routes
    /\ mine = NoPath /\ call = None /\ last = <<>> /\ ids = 0 /\ calls = 0
    /\ known = [p \in Process |-> {}] /\ ended = <<>>

-----------------------------------------------------------------------------
(* updatepath, updatetoken and trimpath of connections.                    *)

Segment(name, id) == [name |-> name, id |-> id, token |-> None]
Current(conn) == conn.segments[conn.index + 1]

\* A bug: a segment that is added has the id of the one before.
updatePath_SameId(conn, name, new) ==
    LET n == Len(conn.segments)  next == conn.index + 2  id == IF conn.id = None THEN new ELSE conn.id IN
    IF n = 0 THEN [conn EXCEPT !.id = id, !.index = 0, !.segments = <<Segment(name, id)>>]
    ELSE IF Current(conn).name = name THEN [conn EXCEPT !.id = Current(conn).id]
    ELSE IF next > n THEN [conn EXCEPT !.index = @ + 1, !.segments = Append(@, Segment(name, conn.id))]
    ELSE [conn EXCEPT !.id = conn.segments[next].id, !.index = @ + 1, !.segments[next].name = name]

\* A bug: the process that is there already gets a new id, too.
updatePath_NewId(conn, name, new) ==
    LET n == Len(conn.segments)  next == conn.index + 2  id == IF conn.id = None THEN new ELSE conn.id IN
    IF n = 0 THEN [conn EXCEPT !.id = id, !.index = 0, !.segments = <<Segment(name, id)>>]
    ELSE IF Current(conn).name = name THEN [conn EXCEPT !.id = Current(conn).id]
    ELSE IF next > n THEN [conn EXCEPT !.id = new, !.index = @ + 1, !.segments = Append(@, Segment(name, new))]
    ELSE [conn EXCEPT !.id = new, !.index = @ + 1, !.segments[next] = Segment(name, new)]

\* The connection as the process sees it, or None for an error; new is a fresh id.
updatePath(conn, name, new) ==
    LET n == Len(conn.segments)  next == conn.index + 2 IN
    IF n = 0
    THEN LET id == IF conn.id = None THEN new ELSE conn.id
         IN  [conn EXCEPT !.id = id, !.index = 0, !.segments = <<Segment(name, id)>>]
    ELSE IF conn.index < n /\ Current(conn).name = name
    THEN [conn EXCEPT !.id = Current(conn).id]
    ELSE IF conn.index >= n \/ Current(conn).id # conn.id
    THEN None
    ELSE IF next > n
    THEN [conn EXCEPT !.id = new, !.index = @ + 1, !.segments = Append(@, Segment(name, new))]
    ELSE LET moved == IF conn.segments[next].name = name THEN conn
                      ELSE [conn EXCEPT !.segments[next].name = name, !.segments[next].id = new]
         IN  [moved EXCEPT !.id = moved.segments[next].id, !.index = @ + 1]

\* The index to set back when the call returns.
Index(conn, updated) == IF updated.index = conn.index THEN updated.index ELSE updated.index - 1

updateToken(conn) == [conn EXCEPT !.segments[conn.index + 1].token = calls]

\* A token of process p, and what the credentials of its connections put into a call.
generateToken(p) == [of |-> p, token |-> calls]
GetRequestMetadata(p) == IF creds THEN generateToken(p) ELSE None

\* The token of the caller, if the call has brought one.
FromContext(c) == GetRequestMetadata(route[c.at - 1])

\* The token of the caller goes to its own segment.
updateTokenServer(c, conn) ==
    updateToken(IF conn.index > 0 /\ FromContext(c) # None
                THEN [conn EXCEPT !.segments[conn.index].token = FromContext(c).token] ELSE conn)

\* The connection of an answer, as the process with this segment knows it.
Set(conn, index) == [conn EXCEPT !.id = conn.segments[index + 1].id, !.index = index]

\* A process that passes the Request on keeps the path; nothing does so in the last one.
trimpathClient(c) == c.at < Len(route)
shouldTrimPath(c) == ~ trimpathClient(c)

trimpathServer(c, conn) == IF shouldTrimPath(c) THEN [conn EXCEPT !.segments = SubSeq(@, 1, conn.index + 1)] ELSE conn

\* On the way down.  The client of the same process leaves the connection as it is.
updatePathClient_Request(conn, name) == updatePath(conn, name, ids + 1)
updatePathServer_Request(c) ==
    LET conn == updatePath(c.msg, route[c.at], ids + 1)
    IN  IF conn = None THEN None
        ELSE [c EXCEPT !.msg = updateTokenServer(c, conn),
                       !.saved = Append(@, [server |-> Index(c.msg, conn), client |-> conn.index])]

\* And on the way back.
updatePathClient_Returns(c) == Set(c.msg, Last(c.saved).client)
updatePathServer_Returns(c) == Set(trimpathServer(c, updatePathClient_Returns(c)), Last(c.saved).server)

-----------------------------------------------------------------------------
(* The registry.                                                           *)

GetCurrentPathSegment(path) == IF path.index < Len(path.segments) THEN path.segments[path.index + 1] ELSE None

\* Tokens of the caller and of this process.
updatePathRegistry(path, peerTok, tok) ==
    IF path.segments = <<>> THEN [path EXCEPT !.segments = <<peerTok, tok>>, !.index = 1]
    ELSE IF GetCurrentPathSegment(path) = None THEN None
    ELSE LET prev == [path EXCEPT !.segments[path.index + 1] = peerTok, !.index = @ + 1]
         IN  IF GetCurrentPathSegment(prev) = None THEN [prev EXCEPT !.segments = Append(@, tok)]
             ELSE [prev EXCEPT !.segments[path.index + 2] = tok]

updatePathIds(pathIds, index, id) ==
    IF index >= Len(pathIds) THEN Append(pathIds, id) ELSE [pathIds EXCEPT ![index + 1] = id]

getIDFromToken(tok) == IF tok = None THEN None ELSE tok.of

\* Both the path, which came with the metadata of the call, and the registration.
Registered(c) ==
    LET peerTok == FromContext(c)  tok == generateToken(route[c.at])
        path == updatePathRegistry(c.msg, [token |-> peerTok], [token |-> tok])
    IN  IF path = None THEN None
        ELSE LET first == updatePathIds(c.msg.pathIds, path.index - 1, getIDFromToken(peerTok))
             IN  [c EXCEPT !.msg = [path EXCEPT !.pathIds = updatePathIds(first, path.index, getIDFromToken(tok))],
                           !.saved = Append(@, [server |-> path.index - 1, client |-> path.index])]

updatePathNSServer_Register(c) == Registered(c)

\* The endpoint gets the time at which the token of this process expires as well.
withExpirationTime(c) == [c EXCEPT !.expires = generateToken(route[c.at]).token]
updatePathNSEServer_Register(c) == IF Registered(c) = None THEN None ELSE withExpirationTime(Registered(c))

\* The path with the index of the caller, for the header of the answer.
sendPath(c) == [c.msg EXCEPT !.index = Last(c.saved).server]
grpcMetadataNSServer(c) == sendPath(c)
grpcMetadataNSEServer(c) == sendPath(c)

\* What the caller has then: the path from the header, in the path of its context.
grpcMetadataNSClient(path, header) == [path EXCEPT !.index = header.index, !.segments = header.segments]
grpcMetadataNSEClient(path, header) == [path EXCEPT !.index = header.index, !.segments = header.segments]

-----------------------------------------------------------------------------
(* Calls.                                                                  *)

Reroute(r) ==
    /\ call = None /\ r # route /\ route' = r
    /\ UNCHANGED <<kind, creds, mine, call, known, last, ended, ids, calls>>

\* PathFromContext: a registration comes with a path only if the context has kept it.
PathFromContext(keep) == IF keep THEN mine ELSE [mine EXCEPT !.index = 0, !.segments = <<>>]

Start(o) ==
    /\ call = None /\ calls < MaxCalls /\ calls' = calls + 1
    /\ o = "Close" => mine # NoPath /\ route = last
    /\ \E keep \in BOOLEAN :
          /\ kind = "conn" => keep
          /\ call' = [op |-> o, at |-> 2, down |-> TRUE, saved |-> <<>>, expires |-> 0,
                      msg |-> IF kind = "conn" THEN updatePathClient_Request(mine, route[1]) ELSE PathFromContext(keep)]
    /\ ids' = ids + 1 /\ ended' = <<>>
    /\ UNCHANGED <<kind, creds, route, mine, known, last>>

Arrived ==
    CASE kind = "conn" -> updatePathServer_Request(call)
      [] kind = "ns" -> updatePathNSServer_Register(call)
      [] kind = "nse" -> updatePathNSEServer_Register(call)

\* The next process gets the call.  Close ends what it knows under the id of the call.
Arrives ==
    /\ call # None /\ call.down /\ call.at <= Len(route) /\ Arrived # None
    /\ call' = IF call.at = Len(route) THEN [Arrived EXCEPT !.down = FALSE] ELSE [Arrived EXCEPT !.at = @ + 1]
    /\ known' = IF kind = "conn" /\ call.op = "Close"
                THEN [known EXCEPT ![route[call.at]] = @ \ {Arrived.msg.id}] ELSE known
    /\ ids' = ids + 1
    /\ UNCHANGED <<kind, creds, route, mine, last, ended, calls>>

Answered ==
    CASE kind = "conn" -> IF call.op = "Close" THEN call.msg ELSE updatePathServer_Returns(call)
      [] kind = "ns" -> grpcMetadataNSClient(call.msg, grpcMetadataNSServer(call))
      [] kind = "nse" -> grpcMetadataNSEClient(call.msg, grpcMetadataNSEServer(call))

\* An answer passes the process, which remembers the connection under its id.
Answers ==
    /\ call # None /\ ~ call.down /\ call.at > 1
    /\ call' = [call EXCEPT !.at = @ - 1, !.saved = Front(@), !.msg = Answered]
    /\ known' = IF kind = "conn" /\ call.op = "Request"
                THEN [known EXCEPT ![route[call.at]] = @ \union {updatePathClient_Returns(call).id}] ELSE known
    /\ UNCHANGED <<kind, creds, route, mine, last, ended, ids, calls>>

\* The client has its answer.
Finish ==
    /\ call # None /\ ~ call.down /\ call.at = 1
    /\ mine' = IF call.op = "Close" THEN NoPath ELSE call.msg
    /\ ended' = IF call.op = "Close" THEN mine.segments ELSE <<>>
    /\ last' = route
    /\ call' = None
    /\ UNCHANGED <<kind, creds, route, known, ids, calls>>

\* A process fails, the path is not as it should be, or an answer is lost: on the way
\* down, or on the way back, after the processes behind have the connection.  The client
\* keeps what it had, without a connection that it tried to close, and the processes keep
\* theirs: until it expires, but nobody reads here what they have.
Fail ==
    /\ call # None /\ call' = None
    /\ mine' = IF call.op = "Close" THEN NoPath ELSE mine
    /\ UNCHANGED <<kind, creds, route, known, last, ended, ids, calls>>

PathsNext ==
    \/ \E r \in Routes : Reroute(r)
    \/ \E o \in {"Request", "Close"} : Start(o)
    \/ Arrives \/ Answers \/ Finish \/ Fail

-----------------------------------------------------------------------------
\* Whatever routes the earlier calls took and wherever they failed, down or on the way
\* back: the path of the last Request that did not fail has one segment for each process
\* of its route, no more, with different ids, each process knows the connection under the
\* id of its segment, every token is of that Request, and the client has its own id and
\* index back.  After a Close that did not fail no process knows the connection under the
\* id that its path had.  The registry has the ids of all processes in order.
PathIsRoute ==
    call = None =>
        IF mine = NoPath THEN kind = "conn" => \A k \in DOMAIN ended : ended[k].id \notin known[last[k]]
        ELSE /\ mine.index = 0
             /\ kind = "conn" =>
                   /\ Len(mine.segments) = Len(last)
                   /\ mine.id = mine.segments[1].id
                   /\ \A k \in DOMAIN last :
                         /\ mine.segments[k].name = last[k]
                         /\ \A l \in 1 .. k - 1 : mine.segments[k].id # mine.segments[l].id
                         /\ k > 1 => mine.segments[k].id \in known[last[k]]
                         /\ k > 1 \/ creds => mine.segments[k].token = Last(mine.segments).token
             /\ kind # "conn" /\ creds => IsPrefix(last, mine.pathIds)

\* As long as the client has its connection, a process that is where it was on the last
\* route gets no other id for it, whatever calls fail and whatever the processes before it
\* do: begin, monitor and the others know the connection by that id.
IdsAreKeptStep ==
    \A k \in DOMAIN last :
        LET p == last[k] IN
        kind = "conn" /\ mine # NoPath /\ k \in DOMAIN route /\ route[k] = p
            => known'[p] \subseteq known[p] \union {mine.segments[k].id}
=============================================================================
