-------------------------------- MODULE Dial --------------------------------
(***************************************************************************)
(* The elements that reach the next server: dial and connect of a network  *)
(* service client (common/dial, common/connect, common/clientconn), and    *)
(* their twins of the endpoint and network service registries.             *)
(*                                                                         *)
(* One connection (or registration) is looked at.  begin runs one of its   *)
(* calls at a time, always with a client URL for a Request; a Find is      *)
(* independent of them, as clientconn gives it a key of its own.           *)
(*                                                                         *)
(* A Dial cancels the context of the previous gRPC connection, whose own   *)
(* goroutine closes it some time later.                                    *)
(***************************************************************************)
EXTENDS Naturals, Sequences

CONSTANTS
    URL,        \* URLs of next servers
    NoURL,      \* nil
    MaxCalls    \* bound on the calls

ASSUME DialAssumption == NoURL \notin URL /\ MaxCalls \in Nat

VARIABLES
    element,     \* which element: client, nse or ns (never changes)
    stored,      \* is the dialer in the clientconn map?
    dialer,      \* its clientURL and ClientConn (0 for nil)
    conns,       \* all gRPC connections that were dialled
    call,        \* the Request or Close in progress
    find,        \* a Find (of the registry elements)
    established, \* did a Request succeed since the last Close?
    held,        \* the servers that hold the connection
    lost,        \* the servers not reached last time, or left by a Close elsewhere
    chainDone,   \* is chainCtx done?
    calls

vars == <<element, stored, dialer, conns, call, find, established, held, lost, chainDone, calls>>

GrpcConn == [url : URL, state : {"open", "cancelled", "closed"}]

Dialer == [url : URL \cup {NoURL}, conn : Nat]

Call == [pc : {"idle", "redial", "closeOld", "dial", "next", "server", "pass", "closeDial",
               "nextClose"},
         url : URL \cup {NoURL}, loaded : BOOLEAN]

FindCall == [pc : {"none", "dial", "next", "open", "failed"}, url : URL \cup {NoURL}, conn : Nat]

NewDialer == [url |-> NoURL, conn |-> 0]

Idle == [pc |-> "idle", url |-> NoURL, loaded |-> FALSE]

NoFind == [pc |-> "none", url |-> NoURL, conn |-> 0]

IsRegistry == element \in {"nse", "ns"}

Init ==
    /\ element \in {"client", "nse", "ns"}
    /\ stored = FALSE
    /\ dialer = NewDialer
    /\ conns = <<>>
    /\ call = Idle
    /\ find = NoFind
    /\ established = FALSE
    /\ held = {}
    /\ lost = {}
    /\ chainDone = FALSE
    /\ calls = 0

-----------------------------------------------------------------------------
(* dialer.                                                                 *)

\* cleanupCancel of the dialer whose ClientConn is c.
Cancelled(c) ==
    [i \in DOMAIN conns |->
        IF i = c /\ conns[i].state = "open" THEN [conns[i] EXCEPT !.state = "cancelled"]
                                            ELSE conns[i]]

\* The context of the new connection is not derived from the one of the chain.
Dialled_Background(u) == Append(conns, [url |-> u, state |-> "open"])

\* A new gRPC connection; its context is derived from that of the chain.
Dialled(u) == Append(conns, [url |-> u, state |-> IF chainDone THEN "cancelled" ELSE "open"])

\* Dial up to grpc.DialContext, for the call c.
StartDial(di, u, c) ==
    /\ conns' = Cancelled(di.conn)
    /\ dialer' = [di EXCEPT !.url = u]
    /\ call' = c

\* grpc.DialContext returns a connection.
DialSucceeds ==
    /\ conns' = Dialled(dialer.url)
    /\ dialer' = [dialer EXCEPT !.conn = Len(conns) + 1]
    /\ UNCHANGED lost

\* clientconn.Delete, and the call returns.
Forget ==
    /\ stored' = FALSE
    /\ dialer' = NewDialer
    /\ call' = Idle

\* A goroutine closes the current ClientConn instead of its own.
CleanupGoroutine_Current(c) ==
    /\ c \in 1 .. Len(conns)
    /\ conns[c].state = "cancelled"
    /\ conns' = [i \in DOMAIN conns |->
                    IF i \in {c, dialer.conn} THEN [conns[i] EXCEPT !.state = "closed"] ELSE conns[i]]
    /\ UNCHANGED <<element, stored, dialer, call, find, established, held, lost, chainDone, calls>>

\* The goroutine of Dial sees its context done.
CleanupGoroutine(c) ==
    /\ c \in 1 .. Len(conns)
    /\ conns[c].state = "cancelled"
    /\ conns' = [conns EXCEPT ![c].state = "closed"]
    /\ UNCHANGED <<element, stored, dialer, call, find, established, held, lost, chainDone, calls>>

ChainDone ==
    /\ ~chainDone
    /\ chainDone' = TRUE
    /\ conns' = [i \in DOMAIN conns |->
                    IF conns[i].state = "open" THEN [conns[i] EXCEPT !.state = "cancelled"] ELSE conns[i]]
    /\ UNCHANGED <<element, stored, dialer, call, find, established, held, lost, calls>>

-----------------------------------------------------------------------------
(* connectClient: calls on the ClientConn that is stored.                  *)

\* A connection carries calls until it is closed.
Carries(c) == c # 0 /\ conns[c].state # "closed"

\* A Request reaches the server or not; an answer may be lost.
RpcRequest(reached, ok) ==
    /\ ok => reached
    /\ reached => Carries(dialer.conn)
    /\ LET u == IF reached THEN conns[dialer.conn].url ELSE dialer.url IN
         /\ held' = IF reached THEN held \cup {u} ELSE held
         /\ lost' = IF ok THEN lost \ {u} ELSE lost \cup {u}

RpcClose(reached, ok) ==
    /\ ok => reached
    /\ reached => Carries(dialer.conn)
    /\ LET u == IF reached THEN conns[dialer.conn].url ELSE dialer.url IN
         /\ held' = IF reached THEN held \ {u} ELSE held
         /\ lost' = IF ok THEN lost \ {u} ELSE lost \cup {u}

-----------------------------------------------------------------------------
(* Request and Register.                                                   *)

\* A dialer is loaded or stored.  One with another URL is dialled to that first.
Request(u) ==
    /\ call = Idle
    /\ calls < MaxCalls
    /\ calls' = calls + 1
    /\ stored' = TRUE
    /\ IF dialer.url \in {NoURL, u}
         THEN StartDial(dialer, u, [pc |-> "dial", url |-> u, loaded |-> stored])
         ELSE StartDial(dialer, dialer.url, [pc |-> "redial", url |-> u, loaded |-> stored])
    /\ UNCHANGED <<element, find, established, held, lost, chainDone>>

RedialSucceeds ==
    /\ call.pc = "redial"
    /\ DialSucceeds
    /\ call' = [call EXCEPT !.pc = "closeOld"]
    /\ UNCHANGED <<element, stored, find, established, held, chainDone, calls>>

RedialFails ==
    /\ call.pc = "redial"
    /\ lost' = lost \cup {dialer.url}
    /\ Forget
    /\ UNCHANGED <<element, conns, find, established, held, chainDone, calls>>

\* The server of the old URL is told to close; then the new one is dialled.
CloseOld(reached, ok) ==
    /\ call.pc = "closeOld"
    /\ RpcClose(reached, ok)
    /\ StartDial(dialer, call.url, [call EXCEPT !.pc = "dial"])
    /\ UNCHANGED <<element, stored, find, established, chainDone, calls>>

RequestDialSucceeds ==
    /\ call.pc = "dial"
    /\ DialSucceeds
    /\ call' = [call EXCEPT !.pc = "next"]
    /\ UNCHANGED <<element, stored, find, established, held, chainDone, calls>>

\* A dialer that was loaded stays, in the chain of network services.
RequestDialFails ==
    /\ call.pc = "dial"
    /\ lost' = lost \cup {call.url}
    /\ IF IsRegistry \/ ~call.loaded
         THEN Forget
         ELSE call' = Idle /\ UNCHANGED <<stored, dialer>>
    /\ UNCHANGED <<element, conns, find, established, held, chainDone, calls>>

\* The rest of the chain succeeds; connectServer calls the next server.
NextSucceeds ==
    /\ call.pc = "next"
    /\ RpcRequest(TRUE, TRUE)
    /\ established' = TRUE
    /\ call' = [call EXCEPT !.pc = "server"]
    /\ UNCHANGED <<element, stored, dialer, conns, find, chainDone, calls>>

\* A network service client closes and deletes a new dialer; a registry client
\* closes any dialer and deletes none.
AfterFailure ==
    CASE IsRegistry   -> conns' = Cancelled(dialer.conn) /\ call' = Idle /\ UNCHANGED <<stored, dialer>>
      [] ~IsRegistry /\ ~call.loaded -> conns' = Cancelled(dialer.conn) /\ Forget
      [] OTHER        -> call' = Idle /\ UNCHANGED <<stored, dialer, conns>>

NextFails(reached) ==
    /\ call.pc = "next"
    /\ RpcRequest(reached, FALSE)
    /\ AfterFailure
    /\ UNCHANGED <<element, find, established, chainDone, calls>>

ServerSucceeds ==
    /\ call.pc = "server"
    /\ call' = Idle
    /\ UNCHANGED <<element, stored, dialer, conns, find, established, held, lost, chainDone, calls>>

-----------------------------------------------------------------------------
(* Close and Unregister.                                                   *)

\* Nothing is dialled without a dialer (without a URL, for a registry).
Passes(u) ==
    \/ ~stored /\ element # "nse"
    \/ IsRegistry /\ u = NoURL

\* A network service client without a URL takes the one of the dialer.
CloseURL(u) == IF u = NoURL THEN dialer.url ELSE u

StartClose(u) ==
    IF Passes(u)
      THEN /\ call' = [pc |-> "pass", url |-> u, loaded |-> stored]
           /\ UNCHANGED <<stored, dialer, conns, lost>>
      ELSE /\ stored' = TRUE
           /\ lost' = IF dialer.url \in {NoURL, CloseURL(u)} THEN lost ELSE lost \cup {dialer.url}
           /\ StartDial(dialer, CloseURL(u), [pc |-> "closeDial", url |-> CloseURL(u), loaded |-> stored])

\* begin of network services ignores a Close of what was not established.
Close(u) ==
    /\ call = Idle
    /\ calls < MaxCalls
    /\ calls' = calls + 1
    /\ IsRegistry \/ established
    /\ StartClose(u)
    /\ UNCHANGED <<element, find, established, held, chainDone>>

\* The next server of connectServer fails: what the client has is closed.
ServerFails ==
    /\ call.pc = "server"
    /\ StartClose(call.url)
    /\ UNCHANGED <<element, find, established, held, chainDone, calls>>

\* The dialer, if there is one, stays.
PassClose(reached, ok) ==
    /\ call.pc = "pass"
    /\ IF stored THEN RpcClose(reached, ok) ELSE ~reached /\ ~ok /\ UNCHANGED <<held, lost>>
    /\ established' = FALSE
    /\ call' = Idle
    /\ UNCHANGED <<element, stored, dialer, conns, find, chainDone, calls>>

CloseDialSucceeds ==
    /\ call.pc = "closeDial"
    /\ DialSucceeds
    /\ call' = [call EXCEPT !.pc = "nextClose"]
    /\ UNCHANGED <<element, stored, find, established, held, chainDone, calls>>

\* The rest of the chain is called nevertheless, but for a new dialer of an
\* endpoint client.
CloseDialFails ==
    /\ call.pc = "closeDial"
    /\ lost' = lost \cup {call.url}
    /\ IF element = "nse" /\ ~call.loaded
         THEN Forget /\ established' = FALSE
         ELSE call' = [call EXCEPT !.pc = "nextClose"] /\ UNCHANGED <<stored, dialer, established>>
    /\ UNCHANGED <<element, conns, find, held, chainDone, calls>>

\* The rest of the chain returns, and the dialer is closed and deleted.
NextClose(reached, ok) ==
    /\ call.pc = "nextClose"
    /\ RpcClose(reached, ok)
    /\ established' = FALSE
    /\ conns' = Cancelled(dialer.conn)
    /\ Forget
    /\ UNCHANGED <<element, find, chainDone, calls>>

-----------------------------------------------------------------------------
(* Find of the registries: a dialer of its own until the stream ends.      *)

Find(u) ==
    /\ IsRegistry
    /\ find = NoFind
    /\ calls < MaxCalls
    /\ calls' = calls + 1
    /\ find' = [pc |-> "dial", url |-> u, conn |-> 0]
    /\ UNCHANGED <<element, stored, dialer, conns, call, established, held, lost, chainDone>>

FindDialSucceeds ==
    /\ find.pc = "dial"
    /\ conns' = Dialled(find.url)
    /\ find' = [find EXCEPT !.pc = "next", !.conn = Len(conns) + 1]
    /\ UNCHANGED <<element, stored, dialer, call, established, held, lost, chainDone, calls>>

FindDialFails ==
    /\ find.pc = "dial"
    /\ find' = NoFind
    /\ UNCHANGED <<element, stored, dialer, conns, call, established, held, lost, chainDone, calls>>

FindOpens ==
    /\ find.pc = "next"
    /\ Carries(find.conn)
    /\ find' = [find EXCEPT !.pc = "open"]
    /\ UNCHANGED <<element, stored, dialer, conns, call, established, held, lost, chainDone, calls>>

\* cleanupFn: Find fails, or Recv does on an open stream.
FindFails ==
    /\ find.pc \in {"next", "open"}
    /\ conns' = Cancelled(find.conn)
    /\ find' = IF find.pc = "next" THEN NoFind ELSE [find EXCEPT !.pc = "failed"]
    /\ UNCHANGED <<element, stored, dialer, call, established, held, lost, chainDone, calls>>

\* The context of the stream is done; cleanupFn may run again.
FindDone ==
    /\ find.pc \in {"open", "failed"}
    /\ conns' = Cancelled(find.conn)
    /\ find' = NoFind
    /\ UNCHANGED <<element, stored, dialer, call, established, held, lost, chainDone, calls>>

-----------------------------------------------------------------------------
RequestStep ==
    \/ \E u \in URL : Request(u)
    \/ RedialSucceeds \/ RedialFails
    \/ \E reached, ok \in BOOLEAN : CloseOld(reached, ok)
    \/ RequestDialSucceeds \/ RequestDialFails
    \/ NextSucceeds
    \/ \E reached \in BOOLEAN : NextFails(reached)
    \/ ServerSucceeds \/ ServerFails

CloseStep ==
    \/ \E u \in URL \cup {NoURL} : Close(u)
    \/ \E reached, ok \in BOOLEAN : PassClose(reached, ok) \/ NextClose(reached, ok)
    \/ CloseDialSucceeds \/ CloseDialFails

FindStep ==
    \/ \E u \in URL : Find(u)
    \/ FindDialSucceeds \/ FindDialFails \/ FindOpens \/ FindFails \/ FindDone

Cleanup == \E c \in 1 .. Len(conns) : CleanupGoroutine(c)

Next == RequestStep \/ CloseStep \/ FindStep \/ Cleanup \/ ChainDone

Spec == Init /\ [][Next]_vars

\* The goroutines that close connections are scheduled.
FairSpec == Spec /\ WF_vars(Cleanup)

-----------------------------------------------------------------------------
TypeOK ==
    /\ element \in {"client", "nse", "ns"}
    /\ stored \in BOOLEAN
    /\ conns \in Seq(GrpcConn)
    /\ dialer \in Dialer /\ dialer.conn <= Len(conns)
    /\ ~stored => dialer = NewDialer
    /\ call \in Call
    /\ find \in FindCall /\ find.conn <= Len(conns)
    /\ established \in BOOLEAN
    /\ held \subseteq URL /\ lost \subseteq URL
    /\ chainDone \in BOOLEAN
    /\ calls \in 0 .. MaxCalls

\* No gRPC connection leaks: one whose context is not done is the ClientConn of
\* the dialer that the next call will find, or of a Find in progress.
ConnsHaveOwner ==
    \A c \in 1 .. Len(conns) : conns[c].state = "open" => c \in {dialer.conn, find.conn}

\* The goroutine of an older connection never closes the one that was dialled
\* since: a Request runs on an open connection to the URL it was made for, the
\* Close of an old server on one to the old URL, and a Find on its own.
CallsRunOnTheirConn ==
    ~chainDone =>
        /\ call.pc = "next" => conns[dialer.conn] = [url |-> call.url, state |-> "open"]
        /\ call.pc = "closeOld" => conns[dialer.conn] = [url |-> dialer.url, state |-> "open"]
        /\ find.pc \in {"next", "open"} => conns[find.conn] = [url |-> find.url, state |-> "open"]

\* A server that holds the connection is the one the dialer will be dialled to,
\* one that could not be reached when it was left, or one that a Close for
\* another URL has left.
NoServerLeftBehind == held \subseteq lost \cup {dialer.url}

\* Nothing leaks, no call runs on a connection of another, and no server is forgotten.
DialIsSafe == TypeOK /\ ConnsHaveOwner /\ CallsRunOnTheirConn /\ NoServerLeftBehind

\* Once the chain is done, all gRPC connections are closed in the end, those
\* that are dialled afterwards too.
AllConnsClose == []<>chainDone => <>[](\A c \in 1 .. Len(conns) : conns[c].state = "closed")
=============================================================================
