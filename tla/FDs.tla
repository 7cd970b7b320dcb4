-------------------------------- MODULE FDs ---------------------------------
(***************************************************************************)
(* File descriptors that travel with calls: sendfd (client) replaces the   *)
(* URL of a file by one of its inode and sends the file over the socket;   *)
(* recvfd receives it, gives the rest of the chain the URL of its own      *)
(* descriptor and remembers it per connection or endpoint.  Four elements  *)
(* do the latter: the server and the client for connections, the server    *)
(* and the Find client for endpoints.  begin runs one call at a time for   *)
(* each connection, and refuses an endpoint without a name                 *)
(* (registry/common/begin/nse_server.go:36), so the code of recvfd for one *)
(* is never run.  Numbers of descriptors are used again once closed.       *)
(***************************************************************************)
EXTENDS Integers, Sequences, FiniteSets, SequencesExt, FiniteSetsExt

CONSTANTS
    Conn,       \* connections, or endpoints
    Kinds,      \* of recvfd, to choose from: "server", "client", "nseServer", "findClient"
    File,       \* files of the caller, each with its inode
    MaxFd,      \* bound: descriptors
    MaxCalls,   \* bound: calls
    None

Fd == 1 .. MaxFd

VARIABLES
    kind,       \* (never changes)
    fds,        \* open descriptors of the process: [conn, file], or None
    fileMaps,   \* recvfd: [files, names] of each connection, or None
    call,       \* the call of each connection
    held,       \* the file that an established connection has received, or None
    broken,     \* established connections of which a later Request has failed (history)
    orphans,    \* descriptors that a goroutine of Close will close
    strays,     \* descriptors that no element will close
    calls

fdVars == <<kind, fds, fileMaps, call, held, broken, orphans, strays, calls>>

NoCall == [op |-> "none", at |-> "none", todo |-> <<>>, prefs |-> {}, file |-> None, done |-> FALSE]
NewMap == [files |-> [f \in File |-> 0], names |-> [n \in Fd |-> None]]

FDsInit ==
    /\ kind \in Kinds
    /\ fds = [n \in Fd |-> None]
    /\ fileMaps = [c \in Conn |-> None]
    /\ broken = {} /\ orphans = {} /\ strays = {} /\ calls = 0
    /\ call = [c \in Conn |-> NoCall]
    /\ held = [c \in Conn |-> None]

FilesOf(c) == IF fileMaps[c] = None THEN {} ELSE Range(fileMaps[c].files) \ {0}
Ends(c) == call' = [call EXCEPT ![c] = NoCall]

-----------------------------------------------------------------------------
(* sendfd, in the process of the caller or in the next one.                *)

OfConnections == kind \in {"server", "client"}

\* sendFDAndSwapFileToInode, for every URL: a file that does not exist ends the call.
\* The inodes are given back the URLs of their files when the call returns.
sendFDAndSwapFileToInode(c, state) ==
    \/ call' = [call EXCEPT ![c] = state]
    \/ UNCHANGED call

SendRequest(c, urls) ==
    /\ calls < MaxCalls /\ calls' = calls + 1
    /\ call[c] = NoCall
    /\ sendFDAndSwapFileToInode(c, [NoCall EXCEPT !.op = "Request", !.at = IF kind = "client" THEN "next" ELSE "recv", !.todo = SetToSeq(urls), !.prefs = urls])
    /\ fileMaps' = IF fileMaps[c] = None /\ kind # "client" /\ call'[c] # NoCall THEN [fileMaps EXCEPT ![c] = NewMap] ELSE fileMaps
    /\ UNCHANGED <<kind, fds, held, broken, orphans, strays>>

SendClose(c) ==
    /\ calls < MaxCalls /\ calls' = calls + 1
    /\ call[c] = NoCall
    /\ sendFDAndSwapFileToInode(c, [NoCall EXCEPT !.op = "Close", !.at = IF kind = "client" THEN "next" ELSE "recv",
                                    !.todo = IF held[c] = None THEN <<>> ELSE <<held[c]>>, !.file = held[c]])
    /\ fileMaps' = IF fileMaps[c] = None /\ call'[c] # NoCall THEN [fileMaps EXCEPT ![c] = NewMap] ELSE fileMaps
    /\ UNCHANGED <<kind, fds, held, broken, orphans, strays>>

\* The mechanism preferences and the mechanism of the connection.
sendFDClient_Request(c, prefs) ==
    /\ OfConnections
    /\ SendRequest(c, prefs \cup (IF held[c] = None THEN {} ELSE {held[c]}))

sendFDClient_Close(c) == OfConnections /\ SendClose(c)

\* The URL of the endpoint.
sendFDNSEClient_Register(c, url) == kind = "nseServer" /\ SendRequest(c, {url})

sendFDNSEClient_Unregister(c) == kind = "nseServer" /\ SendClose(c)

\* An answer of Find.
sendfdNSEFindServer_Send(c, url) == kind = "findClient" /\ SendRequest(c, {url})

-----------------------------------------------------------------------------
(* recvfd.                                                                 *)

\* A bug: the files stay open.
closeFiles_Keeps(c) == fds

\* closeFiles: every file of the connection.
closeFiles(c) == [n \in Fd |-> IF n \in FilesOf(c) THEN None ELSE fds[n]]

\* The client has no connection any more.
Unheld(c) == held' = [held EXCEPT ![c] = None] /\ broken' = broken \ {c}

\* The call fails, or the connection is closed.  A connection that was established
\* before a Request failed is still there, without its files.
Forget(c) ==
    /\ fds' = closeFiles(c)
    /\ fileMaps' = [fileMaps EXCEPT ![c] = None]
    /\ IF call[c].op = "Request" /\ held[c] # None
       THEN broken' = broken \cup {c} /\ UNCHANGED held
       ELSE Unheld(c)
    /\ Ends(c)

\* A Close of the client is over: what the map still holds is left to its goroutine.
ClientClosed(c) ==
    /\ orphans' = orphans \cup (IF call[c].done THEN {} ELSE FilesOf(c))
    /\ fileMaps' = [fileMaps EXCEPT ![c] = None]
    /\ Unheld(c)
    /\ Ends(c)

Receiving(c) == call[c].at = "recv" /\ call[c].todo # <<>>

\* The file is known from an earlier call: the same descriptor, hence the same name.
RecvKnown(c) ==
    /\ Receiving(c)
    /\ fileMaps[c].files[Head(call[c].todo)] # 0
    /\ call' = [call EXCEPT ![c].todo = Tail(@)]
    /\ UNCHANGED <<kind, fds, fileMaps, held, broken, orphans, strays, calls>>

\* It arrives, or, for connections, is nil, which is no error as long as the context is not done.
RecvFile(c) ==
    /\ Receiving(c)
    /\ fileMaps[c].files[Head(call[c].todo)] = 0
    /\ call' = [call EXCEPT ![c].todo = Tail(@)]
    /\ LET f == Head(call[c].todo) IN
          \/ \E n \in Fd :
                /\ fds[n] = None /\ \A m \in 1 .. n - 1 : fds[m] # None
                /\ fds' = [fds EXCEPT ![n] = [conn |-> c, file |-> f]]
                /\ fileMaps' = [fileMaps EXCEPT ![c].files[f] = n, ![c].names[n] = f]
                /\ IF call[c].done THEN strays' = strays \cup {n} ELSE UNCHANGED strays
          \/ OfConnections /\ UNCHANGED <<fds, fileMaps, strays>>
    /\ UNCHANGED <<kind, held, broken, orphans, calls>>

\* The context is done, or nothing can be received.
RecvFails(c) ==
    /\ Receiving(c) /\ fileMaps[c].files[Head(call[c].todo)] = 0
    /\ IF call[c].op = "Close" /\ kind = "client"
       THEN ClientClosed(c) /\ UNCHANGED <<fds, strays>>
       ELSE Forget(c) /\ UNCHANGED <<orphans, strays>>
    /\ UNCHANGED <<kind, calls>>

recvFDAndSwapInodeToFile(c) == OfConnections /\ (RecvKnown(c) \/ RecvFile(c) \/ RecvFails(c))
recvFDAndSwapInodeToUnix(c) == ~ OfConnections /\ (RecvKnown(c) \/ RecvFile(c) \/ RecvFails(c))

Received(c) == call[c].at = "recv" /\ call[c].todo = <<>>

\* Server: the next element chooses a mechanism, or fails, and then the files of an
\* established connection are closed as well.
ServerNext(c) ==
    /\ kind \in {"server", "nseServer"} /\ Received(c)
    /\ \/ \E f \in (IF call[c].op = "Request" THEN call[c].prefs ELSE {call[c].file}) :
             /\ call' = [call EXCEPT ![c].file = f, ![c].at = "swap"]
             /\ UNCHANGED <<fds, fileMaps, held, broken>>
       \/ Forget(c)
    /\ UNCHANGED <<kind, orphans, strays, calls>>

\* swapFileToInode: if the URL is one of a descriptor, the other files are closed.
unselected(c, f) ==
    IF f # None /\ fileMaps[c].files[f] # 0 /\ fileMaps[c].names[fileMaps[c].files[f]] = f
    THEN FilesOf(c) \ {fileMaps[c].files[f]} ELSE {}

\* An endpoint that gets another name in the answer keeps its map under the name of
\* the request.
ServerReturns(c) ==
    /\ call[c].at = "swap" /\ call[c].op = "Request"
    /\ LET f == call[c].file  closed == unselected(c, f) IN
          /\ fds' = [n \in Fd |-> IF n \in closed THEN None ELSE fds[n]]
          /\ fileMaps' = [fileMaps EXCEPT ![c].files = [g \in File |-> IF @[g] \in closed THEN 0 ELSE @[g]]]
          /\ held' = [held EXCEPT ![c] = IF fileMaps[c].files[f] = 0 THEN None ELSE f]
          /\ broken' = broken \ {c}
    /\ Ends(c)
    /\ UNCHANGED <<kind, orphans, strays, calls>>

ServerCloses(c) ==
    /\ call[c].at = "swap" /\ call[c].op = "Close"
    /\ Forget(c)
    /\ UNCHANGED <<kind, orphans, strays, calls>>

recvFDServer_Request(c) == kind = "server" /\ call[c].op = "Request" /\ (ServerNext(c) \/ ServerReturns(c))
recvFDServer_Close(c) == kind = "server" /\ call[c].op = "Close" /\ (ServerNext(c) \/ ServerCloses(c))
recvfdNseServer_Register(c) == kind = "nseServer" /\ call[c].op = "Request" /\ (ServerNext(c) \/ ServerReturns(c))
recvfdNseServer_Unregister(c) == kind = "nseServer" /\ call[c].op = "Close" /\ (ServerNext(c) \/ ServerCloses(c))

AtNext(c, op) == kind = "client" /\ call[c].at = "next" /\ call[c].op = op

\* The next server answers with a mechanism, whose file its sendfd sends, or fails.
sendFDServer_Request(c) ==
    /\ AtNext(c, "Request")
    /\ \/ /\ \E f \in call[c].prefs : call' = [call EXCEPT ![c].file = f, ![c].at = "recv", ![c].todo = <<f>>]
          /\ fileMaps' = IF fileMaps[c] = None THEN [fileMaps EXCEPT ![c] = NewMap] ELSE fileMaps
       \/ Ends(c) /\ UNCHANGED fileMaps
    /\ UNCHANGED <<kind, fds, held, broken, orphans, strays, calls>>

sendFDServer_Close(c) ==
    /\ AtNext(c, "Close")
    /\ \/ call' = [call EXCEPT ![c].at = "recv"] /\ UNCHANGED <<fileMaps, held, broken, orphans>>
       \/ ClientClosed(c)
    /\ UNCHANGED <<kind, fds, strays, calls>>

recvFDClient_Request(c) ==
    /\ kind = "client" /\ call[c].op = "Request" /\ Received(c)
    /\ held' = [held EXCEPT ![c] = IF fileMaps[c].files[call[c].file] # 0 THEN call[c].file ELSE None]
    /\ broken' = broken \ {c}
    /\ Ends(c)
    /\ UNCHANGED <<kind, fds, fileMaps, orphans, strays, calls>>

recvFDClient_Close(c) ==
    /\ kind = "client" /\ call[c].op = "Close" /\ Received(c)
    /\ ClientClosed(c)
    /\ UNCHANGED <<kind, fds, strays, calls>>

\* Nobody closes the files of an endpoint that was found, unless one does not arrive.
recvfdNSEFindClient_Recv(c) ==
    /\ kind = "findClient" /\ Received(c)
    /\ Ends(c)
    /\ UNCHANGED <<kind, fds, fileMaps, held, broken, orphans, strays, calls>>

\* The context of a Close of the client is done, during the call or later: the files
\* that its map holds at that moment are closed.
CtxDone(c) ==
    /\ kind = "client" /\ call[c].op = "Close" /\ ~ call[c].done
    /\ call' = [call EXCEPT ![c].done = TRUE]
    /\ fds' = [n \in Fd |-> IF n \in FilesOf(c) THEN None ELSE fds[n]]
    /\ fileMaps' = [fileMaps EXCEPT ![c].files = [f \in File |-> 0]]
    /\ UNCHANGED <<kind, held, broken, orphans, strays, calls>>

CtxDoneLater ==
    /\ orphans # {}
    /\ fds' = [n \in Fd |-> IF n \in orphans THEN None ELSE fds[n]]
    /\ orphans' = {}
    /\ UNCHANGED <<kind, fileMaps, call, held, broken, strays, calls>>

FDsNext ==
    \/ CtxDoneLater
    \/ \E c \in Conn :
          \/ \E prefs \in SUBSET File \ {{}} : sendFDClient_Request(c, prefs)
          \/ \E url \in File : sendFDNSEClient_Register(c, url) \/ sendfdNSEFindServer_Send(c, url)
          \/ sendFDClient_Close(c) \/ sendFDNSEClient_Unregister(c)
          \/ recvFDAndSwapInodeToFile(c) \/ recvFDAndSwapInodeToUnix(c)
          \/ recvFDServer_Request(c) \/ recvFDServer_Close(c)
          \/ recvfdNseServer_Register(c) \/ recvfdNseServer_Unregister(c)
          \/ sendFDServer_Request(c) \/ sendFDServer_Close(c)
          \/ recvFDClient_Request(c) \/ recvFDClient_Close(c) \/ recvfdNSEFindClient_Recv(c)
          \/ CtxDone(c)

-----------------------------------------------------------------------------
\* No descriptor is left open that no element will close, but for those that arrive for a
\* Close whose context is done; and no descriptor is in the maps of two connections.
OpenFilesAreOwned ==
    /\ \A n \in Fd : fds[n] # None => n \in FilesOf(fds[n].conn) \/ n \in orphans \/ n \in strays
    /\ \A c, d \in Conn : c # d => FilesOf(c) \cap FilesOf(d) = {}

\* The descriptor of an established connection is open and still that of its file,
\* whatever the calls of other connections close, unless a later Request of its own has
\* failed: that closes the file of the connection, which stays (recvfd/server.go:72).
HeldFileIsOpen ==
    \A c \in Conn : held[c] # None /\ call[c] = NoCall /\ c \notin broken =>
        LET n == fileMaps[c].files[held[c]] IN n # 0 /\ fds[n] = [conn |-> c, file |-> held[c]]
=============================================================================
