------------------------------ MODULE FindStream ----------------------------
(***************************************************************************)
(* A Find of the registry on its way through the adapters of               *)
(* registry/core/adapters and the channels of registry/core/streamchannel. *)
(* The stage "server" is a registry that sends its answers into a channel  *)
(* (findServerToClient), "adapter" reads them and sends them on            *)
(* (findClientToServer inside another findServerToClient), and the caller  *)
(* reads what comes out.  Without Watch each stage runs to its end before  *)
(* the next one starts; with Watch they run at the same time.              *)
(*                                                                         *)
(* The adapters of monitor connections (monitorServerToClient,             *)
(* monitorClientToServer in networkservice/core/adapters, with the streams *)
(* of core/eventchannel) work like a watching Find, but their channel      *)
(* holds one event and is never closed, and a stream is returned when its  *)
(* first event is there.                                                   *)
(***************************************************************************)
EXTENDS Integers, Sequences

CONSTANTS
    Cap,         \* channelSize
    MaxAnswers   \* bound: answers of a registry

VARIABLES
    api,     \* "ns", "nse" or "monitor" (never changes)
    watch,   \* query.Watch (never changes)
    answers, \* how many the registry has (never changes)
    done,    \* is the context of the caller done?
    ch,      \* the channel that each stage sends to
    closed,  \* is it closed?
    pc,      \* what each stage does
    sent,    \* answers sent by the registry
    msg,     \* the answer in the hands of the adapter
    got,     \* what the caller received
    result   \* what the caller knows: "none", "stream", "eof" or "error"

streamVars == <<api, watch, answers, done, ch, closed, pc, sent, msg, got, result>>
frozen == <<api, watch, answers>>

Stage == {"server", "adapter"}

channelSize == IF api = "monitor" THEN 1 ELSE Cap

\* findServerToClient closes its channel when the Find returns.
Close(s) == IF api = "monitor" THEN closed ELSE [closed EXCEPT ![s] = TRUE]

StreamInit ==
    /\ api \in {"ns", "nse", "monitor"}
    /\ watch \in BOOLEAN /\ (api = "monitor" => watch)
    /\ answers \in 0 .. MaxAnswers
    /\ done = FALSE
    /\ ch = [s \in Stage |-> <<>>]
    /\ closed = [s \in Stage |-> FALSE]
    /\ pc = [server |-> "find", adapter |-> "find"]
    /\ sent = 0 /\ msg = 0 /\ got = <<>>
    /\ result = "none"

\* Send of the find server: the context or the channel, whichever is ready.
Send(s, m, ok, failed) ==
    \/ /\ Len(ch[s]) < channelSize
       /\ ch' = [ch EXCEPT ![s] = Append(@, m)]
       /\ pc' = [pc EXCEPT ![s] = ok]
       /\ UNCHANGED closed
    \/ /\ done
       /\ pc' = [pc EXCEPT ![s] = failed]
       /\ closed' = Close(s)
       /\ UNCHANGED ch

networkServiceRegistryFindServer_Send(s, m, ok, failed) == api = "ns" /\ Send(s, m, ok, failed)
networkServiceEndpointRegistryFindServer_Send(s, m, ok, failed) ==
    api = "nse" /\ Send(s, m, ok, failed)
monitorConnectionMonitorConnectionsServer_Send(s, m, ok, failed) ==
    api = "monitor" /\ Send(s, m, ok, failed)

SendOn(s, m, ok, failed) ==
    \/ networkServiceRegistryFindServer_Send(s, m, ok, failed)
    \/ networkServiceEndpointRegistryFindServer_Send(s, m, ok, failed)
    \/ monitorConnectionMonitorConnectionsServer_Send(s, m, ok, failed)

Returns(s, how) ==
    /\ pc' = [pc EXCEPT ![s] = how]
    /\ closed' = Close(s)
    /\ UNCHANGED ch

\* The registry: it sends what it has; a watching Find returns when the context is
\* done, and any Find may fail (RegistryFails).
RegistryFind ==
    /\ pc.server = "find"
    /\ \/ sent < answers /\ SendOn("server", sent + 1, "find", "error") /\ sent' = sent + 1
       \/ sent = answers /\ (watch => done) /\ Returns("server", "ok") /\ UNCHANGED sent
    /\ UNCHANGED <<frozen, done, msg, got, result>>

RegistryFails ==
    /\ pc.server = "find"
    /\ Returns("server", "error")
    /\ UNCHANGED <<frozen, done, sent, msg, got, result>>

\* The Find of the inner client returns: at once with Watch, otherwise with the end
\* of the Find of the registry, or its error.  monitorServerToClient waits until the
\* channel is not empty, whatever happens to the server and to the context.
FindServerToClient ==
    /\ pc.adapter = "find"
    /\ \/ /\ watch \/ pc.server = "ok"
          /\ api = "monitor" => ch.server # <<>>
          /\ pc' = [pc EXCEPT !.adapter = IF api = "monitor" THEN "recv" ELSE "check"]
          /\ UNCHANGED <<ch, closed>>
       \/ ~ watch /\ pc.server = "error" /\ Returns("adapter", "error")
    /\ UNCHANGED <<frozen, done, sent, msg, got, result>>

\* Recv of the find client: the next answer, or EOF from a closed channel.
Recv(s) == ch[s] # <<>>
EOF(s) == ch[s] = <<>> /\ closed[s]

networkServiceRegistryFindClient_Recv(s) == api = "ns" /\ Recv(s)
networkServiceEndpointRegistryFindClient_Recv(s) == api = "nse" /\ Recv(s)
monitorConnectionMonitorConnectionsClient_Recv(s) == api = "monitor" /\ Recv(s)

\* findClientToServer: look at the context, receive, send on.
FindClientToServer ==
    \/ /\ pc.adapter = "check"
       /\ \/ done /\ Returns("adapter", "ok")
          \/ ~ done /\ pc' = [pc EXCEPT !.adapter = "recv"] /\ UNCHANGED <<ch, closed>>
       /\ UNCHANGED msg
    \/ /\ pc.adapter = "recv"
       /\ \/ /\ \/ networkServiceRegistryFindClient_Recv("server")
                \/ networkServiceEndpointRegistryFindClient_Recv("server")
                \/ monitorConnectionMonitorConnectionsClient_Recv("server")
             /\ msg' = Head(ch.server)
             /\ ch' = [ch EXCEPT !.server = Tail(@)]
             /\ pc' = [pc EXCEPT !.adapter = "send"]
             /\ UNCHANGED closed
          \/ EOF("server") /\ Returns("adapter", "ok") /\ UNCHANGED msg
          \/ api = "monitor" /\ done /\ Returns("adapter", "error") /\ UNCHANGED msg
    \/ /\ pc.adapter = "send"
       /\ SendOn("adapter", msg, IF api = "monitor" THEN "recv" ELSE "check", "error")
       /\ msg' = 0

nsFindClientToServer == api = "ns" /\ FindClientToServer /\ UNCHANGED <<frozen, done, sent, got, result>>
nseFindClientToServer == api = "nse" /\ FindClientToServer /\ UNCHANGED <<frozen, done, sent, got, result>>

monitorClientToServer == api = "monitor" /\ FindClientToServer /\ UNCHANGED <<frozen, done, sent, got, result>>

\* The caller gets its stream the same way.
nsFindServerToClient ==
    /\ api = "ns" /\ result = "none"
    /\ \/ (watch \/ pc.adapter = "ok") /\ result' = "stream"
       \/ ~ watch /\ pc.adapter = "error" /\ result' = "error"
    /\ UNCHANGED <<frozen, done, ch, closed, pc, sent, msg, got>>

\* A bug: the stream of a Find without Watch is closed before the Find has returned.
nseFindServerToClient_Early ==
    /\ api = "nse" /\ result = "none"
    /\ result' = "stream"
    /\ closed' = [closed EXCEPT !.adapter = TRUE]
    /\ UNCHANGED <<frozen, done, ch, pc, sent, msg, got>>

nseFindServerToClient ==
    /\ api = "nse" /\ result = "none"
    /\ \/ (watch \/ pc.adapter = "ok") /\ result' = "stream"
       \/ ~ watch /\ pc.adapter = "error" /\ result' = "error"
    /\ UNCHANGED <<frozen, done, ch, closed, pc, sent, msg, got>>

monitorServerToClient ==
    /\ api = "monitor" /\ result = "none" /\ ch.adapter # <<>>
    /\ result' = "stream"
    /\ UNCHANGED <<frozen, done, ch, closed, pc, sent, msg, got>>

CallerRecv ==
    /\ result = "stream"
    /\ \/ /\ Recv("adapter")
          /\ got' = Append(got, Head(ch.adapter))
          /\ ch' = [ch EXCEPT !.adapter = Tail(@)]
          /\ UNCHANGED result
       \/ EOF("adapter") /\ result' = "eof" /\ UNCHANGED <<got, ch>>
       \/ api = "monitor" /\ done /\ result' = "eof" /\ UNCHANGED <<got, ch>>
    /\ UNCHANGED <<frozen, done, closed, pc, sent, msg>>

\* The caller cancels its context, or loses interest.
Cancel ==
    /\ ~ done /\ done' = TRUE
    /\ UNCHANGED <<frozen, ch, closed, pc, sent, msg, got, result>>

StreamNext ==
    \/ RegistryFind \/ RegistryFails \/ FindServerToClient \/ nsFindClientToServer \/ nseFindClientToServer
    \/ nsFindServerToClient \/ nseFindServerToClient
    \/ monitorClientToServer \/ monitorServerToClient \/ CallerRecv \/ Cancel

-----------------------------------------------------------------------------
\* A Find without Watch that ends for a caller that has not cancelled it gave every
\* answer of the registry, in order.
FindIsComplete ==
    /\ got = [i \in 1 .. Len(got) |-> i]
    /\ result = "eof" /\ ~ watch /\ ~ done => Len(got) = answers

\* A cancelled Find leaves no goroutine behind, even if nobody reads; one without
\* Watch returns by itself when its answers fit in the channels.  (An adapter of
\* monitor connections that waits for the first event does so for ever.)
FindEnds ==
    /\ done ~> pc.server # "find" /\ (pc.adapter \in {"ok", "error"} \/ (api = "monitor" /\ ch.server = <<>>))
    /\ (~ watch /\ answers <= Cap) ~> pc.adapter \in {"ok", "error"}
=============================================================================
