---------------------------- MODULE BeginRegistry ----------------------------
(***************************************************************************)
(* The begin elements of the registry (pkg/registry/common/begin): for     *)
(* network service endpoints (nse_server.go, nse_client.go) and network    *)
(* services (ns_server.go, ns_client.go), with their event factories.      *)
(*                                                                         *)
(* Register and Unregister are the requests and closes of module Begin; a  *)
(* registration is numbered like a connection, by the chain's Register     *)
(* that returned it.  One name is modelled.                                *)
(***************************************************************************)
EXTENDS Begin

VARIABLES
    element,   \* the begin element that is looked at; never changes
    response   \* what Register last returned to the caller, per factory

regVars == <<vars, element, response>>

Elements == {"endpoint server", "endpoint client", "service server", "service client"}

Endpoint == element \in {"endpoint server", "endpoint client"}
Client   == element \in {"endpoint client", "service client"}

RegInit ==
    /\ Init
    /\ element \in Elements
    /\ response = [f \in Factories |-> None]

-----------------------------------------------------------------------------
(* The lookups.                                                            *)

ReceiveRegister(c) ==
    /\ pc[c] = "new"
    /\ op' = [op EXCEPT ![c] = "request"]
    /\ LoadOrStore(c)
    /\ UNCHANGED <<state, request, queue, phase, ctx, response>>
    /\ UNCHANGED chainVars

\* A network service without a factory: Unregister returns at once.
LoadForUnregister(c) ==
    /\ target' = [target EXCEPT ![c] = entry]
    /\ pc' = [pc EXCEPT ![c] = IF entry = None THEN "done" ELSE "loaded"]
    /\ UNCHANGED <<entry, created>>

\* An endpoint without a factory gets one, so that an endpoint which this
\* element does not know can be unregistered too.
ReceiveUnregister(c) ==
    /\ pc[c] = "new"
    /\ op' = [op EXCEPT ![c] = "close"]
    /\ IF Endpoint THEN LoadOrStore(c) ELSE LoadForUnregister(c)
    /\ UNCHANGED <<state, request, queue, phase, ctx, response>>
    /\ UNCHANGED chainVars

-----------------------------------------------------------------------------
(* The function that Register queues.                                      *)

RunsFor(f, c, o) == CanStart(f, c) /\ c \in Calls /\ op[c] = o

RegisterStale(f, c) ==
    /\ RunsFor(f, c, "request")
    /\ entry # f
    /\ Recall(f, c)
    /\ UNCHANGED response

RegisterStart(f, c) ==
    /\ RunsFor(f, c, "request")
    /\ entry = f
    /\ Enter(f, "request")
    /\ UNCHANGED response

RegisterSuccess(f) ==
    /\ phase[f] = "request"
    /\ ChainConnects(f)
    /\ response' = [response EXCEPT ![f] = minted + 1]
    /\ state' = [state EXCEPT ![f] = "established"]
    /\ Finish(f)
    /\ UNCHANGED <<entry, created, op, target, ctx>>

\* Mutant: a failed Register always removes the factory from the map.
RegisterFailure_Forgets(f) ==
    /\ phase[f] = "request"
    /\ state' = [state EXCEPT ![f] = "closed"]
    /\ entry' = None
    /\ EndSession(f)
    /\ Finish(f)
    /\ UNCHANGED <<created, request, op, target, response>>
    /\ UNCHANGED chainVars

\* A failed Register leaves an established registration alone.
RegisterFailure(f) ==
    /\ phase[f] = "request"
    /\ \/ /\ state[f] = "established"
          /\ UNCHANGED <<state, entry, ctx>>
       \/ /\ state[f] # "established"
          /\ state' = [state EXCEPT ![f] = "closed"]
          /\ entry' = None
          /\ EndSession(f)
    /\ Finish(f)
    /\ UNCHANGED <<created, request, op, target, response>>
    /\ UNCHANGED chainVars

-----------------------------------------------------------------------------
(* The function that Unregister queues.                                    *)

\* Endpoints: Unregister calls itself when its factory is stale.
UnregisterStale(f, c) ==
    /\ Endpoint
    /\ RunsFor(f, c, "close")
    /\ entry # f
    /\ Recall(f, c)
    /\ UNCHANGED response

\* Network services: only the current, established factory is unregistered.
Unregisterable(f) ==
    /\ state[f] = "established"
    /\ request[f] # None
    /\ entry = f

UnregisterSkip(f, c) ==
    /\ ~Endpoint
    /\ RunsFor(f, c, "close")
    /\ ~Unregisterable(f)
    /\ Skip(f)
    /\ UNCHANGED response

UnregisterStart(f, c) ==
    /\ RunsFor(f, c, "close")
    /\ IF Endpoint THEN entry = f ELSE Unregisterable(f)
    /\ Enter(f, "close")
    /\ UNCHANGED response

\* Mutant: the factory outlives its Unregister.
AfterClose_Keeps(f) == UNCHANGED <<state, entry>>

\* afterCloseFunc deletes the entry of the name, whatever factory it holds.
AfterClose(f) ==
    /\ state' = [state EXCEPT ![f] = "closed"]
    /\ entry' = None

\* The chain's Unregister has returned, with an error or without.
UnregisterReturn(f) ==
    /\ phase[f] \in {"close", "eventClose"}
    /\ ChainCloses
    /\ EndSession(f)
    /\ AfterClose(f)
    /\ Finish(f)
    /\ UNCHANGED <<created, request, op, target, response>>

-----------------------------------------------------------------------------
(* The functions that the event factories queue.                           *)

EventRegister(f, e) ==
    /\ CanStart(f, e)
    /\ e \in Events
    /\ op[e] = "request"
    /\ IF state[f] = "established" /\ ctx[e] = "live"
       THEN Enter(f, "eventRequest")
       ELSE Skip(f)
    /\ UNCHANGED response

\* The registration is replaced; the response of the last call is kept.
EventRegisterSuccess(f) ==
    /\ phase[f] = "eventRequest"
    /\ ChainConnects(f)
    /\ Finish(f)
    /\ UNCHANGED <<entry, created, state, op, target, ctx, response>>

\* A client gives the chain a clone of the registration; a server gives it the
\* registration itself, which elements may modify before one of them fails.
EventRegisterFailure(f) ==
    /\ phase[f] = "eventRequest"
    /\ \/ UNCHANGED <<request, minted>>
       \/ /\ ~Client
          /\ minted' = minted + 1
          /\ request' = [request EXCEPT ![f] = minted + 1]
    /\ Finish(f)
    /\ UNCHANGED <<entry, created, state, op, target, ctx, last, held, response>>

EventUnregister(f, e) ==
    /\ CanStart(f, e)
    /\ e \in Events
    /\ op[e] = "close"
    /\ IF request[f] # None /\ ctx[e] = "live"
       THEN Enter(f, "eventClose")
       ELSE Skip(f)
    /\ UNCHANGED response

\* What the chain is asked to unregister: a call passes the registration of the
\* factory, and so does an event of a server; an event of a client passes the
\* response that was last returned to a caller.
UnregisteredWith(f) ==
    IF Client /\ phase[f] = "eventClose" THEN response[f] ELSE request[f]

-----------------------------------------------------------------------------
\* A call of the element: the lookup, the queue, the function in the executor.
Call ==
    \/ \E c \in Calls :
          \/ ReceiveRegister(c) \/ ReceiveUnregister(c)
          \/ (AsyncExec(c) \/ RecallLoad(c)) /\ UNCHANGED response
          \/ \E f \in Factories :
                \/ RegisterStale(f, c) \/ RegisterStart(f, c)
                \/ UnregisterStale(f, c) \/ UnregisterSkip(f, c) \/ UnregisterStart(f, c)
    \/ \E f \in Factories :
          \/ RecallReturn(f) /\ UNCHANGED response
          \/ RegisterSuccess(f) \/ RegisterFailure(f)
          \/ phase[f] = "close" /\ UnregisterReturn(f)

beginNSEServer == element = "endpoint server" /\ Call
beginNSEClient == element = "endpoint client" /\ Call
beginNSServer == element = "service server" /\ Call
beginNSClient == element = "service client" /\ Call

\* An event of a factory, from the element that fires it to the executor.
Event ==
    \E f \in Factories :
        \/ EventRegisterSuccess(f) \/ EventRegisterFailure(f)
        \/ phase[f] = "eventClose" /\ UnregisterReturn(f)
        \/ \E e \in Events :
              \/ EventRegister(f, e) \/ EventUnregister(f, e)
              \/ (Fire(e, f, "request") \/ Fire(e, f, "close")) /\ UNCHANGED response

eventNSEFactoryServer == element = "endpoint server" /\ Event
eventNSEFactoryClient == element = "endpoint client" /\ Event
eventNSFactoryServer == element = "service server" /\ Event
eventNSFactoryClient == element = "service client" /\ Event

Next ==
    /\ UNCHANGED <<midchain, element>>
    /\ \/ beginNSEServer \/ beginNSEClient \/ beginNSServer \/ beginNSClient
       \/ eventNSEFactoryServer \/ eventNSEFactoryClient \/ eventNSFactoryServer \/ eventNSFactoryClient
       \/ (\E e \in Events : Cancel(e)) /\ UNCHANGED response
       \/ Terminated /\ UNCHANGED response

Spec == RegInit /\ [][Next]_regVars

\* begin/doc.go, "Close Correctness", for the clients: what a call unregisters is
\* the registration that the chain last returned successfully, if there is one.
\* (An event passes the response of the last call, which a Register event makes old.)
UnregisterCorrectness ==
    \A f \in Factories :
        /\ Client
        /\ phase[f] \in ClosePhases \ {"eventClose"}
        /\ request[f] # None
        => UnregisteredWith(f) = last

\* A caller of Unregister returns only after the registration it found is gone:
\* whatever was established when the call was received has left the map.
UnregisterTakesEffect ==
    [][\A c \in Calls, f \in Factories :
          /\ Endpoint
          /\ op[c] = "close"
          /\ pc[c] # "done" /\ pc'[c] = "done"
          /\ target[c] = f
          => entry' # f /\ state'[f] # "established"]_regVars
=============================================================================
