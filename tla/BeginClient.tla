----------------------------- MODULE BeginClient -----------------------------
(***************************************************************************)
(* begin.NewClient: beginClient.Request and Close (begin/client.go) and    *)
(* the Request and Close events of eventFactoryClient                      *)
(* (begin/event_factory.go), among them the Request WithReselect that heal *)
(* fires.                                                                  *)
(***************************************************************************)
EXTENDS Begin

\* Request: the lookup that precedes AsyncExec.
ReceiveRequest(c) ==
    /\ pc[c] = "new"
    /\ op' = [op EXCEPT ![c] = "request"]
    /\ LoadOrStore(c)
    /\ UNCHANGED <<state, request, queue, phase, ctx>>
    /\ UNCHANGED chainVars

\* Close: without an entry it returns at once.
ReceiveClose(c) ==
    /\ pc[c] = "new"
    /\ op' = [op EXCEPT ![c] = "close"]
    /\ target' = [target EXCEPT ![c] = entry]
    /\ pc' = [pc EXCEPT ![c] = IF entry = None THEN "done" ELSE "loaded"]
    /\ UNCHANGED factoryVars
    /\ UNCHANGED ctx
    /\ UNCHANGED chainVars

-----------------------------------------------------------------------------
(* The function that Request queues.                                       *)

IsRequest(c) == c \in Calls /\ op[c] = "request"

\* The factory is no longer the current one: Request calls itself.
RequestStale(f, c) ==
    /\ CanStart(f, c)
    /\ IsRequest(c)
    /\ entry # f
    /\ Recall(f, c)

RequestStart(f, c) ==
    /\ CanStart(f, c)
    /\ IsRequest(c)
    /\ entry = f
    /\ Enter(f, "request")

RequestSuccess(f) ==
    /\ phase[f] = "request"
    /\ ChainConnects(f)
    /\ state' = [state EXCEPT ![f] = "established"]
    /\ Finish(f)
    /\ UNCHANGED <<entry, created, op, target, ctx>>

\* A failed Request leaves an established connection alone; otherwise the
\* factory is closed and leaves the map.
RequestFailure(f) ==
    /\ phase[f] = "request"
    /\ \/ /\ state[f] = "established"
          /\ UNCHANGED <<state, entry, ctx>>
       \/ /\ state[f] # "established"
          /\ state' = [state EXCEPT ![f] = "closed"]
          /\ entry' = None
          /\ EndSession(f)
    /\ Finish(f)
    /\ UNCHANGED <<created, request, op, target>>
    /\ UNCHANGED chainVars

-----------------------------------------------------------------------------
(* The function that Close queues.                                         *)

IsClose(c) == c \in Calls /\ op[c] = "close"

Closable(f) ==
    /\ state[f] = "established"
    /\ request[f] # None
    /\ entry = f

CloseSkip(f, c) ==
    /\ CanStart(f, c)
    /\ IsClose(c)
    /\ ~Closable(f)
    /\ Skip(f)

CloseStart(f, c) ==
    /\ CanStart(f, c)
    /\ IsClose(c)
    /\ Closable(f)
    /\ Enter(f, "close")

\* afterCloseFunc: the factory is closed, and the map entry of the
\* Connection.Id is deleted whatever factory it holds.
AfterClose(f) ==
    /\ state' = [state EXCEPT ![f] = "closed"]
    /\ entry' = None

CloseReturn(f) ==
    /\ phase[f] = "close"
    /\ ChainCloses
    /\ EndSession(f)
    /\ AfterClose(f)
    /\ Finish(f)
    /\ UNCHANGED <<created, request, op, target>>

-----------------------------------------------------------------------------
(* The functions that eventFactoryClient.Request and Close queue.          *)

EventRequestRuns(f, e) == state[f] = "established" /\ ctx[e] = "live"

\* Mutant: the CancelContext of a Close event is ignored.
EventCloseRuns_Always(f, e) == request[f] # None

EventCloseRuns(f, e) == request[f] # None /\ ctx[e] = "live"

\* WithReselect closes the connection before it is requested again.
EventRequest(f, e) ==
    /\ CanStart(f, e)
    /\ e \in Events
    /\ op[e] \in {"request", "reselect"}
    /\ \/ /\ EventRequestRuns(f, e)
          /\ Enter(f, IF op[e] = "reselect" THEN "reselectClose" ELSE "eventRequest")
       \/ ~EventRequestRuns(f, e) /\ Skip(f)

\* The Close of a reselecting event has returned; its error is ignored and the
\* factory stays established.
ReselectCloseReturn(f) ==
    /\ phase[f] = "reselectClose"
    /\ ChainCloses
    /\ EndSession(f)
    /\ phase' = [phase EXCEPT ![f] = "eventRequest"]
    /\ UNCHANGED <<entry, created, state, request, queue, op, pc, target>>

EventRequestSuccess(f) ==
    /\ phase[f] = "eventRequest"
    /\ ChainConnects(f)
    /\ Finish(f)
    /\ UNCHANGED <<entry, created, state, op, target, ctx>>

\* Mutant: the chain is given the factory's own request and modifies it.
EventRequestFailure_Modified(f) ==
    /\ phase[f] = "eventRequest"
    /\ minted' = minted + 1
    /\ request' = [request EXCEPT ![f] = minted + 1]
    /\ Finish(f)
    /\ UNCHANGED <<entry, created, state, op, target, ctx, last, held>>

\* The chain was given a clone, so the factory keeps its request.
EventRequestFailure(f) ==
    /\ phase[f] = "eventRequest"
    /\ Skip(f)

EventClose(f, e) ==
    /\ CanStart(f, e)
    /\ e \in Events
    /\ op[e] = "close"
    /\ \/ EventCloseRuns(f, e) /\ Enter(f, "eventClose")
       \/ ~EventCloseRuns(f, e) /\ Skip(f)

EventCloseReturn(f) ==
    /\ phase[f] = "eventClose"
    /\ ChainCloses
    /\ EndSession(f)
    /\ AfterClose(f)
    /\ Finish(f)
    /\ UNCHANGED <<created, request, op, target>>

-----------------------------------------------------------------------------
\* A step of the goroutine of call c.
CallStep(c) == AsyncExec(c) \/ RecallLoad(c)

\* A step of the executor of f, or of the chain call that it makes.
ExecutorStep(f) ==
    \/ RecallReturn(f)
    \/ ReselectCloseReturn(f)
    \/ RequestSuccess(f)
    \/ RequestFailure(f)
    \/ CloseReturn(f)
    \/ EventRequestSuccess(f)
    \/ EventRequestFailure(f)
    \/ EventCloseReturn(f)
    \/ \E c \in Calls : \/ RequestStale(f, c)
                        \/ RequestStart(f, c)
                        \/ CloseSkip(f, c)
                        \/ CloseStart(f, c)
    \/ \E e \in Events : EventRequest(f, e) \/ EventClose(f, e)

\* The callers and the midchain elements.
Environment ==
    \/ \E c \in Calls : ReceiveRequest(c) \/ ReceiveClose(c)
    \/ \E e \in Events, f \in Factories : \/ Fire(e, f, "request")
                                          \/ Fire(e, f, "reselect")
                                          \/ Fire(e, f, "close")
    \/ \E e \in Events : Cancel(e)

Next ==
    /\ UNCHANGED midchain
    /\ \/ Environment
       \/ \E c \in Calls : CallStep(c)
       \/ \E f \in Factories : ExecutorStep(f)
       \/ Terminated

Spec == Init /\ [][Next]_vars
=============================================================================
