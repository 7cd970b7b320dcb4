----------------------------- MODULE BeginServer -----------------------------
(***************************************************************************)
(* begin.NewServer: beginServer.Request and Close (begin/server.go) and    *)
(* the Request and Close events of eventFactoryServer                      *)
(* (begin/event_factory.go).                                               *)
(***************************************************************************)
EXTENDS Begin

\* Request: the lookup that precedes AsyncExec.  "reselect" is a Request whose
\* Connection is in State_RESELECT_REQUESTED.
ReceiveRequest(c, o) ==
    /\ pc[c] = "new"
    /\ op' = [op EXCEPT ![c] = o]
    /\ LoadOrStore(c)
    /\ UNCHANGED <<state, request, queue, phase, ctx>>
    /\ UNCHANGED chainVars

\* Close: without an entry it returns at once.
ReceiveClose(c) ==
    /\ pc[c] = "new"
    /\ op' = [op EXCEPT ![c] = "close"]
    /\ target' = [target EXCEPT ![c] = entry]
    /\ pc' = [pc EXCEPT ![c] = IF entry = None THEN "done" ELSE "loaded"]
    /\ UNCHANGED factoryVars
    /\ UNCHANGED ctx
    /\ UNCHANGED chainVars

-----------------------------------------------------------------------------
(* The function that Request queues.                                       *)

IsRequest(c) == c \in Calls /\ op[c] \in {"request", "reselect"}

\* The factory is no longer the current one: Request calls itself.
RequestStale(f, c) ==
    /\ CanStart(f, c)
    /\ IsRequest(c)
    /\ entry # f
    /\ Recall(f, c)

\* An established connection for which the peer asks to reselect the endpoint
\* is closed before it is requested again.
MustReselect(f, c) ==
    /\ op[c] = "reselect"
    /\ state[f] = "established"
    /\ request[f] # None

\* Mutant: the factory is not checked to be the current one.
RequestStart_Unchecked(f, c) ==
    /\ CanStart(f, c)
    /\ IsRequest(c)
    /\ Enter(f, IF MustReselect(f, c) THEN "reselectClose" ELSE "request")

RequestStart(f, c) ==
    /\ CanStart(f, c)
    /\ IsRequest(c)
    /\ entry = f
    /\ Enter(f, IF MustReselect(f, c) THEN "reselectClose" ELSE "request")

\* The Close that precedes the reselecting Request has returned; its error is
\* only logged.
ReselectCloseReturn(f) ==
    /\ phase[f] = "reselectClose"
    /\ state' = [state EXCEPT ![f] = "closed"]
    /\ phase' = [phase EXCEPT ![f] = "request"]
    /\ UNCHANGED <<entry, created, request, queue, op, pc, target>>

RequestSuccess(f) ==
    /\ phase[f] = "request"
    /\ ChainConnects(f)
    /\ state' = [state EXCEPT ![f] = "established"]
    /\ Finish(f)
    /\ UNCHANGED <<entry, created, op, target>>

\* A failed Request leaves an established connection alone; otherwise the
\* factory is closed and leaves the map.
RequestFailure(f) ==
    /\ phase[f] = "request"
    /\ \/ /\ state[f] = "established"
          /\ UNCHANGED <<state, entry>>
       \/ /\ state[f] # "established"
          /\ state' = [state EXCEPT ![f] = "closed"]
          /\ entry' = None
    /\ Finish(f)
    /\ UNCHANGED <<created, request, op, target>>
    /\ UNCHANGED chainVars

-----------------------------------------------------------------------------
(* The function that Close queues.                                         *)

IsClose(c) == c \in Calls /\ op[c] = "close"

Closable(f) ==
    /\ state[f] = "established"
    /\ request[f] # None
    /\ entry = f

CloseSkip(f, c) ==
    /\ CanStart(f, c)
    /\ IsClose(c)
    /\ ~Closable(f)
    /\ Skip(f)

CloseStart(f, c) ==
    /\ CanStart(f, c)
    /\ IsClose(c)
    /\ Closable(f)
    /\ Enter(f, "close")

\* afterCloseFunc: the factory is closed, and the map entry of the
\* Connection.Id is deleted whatever factory it holds.
AfterClose(f) ==
    /\ state' = [state EXCEPT ![f] = "closed"]
    /\ entry' = None

CloseReturn(f) ==
    /\ phase[f] = "close"
    /\ AfterClose(f)
    /\ Finish(f)
    /\ UNCHANGED <<created, request, op, target>>

-----------------------------------------------------------------------------
(* The functions that eventFactoryServer.Request and Close queue.          *)

EventRequestRuns(f, e) == state[f] = "established" /\ ctx[e] = "live"

EventCloseRuns(f, e) == request[f] # None /\ ctx[e] = "live"

EventRequest(f, e) ==
    /\ CanStart(f, e)
    /\ e \in Events
    /\ op[e] = "request"
    /\ \/ EventRequestRuns(f, e) /\ Enter(f, "eventRequest")
       \/ ~EventRequestRuns(f, e) /\ Skip(f)

EventRequestSuccess(f) ==
    /\ phase[f] = "eventRequest"
    /\ ChainConnects(f)
    /\ Finish(f)
    /\ UNCHANGED <<entry, created, state, op, target>>

\* The chain is given the factory's own request, which its elements may have
\* modified (connect sets request.Connection) before one of them fails.
EventRequestFailure(f) ==
    /\ phase[f] = "eventRequest"
    /\ \/ UNCHANGED <<request, minted>>
       \/ /\ minted' = minted + 1
          /\ request' = [request EXCEPT ![f] = minted + 1]
    /\ Finish(f)
    /\ UNCHANGED <<entry, created, state, op, target, last, held>>

EventClose(f, e) ==
    /\ CanStart(f, e)
    /\ e \in Events
    /\ op[e] = "close"
    /\ \/ EventCloseRuns(f, e) /\ Enter(f, "eventClose")
       \/ ~EventCloseRuns(f, e) /\ Skip(f)

EventCloseReturn(f) ==
    /\ phase[f] = "eventClose"
    /\ AfterClose(f)
    /\ Finish(f)
    /\ UNCHANGED <<created, request, op, target>>

-----------------------------------------------------------------------------
\* A step of the goroutine of call c.
CallStep(c) == AsyncExec(c) \/ RecallLoad(c)

\* The return of a call of the chain, with what midchain elements do to the
\* contexts of their events.
ChainReturn(f) ==
    \/ RequestSuccess(f) /\ RenewSession
    \/ RequestFailure(f) /\ IF state[f] = "established" THEN UNCHANGED ctx ELSE EndSession(f)
    \/ EventRequestSuccess(f) /\ RenewSession
    \/ EventRequestFailure(f) /\ UNCHANGED ctx
    \/ ReselectCloseReturn(f) /\ ChainCloses /\ EndSession(f)
    \/ CloseReturn(f) /\ ChainCloses /\ EndSession(f)
    \/ EventCloseReturn(f) /\ ChainCloses /\ EndSession(f)

\* A step of the executor of f that makes no call of the chain, or starts one.
ExecutorRuns(f) ==
    \/ RecallReturn(f)
    \/ \E c \in Calls : \/ RequestStale(f, c)
                        \/ RequestStart(f, c)
                        \/ CloseSkip(f, c)
                        \/ CloseStart(f, c)
    \/ \E e \in Events : EventRequest(f, e) \/ EventClose(f, e)

ExecutorStep(f) == ChainReturn(f) \/ ExecutorRuns(f)

\* The callers and the midchain elements.
Environment ==
    \/ \E c \in Calls : \/ ReceiveRequest(c, "request")
                        \/ ReceiveRequest(c, "reselect")
                        \/ ReceiveClose(c)
    \/ \E e \in Events, f \in Factories : Fire(e, f, "request") \/ Fire(e, f, "close")
    \/ \E e \in Events : Cancel(e)

Next ==
    /\ UNCHANGED midchain
    /\ \/ Environment
       \/ \E c \in Calls : CallStep(c)
       \/ \E f \in Factories : ExecutorStep(f)
       \/ Terminated

Spec == Init /\ [][Next]_vars

\* Goroutines and executors are scheduled, and every chain call returns: it is
\* bounded by the deadline of its context.
Fairness ==
    /\ \A c \in Calls : WF_vars(CallStep(c))
    /\ \A f \in Factories : WF_vars(ExecutorStep(f))

FairSpec == Spec /\ Fairness
=============================================================================
