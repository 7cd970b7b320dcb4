----------------------------- MODULE BeginProofs -----------------------------
(***************************************************************************)
(* Theorems about the begin elements for any number of calls, events and   *)
(* factories, in three parts:                                              *)
(*                                                                         *)
(*  - beginServer.  Types and WaitsForYounger hold whatever midchain       *)
(*    elements do; Exclusivity, NoLeak and EvictedByOwner hold when they   *)
(*    cancel the Close events of sessions that have ended                  *)
(*    (MidchainOrderly).                                                   *)
(*  - All begin elements, as MCBegin composes them.  The steps of          *)
(*    beginClient and of the elements of the registry are shown to be      *)
(*    steps of one kind of element (ElementStep), for which the invariants *)
(*    are proved once.                                                     *)
(*  - beginServer with timeoutServer: together they implement BeginServer, *)
(*    with timeoutServer as an orderly midchain element unless a Close     *)
(*    call ends with a context error.                                      *)
(***************************************************************************)
EXTENDS MCBegin, BeginTimeout, TLAPS

USE DEF None, factoryVars, taskVars, chainVars, vars

-----------------------------------------------------------------------------
(* Types.                                                                  *)

LEMMA TypesInit == Init => TypeOK
BY MaxFactoryAssumption
   DEF Init, TypeOK, Phases, ChainPhases, RequestPhases,
       ClosePhases, Ops, CallOps, Places, Tasks, Factories

LEMMA AppendTypes ==
    ASSUME TypeOK, NEW f \in Factories, NEW t \in Tasks,
           queue' = [queue EXCEPT ![f] = Append(@, t)]
    PROVE  /\ queue' \in [Factories -> Seq(Tasks)]
           /\ \A g \in Factories : phase[g] # "idle" => queue'[g] # <<>>
<1>1. queue \in [Factories -> Seq(Tasks)]
  BY DEF TypeOK
<1>2. Append(queue[f], t) \in Seq(Tasks) /\ Append(queue[f], t) # <<>>
  BY <1>1
<1> QED
  BY <1>1, <1>2 DEF TypeOK

\* What the end of a function does to the executor and to the task.
LEMMA FinishTypes ==
    ASSUME TypeOK, NEW f \in Factories, queue[f] # <<>>, Finish(f)
    PROVE  /\ queue' \in [Factories -> Seq(Tasks)]
           /\ phase' \in [Factories -> Phases]
           /\ pc' \in [Tasks -> Places]
           /\ \A g \in Factories : phase'[g] # "idle" => queue'[g] # <<>>
BY DEF TypeOK, Finish, Current, Phases, Places

LEMMA SkipTypes ==
    ASSUME TypeOK, NEW f \in Factories, queue[f] # <<>>, Skip(f), midchain' = midchain
    PROVE  TypeOK'
BY FinishTypes DEF TypeOK, Skip

LEMMA EnterTypes ==
    ASSUME TypeOK, NEW f \in Factories, queue[f] # <<>>, NEW p \in ChainPhases, Enter(f, p),
           midchain' = midchain
    PROVE  TypeOK'
BY DEF TypeOK, Enter, Phases

LEMMA EndSessionTypes ==
    ASSUME TypeOK, NEW f \in Factories, EndSession(f)
    PROVE  ctx' \in [Events -> {"live", "cancelled"}]
BY DEF TypeOK, EndSession

LEMMA RenewSessionTypes ==
    ASSUME TypeOK, RenewSession
    PROVE  ctx' \in [Events -> {"live", "cancelled"}]
BY DEF TypeOK, RenewSession

LEMMA LoadOrStoreTypes ==
    ASSUME TypeOK, NEW c \in Calls, LoadOrStore(c)
    PROVE  /\ entry' \in Factories \cup {None}
           /\ created' \in 0 .. MaxFactory
           /\ target' \in [Tasks -> Factories \cup {None}]
           /\ pc' \in [Tasks -> Places]
<1> USE DEF TypeOK, LoadOrStore, Places, Tasks, Factories
<1>1. entry' \in Factories \cup {None} /\ created' \in 0 .. MaxFactory
  BY MaxFactoryAssumption
<1> QED
  BY <1>1

\* Every step preserves the types.
LEMMA TypesStep == TypeOK /\ [Next]_vars => TypeOK'
<1> SUFFICES ASSUME TypeOK, [Next]_vars PROVE TypeOK'
  OBVIOUS
<1>0. midchain' = midchain
  BY DEF Next
<1> USE <1>0
<1> USE DisjointTasks DEF TypeOK
<1>1. ASSUME NEW c \in Calls, NEW o \in {"request", "reselect"}, ReceiveRequest(c, o)
      PROVE  TypeOK'
  <2>1. op' \in [Tasks -> Ops] /\ \A e \in Events : op'[e] = op[e]
    BY <1>1 DEF ReceiveRequest, Ops, CallOps, Tasks
  <2> QED
    BY <1>1, <2>1, LoadOrStoreTypes DEF ReceiveRequest
<1>2. ASSUME NEW c \in Calls, ReceiveClose(c) PROVE TypeOK'
  BY <1>2 DEF ReceiveClose, Ops, CallOps, Places, Tasks
<1>3. ASSUME NEW e \in Events, NEW f \in Factories, NEW o \in {"request", "close"},
             Fire(e, f, o)
      PROVE  TypeOK'
  <2>1. /\ pc' \in [Tasks -> Places]
        /\ op' \in [Tasks -> Ops]
        /\ target' \in [Tasks -> Factories \cup {None}]
    BY <1>3 DEF Fire, Ops, CallOps, Places, Tasks
  <2>2. ctx' \in [Events -> {"live", "cancelled"}]
    BY <1>3 DEF Fire
  <2>3. /\ queue' \in [Factories -> Seq(Tasks)]
        /\ \A g \in Factories : phase[g] # "idle" => queue'[g] # <<>>
    BY <1>3, AppendTypes DEF Fire, Tasks
  <2> QED
    BY <1>3, <2>1, <2>2, <2>3 DEF Fire
<1>4. ASSUME NEW e \in Events, Cancel(e) PROVE TypeOK'
  BY <1>4 DEF Cancel
<1>5. ASSUME NEW c \in Calls, CallStep(c) PROVE TypeOK'
  <2>1. CASE AsyncExec(c)
    <3>1. /\ queue' \in [Factories -> Seq(Tasks)]
          /\ \A g \in Factories : phase[g] # "idle" => queue'[g] # <<>>
      <4>1. CASE target[c] \in Factories
        BY <2>1, <4>1, AppendTypes DEF AsyncExec, Tasks
      <4>2. CASE target[c] \notin Factories
        BY <2>1, <4>2 DEF AsyncExec
      <4> QED
        BY <4>1, <4>2
    <3> QED
      BY <2>1, <3>1 DEF AsyncExec, Places, Tasks
  <2>2. CASE RecallLoad(c)
    BY <2>2, LoadOrStoreTypes DEF RecallLoad
  <2> QED
    BY <1>5, <2>1, <2>2 DEF CallStep
<1>6. ASSUME NEW f \in Factories, ExecutorStep(f) PROVE TypeOK'
  <2> USE DEF ChainPhases, RequestPhases, ClosePhases
  <2>1. CASE RecallReturn(f)
    BY <2>1, SkipTypes DEF RecallReturn
  <2>2. CASE ReselectCloseReturn(f) /\ ChainCloses /\ EndSession(f)
    BY <2>2, EndSessionTypes DEF ReselectCloseReturn, ChainCloses, Phases
  <2>3. CASE RequestSuccess(f) /\ RenewSession
    BY <2>3, FinishTypes, RenewSessionTypes DEF RequestSuccess, ChainConnects
  <2>4. CASE /\ RequestFailure(f)
            /\ IF state[f] = "established" THEN UNCHANGED ctx ELSE EndSession(f)
    <3>1. state' \in [Factories -> {"zero", "established", "closed"}]
      BY <2>4 DEF RequestFailure
    <3>2. ctx' \in [Events -> {"live", "cancelled"}]
      BY <2>4, EndSessionTypes DEF RequestFailure
    <3>3. entry' \in Factories \cup {None}
      BY <2>4 DEF RequestFailure
    <3> QED
      BY <2>4, <3>1, <3>2, <3>3, FinishTypes DEF RequestFailure
  <2>5. CASE CloseReturn(f) /\ ChainCloses /\ EndSession(f)
    BY <2>5, FinishTypes, EndSessionTypes DEF CloseReturn, ChainCloses, AfterClose
  <2>6. CASE EventRequestSuccess(f) /\ RenewSession
    BY <2>6, FinishTypes, RenewSessionTypes DEF EventRequestSuccess, ChainConnects
  <2>7. CASE EventRequestFailure(f) /\ UNCHANGED ctx
    <3>1. request' \in [Factories -> Nat] /\ minted' \in Nat
      <4>1. CASE UNCHANGED <<request, minted>>
        BY <4>1
      <4>2. CASE /\ minted' = minted + 1
                 /\ request' = [request EXCEPT ![f] = minted + 1]
        BY <4>2
      <4> QED
        BY <2>7, <4>1, <4>2 DEF EventRequestFailure
    <3> QED
      BY <2>7, <3>1, FinishTypes DEF EventRequestFailure
  <2>8. CASE EventCloseReturn(f) /\ ChainCloses /\ EndSession(f)
    BY <2>8, FinishTypes, EndSessionTypes DEF EventCloseReturn, ChainCloses, AfterClose
  <2>9. ASSUME NEW c \in Calls,
               RequestStale(f, c) \/ RequestStart(f, c) \/ CloseSkip(f, c) \/ CloseStart(f, c)
        PROVE  TypeOK'
    <3>1. CASE RequestStale(f, c)
      BY <3>1 DEF RequestStale, CanStart, Recall, Phases, Places, Tasks
    <3>2. CASE RequestStart(f, c)
      BY <3>2, EnterTypes DEF RequestStart, CanStart
    <3>3. CASE CloseSkip(f, c)
      BY <3>3, SkipTypes DEF CloseSkip, CanStart
    <3>4. CASE CloseStart(f, c)
      BY <3>4, EnterTypes DEF CloseStart, CanStart
    <3> QED
      BY <2>9, <3>1, <3>2, <3>3, <3>4
  <2>10. ASSUME NEW e \in Events, EventRequest(f, e) \/ EventClose(f, e)
         PROVE  TypeOK'
    BY <2>10, EnterTypes, SkipTypes DEF EventRequest, EventClose, CanStart
  <2> QED
    BY <1>6, <2>1, <2>2, <2>3, <2>4, <2>5, <2>6, <2>7, <2>8, <2>9, <2>10
       DEF ExecutorStep, ChainReturn, ExecutorRuns
<1>7. CASE Terminated \/ UNCHANGED vars
  BY <1>7 DEF Terminated
<1> QED
  BY <1>1, <1>2, <1>3, <1>4, <1>5, <1>6, <1>7 DEF Next, Environment

\* The variables of beginServer keep their types, and an executor that is
\* running a function has it at the head of its queue.
THEOREM TypeCorrect == Spec => []TypeOK
BY TypesInit, TypesStep, PTL DEF Spec
-----------------------------------------------------------------------------
(* The inductive invariants.                                               *)

\* The map holds the youngest factory or none.
YoungestInMap == entry \in {None, created}

\* Only factories that were stored have been given work.
WorkOfCreated ==
    /\ \A f \in Factories : queue[f] # <<>> \/ state[f] # "zero" => f <= created
    /\ \A c \in Calls : pc[c] = "loaded" => target[c] \in Factories /\ target[c] <= created

\* A factory that makes a call again is stale and stays so.
RecallIsStale ==
    \A f \in Factories : phase[f] = "recall" => entry # f /\ Current(f) \in Calls

WaitInv == YoungestInMap /\ WorkOfCreated /\ RecallIsStale /\ WaitsForYounger

\* A factory that is in the chain, or is established, is the one in the map.
ActiveInMap ==
    \A f \in Factories : InChain(f) \/ state[f] = "established" => entry = f

\* A factory that keeps the request of an ended session has no live Close event.
NoLateClose ==
    \A f \in Factories, e \in Events :
        /\ request[f] # None /\ state[f] # "established" /\ ~InChain(f)
        /\ op[e] = "close" /\ target[e] = f
        => ctx[e] = "cancelled"

\* Request events are run only for established factories.
EventRequestEstablished ==
    \A f \in Factories : phase[f] = "eventRequest" => state[f] = "established"

\* An event waits in the queue of the factory on which it was fired.
EventsInPlace ==
    \A f \in Factories : \A i \in 1 .. Len(queue[f]) :
        queue[f][i] \in Events => pc[queue[f][i]] # "new" /\ target[queue[f][i]] = f

\* What the chain holds is the connection of an established factory of the map.
HeldIsEstablished == held # None => entry # None /\ state[entry] = "established"

SessionInv ==
    /\ ActiveInMap
    /\ NoLateClose
    /\ EventRequestEstablished
    /\ EventsInPlace
    /\ HeldIsEstablished

-----------------------------------------------------------------------------
(* WaitInv.                                                                *)

LEMMA WaitInit == Init => WaitInv
BY MaxFactoryAssumption
   DEF Init, WaitInv, YoungestInMap, WorkOfCreated, RecallIsStale, WaitsForYounger,
       Current, Factories, Tasks

\* A function that ends, and at most removes the entry, keeps WaitInv.
LEMMA FinishWait ==
    ASSUME TypeOK, WaitInv, NEW f \in Factories, queue[f] # <<>>, Finish(f),
           UNCHANGED <<created, target>>, entry' \in {entry, None},
           \A g \in Factories : g # f => state'[g] = state[g]
    PROVE  WaitInv'
<1> USE DEF TypeOK, Finish, Current
<1>1. Current(f) \in Tasks /\ f <= created
  BY DEF WaitInv, WorkOfCreated
<1>2. \A t \in Tasks : pc'[t] = pc[t] \/ pc'[t] = "done"
  BY <1>1
<1>3. \A g \in Factories : g # f => queue'[g] = queue[g] /\ phase'[g] = phase[g]
  OBVIOUS
<1>4. phase'[f] = "idle"
  OBVIOUS
<1>5. YoungestInMap'
  BY DEF WaitInv, YoungestInMap
<1>6. WorkOfCreated'
  BY <1>1, <1>2, <1>3 DEF WaitInv, WorkOfCreated, Tasks
<1>7. RecallIsStale'
  BY <1>3, <1>4 DEF WaitInv, RecallIsStale, Factories
<1>8. WaitsForYounger'
  <2> SUFFICES ASSUME NEW g \in Factories, phase'[g] = "recall",
                      pc'[Current(g)'] \in {"loaded", "queued"}
               PROVE  target'[Current(g)'] > g
    BY DEF WaitsForYounger
  <2>1. g # f /\ Current(g)' = Current(g) /\ phase[g] = "recall"
    BY <1>3, <1>4
  <2>2. Current(g) \in Tasks
    BY <2>1
  <2>3. pc[Current(g)] \in {"loaded", "queued"}
    BY <1>2, <2>1, <2>2
  <2> QED
    BY <2>1, <2>3 DEF WaitInv, WaitsForYounger
<1> QED
  BY <1>5, <1>6, <1>7, <1>8 DEF WaitInv

\* A function that calls the chain keeps WaitInv.
LEMMA EnterWait ==
    ASSUME TypeOK, WaitInv, NEW f \in Factories, queue[f] # <<>>,
           NEW p \in ChainPhases, phase' = [phase EXCEPT ![f] = p],
           UNCHANGED <<entry, created, queue, pc, target>>,
           \A g \in Factories : g # f => state'[g] = state[g]
    PROVE  WaitInv'
<1> USE DEF TypeOK, ChainPhases, RequestPhases, ClosePhases
<1>1. YoungestInMap'
  BY DEF WaitInv, YoungestInMap
<1>2. WorkOfCreated'
  BY DEF WaitInv, WorkOfCreated
<1>3. RecallIsStale'
  BY DEF WaitInv, RecallIsStale, Current
<1>4. WaitsForYounger'
  BY DEF WaitInv, WaitsForYounger, Current
<1> QED
  BY <1>1, <1>2, <1>3, <1>4 DEF WaitInv

\* A lookup by a call gives it a factory younger than every factory that waits.
LEMMA LookupWait ==
    ASSUME TypeOK, WaitInv, NEW c \in Calls, LoadOrStore(c),
           UNCHANGED <<queue, phase, state>>
    PROVE  WaitInv'
<1> USE DEF TypeOK, LoadOrStore
<1>1. /\ entry' = created' /\ created <= created'
      /\ entry' \in Factories
      /\ entry = None \/ entry' = entry
  BY MaxFactoryAssumption DEF WaitInv, YoungestInMap, Factories
<1>2. \A f \in Factories : phase[f] = "recall" => entry' > f
  <2> SUFFICES ASSUME NEW f \in Factories, phase[f] = "recall" PROVE entry' > f
    OBVIOUS
  <2>1. entry # f /\ f <= created
    BY DEF WaitInv, RecallIsStale, WorkOfCreated
  <2> QED
    BY <2>1 DEF WaitInv, YoungestInMap, Factories
<1>3. \A t \in Tasks : t # c => target'[t] = target[t] /\ pc'[t] = pc[t]
  BY DEF Tasks
<1>4. target'[c] = entry' /\ c \in Tasks
  BY DEF Tasks
<1>5. \A f \in Factories : phase[f] = "recall" => Current(f) \in Tasks
  BY DEF Current
<1>6. YoungestInMap'
  BY <1>1 DEF YoungestInMap
<1>7. WorkOfCreated'
  BY <1>1, <1>3, <1>4 DEF WaitInv, WorkOfCreated, Tasks, Factories
<1>8. RecallIsStale'
  BY <1>2 DEF WaitInv, RecallIsStale, Current, Factories
<1>9. WaitsForYounger'
  BY <1>2, <1>3, <1>4, <1>5 DEF WaitInv, WaitsForYounger, Current
<1> QED
  BY <1>6, <1>7, <1>8, <1>9 DEF WaitInv

\* Work queued on a factory that was stored does not change what is running.
LEMMA AppendWait ==
    ASSUME TypeOK, WaitInv, NEW f \in Factories, f <= created, NEW t \in Tasks,
           queue' = [queue EXCEPT ![f] = Append(@, t)],
           UNCHANGED <<entry, created, state, phase>>,
           pc' = [pc EXCEPT ![t] = "queued"],
           target'[t] = f,
           \A u \in Tasks : u # t => target'[u] = target[u],
           t \in Calls => target[t] = f /\ pc[t] = "loaded"
    PROVE  WaitInv'
<1> USE DEF TypeOK
<1>1. \A g \in Factories : phase[g] = "recall" =>
         Current(g)' = Current(g) /\ Current(g) \in Tasks
  <2> SUFFICES ASSUME NEW g \in Factories, phase[g] = "recall"
               PROVE  Current(g)' = Current(g) /\ Current(g) \in Tasks
    OBVIOUS
  <2>1. queue[g] \in Seq(Tasks) /\ queue[g] # <<>>
    OBVIOUS
  <2>2. queue'[g] = queue[g] \/ queue'[g] = Append(queue[g], t)
    OBVIOUS
  <2> QED
    BY <2>1, <2>2 DEF Current
<1>2. YoungestInMap'
  BY DEF WaitInv, YoungestInMap
<1>3. WorkOfCreated'
  <2>1. \A g \in Factories : queue'[g] # <<>> => queue[g] # <<>> \/ g = f
    OBVIOUS
  <2>2. \A c \in Calls : pc'[c] = "loaded" => pc[c] = "loaded" /\ target'[c] = target[c]
    BY DEF Tasks
  <2> QED
    BY <2>1, <2>2 DEF WaitInv, WorkOfCreated
<1>4. RecallIsStale'
  BY <1>1 DEF WaitInv, RecallIsStale
<1>5. WaitsForYounger'
  <2> SUFFICES ASSUME NEW g \in Factories, phase[g] = "recall",
                      pc'[Current(g)] \in {"loaded", "queued"}
               PROVE  target'[Current(g)] > g
    BY <1>1 DEF WaitsForYounger
  <2>1. Current(g) \in Calls /\ Current(g) \in Tasks
    BY <1>1 DEF WaitInv, RecallIsStale
  <2>2. CASE Current(g) = t
    BY <2>1, <2>2 DEF WaitInv, WaitsForYounger
  <2>3. CASE Current(g) # t
    BY <2>1, <2>3 DEF WaitInv, WaitsForYounger
  <2> QED
    BY <2>2, <2>3
<1> QED
  BY <1>2, <1>3, <1>4, <1>5 DEF WaitInv

\* A Close that finds a factory is given the youngest.
LEMMA CloseWait ==
    ASSUME TypeOK, WaitInv, NEW c \in Calls, ReceiveClose(c)
    PROVE  WaitInv'
<1> USE DEF TypeOK, ReceiveClose
<1>1. \A t \in Tasks : t # c => target'[t] = target[t] /\ pc'[t] = pc[t]
  BY DEF Tasks
<1>2. c \in Tasks /\ target'[c] = entry
      /\ pc'[c] = (IF entry = None THEN "done" ELSE "loaded")
  BY DEF Tasks
<1>3. entry # None => entry \in Factories /\ entry = created
  BY DEF WaitInv, YoungestInMap
<1>4. \A f \in Factories : phase[f] = "recall" =>
         /\ entry # None => entry > f
         /\ Current(f) \in Tasks
  BY <1>3 DEF WaitInv, RecallIsStale, WorkOfCreated, Current, Factories
<1>5. WorkOfCreated'
  BY <1>1, <1>2, <1>3 DEF WaitInv, WorkOfCreated, Tasks, Factories
<1>6. WaitsForYounger'
  BY <1>1, <1>2, <1>4 DEF WaitInv, WaitsForYounger, Current
<1> QED
  BY <1>5, <1>6 DEF WaitInv, YoungestInMap, RecallIsStale, Current

\* An event is fired on a factory that was stored.
LEMMA FireWait ==
    ASSUME TypeOK, WaitInv, NEW e \in Events, NEW f \in Factories, NEW o \in CallOps,
           Fire(e, f, o)
    PROVE  WaitInv'
<1>1. f <= created
  BY DEF WaitInv, WorkOfCreated, Fire, Exposed, InChain, ChainPhases,
              RequestPhases, ClosePhases, TypeOK
<1>2. /\ e \in Tasks /\ e \notin Calls
      /\ target'[e] = f
      /\ \A u \in Tasks : u # e => target'[u] = target[u]
  BY DisjointTasks DEF Fire, Tasks, TypeOK
<1> QED
  BY <1>1, <1>2, AppendWait DEF Fire

\* A call is queued on the factory that it loaded.
LEMMA AsyncExecWait ==
    ASSUME TypeOK, WaitInv, NEW c \in Calls, AsyncExec(c)
    PROVE  WaitInv'
<1>1. target[c] \in Factories /\ target[c] <= created /\ c \in Tasks
  BY DEF AsyncExec, WaitInv, WorkOfCreated, Tasks
<1> QED
  BY <1>1, AppendWait DEF AsyncExec

\* A factory that is found stale repeats the call at the head of its queue.
LEMMA RecallWait ==
    ASSUME TypeOK, WaitInv, NEW f \in Factories, NEW c \in Calls, CanStart(f, c),
           entry # f, Recall(f, c)
    PROVE  WaitInv'
<1> USE DEF TypeOK, CanStart, Recall, Current
<1>1. f <= created /\ Head(queue[f]) = c /\ entry # f
  BY DEF WaitInv, WorkOfCreated
<1>2. \A t \in Tasks : pc'[t] = pc[t] \/ pc'[t] = "recalled"
  BY DEF Tasks
<1>3. \A g \in Factories : phase'[g] = "recall" => phase[g] = "recall" \/ g = f
  OBVIOUS
<1>4. pc'[c] = "recalled"
  BY DEF Tasks
<1>5. WorkOfCreated'
  BY <1>2 DEF WaitInv, WorkOfCreated, Tasks
<1>6. RecallIsStale'
  BY <1>1, <1>3 DEF WaitInv, RecallIsStale
<1>7. WaitsForYounger'
  <2> SUFFICES ASSUME NEW g \in Factories, phase'[g] = "recall",
                      pc'[Head(queue[g])] \in {"loaded", "queued"}
               PROVE  target[Head(queue[g])] > g
    BY DEF WaitsForYounger
  <2>1. g # f /\ phase[g] = "recall"
    BY <1>1, <1>3, <1>4
  <2>2. Head(queue[g]) \in Tasks
    BY <2>1
  <2> QED
    BY <1>2, <2>1, <2>2 DEF WaitInv, WaitsForYounger
<1> QED
  BY <1>5, <1>6, <1>7 DEF WaitInv, YoungestInMap


LEMMA WaitStep == TypeOK /\ WaitInv /\ [Next]_vars => WaitInv'
<1> SUFFICES ASSUME TypeOK, WaitInv, [Next]_vars PROVE WaitInv'
  OBVIOUS
<1>1. ASSUME NEW c \in Calls, NEW o \in {"request", "reselect"}, ReceiveRequest(c, o)
      PROVE  WaitInv'
  BY <1>1, LookupWait DEF ReceiveRequest
<1>2. ASSUME NEW c \in Calls, ReceiveClose(c) PROVE WaitInv'
  BY <1>2, CloseWait
<1>3. ASSUME NEW e \in Events, NEW f \in Factories, NEW o \in {"request", "close"},
             Fire(e, f, o)
      PROVE  WaitInv'
  BY <1>3, FireWait DEF CallOps
<1>4. ASSUME NEW e \in Events, Cancel(e) PROVE WaitInv'
  BY <1>4 DEF Cancel, WaitInv, YoungestInMap, WorkOfCreated, RecallIsStale,
              WaitsForYounger, Current
<1>5. ASSUME NEW c \in Calls, CallStep(c) PROVE WaitInv'
  <2>1. CASE AsyncExec(c)
    BY <2>1, AsyncExecWait
  <2>2. CASE RecallLoad(c)
    BY <2>2, LookupWait DEF RecallLoad
  <2> QED
    BY <1>5, <2>1, <2>2 DEF CallStep
<1>6. ASSUME NEW f \in Factories, ExecutorStep(f) PROVE WaitInv'
  <2> USE DEF TypeOK
  <2>1. CASE RecallReturn(f)
    BY <2>1, FinishWait DEF RecallReturn, Skip
  <2>2. CASE ReselectCloseReturn(f) /\ ChainCloses /\ EndSession(f)
    BY <2>2, EnterWait DEF ReselectCloseReturn, ChainPhases, RequestPhases, ClosePhases
  <2>3. CASE RequestSuccess(f) /\ RenewSession
    BY <2>3, FinishWait DEF RequestSuccess
  <2>4. CASE /\ RequestFailure(f)
            /\ IF state[f] = "established" THEN UNCHANGED ctx ELSE EndSession(f)
    <3>1. entry' \in {entry, None} /\ \A g \in Factories : g # f => state'[g] = state[g]
      BY <2>4 DEF RequestFailure
    <3> QED
      BY <2>4, <3>1, FinishWait DEF RequestFailure
  <2>5. CASE CloseReturn(f) /\ ChainCloses /\ EndSession(f)
    BY <2>5, FinishWait DEF CloseReturn, AfterClose
  <2>6. CASE EventRequestSuccess(f) /\ RenewSession
    BY <2>6, FinishWait DEF EventRequestSuccess
  <2>7. CASE EventRequestFailure(f) /\ UNCHANGED ctx
    BY <2>7, FinishWait DEF EventRequestFailure
  <2>8. CASE EventCloseReturn(f) /\ ChainCloses /\ EndSession(f)
    BY <2>8, FinishWait DEF EventCloseReturn, AfterClose
  <2>9. ASSUME NEW c \in Calls, RequestStale(f, c) PROVE WaitInv'
    BY <2>9, RecallWait DEF RequestStale
  <2>10. ASSUME NEW c \in Calls, RequestStart(f, c) \/ CloseStart(f, c)
         PROVE  WaitInv'
    BY <2>10, EnterWait DEF RequestStart, CloseStart, CanStart, Enter,
                            ChainPhases, RequestPhases, ClosePhases
  <2>11. ASSUME NEW c \in Calls, CloseSkip(f, c) PROVE WaitInv'
    BY <2>11, FinishWait DEF CloseSkip, CanStart, Skip
  <2>12. ASSUME NEW e \in Events, EventRequest(f, e) \/ EventClose(f, e)
         PROVE  WaitInv'
    <3>1. CASE Skip(f)
      BY <2>12, <3>1, FinishWait DEF EventRequest, EventClose, CanStart, Skip
    <3>2. ASSUME NEW p \in ChainPhases, Enter(f, p) PROVE WaitInv'
      BY <2>12, <3>2, EnterWait DEF EventRequest, EventClose, CanStart, Enter
    <3> QED
      BY <2>12, <3>1, <3>2 DEF EventRequest, EventClose, ChainPhases, RequestPhases,
                               ClosePhases
  <2> QED
    BY <1>6, <2>1, <2>2, <2>3, <2>4, <2>5, <2>6, <2>7, <2>8, <2>9, <2>10, <2>11, <2>12
       DEF ExecutorStep, ChainReturn, ExecutorRuns
<1>7. CASE Terminated \/ UNCHANGED vars
  BY <1>7 DEF Terminated, WaitInv, YoungestInMap, WorkOfCreated, RecallIsStale,
              WaitsForYounger, Current
<1> QED
  BY <1>1, <1>2, <1>3, <1>4, <1>5, <1>6, <1>7 DEF Next, Environment

\* A Request that was repeated because its factory had become stale waits for a
\* factory that was stored later, so executors never wait for each other in a
\* circle, whatever midchain elements do.
THEOREM NoCircularWait == Spec => []WaitsForYounger
<1>1. Spec => []WaitInv
  BY TypesInit, TypesStep, WaitInit, WaitStep, PTL DEF Spec
<1>2. WaitInv => WaitsForYounger
  BY DEF WaitInv
<1> QED
  BY <1>1, <1>2, PTL

-----------------------------------------------------------------------------
(* SessionInv.                                                             *)

LEMMA SessionInit == Init => SessionInv
BY DEF Init, SessionInv, ActiveInMap, NoLateClose, EventRequestEstablished, EventsInPlace,
       HeldIsEstablished, InChain, ChainPhases, RequestPhases, ClosePhases

\* The events that remain when a function has ended are still in place.
LEMMA FinishInPlace ==
    ASSUME TypeOK, EventsInPlace, NEW f \in Factories, queue[f] # <<>>, Finish(f),
           UNCHANGED target
    PROVE  EventsInPlace'
<1> USE DEF TypeOK
<1> SUFFICES ASSUME NEW g \in Factories, NEW i \in 1 .. Len(queue'[g]),
                    queue'[g][i] \in Events
             PROVE  pc'[queue'[g][i]] # "new" /\ target[queue'[g][i]] = g
  BY DEF EventsInPlace
<1>1. PICK j \in 1 .. Len(queue[g]) : queue'[g][i] = queue[g][j]
  <2>1. CASE g = f
    <3>1. queue'[g] = Tail(queue[g]) /\ queue[g] \in Seq(Tasks) /\ queue[g] # <<>>
      BY <2>1 DEF Finish
    <3>2. i + 1 \in 1 .. Len(queue[g]) /\ queue'[g][i] = queue[g][i + 1]
      BY <3>1
    <3> QED
      BY <3>2
  <2>2. CASE g # f
    BY <2>2 DEF Finish
  <2> QED
    BY <2>1, <2>2
<1>2. pc[queue[g][j]] # "new" /\ target[queue[g][j]] = g
  BY <1>1 DEF EventsInPlace
<1>3. queue[g][j] \in Tasks
  OBVIOUS
<1> QED
  BY <1>1, <1>2, <1>3 DEF Finish

\* Queueing a call, or an event on the factory it was fired on, keeps the
\* events in place.
LEMMA AppendInPlace ==
    ASSUME TypeOK, EventsInPlace, NEW f \in Factories, NEW t \in Tasks,
           queue' = [queue EXCEPT ![f] = Append(@, t)],
           pc' = [pc EXCEPT ![t] = "queued"],
           t \in Events => pc[t] = "new" /\ target'[t] = f,
           \A u \in Tasks : u # t => target'[u] = target[u]
    PROVE  EventsInPlace'
<1> USE DEF TypeOK
<1> SUFFICES ASSUME NEW g \in Factories, NEW i \in 1 .. Len(queue'[g]),
                    queue'[g][i] \in Events
             PROVE  pc'[queue'[g][i]] # "new" /\ target'[queue'[g][i]] = g
  BY DEF EventsInPlace
<1>1. CASE i \in 1 .. Len(queue[g]) /\ queue'[g][i] = queue[g][i]
  <2>1. pc[queue[g][i]] # "new" /\ target[queue[g][i]] = g
    BY <1>1 DEF EventsInPlace
  <2> QED
    BY <1>1, <2>1 DEF Tasks
<1>2. CASE g = f /\ queue'[g][i] = t
  BY <1>2
<1>3. \/ i \in 1 .. Len(queue[g]) /\ queue'[g][i] = queue[g][i]
      \/ g = f /\ queue'[g][i] = t
  <2>1. CASE g = f
    <3>1. queue'[g] = Append(queue[g], t) /\ queue[g] \in Seq(Tasks)
      BY <2>1
    <3> QED
      BY <2>1, <3>1
  <2>2. CASE g # f
    BY <2>2
  <2> QED
    BY <2>1, <2>2
<1> QED
  BY <1>1, <1>2, <1>3

\* Steps that do not move or retarget events keep them in place.
LEMMA SameInPlace ==
    ASSUME TypeOK, EventsInPlace, UNCHANGED queue,
           \A e \in Events : target'[e] = target[e] /\ (pc[e] # "new" => pc'[e] # "new")
    PROVE  EventsInPlace'
BY DEF EventsInPlace

\* A chain call that ends without ending the session: the factory is
\* established afterwards.
LEMMA StaysEstablished ==
    ASSUME TypeOK, SessionInv, NEW f \in Factories, InChain(f), Finish(f),
           state' = [state EXCEPT ![f] = "established"],
           UNCHANGED <<entry, op, target>>,
           \A e \in Events : ctx'[e] \in {ctx[e], "cancelled"},
           \A g \in Factories : g # f => request'[g] = request[g]
    PROVE  SessionInv'
<1> USE DEF TypeOK, SessionInv, InChain, ChainPhases, RequestPhases, ClosePhases
<1>1. /\ entry = f
      /\ \A g \in Factories : g # f => phase'[g] = phase[g]
      /\ phase'[f] = "idle"
  BY DEF ActiveInMap, Finish
<1>2. ActiveInMap'
  BY <1>1 DEF ActiveInMap
<1>3. NoLateClose'
  BY <1>1 DEF NoLateClose
<1>4. EventRequestEstablished'
  BY <1>1 DEF EventRequestEstablished
<1>5. EventsInPlace'
  BY FinishInPlace
<1>6. HeldIsEstablished'
  BY <1>1 DEF HeldIsEstablished, Factories
<1> QED
  BY <1>2, <1>3, <1>4, <1>5, <1>6

\* A chain call that ends the session: the factory is closed, the entry is
\* deleted and the Close events of the session are cancelled.
LEMMA SessionEnds ==
    ASSUME TypeOK, SessionInv, MidchainOrderly, NEW f \in Factories, InChain(f), Finish(f),
           EndSession(f), AfterClose(f), UNCHANGED <<request, op, target>>,
           held' = None \/ (held' = held /\ state[f] # "established")
    PROVE  SessionInv'
<1> USE DEF TypeOK, SessionInv, InChain, ChainPhases, RequestPhases, ClosePhases,
            AfterClose
<1>1. /\ entry = f
      /\ \A g \in Factories : g # f => phase'[g] = phase[g]
      /\ phase'[f] = "idle"
  BY DEF ActiveInMap, Finish
<1>2. ActiveInMap'
  BY <1>1 DEF ActiveInMap
<1>3. NoLateClose'
  <2>1. \A e \in Events : ctx'[e] = IF e \in LateCloses(f) THEN "cancelled" ELSE ctx[e]
    BY DEF EndSession
  <2> QED
    BY <1>1, <2>1 DEF NoLateClose, LateCloses
<1>4. EventRequestEstablished'
  BY <1>1 DEF EventRequestEstablished
<1>5. EventsInPlace'
  BY FinishInPlace
<1>6. HeldIsEstablished'
  BY <1>1 DEF HeldIsEstablished
<1> QED
  BY <1>2, <1>3, <1>4, <1>5, <1>6

\* A function that returns without calling the chain.
LEMMA SkipSession ==
    ASSUME TypeOK, SessionInv, NEW f \in Factories, queue[f] # <<>>,
           phase[f] \in {"idle", "recall"}, Skip(f)
    PROVE  SessionInv'
<1> USE DEF TypeOK, SessionInv, InChain, ChainPhases, RequestPhases, ClosePhases, Skip
<1>1. /\ \A g \in Factories : g # f => phase'[g] = phase[g]
      /\ phase'[f] = "idle"
  BY DEF Finish
<1>2. ActiveInMap'
  BY <1>1 DEF ActiveInMap
<1>3. NoLateClose'
  BY <1>1 DEF NoLateClose
<1>4. EventRequestEstablished'
  BY <1>1 DEF EventRequestEstablished
<1>5. EventsInPlace'
  BY FinishInPlace
<1>6. HeldIsEstablished'
  BY DEF HeldIsEstablished
<1> QED
  BY <1>2, <1>3, <1>4, <1>5, <1>6

\* The factory of the map calls the chain.
LEMMA EnterSession ==
    ASSUME TypeOK, SessionInv, NEW f \in Factories, phase[f] = "idle", entry = f,
           NEW p \in ChainPhases, Enter(f, p), p = "eventRequest" => state[f] = "established"
    PROVE  SessionInv'
<1> USE DEF TypeOK, SessionInv, InChain, ChainPhases, RequestPhases, ClosePhases, Enter
<1>1. ActiveInMap'
  BY DEF ActiveInMap
<1>2. NoLateClose'
  BY DEF NoLateClose
<1>3. EventRequestEstablished'
  BY DEF EventRequestEstablished
<1>4. EventsInPlace'
  BY SameInPlace
<1>5. HeldIsEstablished'
  BY DEF HeldIsEstablished
<1> QED
  BY <1>1, <1>2, <1>3, <1>4, <1>5

\* A lookup stores a factory only when there is none, and then nothing is in
\* the chain and nothing is established.
LEMMA LookupSession ==
    ASSUME TypeOK, SessionInv, NEW c \in Calls, LoadOrStore(c),
           UNCHANGED <<state, request, queue, phase, ctx, held>>,
           \A e \in Events : op'[e] = op[e]
    PROVE  SessionInv'
<1> USE DisjointTasks
    DEF TypeOK, SessionInv, InChain, LoadOrStore
<1>1. \A e \in Events : target'[e] = target[e] /\ pc'[e] = pc[e]
  BY DEF Tasks
<1>2. entry' = entry \/ entry = None
  OBVIOUS
<1>3. ActiveInMap'
  BY <1>2 DEF ActiveInMap, Factories
<1>4. NoLateClose'
  BY <1>1 DEF NoLateClose
<1>5. EventRequestEstablished'
  BY DEF EventRequestEstablished
<1>6. EventsInPlace'
  BY <1>1, SameInPlace
<1>7. HeldIsEstablished'
  BY <1>2 DEF HeldIsEstablished
<1> QED
  BY <1>3, <1>4, <1>5, <1>6, <1>7

\* A Close is received.
LEMMA CloseSession ==
    ASSUME TypeOK, SessionInv, NEW c \in Calls, ReceiveClose(c)
    PROVE  SessionInv'
<1> USE DEF TypeOK
<1>1. \A e \in Events : op'[e] = op[e] /\ target'[e] = target[e] /\ pc'[e] = pc[e]
  BY DisjointTasks DEF ReceiveClose, Tasks
<1>2. EventsInPlace'
  BY <1>1, SameInPlace DEF ReceiveClose, SessionInv
<1> QED
  BY <1>1, <1>2 DEF ReceiveClose, SessionInv, ActiveInMap, NoLateClose,
                          EventRequestEstablished, HeldIsEstablished, InChain

\* An event is fired; that of an ended session is a cancelled one.
LEMMA FireSession ==
    ASSUME MidchainOrderly, TypeOK, SessionInv, NEW e \in Events, NEW f \in Factories,
           NEW o \in CallOps, Fire(e, f, o)
    PROVE  SessionInv'
<1> USE DEF TypeOK
<1>1. /\ e \in Tasks
      /\ target'[e] = f
      /\ \A u \in Tasks : u # e => target'[u] = target[u] /\ op'[u] = op[u]
      /\ \A d \in Events : d # e => ctx'[d] = ctx[d]
  BY DEF Fire, Tasks
<1>2. EventsInPlace'
  BY <1>1, AppendInPlace DEF Fire, SessionInv
<1>3. NoLateClose'
  <2> SUFFICES ASSUME NEW g \in Factories, NEW d \in Events,
                      request[g] # None, state[g] # "established", ~InChain(g),
                      op'[d] = "close", target'[d] = g
               PROVE  ctx'[d] = "cancelled"
    BY DEF Fire, NoLateClose, InChain
  <2>1. CASE d = e
    <3>1. g = f /\ o = "close" /\ state[f] = "closed"
      BY <1>1, <2>1 DEF Fire, Exposed
    <3> QED
      BY <2>1, <3>1 DEF Fire
  <2>2. CASE d # e
    BY <1>1, <2>2 DEF SessionInv, NoLateClose, Tasks
  <2> QED
    BY <2>1, <2>2
<1> QED
  BY <1>2, <1>3 DEF Fire, SessionInv, ActiveInMap, EventRequestEstablished,
                          HeldIsEstablished, InChain

\* A call is queued.
LEMMA AsyncExecSession ==
    ASSUME TypeOK, SessionInv, NEW c \in Calls, AsyncExec(c)
    PROVE  SessionInv'
<1> USE DEF TypeOK
<1>1. c \in Tasks /\ c \notin Events
  BY DisjointTasks DEF Tasks
<1>2. EventsInPlace'
  <2>1. CASE target[c] \in Factories
    BY <1>1, <2>1, AppendInPlace DEF AsyncExec, SessionInv
  <2>2. CASE target[c] \notin Factories
    <3>1. queue' = queue /\ \A e \in Events : pc'[e] = pc[e]
      BY <1>1, <2>2 DEF AsyncExec, Tasks
    <3> QED
      BY <3>1, SameInPlace DEF AsyncExec, SessionInv
  <2> QED
    BY <2>1, <2>2
<1> QED
  BY <1>2 DEF AsyncExec, SessionInv, ActiveInMap, NoLateClose,
                    EventRequestEstablished, HeldIsEstablished, InChain

\* A stale factory repeats its call.
LEMMA RecallSession ==
    ASSUME TypeOK, SessionInv, NEW f \in Factories, NEW c \in Calls, CanStart(f, c),
           Recall(f, c)
    PROVE  SessionInv'
<1> USE DEF TypeOK, InChain, ChainPhases, RequestPhases, ClosePhases, CanStart, Recall,
            SessionInv
<1>1. EventsInPlace'
  <2>1. \A e \in Events : pc'[e] = pc[e]
    BY DisjointTasks DEF Tasks
  <2> QED
    BY <2>1, SameInPlace
<1>2. ActiveInMap' /\ NoLateClose'
  BY DEF ActiveInMap, NoLateClose
<1> QED
  BY <1>1, <1>2 DEF EventRequestEstablished, HeldIsEstablished

\* A Close event that is run is one of the established factory of the map.
LEMMA EventCloseSession ==
    ASSUME TypeOK, SessionInv, NEW f \in Factories, NEW e \in Events, CanStart(f, e),
           op[e] = "close", EventCloseRuns(f, e), Enter(f, "eventClose")
    PROVE  SessionInv' /\ state[f] = "established"
<1> USE DEF TypeOK, InChain, ChainPhases, RequestPhases, ClosePhases
<1>1. target[e] = f
  <2>1. queue[f] \in Seq(Tasks) /\ queue[f] # <<>> /\ queue[f][1] = e
    BY DEF CanStart, Current
  <2>2. 1 \in 1 .. Len(queue[f])
    BY <2>1
  <2> QED
    BY <2>1, <2>2 DEF SessionInv, EventsInPlace
<1>2. state[f] = "established"
  BY <1>1 DEF EventCloseRuns, CanStart, SessionInv, NoLateClose
<1> QED
  BY <1>2, EnterSession DEF CanStart, SessionInv, ActiveInMap

LEMMA SessionStep == MidchainOrderly /\ TypeOK /\ SessionInv /\ [Next]_vars => SessionInv'
<1> SUFFICES ASSUME MidchainOrderly, TypeOK, SessionInv, [Next]_vars PROVE SessionInv'
  OBVIOUS
<1> USE DEF TypeOK
<1>1. ASSUME NEW c \in Calls, NEW o \in {"request", "reselect"}, ReceiveRequest(c, o)
      PROVE  SessionInv'
  <2>1. \A e \in Events : op'[e] = op[e]
    BY <1>1, DisjointTasks DEF ReceiveRequest, Tasks
  <2> QED
    BY <1>1, <2>1, LookupSession DEF ReceiveRequest
<1>2. ASSUME NEW c \in Calls, ReceiveClose(c) PROVE SessionInv'
  BY <1>2, CloseSession
<1>3. ASSUME NEW e \in Events, NEW f \in Factories, NEW o \in {"request", "close"},
             Fire(e, f, o)
      PROVE  SessionInv'
  BY <1>3, FireSession DEF CallOps
<1>4. ASSUME NEW e \in Events, Cancel(e) PROVE SessionInv'
  BY <1>4 DEF Cancel, SessionInv, ActiveInMap, NoLateClose, EventRequestEstablished,
              EventsInPlace, HeldIsEstablished, InChain
<1>5. ASSUME NEW c \in Calls, CallStep(c) PROVE SessionInv'
  <2>1. CASE AsyncExec(c)
    BY <2>1, AsyncExecSession
  <2>2. CASE RecallLoad(c)
    BY <2>2, LookupSession DEF RecallLoad
  <2> QED
    BY <1>5, <2>1, <2>2 DEF CallStep
<1>6. ASSUME NEW f \in Factories, ExecutorStep(f) PROVE SessionInv'
  <2> USE DEF InChain, ChainPhases, RequestPhases, ClosePhases
  <2>1. CASE RecallReturn(f)
    BY <2>1, SkipSession DEF RecallReturn
  <2>2. CASE ReselectCloseReturn(f) /\ ChainCloses /\ EndSession(f)
    <3> USE <2>2 DEF ReselectCloseReturn, SessionInv, ChainCloses
    <3>1. entry = f
      BY DEF ActiveInMap
    <3>2. ActiveInMap'
      BY <3>1 DEF ActiveInMap
    <3>3. NoLateClose'
      BY DEF NoLateClose, EndSession
    <3>4. EventRequestEstablished'
      BY DEF EventRequestEstablished
    <3>5. EventsInPlace'
      BY SameInPlace
    <3> QED
      BY <3>2, <3>3, <3>4, <3>5 DEF HeldIsEstablished
  <2>3. CASE RequestSuccess(f) /\ RenewSession
    <3>1. \A e \in Events : ctx'[e] \in {ctx[e], "cancelled"}
      BY <2>3 DEF RenewSession
    <3> QED
      BY <2>3, <3>1, StaysEstablished DEF RequestSuccess, ChainConnects
  <2>4. CASE /\ RequestFailure(f)
            /\ IF state[f] = "established" THEN UNCHANGED ctx ELSE EndSession(f)
    <3>1. CASE state[f] = "established"
      BY <2>4, <3>1, StaysEstablished DEF RequestFailure
    <3>2. CASE state[f] # "established"
      BY <2>4, <3>2, SessionEnds DEF RequestFailure, AfterClose
    <3> QED
      BY <3>1, <3>2
  <2>5. CASE CloseReturn(f) /\ ChainCloses /\ EndSession(f)
    BY <2>5, SessionEnds DEF CloseReturn, ChainCloses
  <2>6. CASE EventRequestSuccess(f) /\ RenewSession
    <3>1. state' = [state EXCEPT ![f] = "established"]
      BY <2>6 DEF EventRequestSuccess, SessionInv, EventRequestEstablished
    <3>2. \A e \in Events : ctx'[e] \in {ctx[e], "cancelled"}
      BY <2>6 DEF RenewSession
    <3> QED
      BY <2>6, <3>1, <3>2, StaysEstablished DEF EventRequestSuccess, ChainConnects
  <2>7. CASE EventRequestFailure(f) /\ UNCHANGED ctx
    <3>1. state' = [state EXCEPT ![f] = "established"]
      BY <2>7 DEF EventRequestFailure, SessionInv, EventRequestEstablished
    <3>2. \A g \in Factories : g # f => request'[g] = request[g]
      BY <2>7 DEF EventRequestFailure
    <3> QED
      BY <2>7, <3>1, <3>2, StaysEstablished DEF EventRequestFailure
  <2>8. CASE EventCloseReturn(f) /\ ChainCloses /\ EndSession(f)
    BY <2>8, SessionEnds DEF EventCloseReturn, ChainCloses
  <2>9. ASSUME NEW c \in Calls, RequestStale(f, c) PROVE SessionInv'
    BY <2>9, RecallSession DEF RequestStale
  <2>10. ASSUME NEW c \in Calls, RequestStart(f, c) \/ CloseStart(f, c)
         PROVE  SessionInv'
    BY <2>10, EnterSession DEF RequestStart, CloseStart, CanStart, Closable
  <2>11. ASSUME NEW c \in Calls, CloseSkip(f, c) PROVE SessionInv'
    BY <2>11, SkipSession DEF CloseSkip, CanStart
  <2>12. ASSUME NEW e \in Events, EventRequest(f, e) PROVE SessionInv'
    <3>1. CASE Skip(f)
      BY <2>12, <3>1, SkipSession DEF EventRequest, CanStart
    <3>2. CASE EventRequestRuns(f, e) /\ Enter(f, "eventRequest")
      BY <2>12, <3>2, EnterSession DEF EventRequest, CanStart, EventRequestRuns, SessionInv,
                                       ActiveInMap
    <3> QED
      BY <2>12, <3>1, <3>2 DEF EventRequest
  <2>13. ASSUME NEW e \in Events, EventClose(f, e) PROVE SessionInv'
    <3>1. CASE Skip(f)
      BY <2>13, <3>1, SkipSession DEF EventClose, CanStart
    <3>2. CASE EventCloseRuns(f, e) /\ Enter(f, "eventClose")
      BY <2>13, <3>2, EventCloseSession DEF EventClose
    <3> QED
      BY <2>13, <3>1, <3>2 DEF EventClose
  <2> QED
    BY <1>6, <2>1, <2>2, <2>3, <2>4, <2>5, <2>6, <2>7, <2>8, <2>9, <2>10, <2>11, <2>12, <2>13
       DEF ExecutorStep, ChainReturn, ExecutorRuns
<1>7. CASE Terminated \/ UNCHANGED vars
  BY <1>7 DEF Terminated, SessionInv, ActiveInMap, NoLateClose, EventRequestEstablished,
              EventsInPlace, HeldIsEstablished, InChain
<1> QED
  BY <1>1, <1>2, <1>3, <1>4, <1>5, <1>6, <1>7 DEF Next, Environment

\* SessionInv is an invariant when midchain elements cancel their late Closes.
LEMMA SessionInvariant ==
    Spec /\ MidchainOrderly => []SessionInv
<1>1. MidchainOrderly /\ [Next]_vars => MidchainOrderly'
  BY DEF Next, MidchainOrderly
<1> QED
  BY <1>1, SessionStep, TypesInit, TypesStep, SessionInit, PTL DEF Spec

\* begin/doc.go's Exclusivity: at most one factory of a Connection.Id has a call
\* in the chain, provided that midchain elements cancel the Close events of
\* sessions that have ended.
THEOREM MutualExclusion ==
    Spec /\ MidchainOrderly => []Exclusivity
<1>1. SessionInv => Exclusivity
  BY DEF SessionInv, ActiveInMap, Exclusivity
<1> QED
  BY <1>1, SessionInvariant, PTL

\* Under the same proviso, a connection that the chain still holds can always
\* be found in the map of beginServer.
THEOREM NothingLeaks ==
    Spec /\ MidchainOrderly => []NoLeak
<1>1. SessionInv => NoLeak
  BY DEF SessionInv, HeldIsEstablished, NoLeak
<1> QED
  BY <1>1, SessionInvariant, PTL

\* A step that takes a factory out of the map ends a function of this factory.
LEMMA OwnerEvicts ==
    ASSUME TypeOK, SessionInv, [Next]_vars, NEW f \in Factories, entry = f, entry' # f
    PROVE  InChain(f) /\ ~InChain(f)'
<1> USE DEF InChain, ChainPhases, RequestPhases, ClosePhases
<1>1. \E g \in Factories : InChain(g) /\ Finish(g)
  <2>1. ~Environment /\ ~UNCHANGED vars
    BY DEF Environment, ReceiveRequest, LoadOrStore, ReceiveClose, Fire, Cancel, Factories
  <2>2. ASSUME NEW c \in Calls, CallStep(c) PROVE FALSE
    BY <2>2 DEF CallStep, AsyncExec, RecallLoad, LoadOrStore, Factories
  <2>3. PICK g \in Factories : ExecutorStep(g)
    BY <2>1, <2>2 DEF Next, Terminated
  <2>4. RequestFailure(g) \/ CloseReturn(g) \/ EventCloseReturn(g)
    BY <2>3 DEF ExecutorStep, ChainReturn, ExecutorRuns, RecallReturn, ReselectCloseReturn, RequestSuccess,
                EventRequestSuccess, EventRequestFailure, RequestStale, RequestStart,
                CloseSkip, CloseStart, EventRequest, EventClose, Recall, Enter, Skip
  <2> QED
    BY <2>4 DEF RequestFailure, CloseReturn, EventCloseReturn
<1>2. PICK g \in Factories : InChain(g) /\ Finish(g)
  BY <1>1
<1>3. g = f
  BY <1>2 DEF SessionInv, ActiveInMap
<1> QED
  BY <1>2, <1>3 DEF Finish, TypeOK

\* Under the same proviso, the map of beginServer loses a factory only through
\* a function that this factory's own executor runs to its end.
THEOREM OnlyOwnerEvicts ==
    Spec /\ MidchainOrderly => EvictedByOwner
<1> DEFINE Evicts == \A f \in Factories : entry = f /\ entry' # f => InChain(f) /\ ~InChain(f)'
<1>1. TypeOK /\ SessionInv /\ [Next]_vars => [Evicts]_vars
  BY OwnerEvicts
<1> QED
  BY <1>1, SessionInvariant, TypeCorrect, PTL DEF Spec, EvictedByOwner

-----------------------------------------------------------------------------
(* All begin elements.                                                     *)

(* The steps of an element that is no beginServer.                         *)

\* The elements that give the chain clones of what they have been asked for.
Clones == element \in {"client", "endpoint client", "service client"}

\* An endpoint element of the registry; here every call is run or repeated.
EndpointElement == element \in {"endpoint server", "endpoint client"}

\* A call is received, queued, or looks its factory up again.
CallMoves(c) ==
    \/ /\ pc[c] = "new"
       /\ \E o \in {"request", "close"} : op' = [op EXCEPT ![c] = o]
       /\ LoadOrStore(c)
       /\ UNCHANGED <<state, request, queue, phase, ctx>>
       /\ UNCHANGED chainVars
    \/ ~EndpointElement /\ ReceiveClose(c)
    \/ AsyncExec(c)
    \/ RecallLoad(c)

\* An event is fired or cancelled.
EventMoves(e) ==
    \/ \E f \in Factories, o \in CallOps : Fire(e, f, o)
    \/ Cancel(e)

\* The executor of f starts the function of call c.
CallStarts(f, c) ==
    /\ CanStart(f, c)
    /\ \/ entry # f /\ Recall(f, c)
       \/ entry = f /\ op[c] = "request" /\ Enter(f, "request")
       \/ /\ entry = f /\ op[c] = "close"
          /\ element = "client" => state[f] = "established"
          /\ Enter(f, "close")
       \/ ~EndpointElement /\ Skip(f)

\* The executor of f starts the function of event e.
EventStarts(f, e) ==
    /\ CanStart(f, e)
    /\ \/ state[f] = "established" /\ Enter(f, "eventRequest")
       \/ state[f] = "established" /\ Enter(f, "reselectClose")
       \/ /\ op[e] = "close" /\ request[f] # None /\ ctx[e] = "live"
          /\ Enter(f, "eventClose")
       \/ Skip(f)

\* The chain's Request returns a connection.
RequestSucceeds(f) ==
    /\ phase[f] \in RequestPhases
    /\ ChainConnects(f)
    /\ Finish(f)
    /\ state' = IF phase[f] = "request" THEN [state EXCEPT ![f] = "established"] ELSE state
    /\ UNCHANGED <<entry, created, op, target, ctx>>

\* The chain's Request returns an error: of an established session, or of none.
RequestFails(f) ==
    \/ /\ phase[f] = "eventRequest" \/ (phase[f] = "request" /\ state[f] = "established")
       /\ Finish(f)
       /\ UNCHANGED <<entry, created, state, op, target, ctx, last, held>>
       /\ \/ UNCHANGED <<request, minted>>
          \/ /\ ~Clones /\ phase[f] = "eventRequest"
             /\ minted' = minted + 1
             /\ request' = [request EXCEPT ![f] = minted + 1]
    \/ /\ phase[f] = "request" /\ state[f] # "established"
       /\ AfterClose(f) /\ EndSession(f)
       /\ Finish(f)
       /\ UNCHANGED <<created, request, op, target>>
       /\ UNCHANGED chainVars

\* The chain's Close returns.
CloseEnds(f) ==
    /\ phase[f] \in {"close", "eventClose"}
    /\ ChainCloses /\ EndSession(f)
    /\ AfterClose(f)
    /\ Finish(f)
    /\ UNCHANGED <<created, request, op, target>>

\* The Close of a reselecting event returns.
ReselectCloseEnds(f) ==
    /\ phase[f] = "reselectClose"
    /\ ChainCloses /\ EndSession(f)
    /\ phase' = [phase EXCEPT ![f] = "eventRequest"]
    /\ UNCHANGED <<entry, created, state, request, queue, op, pc, target>>

ElementStep ==
    /\ UNCHANGED <<midchain, element>>
    /\ \/ \E c \in Calls : CallMoves(c)
       \/ \E e \in Events : EventMoves(e)
       \/ \E f \in Factories :
             \/ \E c \in Calls : CallStarts(f, c)
             \/ \E e \in Events : EventStarts(f, e)
             \/ RecallReturn(f)
             \/ RequestSucceeds(f)
             \/ RequestFails(f)
             \/ CloseEnds(f)
             \/ ReselectCloseEnds(f)
       \/ UNCHANGED vars

-----------------------------------------------------------------------------
(* beginClient and the registry's elements take such steps.                *)

\* The operators of module Begin mean the same in the client.
LEMMA ClientShares ==
    /\ \A f \in Factories :
          /\ NetworkServiceClient!Skip(f) <=> Skip(f)
          /\ NetworkServiceClient!Finish(f) <=> Finish(f)
          /\ NetworkServiceClient!ChainConnects(f) <=> ChainConnects(f)
          /\ NetworkServiceClient!EndSession(f) <=> EndSession(f)
          /\ NetworkServiceClient!AfterClose(f) <=> AfterClose(f)
          /\ NetworkServiceClient!RecallReturn(f) <=> RecallReturn(f)
          /\ \A t \in Tasks : NetworkServiceClient!CanStart(f, t) <=> CanStart(f, t)
          /\ \A t \in Tasks : NetworkServiceClient!Recall(f, t) <=> Recall(f, t)
          /\ \A p \in Phases : NetworkServiceClient!Enter(f, p) <=> Enter(f, p)
          /\ \A e \in Events, o \in CallOps : NetworkServiceClient!Fire(e, f, o) <=> Fire(e, f, o)
    /\ \A c \in Calls :
          /\ NetworkServiceClient!LoadOrStore(c) <=> LoadOrStore(c)
          /\ NetworkServiceClient!AsyncExec(c) <=> AsyncExec(c)
          /\ NetworkServiceClient!RecallLoad(c) <=> RecallLoad(c)
    /\ \A e \in Events : NetworkServiceClient!Cancel(e) <=> Cancel(e)
    /\ NetworkServiceClient!ChainCloses <=> ChainCloses
    /\ NetworkServiceClient!Factories = Factories
    /\ NetworkServiceClient!Terminated => UNCHANGED vars
<1> USE DEF NetworkServiceClient!None, NetworkServiceClient!factoryVars, NetworkServiceClient!chainVars,
            NetworkServiceClient!taskVars, NetworkServiceClient!vars
<1>1. NetworkServiceClient!Factories = Factories
  BY DEF NetworkServiceClient!Factories, Factories
<1>2. /\ \A f \in Factories : NetworkServiceClient!InChain(f) <=> InChain(f)
      /\ NetworkServiceClient!MidchainOrderly <=> MidchainOrderly
      /\ \A f \in Factories : NetworkServiceClient!LateCloses(f) = LateCloses(f)
      /\ \A f \in Factories : NetworkServiceClient!Current(f) = Current(f)
  BY DEF NetworkServiceClient!InChain, InChain, NetworkServiceClient!MidchainOrderly,
         MidchainOrderly, NetworkServiceClient!LateCloses, LateCloses,
         NetworkServiceClient!Current, Current, NetworkServiceClient!ChainPhases, ChainPhases,
         NetworkServiceClient!RequestPhases, RequestPhases, NetworkServiceClient!ClosePhases, ClosePhases
<1>3. \A f \in Factories :
         /\ NetworkServiceClient!Finish(f) <=> Finish(f)
         /\ NetworkServiceClient!ChainConnects(f) <=> ChainConnects(f)
         /\ NetworkServiceClient!EndSession(f) <=> EndSession(f)
         /\ NetworkServiceClient!AfterClose(f) <=> AfterClose(f)
         /\ \A t \in Tasks : NetworkServiceClient!CanStart(f, t) <=> CanStart(f, t)
         /\ \A t \in Tasks : NetworkServiceClient!Recall(f, t) <=> Recall(f, t)
         /\ \A p \in Phases : NetworkServiceClient!Enter(f, p) <=> Enter(f, p)
  BY <1>2 DEF NetworkServiceClient!Finish, Finish, NetworkServiceClient!ChainConnects, ChainConnects,
         NetworkServiceClient!EndSession, EndSession, NetworkServiceClient!AfterClose, AfterClose, NetworkServiceClient!CanStart, CanStart,
         NetworkServiceClient!Recall, Recall, NetworkServiceClient!Enter, Enter
<1>4. \A f \in Factories : NetworkServiceClient!Skip(f) <=> Skip(f)
  BY <1>3 DEF NetworkServiceClient!Skip, Skip
<1>5. \A f \in Factories : NetworkServiceClient!RecallReturn(f) <=> RecallReturn(f)
  BY <1>2, <1>4 DEF NetworkServiceClient!RecallReturn, RecallReturn
<1>6. \A f \in Factories, e \in Events, o \in CallOps : NetworkServiceClient!Fire(e, f, o) <=> Fire(e, f, o)
  BY <1>2 DEF NetworkServiceClient!Fire, Fire, NetworkServiceClient!Exposed, Exposed
<1>7. \A c \in Calls :
         /\ NetworkServiceClient!LoadOrStore(c) <=> LoadOrStore(c)
         /\ NetworkServiceClient!AsyncExec(c) <=> AsyncExec(c)
  BY DEF NetworkServiceClient!LoadOrStore, LoadOrStore, NetworkServiceClient!AsyncExec, AsyncExec
<1>8. \A c \in Calls : NetworkServiceClient!RecallLoad(c) <=> RecallLoad(c)
  BY <1>7 DEF NetworkServiceClient!RecallLoad, RecallLoad
<1>9. \A e \in Events : NetworkServiceClient!Cancel(e) <=> Cancel(e)
  BY DEF NetworkServiceClient!Cancel, Cancel
<1>10. NetworkServiceClient!ChainCloses <=> ChainCloses
  BY <1>2 DEF NetworkServiceClient!ChainCloses, ChainCloses
<1>11. NetworkServiceClient!Terminated => UNCHANGED vars
  BY DEF NetworkServiceClient!Terminated
<1> QED
  BY <1>1, <1>3, <1>4, <1>5, <1>6, <1>7, <1>8, <1>9, <1>10, <1>11

\* The operators of module Begin mean the same in the registry.
LEMMA RegistryShares ==
    /\ \A f \in Factories :
          /\ Registry!Skip(f) <=> Skip(f)
          /\ Registry!Finish(f) <=> Finish(f)
          /\ Registry!ChainConnects(f) <=> ChainConnects(f)
          /\ Registry!EndSession(f) <=> EndSession(f)
          /\ Registry!AfterClose(f) <=> AfterClose(f)
          /\ Registry!RecallReturn(f) <=> RecallReturn(f)
          /\ \A t \in Tasks : Registry!CanStart(f, t) <=> CanStart(f, t)
          /\ \A t \in Tasks : Registry!Recall(f, t) <=> Recall(f, t)
          /\ \A p \in Phases : Registry!Enter(f, p) <=> Enter(f, p)
          /\ \A e \in Events, o \in CallOps : Registry!Fire(e, f, o) <=> Fire(e, f, o)
    /\ \A c \in Calls :
          /\ Registry!LoadOrStore(c) <=> LoadOrStore(c)
          /\ Registry!AsyncExec(c) <=> AsyncExec(c)
          /\ Registry!RecallLoad(c) <=> RecallLoad(c)
    /\ \A e \in Events : Registry!Cancel(e) <=> Cancel(e)
    /\ Registry!ChainCloses <=> ChainCloses
    /\ Registry!Factories = Factories
    /\ Registry!Terminated => UNCHANGED vars
<1> USE DEF Registry!None, Registry!factoryVars, Registry!chainVars,
            Registry!taskVars, Registry!vars
<1>1. Registry!Factories = Factories
  BY DEF Registry!Factories, Factories
<1>2. /\ \A f \in Factories : Registry!InChain(f) <=> InChain(f)
      /\ Registry!MidchainOrderly <=> MidchainOrderly
      /\ \A f \in Factories : Registry!LateCloses(f) = LateCloses(f)
      /\ \A f \in Factories : Registry!Current(f) = Current(f)
  BY DEF Registry!InChain, InChain, Registry!MidchainOrderly,
         MidchainOrderly, Registry!LateCloses, LateCloses,
         Registry!Current, Current, Registry!ChainPhases, ChainPhases,
         Registry!RequestPhases, RequestPhases, Registry!ClosePhases, ClosePhases
<1>3. \A f \in Factories :
         /\ Registry!Finish(f) <=> Finish(f)
         /\ Registry!ChainConnects(f) <=> ChainConnects(f)
         /\ Registry!EndSession(f) <=> EndSession(f)
         /\ Registry!AfterClose(f) <=> AfterClose(f)
         /\ \A t \in Tasks : Registry!CanStart(f, t) <=> CanStart(f, t)
         /\ \A t \in Tasks : Registry!Recall(f, t) <=> Recall(f, t)
         /\ \A p \in Phases : Registry!Enter(f, p) <=> Enter(f, p)
  BY <1>2 DEF Registry!Finish, Finish, Registry!ChainConnects, ChainConnects,
         Registry!EndSession, EndSession, Registry!AfterClose, AfterClose, Registry!CanStart, CanStart,
         Registry!Recall, Recall, Registry!Enter, Enter
<1>4. \A f \in Factories : Registry!Skip(f) <=> Skip(f)
  BY <1>3 DEF Registry!Skip, Skip
<1>5. \A f \in Factories : Registry!RecallReturn(f) <=> RecallReturn(f)
  BY <1>2, <1>4 DEF Registry!RecallReturn, RecallReturn
<1>6. \A f \in Factories, e \in Events, o \in CallOps : Registry!Fire(e, f, o) <=> Fire(e, f, o)
  BY <1>2 DEF Registry!Fire, Fire, Registry!Exposed, Exposed
<1>7. \A c \in Calls :
         /\ Registry!LoadOrStore(c) <=> LoadOrStore(c)
         /\ Registry!AsyncExec(c) <=> AsyncExec(c)
  BY DEF Registry!LoadOrStore, LoadOrStore, Registry!AsyncExec, AsyncExec
<1>8. \A c \in Calls : Registry!RecallLoad(c) <=> RecallLoad(c)
  BY <1>7 DEF Registry!RecallLoad, RecallLoad
<1>9. \A e \in Events : Registry!Cancel(e) <=> Cancel(e)
  BY DEF Registry!Cancel, Cancel
<1>10. Registry!ChainCloses <=> ChainCloses
  BY <1>2 DEF Registry!ChainCloses, ChainCloses
<1>11. Registry!Terminated => UNCHANGED vars
  BY DEF Registry!Terminated
<1> QED
  BY <1>1, <1>3, <1>4, <1>5, <1>6, <1>7, <1>8, <1>9, <1>10, <1>11

LEMMA ClientSteps ==
    ASSUME element = "client", element' = element, NetworkServiceClient!Next
    PROVE  ElementStep
<1> USE ClientShares
<1>1. ASSUME NEW c \in Calls,
             NetworkServiceClient!ReceiveRequest(c) \/ NetworkServiceClient!ReceiveClose(c)
             \/ NetworkServiceClient!CallStep(c)
      PROVE  CallMoves(c)
  BY <1>1 DEF NetworkServiceClient!ReceiveRequest, NetworkServiceClient!ReceiveClose,
              NetworkServiceClient!CallStep, NetworkServiceClient!factoryVars,
              NetworkServiceClient!chainVars, NetworkServiceClient!None,
              ReceiveClose, CallMoves, EndpointElement
<1>2. ASSUME NEW e \in Events, NEW f \in Factories,
             \/ NetworkServiceClient!Fire(e, f, "request")
             \/ NetworkServiceClient!Fire(e, f, "reselect")
             \/ NetworkServiceClient!Fire(e, f, "close")
      PROVE  EventMoves(e)
  BY <1>2 DEF EventMoves, CallOps
<1>3. ASSUME NEW e \in Events, NetworkServiceClient!Cancel(e) PROVE EventMoves(e)
  BY <1>3 DEF EventMoves
<1>4. ASSUME NEW f \in Factories, NEW c \in Calls,
             \/ NetworkServiceClient!RequestStale(f, c)
             \/ NetworkServiceClient!RequestStart(f, c)
             \/ NetworkServiceClient!CloseSkip(f, c)
             \/ NetworkServiceClient!CloseStart(f, c)
      PROVE  CallStarts(f, c)
  <2>1. c \in Tasks /\ "request" \in Phases /\ "close" \in Phases
    BY DEF Tasks, Phases, ChainPhases, RequestPhases, ClosePhases
  <2> QED
    BY <1>4, <2>1 DEF NetworkServiceClient!RequestStale, NetworkServiceClient!RequestStart,
                NetworkServiceClient!CloseSkip, NetworkServiceClient!CloseStart,
                NetworkServiceClient!IsRequest, NetworkServiceClient!IsClose,
                NetworkServiceClient!Closable, CallStarts, EndpointElement
<1>5. ASSUME NEW f \in Factories, NEW e \in Events,
             NetworkServiceClient!EventRequest(f, e) \/ NetworkServiceClient!EventClose(f, e)
      PROVE  EventStarts(f, e)
  <2>1. e \in Tasks /\ {"eventRequest", "reselectClose", "eventClose"} \subseteq Phases
    BY DEF Tasks, Phases, ChainPhases, RequestPhases, ClosePhases
  <2> QED
    BY <1>5, <2>1 DEF NetworkServiceClient!EventRequest, NetworkServiceClient!EventClose,
                      NetworkServiceClient!EventRequestRuns,
                      NetworkServiceClient!EventCloseRuns, NetworkServiceClient!None,
                      EventStarts
<1>6. ASSUME NEW f \in Factories,
             NetworkServiceClient!RequestSuccess(f) \/ NetworkServiceClient!EventRequestSuccess(f)
      PROVE  RequestSucceeds(f)
  BY <1>6 DEF NetworkServiceClient!RequestSuccess, NetworkServiceClient!EventRequestSuccess,
              RequestSucceeds, RequestPhases
<1>7. ASSUME NEW f \in Factories,
             NetworkServiceClient!RequestFailure(f) \/ NetworkServiceClient!EventRequestFailure(f)
      PROVE  RequestFails(f)
  BY <1>7 DEF NetworkServiceClient!RequestFailure, NetworkServiceClient!EventRequestFailure,
              NetworkServiceClient!chainVars, NetworkServiceClient!None, RequestFails,
              AfterClose, Skip
<1>8. ASSUME NEW f \in Factories,
             NetworkServiceClient!CloseReturn(f) \/ NetworkServiceClient!EventCloseReturn(f)
      PROVE  CloseEnds(f)
  BY <1>8 DEF NetworkServiceClient!CloseReturn, NetworkServiceClient!EventCloseReturn,
              CloseEnds
<1>9. ASSUME NEW f \in Factories, NetworkServiceClient!ReselectCloseReturn(f)
      PROVE  ReselectCloseEnds(f)
  BY <1>9 DEF NetworkServiceClient!ReselectCloseReturn, ReselectCloseEnds
<1> QED
  BY <1>1, <1>2, <1>3, <1>4, <1>5, <1>6, <1>7, <1>8, <1>9
     DEF NetworkServiceClient!Next, NetworkServiceClient!Environment,
         NetworkServiceClient!ExecutorStep, ElementStep

LEMMA RegistrySteps ==
    ASSUME element \in Registry!Elements, Registry!Next
    PROVE  ElementStep
<1> USE RegistryShares
<1>0. /\ Registry!Endpoint <=> EndpointElement
      /\ Registry!Client <=> Clones
      /\ element # "client"
  BY DEF Registry!Elements, Registry!Endpoint, Registry!Client, EndpointElement, Clones
<1>1. ASSUME NEW c \in Calls,
             \/ Registry!ReceiveRegister(c) \/ Registry!ReceiveUnregister(c)
             \/ Registry!AsyncExec(c) \/ Registry!RecallLoad(c)
      PROVE  CallMoves(c)
  BY <1>0, <1>1 DEF Registry!ReceiveRegister, Registry!ReceiveUnregister,
                    Registry!LoadForUnregister, Registry!chainVars, Registry!None,
                    ReceiveClose, CallMoves
<1>2. ASSUME NEW e \in Events, NEW f \in Factories,
             Registry!Fire(e, f, "request") \/ Registry!Fire(e, f, "close")
      PROVE  EventMoves(e)
  BY <1>2 DEF EventMoves, CallOps
<1>3. ASSUME NEW e \in Events, Registry!Cancel(e) PROVE EventMoves(e)
  BY <1>3 DEF EventMoves
<1>4. ASSUME NEW f \in Factories, NEW c \in Calls,
             \/ Registry!RegisterStale(f, c)
             \/ Registry!RegisterStart(f, c)
             \/ Registry!UnregisterStale(f, c)
             \/ Registry!UnregisterSkip(f, c)
             \/ Registry!UnregisterStart(f, c)
      PROVE  CallStarts(f, c)
  <2>1. c \in Tasks /\ "request" \in Phases /\ "close" \in Phases
    BY DEF Tasks, Phases, ChainPhases, RequestPhases, ClosePhases
  <2> QED
    BY <1>0, <1>4, <2>1 DEF Registry!RegisterStale, Registry!RegisterStart,
                Registry!UnregisterStale, Registry!UnregisterSkip, Registry!UnregisterStart,
                Registry!RunsFor, Registry!Unregisterable, CallStarts
<1>5. ASSUME NEW f \in Factories, NEW e \in Events,
             Registry!EventRegister(f, e) \/ Registry!EventUnregister(f, e)
      PROVE  EventStarts(f, e)
  <2>1. e \in Tasks /\ {"eventRequest", "eventClose"} \subseteq Phases
    BY DEF Tasks, Phases, ChainPhases, RequestPhases, ClosePhases
  <2> QED
    BY <1>5, <2>1 DEF Registry!EventRegister, Registry!EventUnregister, Registry!None,
                      EventStarts
<1>6. ASSUME NEW f \in Factories,
             Registry!RegisterSuccess(f) \/ Registry!EventRegisterSuccess(f)
      PROVE  RequestSucceeds(f)
  BY <1>6 DEF Registry!RegisterSuccess, Registry!EventRegisterSuccess,
              RequestSucceeds, RequestPhases
<1>7. ASSUME NEW f \in Factories,
             Registry!RegisterFailure(f) \/ Registry!EventRegisterFailure(f)
      PROVE  RequestFails(f)
  BY <1>0, <1>7 DEF Registry!RegisterFailure, Registry!EventRegisterFailure,
              Registry!chainVars, Registry!None, RequestFails, AfterClose
<1>8. ASSUME NEW f \in Factories, Registry!UnregisterReturn(f) PROVE CloseEnds(f)
  BY <1>8 DEF Registry!UnregisterReturn, CloseEnds
<1>9. Registry!Terminated => UNCHANGED vars
  OBVIOUS
<1>10. Registry!Call \/ Registry!Event \/ (\E e \in Events : Registry!Cancel(e))
       \/ Registry!Terminated
  BY DEF Registry!Next, Registry!beginNSEServer, Registry!beginNSEClient,
         Registry!beginNSServer, Registry!beginNSClient, Registry!eventNSEFactoryServer,
         Registry!eventNSEFactoryClient, Registry!eventNSFactoryServer,
         Registry!eventNSFactoryClient
<1>11. UNCHANGED <<midchain, element>>
  BY DEF Registry!Next
<1> QED
  BY <1>1, <1>2, <1>3, <1>4, <1>5, <1>6, <1>7, <1>8, <1>9, <1>10, <1>11
     DEF Registry!Call, Registry!Event, ElementStep

-----------------------------------------------------------------------------
(* Types.                                                                  *)

LEMMA ElementTypes == TypeOK /\ ElementStep => TypeOK'
<1> SUFFICES ASSUME TypeOK, ElementStep PROVE TypeOK'
  OBVIOUS
<1>0. midchain' = midchain
  BY DEF ElementStep
<1> USE <1>0, DisjointTasks DEF TypeOK
<1>1. ASSUME NEW c \in Calls, CallMoves(c) PROVE TypeOK'
  <2>1. ASSUME NEW o \in {"request", "close"}, op' = [op EXCEPT ![c] = o], LoadOrStore(c),
               UNCHANGED <<state, request, queue, phase, ctx>>, UNCHANGED chainVars
        PROVE  TypeOK'
    <3>1. op' \in [Tasks -> Ops]
      BY <2>1 DEF Ops, CallOps, Tasks
    <3> QED
      BY <2>1, <3>1, LoadOrStoreTypes
  <2>2. CASE ReceiveClose(c)
    BY <2>2 DEF ReceiveClose, Ops, CallOps, Places, Tasks
  <2>3. CASE AsyncExec(c)
    <3>1. /\ queue' \in [Factories -> Seq(Tasks)]
          /\ \A g \in Factories : phase[g] # "idle" => queue'[g] # <<>>
      <4>1. CASE target[c] \in Factories
        BY <2>3, <4>1, AppendTypes DEF AsyncExec, Tasks
      <4>2. CASE target[c] \notin Factories
        BY <2>3, <4>2 DEF AsyncExec
      <4> QED
        BY <4>1, <4>2
    <3> QED
      BY <2>3, <3>1 DEF AsyncExec, Places, Tasks
  <2>4. CASE RecallLoad(c)
    BY <2>4, LoadOrStoreTypes DEF RecallLoad
  <2> QED
    BY <1>1, <2>1, <2>2, <2>3, <2>4 DEF CallMoves
<1>2. ASSUME NEW e \in Events, EventMoves(e) PROVE TypeOK'
  <2>1. ASSUME NEW f \in Factories, NEW o \in CallOps, Fire(e, f, o) PROVE TypeOK'
    <3>1. /\ pc' \in [Tasks -> Places]
          /\ op' \in [Tasks -> Ops]
          /\ target' \in [Tasks -> Factories \cup {None}]
      BY <2>1 DEF Fire, Ops, CallOps, Places, Tasks
    <3>2. ctx' \in [Events -> {"live", "cancelled"}]
      BY <2>1 DEF Fire
    <3>3. /\ queue' \in [Factories -> Seq(Tasks)]
          /\ \A g \in Factories : phase[g] # "idle" => queue'[g] # <<>>
      BY <2>1, AppendTypes DEF Fire, Tasks
    <3> QED
      BY <2>1, <3>1, <3>2, <3>3 DEF Fire
  <2>2. CASE Cancel(e)
    BY <2>2 DEF Cancel
  <2> QED
    BY <1>2, <2>1, <2>2 DEF EventMoves
<1>3. ASSUME NEW f \in Factories PROVE
         \/ \E c \in Calls : CallStarts(f, c)
         \/ \E e \in Events : EventStarts(f, e)
         \/ RecallReturn(f)
         => TypeOK'
  <2> USE DEF Phases, ChainPhases, RequestPhases, ClosePhases
  <2>1. ASSUME NEW c \in Calls, CallStarts(f, c) PROVE TypeOK'
    <3>1. CASE Recall(f, c)
      BY <2>1, <3>1 DEF CallStarts, CanStart, Recall, Places, Tasks
    <3>2. CASE Skip(f)
      BY <2>1, <3>2, SkipTypes DEF CallStarts, CanStart
    <3>3. ASSUME NEW p \in ChainPhases, Enter(f, p) PROVE TypeOK'
      BY <2>1, <3>3, EnterTypes DEF CallStarts, CanStart
    <3> QED
      BY <2>1, <3>1, <3>2, <3>3 DEF CallStarts
  <2>2. ASSUME NEW e \in Events, EventStarts(f, e) PROVE TypeOK'
    <3>1. CASE Skip(f)
      BY <2>2, <3>1, SkipTypes DEF EventStarts, CanStart
    <3>2. ASSUME NEW p \in ChainPhases, Enter(f, p) PROVE TypeOK'
      BY <2>2, <3>2, EnterTypes DEF EventStarts, CanStart
    <3> QED
      BY <2>2, <3>1, <3>2 DEF EventStarts
  <2>3. ASSUME RecallReturn(f) PROVE TypeOK'
    BY <2>3, SkipTypes DEF RecallReturn
  <2> QED
    BY <2>1, <2>2, <2>3
<1>4. ASSUME NEW f \in Factories, RequestSucceeds(f) PROVE TypeOK'
  <2>1. state' \in [Factories -> {"zero", "established", "closed"}]
    BY <1>4 DEF RequestSucceeds
  <2> QED
    BY <1>4, <2>1, FinishTypes DEF RequestSucceeds, ChainConnects, RequestPhases
<1>5. ASSUME NEW f \in Factories, RequestFails(f) PROVE TypeOK'
  <2>1. phase[f] # "idle" /\ Finish(f) /\ UNCHANGED <<created, op, target, last, held>>
    BY <1>5 DEF RequestFails
  <2>2. /\ state' \in [Factories -> {"zero", "established", "closed"}]
        /\ entry' \in Factories \cup {None}
    BY <1>5 DEF RequestFails, AfterClose
  <2>3. ctx' \in [Events -> {"live", "cancelled"}]
    BY <1>5, EndSessionTypes DEF RequestFails
  <2>4. request' \in [Factories -> Nat] /\ minted' \in Nat
    <3>1. CASE UNCHANGED <<request, minted>>
      BY <3>1
    <3>2. CASE minted' = minted + 1 /\ request' = [request EXCEPT ![f] = minted + 1]
      BY <3>2
    <3> QED
      BY <1>5, <3>1, <3>2 DEF RequestFails
  <2> QED
    BY <2>1, <2>2, <2>3, <2>4, FinishTypes
<1>6. ASSUME NEW f \in Factories, CloseEnds(f) PROVE TypeOK'
  BY <1>6, FinishTypes, EndSessionTypes DEF CloseEnds, ChainCloses, AfterClose
<1>7. ASSUME NEW f \in Factories, ReselectCloseEnds(f) PROVE TypeOK'
  BY <1>7, EndSessionTypes DEF ReselectCloseEnds, ChainCloses, Phases, ChainPhases,
                               RequestPhases, ClosePhases
<1>8. CASE UNCHANGED vars
  BY <1>8
<1> QED
  BY <1>1, <1>2, <1>3, <1>4, <1>5, <1>6, <1>7, <1>8 DEF ElementStep

-----------------------------------------------------------------------------
(* WaitInv.                                                                *)

LEMMA ElementWait == TypeOK /\ WaitInv /\ ElementStep => WaitInv'
<1> SUFFICES ASSUME TypeOK, WaitInv, ElementStep PROVE WaitInv'
  OBVIOUS
<1>1. ASSUME NEW c \in Calls, CallMoves(c) PROVE WaitInv'
  <2>1. CASE LoadOrStore(c) /\ UNCHANGED <<queue, phase, state>>
    BY <2>1, LookupWait
  <2>2. CASE ReceiveClose(c)
    BY <2>2, CloseWait
  <2>3. CASE AsyncExec(c)
    BY <2>3, AsyncExecWait
  <2> QED
    BY <1>1, <2>1, <2>2, <2>3 DEF CallMoves, RecallLoad
<1>2. ASSUME NEW e \in Events, EventMoves(e) PROVE WaitInv'
  <2>1. ASSUME NEW f \in Factories, NEW o \in CallOps, Fire(e, f, o) PROVE WaitInv'
    BY <2>1, FireWait
  <2>2. CASE Cancel(e)
    BY <2>2 DEF Cancel, WaitInv, YoungestInMap, WorkOfCreated, RecallIsStale,
                WaitsForYounger, Current
  <2> QED
    BY <1>2, <2>1, <2>2 DEF EventMoves
<1>3. ASSUME NEW f \in Factories, NEW c \in Calls, CallStarts(f, c) PROVE WaitInv'
  <2>1. CASE entry # f /\ Recall(f, c)
    BY <1>3, <2>1, RecallWait DEF CallStarts
  <2>2. CASE Skip(f)
    BY <1>3, <2>2, FinishWait DEF CallStarts, CanStart, Skip
  <2>3. ASSUME NEW p \in ChainPhases, Enter(f, p) PROVE WaitInv'
    BY <1>3, <2>3, EnterWait DEF CallStarts, CanStart, Enter
  <2> QED
    BY <1>3, <2>1, <2>2, <2>3 DEF CallStarts, ChainPhases, RequestPhases, ClosePhases
<1>4. ASSUME NEW f \in Factories, NEW e \in Events, EventStarts(f, e) PROVE WaitInv'
  <2>1. CASE Skip(f)
    BY <1>4, <2>1, FinishWait DEF EventStarts, CanStart, Skip
  <2>2. ASSUME NEW p \in ChainPhases, Enter(f, p) PROVE WaitInv'
    BY <1>4, <2>2, EnterWait DEF EventStarts, CanStart, Enter
  <2> QED
    BY <1>4, <2>1, <2>2 DEF EventStarts, ChainPhases, RequestPhases, ClosePhases
<1>5. ASSUME NEW f \in Factories,
             RecallReturn(f) \/ RequestSucceeds(f) \/ RequestFails(f) \/ CloseEnds(f)
      PROVE  WaitInv'
  <2>1. /\ queue[f] # <<>>
        /\ Finish(f)
        /\ UNCHANGED <<created, target>>
        /\ entry' \in {entry, None}
        /\ \A g \in Factories : g # f => state'[g] = state[g]
    BY <1>5 DEF TypeOK, RecallReturn, Skip, RequestSucceeds, RequestFails, CloseEnds, AfterClose,
                RequestPhases
  <2> QED
    BY <2>1, FinishWait
<1>6. ASSUME NEW f \in Factories, ReselectCloseEnds(f) PROVE WaitInv'
  BY <1>6, EnterWait DEF TypeOK, ReselectCloseEnds, ChainPhases, RequestPhases, ClosePhases
<1>7. CASE UNCHANGED vars
  BY <1>7 DEF WaitInv, YoungestInMap, WorkOfCreated, RecallIsStale, WaitsForYounger, Current
<1> QED
  BY <1>1, <1>2, <1>3, <1>4, <1>5, <1>6, <1>7 DEF ElementStep

-----------------------------------------------------------------------------
(* SessionInv, and what the factories of these elements know of it.        *)

\* An established factory of an element that clones keeps the last Connection
\* that the chain returned.
KeepsLast == Clones => \A f \in Factories : state[f] = "established" => request[f] = last

\* The factory of the map is not closed.
CurrentIsOpen == \A f \in Factories : entry = f => state[f] # "closed"

\* A factory that was never established has no connection.
ZeroIsEmpty == \A f \in Factories : state[f] = "zero" => request[f] = None

\* beginClient closes established connections only, and so does a reselection.
ClosesEstablished ==
    \A f \in Factories :
        phase[f] = "reselectClose" \/ (element = "client" /\ phase[f] \in ClosePhases)
        => state[f] = "established"

ElementInv == KeepsLast /\ CurrentIsOpen /\ ZeroIsEmpty /\ ClosesEstablished

LEMMA ElementSession ==
    MidchainOrderly /\ TypeOK /\ SessionInv /\ ClosesEstablished /\ ElementStep => SessionInv'
<1> SUFFICES ASSUME MidchainOrderly, TypeOK, SessionInv, ClosesEstablished, ElementStep
             PROVE  SessionInv'
  OBVIOUS
<1> USE DEF TypeOK, InChain, ChainPhases, RequestPhases, ClosePhases
<1>1. ASSUME NEW c \in Calls, CallMoves(c) PROVE SessionInv'
  <2>1. ASSUME NEW o \in {"request", "close"}, op' = [op EXCEPT ![c] = o], LoadOrStore(c),
               UNCHANGED <<state, request, queue, phase, ctx>>, UNCHANGED chainVars
        PROVE  SessionInv'
    <3>1. \A e \in Events : op'[e] = op[e]
      BY <2>1, DisjointTasks DEF Tasks
    <3> QED
      BY <2>1, <3>1, LookupSession
  <2>2. CASE ReceiveClose(c)
    BY <2>2, CloseSession
  <2>3. CASE AsyncExec(c)
    BY <2>3, AsyncExecSession
  <2>4. CASE RecallLoad(c)
    BY <2>4, LookupSession DEF RecallLoad
  <2> QED
    BY <1>1, <2>1, <2>2, <2>3, <2>4 DEF CallMoves
<1>2. ASSUME NEW e \in Events, EventMoves(e) PROVE SessionInv'
  <2>1. ASSUME NEW f \in Factories, NEW o \in CallOps, Fire(e, f, o) PROVE SessionInv'
    BY <2>1, FireSession
  <2>2. CASE Cancel(e)
    BY <2>2 DEF Cancel, SessionInv, ActiveInMap, NoLateClose, EventRequestEstablished,
                EventsInPlace, HeldIsEstablished
  <2> QED
    BY <1>2, <2>1, <2>2 DEF EventMoves
<1>3. ASSUME NEW f \in Factories, NEW c \in Calls, CallStarts(f, c) PROVE SessionInv'
  <2>1. CASE Recall(f, c)
    BY <1>3, <2>1, RecallSession DEF CallStarts
  <2>2. CASE Skip(f)
    BY <1>3, <2>2, SkipSession DEF CallStarts, CanStart
  <2>3. ASSUME NEW p \in {"request", "close"}, entry = f, Enter(f, p) PROVE SessionInv'
    BY <1>3, <2>3, EnterSession DEF CallStarts, CanStart
  <2> QED
    BY <1>3, <2>1, <2>2, <2>3 DEF CallStarts
<1>4. ASSUME NEW f \in Factories, NEW e \in Events, EventStarts(f, e) PROVE SessionInv'
  <2>1. CASE Skip(f)
    BY <1>4, <2>1, SkipSession DEF EventStarts, CanStart
  <2>2. CASE op[e] = "close" /\ EventCloseRuns(f, e) /\ Enter(f, "eventClose")
    BY <1>4, <2>2, EventCloseSession DEF EventStarts
  <2>3. ASSUME NEW p \in {"eventRequest", "reselectClose"}, state[f] = "established",
               Enter(f, p)
        PROVE  SessionInv'
    <3>1. entry = f /\ phase[f] = "idle"
      BY <1>4, <2>3 DEF EventStarts, CanStart, SessionInv, ActiveInMap
    <3> QED
      BY <2>3, <3>1, EnterSession
  <2> QED
    BY <1>4, <2>1, <2>2, <2>3 DEF EventStarts, EventCloseRuns
<1>5. ASSUME NEW f \in Factories, RecallReturn(f) PROVE SessionInv'
  BY <1>5, SkipSession DEF RecallReturn
<1>6. ASSUME NEW f \in Factories, RequestSucceeds(f) PROVE SessionInv'
  <2>1. state' = [state EXCEPT ![f] = "established"]
    BY <1>6 DEF RequestSucceeds, SessionInv, EventRequestEstablished
  <2> QED
    BY <1>6, <2>1, StaysEstablished DEF RequestSucceeds, ChainConnects
<1>7. ASSUME NEW f \in Factories, RequestFails(f) PROVE SessionInv'
  <2>1. CASE phase[f] = "eventRequest" \/ state[f] = "established"
    <3>1. InChain(f) /\ Finish(f) /\ UNCHANGED <<entry, op, target, ctx>>
      BY <1>7, <2>1 DEF RequestFails
    <3>2. state' = [state EXCEPT ![f] = "established"]
      BY <1>7, <2>1 DEF RequestFails, SessionInv, EventRequestEstablished
    <3>3. \A g \in Factories : g # f => request'[g] = request[g]
      BY <1>7, <2>1 DEF RequestFails
    <3> QED
      BY <3>1, <3>2, <3>3, StaysEstablished
  <2>2. CASE phase[f] = "request" /\ state[f] # "established"
    BY <1>7, <2>2, SessionEnds DEF RequestFails
  <2> QED
    BY <1>7, <2>1, <2>2 DEF RequestFails
<1>8. ASSUME NEW f \in Factories, CloseEnds(f) PROVE SessionInv'
  BY <1>8, SessionEnds DEF CloseEnds, ChainCloses
<1>9. ASSUME NEW f \in Factories, ReselectCloseEnds(f) PROVE SessionInv'
  <2> USE <1>9 DEF ReselectCloseEnds, SessionInv, ChainCloses
  <2>1. entry = f /\ state[f] = "established"
    BY DEF ActiveInMap, ClosesEstablished
  <2>2. ActiveInMap'
    BY <2>1 DEF ActiveInMap
  <2>3. NoLateClose'
    BY DEF NoLateClose, EndSession
  <2>4. EventRequestEstablished'
    BY <2>1 DEF EventRequestEstablished
  <2>5. EventsInPlace'
    BY SameInPlace
  <2> QED
    BY <2>2, <2>3, <2>4, <2>5 DEF HeldIsEstablished
<1>10. CASE UNCHANGED vars
  BY <1>10 DEF SessionInv, ActiveInMap, NoLateClose, EventRequestEstablished,
               EventsInPlace, HeldIsEstablished
<1> QED
  BY <1>1, <1>2, <1>3, <1>4, <1>5, <1>6, <1>7, <1>8, <1>9, <1>10 DEF ElementStep

\* What does not touch the sessions keeps what the factories know of them.
LEMMA SameElement ==
    ASSUME TypeOK, ElementInv, UNCHANGED <<state, request, last, element>>,
           \A f \in Factories : entry' = f => entry = f \/ state[f] = "zero",
           \A f \in Factories : phase'[f] \in {phase[f], "idle", "recall", "request",
                                               "eventRequest"}
    PROVE  ElementInv'
BY DEF ElementInv, KeepsLast, CurrentIsOpen, ZeroIsEmpty, ClosesEstablished, Clones,
       ClosePhases

LEMMA ElementKnows ==
    TypeOK /\ WaitInv /\ SessionInv /\ ElementInv /\ ElementStep => ElementInv'
<1> SUFFICES ASSUME TypeOK, WaitInv, SessionInv, ElementInv, ElementStep PROVE ElementInv'
  OBVIOUS
<1>0. element' = element
  BY DEF ElementStep
<1> USE <1>0 DEF TypeOK, InChain, ChainPhases, RequestPhases, ClosePhases
<1>1. ASSUME NEW c \in Calls, CallMoves(c) PROVE ElementInv'
  <2>1. UNCHANGED <<state, request, last, phase>>
    BY <1>1 DEF CallMoves, ReceiveClose, AsyncExec, RecallLoad
  <2>2. CASE LoadOrStore(c)
    <3>1. \A f \in Factories : entry' = f => entry = f \/ state[f] = "zero"
      BY <2>2, MaxFactoryAssumption DEF LoadOrStore, WaitInv, WorkOfCreated, Factories
    <3> QED
      BY <2>1, <3>1, SameElement
  <2>3. CASE entry' = entry
    BY <2>1, <2>3, SameElement
  <2> QED
    BY <1>1, <2>2, <2>3 DEF CallMoves, ReceiveClose, AsyncExec, RecallLoad
<1>2. ASSUME NEW e \in Events, EventMoves(e) PROVE ElementInv'
  BY <1>2, SameElement DEF EventMoves, Fire, Cancel
<1>3. ASSUME NEW f \in Factories, NEW c \in Calls, CallStarts(f, c) PROVE ElementInv'
  <2>1. CASE Enter(f, "close") /\ entry = f /\ (element = "client" => state[f] = "established")
    BY <2>1 DEF Enter, ElementInv, KeepsLast, CurrentIsOpen, ZeroIsEmpty,
                ClosesEstablished, Clones
  <2>2. CASE Recall(f, c) \/ Enter(f, "request") \/ Skip(f)
    BY <2>2, SameElement DEF Recall, Enter, Skip, Finish
  <2> QED
    BY <1>3, <2>1, <2>2 DEF CallStarts
<1>4. ASSUME NEW f \in Factories, NEW e \in Events, EventStarts(f, e) PROVE ElementInv'
  <2>1. CASE Enter(f, "eventRequest") \/ Skip(f)
    BY <2>1, SameElement DEF Enter, Skip, Finish
  <2>2. ASSUME NEW p \in {"eventClose", "reselectClose"}, state[f] = "established", Enter(f, p)
        PROVE  ElementInv'
    BY <2>2 DEF Enter, ElementInv, KeepsLast, CurrentIsOpen, ZeroIsEmpty,
                ClosesEstablished, Clones
  <2>3. op[e] = "close" /\ EventCloseRuns(f, e) /\ Enter(f, "eventClose")
        => state[f] = "established"
    BY <1>4, EventCloseSession DEF EventStarts
  <2> QED
    BY <1>4, <2>1, <2>2, <2>3 DEF EventStarts, EventCloseRuns
<1>5. ASSUME NEW f \in Factories, RecallReturn(f) PROVE ElementInv'
  BY <1>5, SameElement DEF RecallReturn, Skip, Finish
<1>6. ASSUME NEW f \in Factories, RequestSucceeds(f) PROVE ElementInv'
  <2>1. entry = f /\ state'[f] = "established" /\ state' = [state EXCEPT ![f] = "established"]
    BY <1>6 DEF RequestSucceeds, SessionInv, EventRequestEstablished, ActiveInMap
  <2>2. \A g \in Factories : state[g] = "established" => g = f
    BY <2>1 DEF SessionInv, ActiveInMap
  <2>3. /\ entry' = entry
        /\ phase' = [phase EXCEPT ![f] = "idle"]
        /\ last' = minted + 1 /\ request' = [request EXCEPT ![f] = minted + 1]
    BY <1>6 DEF RequestSucceeds, ChainConnects, Finish
  <2>4. KeepsLast'
    BY <2>1, <2>2, <2>3 DEF KeepsLast
  <2>5. CurrentIsOpen' /\ ZeroIsEmpty' /\ ClosesEstablished'
    BY <2>1, <2>3 DEF ElementInv, CurrentIsOpen, ZeroIsEmpty, ClosesEstablished
  <2> QED
    BY <2>4, <2>5 DEF ElementInv
<1>7. ASSUME NEW f \in Factories, RequestFails(f) \/ CloseEnds(f) PROVE ElementInv'
  <2>1. last' = last /\ phase' = [phase EXCEPT ![f] = "idle"]
    BY <1>7 DEF RequestFails, CloseEnds, ChainCloses, Finish
  <2>2. CASE UNCHANGED <<state, entry, request>>
    BY <2>1, <2>2, SameElement
  <2>3. CASE ~Clones /\ state[f] = "established" /\ UNCHANGED <<state, entry>>
             /\ request' = [request EXCEPT ![f] = minted + 1]
    BY <2>1, <2>3 DEF ElementInv, KeepsLast, CurrentIsOpen, ZeroIsEmpty, ClosesEstablished,
                      Clones
  <2>4. CASE AfterClose(f) /\ UNCHANGED request
    <3>1. /\ state'[f] = "closed" /\ phase'[f] = "idle"
          /\ \A g \in Factories : g # f => state'[g] = state[g] /\ phase'[g] = phase[g]
          /\ \A g \in Factories : entry' # g
      BY <2>1, <2>4 DEF AfterClose, Factories
    <3> QED
      BY <2>1, <2>4, <3>1 DEF ElementInv, KeepsLast, CurrentIsOpen, ZeroIsEmpty,
                              ClosesEstablished, Clones
  <2> QED
    BY <1>7, <2>2, <2>3, <2>4 DEF RequestFails, CloseEnds, SessionInv, EventRequestEstablished
<1>8. ASSUME NEW f \in Factories, ReselectCloseEnds(f) PROVE ElementInv'
  BY <1>8, SameElement DEF ReselectCloseEnds, ChainCloses
<1>9. CASE UNCHANGED vars
  BY <1>9, SameElement
<1> QED
  BY <1>1, <1>2, <1>3, <1>4, <1>5, <1>6, <1>7, <1>8, <1>9 DEF ElementStep

-----------------------------------------------------------------------------
(* The calls in the queues.                                                *)

\* What is at place i of the queue of f is a call, and not one that f has found
\* to be somebody else's and waits for.
Settled(f, i) == queue[f][i] \in Calls /\ (i = 1 => phase[f] # "recall")

\* Such a call was looked up for f and has not been run to its end.
CallsInPlace ==
    \A f \in Factories : \A i \in 1 .. Len(queue[f]) :
        Settled(f, i) => pc[queue[f][i]] = "queued" /\ target[queue[f][i]] = f

\* It is in the queue once.
QueuedOnce ==
    \A f \in Factories : \A i, j \in 1 .. Len(queue[f]) :
        Settled(f, i) /\ Settled(f, j) /\ queue[f][i] = queue[f][j] => i = j

\* An executor is in a part of the chain that its current task asks for.
PhaseFits ==
    \A f \in Factories :
        /\ phase[f] = "request" => Current(f) \in Calls /\ op[Current(f)] # "close"
        /\ phase[f] = "close" => Current(f) \in Calls /\ op[Current(f)] = "close"
        /\ phase[f] \in {"eventRequest", "eventClose", "reselectClose"} => Current(f) \in Events

CallsInv == CallsInPlace /\ QueuedOnce /\ PhaseFits

\* The current call of an executor that does not wait for another one is settled.
LEMMA CurrentSettled ==
    ASSUME TypeOK, CallsInPlace, NEW f \in Factories, queue[f] # <<>>, phase[f] # "recall",
           Current(f) \in Calls
    PROVE  /\ 1 \in 1 .. Len(queue[f]) /\ queue[f][1] = Current(f)
           /\ Settled(f, 1)
           /\ pc[Current(f)] = "queued" /\ target[Current(f)] = f
<1>1. queue[f] \in Seq(Tasks)
  BY DEF TypeOK
<1>2. 1 \in 1 .. Len(queue[f]) /\ queue[f][1] = Current(f)
  BY <1>1 DEF Current
<1>3. Settled(f, 1)
  BY <1>2 DEF Settled
<1> QED
  BY <1>2, <1>3 DEF CallsInPlace

\* The current call of an executor is settled nowhere else.
LEMMA CurrentOnlyThere ==
    ASSUME TypeOK, CallsInPlace, QueuedOnce, NEW f \in Factories, queue[f] # <<>>,
           phase[f] # "recall", Current(f) \in Calls,
           NEW g \in Factories, NEW i \in 1 .. Len(queue[g]), Settled(g, i),
           queue[g][i] = Current(f)
    PROVE  g = f /\ i = 1
<1>1. g = f
  BY CurrentSettled DEF CallsInPlace
<1> QED
  BY <1>1, CurrentSettled DEF QueuedOnce

\* Steps that move no call in a queue: a lookup, a call of the chain.
LEMMA SameCalls ==
    ASSUME TypeOK, CallsInPlace, QueuedOnce, UNCHANGED queue,
           \A f \in Factories : phase'[f] # "recall" => phase[f] # "recall",
           \A c \in Calls : pc[c] = "queued" => pc'[c] = "queued" /\ target'[c] = target[c]
    PROVE  CallsInPlace' /\ QueuedOnce'
<1>1. \A f \in Factories : \A i \in 1 .. Len(queue[f]) : Settled(f, i)' => Settled(f, i)
  BY DEF Settled
<1>2. CallsInPlace'
  <2> SUFFICES ASSUME NEW f \in Factories, NEW i \in 1 .. Len(queue[f]), Settled(f, i)'
               PROVE  pc'[queue[f][i]] = "queued" /\ target'[queue[f][i]] = f
    BY DEF CallsInPlace
  <2> QED
    BY <1>1 DEF CallsInPlace, Settled
<1>3. QueuedOnce'
  BY <1>1 DEF QueuedOnce
<1> QED
  BY <1>2, <1>3

\* A call found stale is no longer settled.
LEMMA RecallCalls ==
    ASSUME TypeOK, CallsInPlace, QueuedOnce, NEW f \in Factories, NEW c \in Calls,
           CanStart(f, c), Recall(f, c)
    PROVE  CallsInPlace' /\ QueuedOnce'
<1> USE DEF TypeOK, Recall, CanStart
<1>1. \A g \in Factories : \A i \in 1 .. Len(queue[g]) :
         Settled(g, i)' => Settled(g, i) /\ ~(g = f /\ i = 1)
  BY DEF Settled
<1>2. \A t \in Tasks : t # c => pc'[t] = pc[t]
  OBVIOUS
<1>3. CallsInPlace'
  <2> SUFFICES ASSUME NEW g \in Factories, NEW i \in 1 .. Len(queue[g]), Settled(g, i)'
               PROVE  pc'[queue[g][i]] = "queued" /\ target'[queue[g][i]] = g
    BY DEF CallsInPlace
  <2>1. queue[g][i] # c
    BY <1>1, CurrentOnlyThere
  <2> QED
    BY <1>1, <1>2, <2>1 DEF CallsInPlace
<1>4. QueuedOnce'
  BY <1>1 DEF QueuedOnce
<1> QED
  BY <1>3, <1>4

\* The end of a function takes its task out of the queue.
LEMMA FinishCalls ==
    ASSUME TypeOK, CallsInPlace, QueuedOnce, NEW f \in Factories, queue[f] # <<>>, Finish(f),
           UNCHANGED target, phase[f] = "recall" => pc[Current(f)] = "done"
    PROVE  CallsInPlace' /\ QueuedOnce'
<1> USE DEF TypeOK
<1> DEFINE Old(g, i) == IF g = f THEN i + 1 ELSE i
<1>1. \A g \in Factories : \A i \in 1 .. Len(queue'[g]) :
         /\ Old(g, i) \in 1 .. Len(queue[g])
         /\ queue'[g][i] = queue[g][Old(g, i)]
  <2> SUFFICES ASSUME NEW g \in Factories, NEW i \in 1 .. Len(queue'[g])
               PROVE  /\ Old(g, i) \in 1 .. Len(queue[g])
                      /\ queue'[g][i] = queue[g][Old(g, i)]
    OBVIOUS
  <2>1. CASE g = f
    <3>1. queue'[g] = Tail(queue[g]) /\ queue[g] \in Seq(Tasks) /\ queue[g] # <<>>
      BY <2>1 DEF Finish
    <3>2. i + 1 \in 1 .. Len(queue[g]) /\ queue'[g][i] = queue[g][i + 1]
      BY <3>1
    <3> QED
      BY <2>1, <3>2
  <2>2. CASE g # f
    BY <2>2 DEF Finish
  <2> QED
    BY <2>1, <2>2
<1>2. \A g \in Factories : \A i \in 1 .. Len(queue'[g]) :
         Settled(g, i)' => Settled(g, Old(g, i)) /\ ~(g = f /\ Old(g, i) = 1)
  <2> SUFFICES ASSUME NEW g \in Factories, NEW i \in 1 .. Len(queue'[g]), Settled(g, i)'
               PROVE  Settled(g, Old(g, i)) /\ ~(g = f /\ Old(g, i) = 1)
    OBVIOUS
  <2>1. queue[g][Old(g, i)] \in Calls
    BY <1>1 DEF Settled
  <2>2. CASE g = f
    BY <2>1, <2>2 DEF Settled
  <2>3. CASE g # f
    BY <2>1, <2>3 DEF Settled, Finish
  <2> QED
    BY <2>2, <2>3
<1>3. CallsInPlace'
  <2> SUFFICES ASSUME NEW g \in Factories, NEW i \in 1 .. Len(queue'[g]), Settled(g, i)'
               PROVE  pc'[queue'[g][i]] = "queued" /\ target[queue'[g][i]] = g
    BY DEF CallsInPlace
  <2> DEFINE t == queue'[g][i]
  <2>1. t \in Calls /\ pc[t] = "queued" /\ target[t] = g
    <3>1. t = queue[g][Old(g, i)] /\ Settled(g, Old(g, i)) /\ Old(g, i) \in 1 .. Len(queue[g])
      BY <1>1, <1>2
    <3> HIDE DEF Old
    <3> QED
      BY <3>1 DEF CallsInPlace, Settled
  <2>2. t # Current(f)
    <3>1. CASE phase[f] = "recall"
      BY <2>1, <3>1
    <3>2. CASE phase[f] # "recall"
      <4> SUFFICES ASSUME t = Current(f) PROVE FALSE
        OBVIOUS
      <4>1. queue[g][Old(g, i)] = Current(f) /\ Settled(g, Old(g, i))
            /\ Old(g, i) \in 1 .. Len(queue[g])
        BY <1>1, <1>2
      <4> HIDE DEF Old
      <4>2. g = f /\ Old(g, i) = 1
        BY <2>1, <3>2, <4>1, CurrentOnlyThere
      <4> QED
        BY <1>2, <4>2
    <3> QED
      BY <3>1, <3>2
  <2>3. pc'[t] = pc[t]
    BY <2>1, <2>2 DEF Finish, Tasks
  <2> QED
    BY <2>1, <2>3
<1>4. QueuedOnce'
  <2> SUFFICES ASSUME NEW g \in Factories, NEW i \in 1 .. Len(queue'[g]),
                      NEW j \in 1 .. Len(queue'[g]), Settled(g, i)', Settled(g, j)',
                      queue'[g][i] = queue'[g][j]
               PROVE  i = j
    BY DEF QueuedOnce
  <2>1. Old(g, i) = Old(g, j)
    <3>1. queue'[g][i] = queue[g][Old(g, i)] /\ Settled(g, Old(g, i)) /\ Old(g, i) \in 1 .. Len(queue[g])
      BY <1>1, <1>2
    <3>2. queue'[g][j] = queue[g][Old(g, j)] /\ Settled(g, Old(g, j)) /\ Old(g, j) \in 1 .. Len(queue[g])
      BY <1>1, <1>2
    <3> HIDE DEF Old
    <3> QED
      BY <3>1, <3>2 DEF QueuedOnce
  <2> QED
    BY <2>1
<1> QED
  BY <1>3, <1>4

\* A call that was looked up, or an event, is put at the end of a queue.
LEMMA AppendCalls ==
    ASSUME TypeOK, CallsInPlace, QueuedOnce, NEW f \in Factories, NEW t \in Tasks,
           queue' = [queue EXCEPT ![f] = Append(@, t)],
           pc' = [pc EXCEPT ![t] = "queued"],
           UNCHANGED phase,
           t \in Calls => pc[t] = "loaded" /\ target'[t] = f,
           \A c \in Calls : c # t => target'[c] = target[c]
    PROVE  CallsInPlace' /\ QueuedOnce'
<1> USE DEF TypeOK
<1>1. \A g \in Factories : \A i \in 1 .. Len(queue'[g]) :
         \/ /\ i \in 1 .. Len(queue[g])
            /\ queue'[g][i] = queue[g][i]
         \/ g = f /\ i = Len(queue[f]) + 1 /\ queue'[g][i] = t
  <2> SUFFICES ASSUME NEW g \in Factories, NEW i \in 1 .. Len(queue'[g])
               PROVE  \/ i \in 1 .. Len(queue[g]) /\ queue'[g][i] = queue[g][i]
                      \/ g = f /\ i = Len(queue[f]) + 1 /\ queue'[g][i] = t
    OBVIOUS
  <2>1. CASE g = f
    <3>1. queue'[g] = Append(queue[g], t) /\ queue[g] \in Seq(Tasks)
      BY <2>1
    <3> QED
      BY <2>1, <3>1
  <2>2. CASE g # f
    BY <2>2
  <2> QED
    BY <2>1, <2>2
<1>2. \A g \in Factories : \A i \in 1 .. Len(queue[g]) :
         Settled(g, i) => queue[g][i] # t
  BY DEF CallsInPlace, Settled
<1>3. \A g \in Factories : \A i \in 1 .. Len(queue'[g]) :
         /\ Settled(g, i)'
         /\ i \in 1 .. Len(queue[g]) /\ queue'[g][i] = queue[g][i]
         => Settled(g, i)
  BY DEF Settled
<1>4. CallsInPlace'
  <2> SUFFICES ASSUME NEW g \in Factories, NEW i \in 1 .. Len(queue'[g]), Settled(g, i)'
               PROVE  pc'[queue'[g][i]] = "queued" /\ target'[queue'[g][i]] = g
    BY DEF CallsInPlace
  <2>1. CASE i \in 1 .. Len(queue[g]) /\ queue'[g][i] = queue[g][i]
    <3>1. Settled(g, i) /\ queue[g][i] \in Calls /\ queue[g][i] # t
      BY <1>2, <1>3, <2>1 DEF Settled
    <3> QED
      BY <2>1, <3>1 DEF CallsInPlace, Tasks
  <2>2. CASE g = f /\ queue'[g][i] = t
    BY <2>2 DEF Settled
  <2> QED
    BY <1>1, <2>1, <2>2
<1>5. QueuedOnce'
  <2> SUFFICES ASSUME NEW g \in Factories, NEW i \in 1 .. Len(queue'[g]),
                      NEW j \in 1 .. Len(queue'[g]), Settled(g, i)', Settled(g, j)',
                      queue'[g][i] = queue'[g][j]
               PROVE  i = j
    BY DEF QueuedOnce
  <2> QED
    BY <1>1, <1>2, <1>3 DEF QueuedOnce
<1> QED
  BY <1>4, <1>5

\* Executors that are in the chain, and what they run, stay what they are.
LEMMA SamePhases ==
    ASSUME TypeOK, CallsInv,
           \A f \in Factories : phase'[f] \in {"idle", "recall"}
                                \/ (phase'[f] = phase[f] /\ Current(f)' = Current(f)),
           \A c \in Calls : pc[c] = "queued" => op'[c] = op[c]
    PROVE  PhaseFits'
<1> SUFFICES ASSUME NEW f \in Factories, phase'[f] \notin {"idle", "recall"}
             PROVE  /\ phase'[f] = "request" => Current(f)' \in Calls /\ op'[Current(f)'] # "close"
                    /\ phase'[f] = "close" => Current(f)' \in Calls /\ op'[Current(f)'] = "close"
                    /\ phase'[f] \in {"eventRequest", "eventClose", "reselectClose"}
                       => Current(f)' \in Events
  BY DEF PhaseFits
<1>1. phase'[f] = phase[f] /\ Current(f)' = Current(f)
  OBVIOUS
<1>2. queue[f] # <<>>
  BY <1>1 DEF TypeOK
<1>3. Current(f) \in Calls => op'[Current(f)] = op[Current(f)]
  BY <1>1, <1>2, CurrentSettled DEF CallsInv
<1> QED
  BY <1>1, <1>3 DEF CallsInv, PhaseFits

\* What is added to a queue does not change what is being run.
LEMMA AppendHeads ==
    ASSUME TypeOK, NEW f \in Factories, NEW t \in Tasks,
           queue' = [queue EXCEPT ![f] = Append(@, t)]
    PROVE  \A g \in Factories : phase[g] = "idle" \/ Current(g)' = Current(g)
<1> SUFFICES ASSUME NEW g \in Factories, phase[g] # "idle" PROVE Current(g)' = Current(g)
  OBVIOUS
<1>1. queue[g] \in Seq(Tasks) /\ queue[g] # <<>>
  BY DEF TypeOK
<1>2. queue'[g] = queue[g] \/ queue'[g] = Append(queue[g], t)
  BY DEF TypeOK
<1> QED
  BY <1>1, <1>2 DEF Current

LEMMA ElementCalls == TypeOK /\ CallsInv /\ ElementStep => CallsInv'
<1> SUFFICES ASSUME TypeOK, CallsInv, ElementStep PROVE CallsInv'
  OBVIOUS
<1> USE DEF TypeOK, CallsInv
<1>1. ASSUME NEW c \in Calls, CallMoves(c) PROVE CallsInv'
  <2>1. CASE pc[c] # "queued" /\ UNCHANGED <<queue, phase>>
             /\ \A d \in Calls : d # c => pc'[d] = pc[d] /\ target'[d] = target[d]
                                          /\ op'[d] = op[d]
    <3>1. CallsInPlace' /\ QueuedOnce'
      BY <2>1, SameCalls
    <3>2. PhaseFits'
      BY <2>1, SamePhases DEF Current
    <3> QED
      BY <3>1, <3>2
  <2>2. CASE AsyncExec(c)
    <3>1. CASE target[c] \in Factories
      <4>1. CallsInPlace' /\ QueuedOnce'
        BY <2>2, <3>1, AppendCalls DEF AsyncExec, Tasks
      <4>2. \A f \in Factories : phase[f] = "idle" \/ Current(f)' = Current(f)
        BY <2>2, <3>1, AppendHeads DEF AsyncExec, Tasks
      <4>3. PhaseFits'
        BY <2>2, <4>2, SamePhases DEF AsyncExec
      <4> QED
        BY <4>1, <4>3
    <3>2. CASE target[c] \notin Factories
      <4>1. queue' = queue
        BY <2>2, <3>2 DEF AsyncExec
      <4>2. CallsInPlace' /\ QueuedOnce'
        BY <2>2, <4>1, SameCalls DEF AsyncExec, Tasks
      <4>3. PhaseFits'
        BY <2>2, <4>1, SamePhases DEF AsyncExec, Current
      <4> QED
        BY <4>2, <4>3
    <3> QED
      BY <3>1, <3>2
  <2> QED
    BY <1>1, <2>1, <2>2 DEF CallMoves, ReceiveClose, RecallLoad, LoadOrStore, Tasks
<1>2. ASSUME NEW e \in Events, EventMoves(e) PROVE CallsInv'
  <2>1. ASSUME NEW f \in Factories, NEW o \in CallOps, Fire(e, f, o) PROVE CallsInv'
    <3>1. /\ e \in Tasks /\ e \notin Calls
          /\ \A c \in Calls : op'[c] = op[c] /\ target'[c] = target[c]
      BY <2>1, DisjointTasks DEF Fire, Tasks
    <3>2. CallsInPlace' /\ QueuedOnce'
      BY <2>1, <3>1, AppendCalls DEF Fire
    <3>3. \A g \in Factories : phase[g] = "idle" \/ Current(g)' = Current(g)
      BY <2>1, <3>1, AppendHeads DEF Fire
    <3>4. PhaseFits'
      BY <2>1, <3>1, <3>3, SamePhases DEF Fire
    <3> QED
      BY <3>2, <3>4
  <2>2. CASE Cancel(e)
    <3>1. CallsInPlace' /\ QueuedOnce'
      BY <2>2, SameCalls DEF Cancel
    <3>2. PhaseFits'
      BY <2>2, SamePhases DEF Cancel, Current
    <3> QED
      BY <3>1, <3>2
  <2> QED
    BY <1>2, <2>1, <2>2 DEF EventMoves
<1>3. ASSUME NEW f \in Factories, Finish(f), queue[f] # <<>>, UNCHANGED <<op, target>>,
             phase[f] = "recall" => pc[Current(f)] = "done"
      PROVE  CallsInv'
  <2>1. CallsInPlace' /\ QueuedOnce'
    BY <1>3, FinishCalls
  <2>2. PhaseFits'
    BY <1>3, SamePhases DEF Finish, Current
  <2> QED
    BY <2>1, <2>2
<1>4. ASSUME NEW f \in Factories, NEW p \in ChainPhases, phase[f] # "recall",
             phase' = [phase EXCEPT ![f] = p], UNCHANGED <<queue, op, pc, target>>,
             p = "request" => Current(f) \in Calls /\ op[Current(f)] # "close",
             p = "close" => Current(f) \in Calls /\ op[Current(f)] = "close",
             p \in {"eventRequest", "eventClose", "reselectClose"} => Current(f) \in Events
      PROVE  CallsInv'
  <2>1. CallsInPlace' /\ QueuedOnce'
    BY <1>4, SameCalls
  <2>2. PhaseFits'
    BY <1>4 DEF PhaseFits, Current
  <2> QED
    BY <2>1, <2>2
<1>5. ASSUME NEW f \in Factories, NEW c \in Calls, CallStarts(f, c) PROVE CallsInv'
  <2>1. CASE Recall(f, c)
    <3>1. CallsInPlace' /\ QueuedOnce'
      BY <1>5, <2>1, RecallCalls DEF CallStarts
    <3>2. PhaseFits'
      BY <2>1, SamePhases DEF Recall, Current
    <3> QED
      BY <3>1, <3>2
  <2>2. CASE Skip(f)
    BY <1>3, <1>5, <2>2 DEF CallStarts, CanStart, Skip
  <2>3. CASE op[c] = "request" /\ Enter(f, "request")
    BY <1>4, <1>5, <2>3 DEF CallStarts, CanStart, Enter, ChainPhases, RequestPhases
  <2>4. CASE op[c] = "close" /\ Enter(f, "close")
    BY <1>4, <1>5, <2>4 DEF CallStarts, CanStart, Enter, ChainPhases, ClosePhases
  <2> QED
    BY <1>5, <2>1, <2>2, <2>3, <2>4 DEF CallStarts
<1>6. ASSUME NEW f \in Factories, NEW e \in Events, EventStarts(f, e) PROVE CallsInv'
  <2>1. CASE Skip(f)
    BY <1>3, <1>6, <2>1 DEF EventStarts, CanStart, Skip
  <2>2. ASSUME NEW p \in {"eventRequest", "eventClose", "reselectClose"}, Enter(f, p)
        PROVE  CallsInv'
    BY <1>4, <1>6, <2>2 DEF EventStarts, CanStart, Enter, ChainPhases, RequestPhases,
                            ClosePhases
  <2> QED
    BY <1>6, <2>1, <2>2 DEF EventStarts
<1>7. ASSUME NEW f \in Factories,
             RecallReturn(f) \/ RequestSucceeds(f) \/ RequestFails(f) \/ CloseEnds(f)
      PROVE  CallsInv'
  <2>1. /\ Finish(f) /\ queue[f] # <<>> /\ UNCHANGED <<op, target>>
        /\ phase[f] = "recall" => pc[Current(f)] = "done"
    BY <1>7 DEF RecallReturn, Skip, RequestSucceeds, RequestFails, CloseEnds, RequestPhases
  <2> QED
    BY <1>3, <2>1
<1>8. ASSUME NEW f \in Factories, ReselectCloseEnds(f) PROVE CallsInv'
  BY <1>4, <1>8 DEF ReselectCloseEnds, PhaseFits, ChainPhases, RequestPhases
<1>9. CASE UNCHANGED vars
  <2>1. CallsInPlace' /\ QueuedOnce'
    BY <1>9, SameCalls
  <2>2. PhaseFits'
    BY <1>9, SamePhases DEF Current
  <2> QED
    BY <2>1, <2>2
<1> QED
  BY <1>1, <1>2, <1>5, <1>6, <1>7, <1>8, <1>9 DEF ElementStep

-----------------------------------------------------------------------------
(* All elements.                                                           *)

allVars == <<vars, element, response>>

AllInv ==
    /\ MidchainOrderly /\ TypeOK /\ WaitInv /\ SessionInv
    /\ element # "server" => ElementInv /\ CallsInv

LEMMA AllInit == MCInit => AllInv
<1> SUFFICES ASSUME MCInit PROVE AllInv
  OBVIOUS
<1>1. Init /\ MidchainOrderly
  BY DEF MCInit
<1>2. TypeOK /\ WaitInv /\ SessionInv
  BY <1>1, TypesInit, WaitInit, SessionInit
<1>3. ElementInv
  BY <1>1 DEF Init, ElementInv, KeepsLast, CurrentIsOpen, ZeroIsEmpty, ClosesEstablished,
              ClosePhases
<1>4. CallsInv
  BY <1>1 DEF Init, CallsInv, CallsInPlace, QueuedOnce, PhaseFits
<1> QED
  BY <1>1, <1>2, <1>3, <1>4 DEF AllInv

\* A step of the composition is one of beginServer or of another element.
LEMMA StepOfElement ==
    ASSUME [MCNext]_allVars
    PROVE  /\ element' = element
           /\ element = "server" => [Next]_vars
           /\ element # "server" => ElementStep
<1>1. CASE element = "server" /\ Next /\ UNCHANGED <<element, response>>
  BY <1>1
<1>2. CASE element = "client" /\ NetworkServiceClient!Next /\ UNCHANGED <<element, response>>
  BY <1>2, ClientSteps
<1>3. CASE element \in Registry!Elements /\ Registry!Next
  BY <1>3, RegistrySteps DEF Registry!Next, Registry!Elements
<1>4. CASE UNCHANGED allVars
  BY <1>4 DEF allVars, ElementStep
<1> QED
  BY <1>1, <1>2, <1>3, <1>4 DEF MCNext

LEMMA AllStep == AllInv /\ [MCNext]_allVars => AllInv'
<1> SUFFICES ASSUME AllInv, [MCNext]_allVars PROVE AllInv'
  OBVIOUS
<1> USE DEF AllInv
<1>1. CASE element = "server"
  <2>1. [Next]_vars /\ element' = "server"
    BY <1>1, StepOfElement
  <2>2. MidchainOrderly'
    BY <2>1 DEF Next, MidchainOrderly
  <2> QED
    BY <2>1, <2>2, TypesStep, WaitStep, SessionStep
<1>2. CASE element # "server"
  <2>1. ElementStep
    BY <1>2, StepOfElement
  <2>2. MidchainOrderly'
    BY <2>1 DEF ElementStep, MidchainOrderly
  <2>3. ClosesEstablished
    BY <1>2 DEF ElementInv
  <2> QED
    BY <1>2, <2>1, <2>2, <2>3, ElementTypes, ElementWait, ElementSession, ElementKnows,
       ElementCalls
<1> QED
  BY <1>1, <1>2

LEMMA AllInvariant == MCSpec => []AllInv
BY AllInit, AllStep, PTL DEF MCSpec, allVars

\* begin/doc.go's Exclusivity, for every begin element of network services and
\* of the registry: at most one factory of an id has a call in the chain.
THEOREM AllExclusive == MCSpec => []Exclusivity
<1>1. AllInv => Exclusivity
  BY DEF AllInv, SessionInv, ActiveInMap, Exclusivity
<1> QED
  BY <1>1, AllInvariant, PTL

\* What the chain of a begin element holds belongs to the established factory of
\* its map: no connection and no registration is forgotten.
THEOREM AllKeepTrack == MCSpec => []NoLeak
<1>1. AllInv => NoLeak
  BY DEF AllInv, SessionInv, HeldIsEstablished, NoLeak
<1> QED
  BY <1>1, AllInvariant, PTL

\* A call that an element repeats because its factory had become stale waits for a
\* younger factory, in every begin element.
THEOREM AllWaitForYounger == MCSpec => []WaitsForYounger
<1>1. AllInv => WaitsForYounger
  BY DEF AllInv, WaitInv
<1> QED
  BY <1>1, AllInvariant, PTL

\* Close Correctness of begin/doc.go, for beginClient, and for Unregister calls of
\* the registry's clients: what is closed is what the chain last returned.
THEOREM CloseIsCorrect == MCSpec => []ClientCloseCorrectness
<1>1. AllInv => ClientCloseCorrectness
  <2> SUFFICES ASSUME AllInv PROVE ClientCloseCorrectness
    OBVIOUS
  <2> USE DEF AllInv, ElementInv
  <2>1. CASE element = "client"
    BY <2>1 DEF ClosesEstablished, KeepsLast, Clones, CloseCorrectness, Registry!Elements,
                ClientCloseCorrectness
  <2>2. CASE element \in Registry!Elements
    <3> SUFFICES ASSUME NEW f \in Factories, Registry!Client,
                        phase[f] \in Registry!ClosePhases \ {"eventClose"},
                        request[f] # Registry!None
                 PROVE  Registry!UnregisteredWith(f) = last
      BY <2>2, RegistryShares DEF ClientCloseCorrectness, Registry!UnregisterCorrectness,
                                  Registry!Elements
    <3>1. Registry!UnregisteredWith(f) = request[f]
      BY DEF Registry!UnregisteredWith
    <3>2. element # "server" /\ Clones
      BY <2>2 DEF Registry!Elements, Registry!Client, Clones
    <3>3. entry = f
      BY DEF Registry!ClosePhases, InChain, ChainPhases, ClosePhases, SessionInv, ActiveInMap
    <3>4. state[f] = "established"
      BY <3>2, <3>3 DEF CurrentIsOpen, ZeroIsEmpty, TypeOK, Registry!None
    <3> QED
      BY <3>1, <3>2, <3>4 DEF KeepsLast
  <2> QED
    BY <2>1, <2>2 DEF ClientCloseCorrectness
<1> QED
  BY <1>1, AllInvariant, PTL

\* The map of a begin element loses a factory only through a function that this
\* factory's own executor runs to its end.
THEOREM AllEvictThemselves == MCSpec => EvictedByOwner
<1> DEFINE Evicts == \A f \in Factories : entry = f /\ entry' # f => InChain(f) /\ ~InChain(f)'
<1>1. AllInv /\ [MCNext]_allVars => [Evicts]_vars
  <2> SUFFICES ASSUME AllInv, [MCNext]_allVars, NEW f \in Factories, entry = f, entry' # f
               PROVE  InChain(f) /\ ~InChain(f)'
    OBVIOUS
  <2> USE DEF AllInv
  <2>1. CASE element = "server"
    BY <2>1, StepOfElement, OwnerEvicts
  <2>2. CASE element # "server"
    <3> USE DEF InChain, ChainPhases, RequestPhases, ClosePhases, Factories
    <3>1. ElementStep
      BY <2>2, StepOfElement
    <3>2. ASSUME NEW c \in Calls, CallMoves(c) PROVE FALSE
      BY <3>2 DEF CallMoves, ReceiveClose, AsyncExec, RecallLoad, LoadOrStore
    <3>3. ASSUME NEW e \in Events, EventMoves(e) PROVE FALSE
      BY <3>3 DEF EventMoves, Fire, Cancel
    <3>4. PICK g \in Factories : RequestFails(g) \/ CloseEnds(g)
      BY <3>1, <3>2, <3>3 DEF ElementStep, CallStarts, EventStarts, RecallReturn, Recall,
                              Enter, Skip, RequestSucceeds, ReselectCloseEnds
    <3>5. InChain(g) /\ Finish(g)
      BY <3>4 DEF RequestFails, CloseEnds
    <3>6. g = f
      BY <3>5 DEF SessionInv, ActiveInMap
    <3> QED
      BY <3>5, <3>6 DEF Finish, TypeOK
  <2> QED
    BY <2>1, <2>2
<1> QED
  BY <1>1, AllInvariant, PTL DEF MCSpec, EvictedByOwner, allVars

\* Unregister of an endpoint returns only when the registration it found has left
\* the map of the registry's begin element.
THEOREM UnregisterIsDone == MCSpec => UnregisterTakesEffect
<1> DEFINE Done == \A c \in Calls, f \in Factories :
                      /\ EndpointElement
                      /\ op[c] = "close"
                      /\ pc[c] # "done" /\ pc'[c] = "done"
                      /\ target[c] = f
                      => entry' # f /\ state'[f] # "established"
<1>1. AllInv /\ [MCNext]_allVars => Done
  <2> SUFFICES ASSUME AllInv, [MCNext]_allVars, EndpointElement, NEW c \in Calls,
                      NEW f \in Factories, op[c] = "close", pc[c] # "done", pc'[c] = "done",
                      target[c] = f
               PROVE  entry' # f /\ state'[f] # "established"
    OBVIOUS
  <2> USE DEF AllInv, TypeOK, CallsInv
  <2>1. ElementStep /\ element # "server"
    BY StepOfElement DEF EndpointElement
  <2>2. ASSUME NEW d \in Calls, CallMoves(d) PROVE FALSE
    BY <2>2 DEF CallMoves, AsyncExec, RecallLoad, LoadOrStore, Tasks
  <2>3. ASSUME NEW e \in Events, EventMoves(e) PROVE FALSE
    BY <2>3, DisjointTasks DEF EventMoves, Fire, Cancel, Tasks
  <2>4. ASSUME NEW g \in Factories, NEW d \in Calls, CallStarts(g, d) PROVE FALSE
    BY <2>4 DEF CallStarts, Recall, Enter, Tasks
  <2>5. ASSUME NEW g \in Factories, NEW e \in Events, EventStarts(g, e) PROVE FALSE
    BY <2>5, DisjointTasks DEF EventStarts, CanStart, Enter, Skip, Finish, Tasks
  <2>6. ASSUME NEW g \in Factories, RecallReturn(g) \/ ReselectCloseEnds(g) PROVE FALSE
    BY <2>6 DEF RecallReturn, Skip, Finish, ReselectCloseEnds
  <2>7. ASSUME NEW g \in Factories, RequestSucceeds(g) \/ RequestFails(g) PROVE FALSE
    <3>1. Current(g) = c
      BY <2>7 DEF RequestSucceeds, RequestFails, Finish, Tasks
    <3> QED
      BY <2>1, <2>7, <3>1, DisjointTasks DEF RequestSucceeds, RequestFails, PhaseFits, RequestPhases
  <2>8. ASSUME NEW g \in Factories, CloseEnds(g)
        PROVE  entry' # f /\ state'[f] # "established"
    <3>1. Current(g) = c /\ queue[g] # <<>>
      BY <2>8 DEF CloseEnds, Finish, Tasks
    <3>2. phase[g] = "close"
      BY <2>1, <2>8, <3>1, DisjointTasks DEF CloseEnds, PhaseFits
    <3>3. g = f
      BY <2>1, <3>1, <3>2, CurrentSettled
    <3> QED
      BY <2>8, <3>3 DEF CloseEnds, AfterClose, Factories
  <2>9. CASE UNCHANGED vars
    BY <2>9
  <2> QED
    BY <2>1, <2>2, <2>3, <2>4, <2>5, <2>6, <2>7, <2>8, <2>9 DEF ElementStep
<1>2. Done => [\A c \in Calls, f \in Registry!Factories :
                  /\ Registry!Endpoint
                  /\ op[c] = "close"
                  /\ pc[c] # "done" /\ pc'[c] = "done"
                  /\ target[c] = f
                  => entry' # f /\ state'[f] # "established"]_Registry!regVars
  BY RegistryShares DEF Registry!Endpoint, EndpointElement
<1> QED
  BY <1>1, <1>2, AllInvariant, PTL
     DEF MCSpec, UnregisterTakesEffect, Registry!UnregisterTakesEffect, allVars

-----------------------------------------------------------------------------
(* beginServer with timeoutServer.                                         *)

(* The inductive invariant.                                                *)

TimerTypes ==
    /\ inTime \in {"always", "mostly"}
    /\ timer \in [Events -> {"off", "armed", "ended"}]
    /\ owner \in [Events -> Factories \cup {None}]
    /\ stored \in Events \cup {None}

\* Every event is the Close that an ended timer has queued on its owner.
FiredByTimer ==
    \A e \in Events :
        /\ pc[e] = "new" => op[e] = "none"
        /\ pc[e] # "new" => op[e] = "close" /\ target[e] = owner[e] /\ timer[e] = "ended"
        /\ timer[e] # "off" => owner[e] \in Factories

\* The timer of the metadata belongs to the established factory of the map.
StoredIsCurrent ==
    stored # None =>
        /\ timer[stored] # "off"
        /\ entry # None
        /\ owner[stored] = entry
        /\ state[entry] = "established"

\* Every other timer that was ever started has been cancelled.
OthersCancelled ==
    \A e \in Events : timer[e] # "off" /\ e # stored => ctx[e] = "cancelled"

TimerInv ==
    /\ TypeOK /\ ~MidchainOrderly /\ EventsInPlace
    /\ TimerTypes /\ FiredByTimer
    /\ inTime = "always" => ActiveInMap /\ StoredIsCurrent /\ OthersCancelled

LEMMA TimerInit == TimeoutInit => TimerInv
<1> SUFFICES ASSUME TimeoutInit PROVE TimerInv
  OBVIOUS
<1> USE DEF TimeoutInit
<1>1. TypeOK /\ EventsInPlace /\ ActiveInMap
  BY TypesInit, SessionInit DEF SessionInv
<1>2. TimerTypes /\ FiredByTimer /\ StoredIsCurrent /\ OthersCancelled
  BY DEF Init, TimerTypes, FiredByTimer, StoredIsCurrent, OthersCancelled, Tasks
<1> QED
  BY <1>1, <1>2 DEF TimerInv

-----------------------------------------------------------------------------
(* timeoutServer is a midchain element.                                    *)

\* What Request and Close of timeoutServer do to the contexts.
LEMMA CancelStoredIs ==
    ASSUME TypeOK, TimerTypes, CancelStored
    PROVE  /\ \A e \in Events : ctx'[e] = IF e = stored THEN "cancelled" ELSE ctx[e]
           /\ RenewSession
<1> DEFINE E == {e \in Events : e = stored}
<1>1. ctx' = [e \in Events |-> IF e \in E THEN "cancelled" ELSE ctx[e]]
  BY NoneIsNoTimer DEF TypeOK, TimerTypes, CancelStored
<1>2. E \in SUBSET Events
  OBVIOUS
<1>3. RenewSession
  BY <1>1, <1>2 DEF RenewSession
<1> QED
  BY <1>1, <1>3

\* Whatever Close calls do, the chain takes steps of BeginServer with midchain
\* elements of which nothing is assumed.
LEMMA TimeoutIsServer ==
    ASSUME TypeOK, TimerTypes, FiredByTimer, ~MidchainOrderly, [TimeoutNext]_timeoutVars
    PROVE  [Next]_vars
<1>0. UNCHANGED midchain
  BY DEF TimeoutNext, timeoutVars
<1>1. ASSUME NEW c \in Calls,
             \/ ReceiveRequest(c, "request") \/ ReceiveRequest(c, "reselect")
             \/ ReceiveClose(c) \/ CallStep(c)
      PROVE  Next
  BY <1>0, <1>1 DEF Next, Environment
<1>2. ASSUME NEW f \in Factories, TimeoutChainReturn(f) PROVE ChainReturn(f)
  <2>1. CASE RequestSuccess(f) /\ CancelStored
    BY <2>1, CancelStoredIs DEF ChainReturn
  <2>2. ASSUME UNCHANGED ctx PROVE EndSession(f)
    <3>1. ctx' = [e \in Events |-> IF e \in {} THEN "cancelled" ELSE ctx[e]]
      BY <2>2 DEF TypeOK
    <3>2. {} \in SUBSET Events
      OBVIOUS
    <3> QED
      BY <3>1, <3>2 DEF EndSession
  <2>3. ASSUME CancelStored PROVE EndSession(f)
    BY <2>3, CancelStoredIs DEF EndSession, RenewSession
  <2>4. CASE RequestFailure(f) /\ UNCHANGED ctx
    BY <2>2, <2>4 DEF ChainReturn
  <2>5. StopTimer \/ LeaveTimer => ChainCloses /\ EndSession(f)
    BY <2>2, <2>3 DEF StopTimer, LeaveTimer, ChainCloses
  <2> QED
    BY <1>2, <2>1, <2>4, <2>5 DEF TimeoutChainReturn, StartTimer, ChainReturn
<1>3. ASSUME NEW f \in Factories, TimeoutExecutorStep(f) PROVE Next
  BY <1>0, <1>2, <1>3 DEF TimeoutExecutorStep, ExecutorStep, Next
<1>4. ASSUME NEW e \in Events, TimerFires(e) PROVE Next
  BY <1>0, <1>4 DEF TimerFires, Next, Environment, FiredByTimer
<1> QED
  BY <1>1, <1>3, <1>4 DEF TimeoutNext, timeoutVars, TimerStep, TimerStops, Terminated

-----------------------------------------------------------------------------
(* The steps keep the invariant.                                           *)

\* The events stay in the queues of the factories that their timers close.
LEMMA TimerQueues ==
    ASSUME TypeOK, EventsInPlace, [Next]_vars
    PROVE  EventsInPlace'
<1> USE DEF TypeOK
<1>1. ASSUME NEW c \in Calls, NEW o \in {"request", "reselect"}, ReceiveRequest(c, o)
      PROVE  EventsInPlace'
  BY <1>1, DisjointTasks, SameInPlace DEF ReceiveRequest, LoadOrStore, Tasks
<1>2. ASSUME NEW c \in Calls, ReceiveClose(c) PROVE EventsInPlace'
  BY <1>2, DisjointTasks, SameInPlace DEF ReceiveClose, Tasks
<1>3. ASSUME NEW e \in Events, NEW f \in Factories, NEW o \in {"request", "close"},
             Fire(e, f, o)
      PROVE  EventsInPlace'
  <2>1. /\ e \in Tasks /\ target'[e] = f
        /\ \A u \in Tasks : u # e => target'[u] = target[u]
    BY <1>3 DEF Fire, Tasks
  <2> QED
    BY <1>3, <2>1, AppendInPlace DEF Fire
<1>4. ASSUME NEW e \in Events, Cancel(e) PROVE EventsInPlace'
  BY <1>4, SameInPlace DEF Cancel
<1>5. ASSUME NEW c \in Calls, CallStep(c) PROVE EventsInPlace'
  <2>1. c \in Tasks /\ c \notin Events
    BY DisjointTasks DEF Tasks
  <2>2. CASE AsyncExec(c) /\ target[c] \in Factories
    BY <2>1, <2>2, AppendInPlace DEF AsyncExec
  <2>3. CASE AsyncExec(c) /\ target[c] \notin Factories
    <3>1. queue' = queue /\ \A e \in Events : pc'[e] = pc[e]
      BY <2>1, <2>3 DEF AsyncExec, Tasks
    <3> QED
      BY <2>3, <3>1, SameInPlace DEF AsyncExec
  <2>4. CASE RecallLoad(c)
    BY <2>1, <2>4, SameInPlace DEF RecallLoad, LoadOrStore, Tasks
  <2> QED
    BY <1>5, <2>2, <2>3, <2>4 DEF CallStep
<1>6. ASSUME NEW f \in Factories, ExecutorStep(f) PROVE EventsInPlace'
  <2>1. CASE queue[f] # <<>> /\ Finish(f) /\ UNCHANGED target
    BY <2>1, FinishInPlace
  <2>2. CASE UNCHANGED <<queue, pc, target>>
    BY <2>2, SameInPlace
  <2>3. ASSUME NEW c \in Calls, Recall(f, c) PROVE EventsInPlace'
    BY <2>3, DisjointTasks, SameInPlace DEF Recall, Tasks
  <2>4. ASSUME ChainReturn(f) PROVE \/ queue[f] # <<>> /\ Finish(f) /\ UNCHANGED target
                                    \/ UNCHANGED <<queue, pc, target>>
    BY <2>4 DEF ChainReturn, RequestSuccess, RequestFailure, EventRequestSuccess,
                EventRequestFailure, ReselectCloseReturn, CloseReturn, EventCloseReturn
  <2>5. ASSUME ExecutorRuns(f) PROVE \/ queue[f] # <<>> /\ Finish(f) /\ UNCHANGED target
                                     \/ UNCHANGED <<queue, pc, target>>
                                     \/ \E c \in Calls : Recall(f, c)
    BY <2>5 DEF ExecutorRuns, RecallReturn, RequestStale, RequestStart, CloseSkip, CloseStart,
                EventRequest, EventClose, Skip, Enter, CanStart
  <2> QED
    BY <1>6, <2>1, <2>2, <2>3, <2>4, <2>5 DEF ExecutorStep
<1>7. CASE UNCHANGED vars
  BY <1>7, SameInPlace
<1> QED
  BY <1>1, <1>2, <1>3, <1>4, <1>5, <1>6, <1>7 DEF Next, Environment, Terminated

\* The event that an executor runs was fired on its factory.
LEMMA CurrentEvent ==
    ASSUME TypeOK, EventsInPlace, NEW f \in Factories, queue[f] # <<>>, Current(f) \in Events
    PROVE  pc[Current(f)] # "new" /\ target[Current(f)] = f
<1>1. queue[f] \in Seq(Tasks)
  BY DEF TypeOK
<1>2. 1 \in 1 .. Len(queue[f]) /\ queue[f][1] = Current(f)
  BY <1>1 DEF Current
<1> QED
  BY <1>2 DEF EventsInPlace

\* The end of a function changes nothing of the events that have not been fired.
LEMMA FinishFired ==
    ASSUME TypeOK, EventsInPlace, NEW f \in Factories, queue[f] # <<>>, Finish(f)
    PROVE  \A e \in Events : (pc'[e] = "new") <=> (pc[e] = "new")
BY CurrentEvent DEF Finish, TypeOK, Tasks

\* Steps of the calls and of the executors fire nothing.
LEMMA SameTimers ==
    ASSUME TimerTypes, FiredByTimer, UNCHANGED <<timer, owner>>,
           \A e \in Events : /\ (pc'[e] = "new") <=> (pc[e] = "new")
                             /\ op'[e] = op[e] /\ target'[e] = target[e]
    PROVE  FiredByTimer'
BY DEF FiredByTimer

LEMMA TimerStepKeeps == TimerInv /\ [TimeoutNext]_timeoutVars => TimerInv'
<1> SUFFICES ASSUME TimerInv, [TimeoutNext]_timeoutVars PROVE TimerInv'
  OBVIOUS
<1>0. [Next]_vars /\ UNCHANGED <<midchain, inTime>>
  BY TimeoutIsServer DEF TimerInv, TimeoutNext, timeoutVars
<1>1. TypeOK' /\ ~MidchainOrderly' /\ EventsInPlace'
  BY <1>0, TypesStep, TimerQueues DEF TimerInv, MidchainOrderly
<1> USE <1>0 DEF TimerInv, TypeOK
<1> DEFINE Rest == inTime = "always" => ActiveInMap /\ StoredIsCurrent /\ OthersCancelled
<1>2. ASSUME NEW c \in Calls,
             \/ ReceiveRequest(c, "request") \/ ReceiveRequest(c, "reselect")
             \/ ReceiveClose(c) \/ CallStep(c),
             UNCHANGED <<timer, owner, stored>>
      PROVE  TimerTypes' /\ FiredByTimer' /\ Rest'
  <2>1. /\ \A e \in Events : pc'[e] = pc[e] /\ op'[e] = op[e] /\ target'[e] = target[e]
        /\ UNCHANGED <<state, phase, ctx>>
        /\ entry' = entry \/ entry = None
    BY <1>2, DisjointTasks DEF ReceiveRequest, ReceiveClose, CallStep, AsyncExec, RecallLoad,
                               LoadOrStore, Tasks
  <2>2. TimerTypes' /\ FiredByTimer'
    BY <1>2, <2>1, SameTimers DEF TimerTypes
  <2>3. ASSUME inTime = "always" PROVE ActiveInMap' /\ StoredIsCurrent' /\ OthersCancelled'
    BY <1>2, <2>1, <2>3 DEF ActiveInMap, InChain, StoredIsCurrent, OthersCancelled, Factories
  <2> QED
    BY <2>2, <2>3
<1>3. ASSUME NEW f \in Factories, TimeoutChainReturn(f)
      PROVE  TimerTypes' /\ FiredByTimer' /\ Rest'
  <2> USE DEF InChain, ChainPhases, RequestPhases, ClosePhases
  <2>1. InChain(f) /\ queue[f] # <<>>
    BY <1>3 DEF TimeoutChainReturn, RequestSuccess, RequestFailure, ReselectCloseReturn,
                CloseReturn, EventCloseReturn
  <2>2. \A e \in Events : /\ (pc'[e] = "new") <=> (pc[e] = "new")
                          /\ op'[e] = op[e] /\ target'[e] = target[e]
    BY <1>3, <2>1, FinishFired DEF TimeoutChainReturn, RequestSuccess, RequestFailure,
                ReselectCloseReturn, CloseReturn, EventCloseReturn
  <2>3. inTime = "always" => entry = f
    BY <2>1 DEF ActiveInMap
  <2>4. ASSUME NEW e \in Events, RequestSuccess(f), StartTimer(f, e)
        PROVE  TimerTypes' /\ FiredByTimer' /\ Rest'
    <3>1. TimerTypes'
      BY <2>4 DEF StartTimer, TimerTypes
    <3>2. FiredByTimer'
      BY <2>2, <2>4 DEF StartTimer, TimerTypes, FiredByTimer
    <3>3. ASSUME inTime = "always" PROVE ActiveInMap' /\ StoredIsCurrent' /\ OthersCancelled'
      <4>1. ActiveInMap'
        BY <2>3, <2>4, <3>3 DEF RequestSuccess, Finish, ActiveInMap
      <4>2. StoredIsCurrent'
        BY <2>3, <2>4, <3>3, NoneIsNoTimer DEF RequestSuccess, StartTimer, StoredIsCurrent, TimerTypes,
                                     Factories
      <4>3. OthersCancelled'
        BY <2>4, <3>3, CancelStoredIs DEF StartTimer, OthersCancelled, TimerTypes
      <4> QED
        BY <4>1, <4>2, <4>3
    <3> QED
      BY <3>1, <3>2, <3>3
  <2>5. CASE RequestFailure(f) /\ UNCHANGED <<ctx, timer, owner, stored>>
    <3>1. TimerTypes' /\ FiredByTimer'
      BY <2>2, <2>5, SameTimers DEF TimerTypes
    <3>2. ASSUME inTime = "always" PROVE ActiveInMap' /\ StoredIsCurrent' /\ OthersCancelled'
      <4>1. ActiveInMap'
        BY <2>3, <2>5, <3>2 DEF RequestFailure, Finish, ActiveInMap
      <4>2. StoredIsCurrent'
        BY <2>3, <2>5, <3>2 DEF RequestFailure, StoredIsCurrent
      <4> QED
        BY <2>5, <3>2, <4>1, <4>2 DEF OthersCancelled
    <3> QED
      BY <3>1, <3>2
  <2>6. CASE /\ ReselectCloseReturn(f) \/ CloseReturn(f) \/ EventCloseReturn(f)
             /\ StopTimer \/ (inTime = "mostly" /\ LeaveTimer)
    <3>1. UNCHANGED <<timer, owner>> /\ stored' = None
      BY <2>6 DEF StopTimer, LeaveTimer, DeleteMetadata
    <3>2. TimerTypes' /\ FiredByTimer'
      BY <2>2, <3>1, SameTimers DEF TimerTypes
    <3>3. ASSUME inTime = "always" PROVE ActiveInMap' /\ StoredIsCurrent' /\ OthersCancelled'
      <4>1. /\ state' = [state EXCEPT ![f] = "closed"]
            /\ \A g \in Factories : g # f => phase'[g] = phase[g]
            /\ \/ entry' = f
               \/ entry' = None /\ phase'[f] = "idle"
        BY <2>3, <2>6, <3>3 DEF ReselectCloseReturn, CloseReturn, EventCloseReturn, AfterClose, Finish
      <4>2. ActiveInMap'
        BY <2>3, <3>3, <4>1 DEF ActiveInMap
      <4>3. StoredIsCurrent'
        BY <3>1 DEF StoredIsCurrent
      <4>4. OthersCancelled'
        BY <2>6, <3>1, <3>3, CancelStoredIs DEF StopTimer, OthersCancelled
      <4> QED
        BY <4>2, <4>3, <4>4
    <3> QED
      BY <3>2, <3>3
  <2> QED
    BY <1>3, <2>4, <2>5, <2>6 DEF TimeoutChainReturn
<1>4. ASSUME NEW f \in Factories, ExecutorRuns(f), UNCHANGED <<timer, owner, stored>>
      PROVE  TimerTypes' /\ FiredByTimer' /\ Rest'
  <2> USE DEF InChain, ChainPhases, RequestPhases, ClosePhases
  <2>1. queue[f] # <<>> /\ ~InChain(f)
    BY <1>4 DEF ExecutorRuns, RecallReturn, RequestStale, RequestStart, CloseSkip, CloseStart,
                EventRequest, EventClose, CanStart
  <2>2. UNCHANGED <<entry, state, ctx, op, target>>
    BY <1>4 DEF ExecutorRuns, RecallReturn, RequestStale, RequestStart, CloseSkip, CloseStart,
                EventRequest, EventClose, Skip, Enter, Recall
  <2>3. \A e \in Events : (pc'[e] = "new") <=> (pc[e] = "new")
    <3>1. Skip(f) => \A e \in Events : (pc'[e] = "new") <=> (pc[e] = "new")
      BY <2>1, FinishFired DEF Skip
    <3>2. ASSUME NEW c \in Calls, Recall(f, c)
          PROVE  \A e \in Events : (pc'[e] = "new") <=> (pc[e] = "new")
      BY <3>2, DisjointTasks DEF Recall, Tasks
    <3> QED
      BY <1>4, <3>1, <3>2 DEF ExecutorRuns, RecallReturn, RequestStale, RequestStart, CloseSkip,
                CloseStart, EventRequest, EventClose, Enter
  <2>4. TimerTypes' /\ FiredByTimer'
    BY <1>4, <2>2, <2>3, SameTimers DEF TimerTypes
  <2>5. ASSUME inTime = "always" PROVE ActiveInMap' /\ StoredIsCurrent' /\ OthersCancelled'
    <3>1. StoredIsCurrent' /\ OthersCancelled'
      BY <1>4, <2>2, <2>5 DEF StoredIsCurrent, OthersCancelled
    <3>2. ASSUME Skip(f) \/ \E c \in Calls : Recall(f, c) PROVE ActiveInMap'
      BY <2>2, <2>5, <3>2 DEF Skip, Finish, Recall, ActiveInMap
    <3>3. ASSUME NEW p \in ChainPhases, Enter(f, p), entry = f PROVE ActiveInMap'
      BY <2>2, <2>5, <3>3 DEF Enter, ActiveInMap
    <3>4. ASSUME NEW c \in Calls, RequestStart(f, c) \/ CloseStart(f, c) PROVE ActiveInMap'
      BY <3>3, <3>4 DEF RequestStart, CloseStart, Closable
    <3>5. ASSUME NEW e \in Events, EventRequest(f, e) \/ EventClose(f, e) PROVE ActiveInMap'
      <4>1. pc[e] # "new" /\ target[e] = f
        BY <2>1, <3>5, CurrentEvent DEF EventRequest, EventClose, CanStart
      <4>2. op[e] = "close" /\ owner[e] = f /\ timer[e] # "off"
        BY <4>1 DEF FiredByTimer
      <4>3. ctx[e] = "live" => entry = f
        BY <2>5, <4>2, NoneIsNoTimer DEF OthersCancelled, StoredIsCurrent
      <4> QED
        BY <3>2, <3>3, <3>5, <4>2, <4>3 DEF EventRequest, EventClose, EventCloseRuns
    <3> QED
      BY <1>4, <3>1, <3>2, <3>4, <3>5 DEF ExecutorRuns, RecallReturn, RequestStale, CloseSkip
  <2> QED
    BY <2>4, <2>5
<1>5. ASSUME NEW e \in Events, TimerFires(e) PROVE TimerTypes' /\ FiredByTimer' /\ Rest'
  <2>1. owner[e] \in Factories
    BY <1>5 DEF TimerFires, FiredByTimer
  <2>2. TimerTypes'
    BY <1>5 DEF TimerFires, TimerTypes
  <2>3. FiredByTimer'
    BY <1>5, <2>1 DEF TimerFires, Fire, TimerTypes, FiredByTimer, Tasks
  <2>4. ASSUME inTime = "always" PROVE ActiveInMap' /\ StoredIsCurrent' /\ OthersCancelled'
    BY <1>5, <2>4 DEF TimerFires, Fire, TimerTypes, ActiveInMap, InChain, StoredIsCurrent,
                      OthersCancelled
  <2> QED
    BY <2>2, <2>3, <2>4
<1>6. ASSUME NEW e \in Events, TimerStops(e) PROVE TimerTypes' /\ FiredByTimer' /\ Rest'
  <2>1. TimerTypes' /\ FiredByTimer'
    BY <1>6 DEF TimerStops, TimerTypes, FiredByTimer
  <2>2. ASSUME inTime = "always" PROVE ActiveInMap' /\ StoredIsCurrent' /\ OthersCancelled'
    BY <1>6, <2>2 DEF TimerStops, TimerTypes, ActiveInMap, InChain, StoredIsCurrent,
                      OthersCancelled
  <2> QED
    BY <2>1, <2>2
<1>7. ASSUME UNCHANGED vars, UNCHANGED <<timer, owner, stored>>
      PROVE  TimerTypes' /\ FiredByTimer' /\ Rest'
  BY <1>7 DEF TimerTypes, FiredByTimer, ActiveInMap, InChain, StoredIsCurrent, OthersCancelled
<1>8. TimerTypes' /\ FiredByTimer' /\ Rest'
  BY <1>2, <1>3, <1>4, <1>5, <1>6, <1>7
     DEF TimeoutNext, timeoutVars, TimeoutExecutorStep, TimerStep, Terminated
<1> QED
  BY <1>1, <1>8

LEMMA TimerInvariant == TimeoutSpec => []TimerInv
BY TimerInit, TimerStepKeeps, PTL DEF TimeoutSpec

\* No timer of timeoutServer that was replaced, or whose session has ended, can
\* still close anything, as long as no Close ends with a context error.
THEOREM TimersAreCurrent == TimeoutSpec => []LiveTimerIsCurrent
<1>1. TimerInv => LiveTimerIsCurrent
  BY NoneIsNoTimer
     DEF TimerInv, FiredByTimer, StoredIsCurrent, OthersCancelled, LiveTimerIsCurrent
<1> QED
  BY <1>1, TimerInvariant, PTL

-----------------------------------------------------------------------------
(* The refinement.                                                         *)

\* What does not mention contexts or midchain elements means the same in the
\* instance of BeginServer.
LEMMA ChainShares ==
    /\ ServerChain!Factories = Factories
    /\ \A f \in Factories :
          /\ ServerChain!RequestSuccess(f) <=> RequestSuccess(f)
          /\ ServerChain!RequestFailure(f) <=> RequestFailure(f)
          /\ ServerChain!ReselectCloseReturn(f) <=> ReselectCloseReturn(f)
          /\ ServerChain!CloseReturn(f) <=> CloseReturn(f)
          /\ ServerChain!EventCloseReturn(f) <=> EventCloseReturn(f)
          /\ ServerChain!InChain(f) <=> InChain(f)
          /\ ServerChain!Exposed(f) <=> Exposed(f)
          /\ ServerChain!Finish(f) <=> Finish(f)
          /\ ServerChain!Current(f) = Current(f)
          /\ ServerChain!LateCloses(f) = LateCloses(f)
          /\ \A t \in Tasks : ServerChain!CanStart(f, t) <=> CanStart(f, t)
    /\ \A c \in Calls : ServerChain!LoadOrStore(c) <=> LoadOrStore(c)
<1> USE DEF ServerChain!None, ServerChain!chainVars
<1>1. ServerChain!Factories = Factories
  BY DEF ServerChain!Factories, Factories
<1>2. \A f \in Factories :
         /\ ServerChain!InChain(f) <=> InChain(f)
         /\ ServerChain!Current(f) = Current(f)
         /\ ServerChain!LateCloses(f) = LateCloses(f)
  BY DEF ServerChain!InChain, InChain, ServerChain!Current, Current, ServerChain!LateCloses,
         LateCloses, ServerChain!ChainPhases, ChainPhases, ServerChain!RequestPhases,
         RequestPhases, ServerChain!ClosePhases, ClosePhases
<1>3. \A f \in Factories :
         /\ ServerChain!Exposed(f) <=> Exposed(f)
         /\ ServerChain!Finish(f) <=> Finish(f)
         /\ ServerChain!AfterClose(f) <=> AfterClose(f)
         /\ ServerChain!ChainConnects(f) <=> ChainConnects(f)
         /\ \A t \in Tasks : ServerChain!CanStart(f, t) <=> CanStart(f, t)
  BY <1>2 DEF ServerChain!Exposed, Exposed, ServerChain!Finish, Finish, ServerChain!AfterClose,
         AfterClose, ServerChain!ChainConnects, ChainConnects, ServerChain!CanStart, CanStart
<1>4. \A f \in Factories :
         /\ ServerChain!RequestSuccess(f) <=> RequestSuccess(f)
         /\ ServerChain!RequestFailure(f) <=> RequestFailure(f)
         /\ ServerChain!ReselectCloseReturn(f) <=> ReselectCloseReturn(f)
         /\ ServerChain!CloseReturn(f) <=> CloseReturn(f)
         /\ ServerChain!EventCloseReturn(f) <=> EventCloseReturn(f)
  BY <1>3 DEF ServerChain!RequestSuccess, RequestSuccess, ServerChain!RequestFailure,
         RequestFailure, ServerChain!ReselectCloseReturn, ReselectCloseReturn,
         ServerChain!CloseReturn, CloseReturn, ServerChain!EventCloseReturn, EventCloseReturn
<1>5. \A c \in Calls : ServerChain!LoadOrStore(c) <=> LoadOrStore(c)
  BY DEF ServerChain!LoadOrStore, LoadOrStore
<1> QED
  BY <1>1, <1>2, <1>3, <1>4, <1>5

\* A step that fires nothing and leaves the contexts alone leaves those of the
\* events alone.
LEMMA SameContexts ==
    ASSUME UNCHANGED ctx, \A e \in Events : (pc'[e] = "new") <=> (pc[e] = "new")
    PROVE  UNCHANGED eventCtx
BY DEF eventCtx

LEMMA CallsMap ==
    ASSUME NEW c \in Calls, UNCHANGED eventCtx
    PROVE  /\ \A o \in CallOps : ReceiveRequest(c, o) => ServerChain!ReceiveRequest(c, o)
           /\ ReceiveClose(c) => ServerChain!ReceiveClose(c)
           /\ CallStep(c) => ServerChain!CallStep(c)
<1> USE ChainShares DEF ServerChain!None, ServerChain!chainVars, ServerChain!factoryVars
<1>1. \A o \in CallOps : ReceiveRequest(c, o) => ServerChain!ReceiveRequest(c, o)
  BY DEF ServerChain!ReceiveRequest, ReceiveRequest
<1>2. ReceiveClose(c) => ServerChain!ReceiveClose(c)
  BY DEF ServerChain!ReceiveClose, ReceiveClose
<1>3. CallStep(c) => ServerChain!CallStep(c)
  BY DEF ServerChain!CallStep, CallStep, ServerChain!AsyncExec, AsyncExec,
         ServerChain!RecallLoad, RecallLoad
<1> QED
  BY <1>1, <1>2, <1>3

LEMMA RunsMap ==
    ASSUME TypeOK, EventsInPlace, NEW f \in Factories, UNCHANGED eventCtx, ExecutorRuns(f)
    PROVE  ServerChain!ExecutorRuns(f)
<1> USE ChainShares DEF ServerChain!None, ServerChain!chainVars
<1>1. /\ Skip(f) => ServerChain!Skip(f)
      /\ \A c \in Calls : Recall(f, c) => ServerChain!Recall(f, c)
      /\ \A p \in Phases : Enter(f, p) => ServerChain!Enter(f, p)
  BY DEF ServerChain!Skip, Skip, ServerChain!Recall, Recall, ServerChain!Enter, Enter
<1>2. RecallReturn(f) => ServerChain!RecallReturn(f)
  BY <1>1 DEF ServerChain!RecallReturn, RecallReturn
<1>3. ASSUME NEW c \in Calls
      PROVE  /\ RequestStale(f, c) => ServerChain!RequestStale(f, c)
             /\ RequestStart(f, c) => ServerChain!RequestStart(f, c)
             /\ CloseSkip(f, c) => ServerChain!CloseSkip(f, c)
             /\ CloseStart(f, c) => ServerChain!CloseStart(f, c)
  <2>1. c \in Tasks /\ {"request", "reselectClose", "close"} \subseteq Phases
    BY DEF Tasks, Phases, ChainPhases, RequestPhases, ClosePhases
  <2> QED
    BY <1>1, <2>1 DEF ServerChain!RequestStale, RequestStale, ServerChain!RequestStart,
                      RequestStart, ServerChain!CloseSkip, CloseSkip, ServerChain!CloseStart,
                      CloseStart, ServerChain!IsRequest, IsRequest, ServerChain!IsClose, IsClose,
                      ServerChain!MustReselect, MustReselect, ServerChain!Closable, Closable
<1>4. ASSUME NEW e \in Events, EventRequest(f, e) \/ EventClose(f, e)
      PROVE  ServerChain!EventRequest(f, e) \/ ServerChain!EventClose(f, e)
  <2>1. e \in Tasks /\ {"eventRequest", "eventClose"} \subseteq Phases
    BY DEF Tasks, Phases, ChainPhases, RequestPhases, ClosePhases
  <2>2. eventCtx[e] = ctx[e]
    BY <1>4, CurrentEvent DEF EventRequest, EventClose, CanStart, eventCtx
  <2> QED
    BY <1>1, <1>4, <2>1, <2>2
       DEF ServerChain!EventRequest, EventRequest, ServerChain!EventClose, EventClose,
           ServerChain!EventRequestRuns, EventRequestRuns, ServerChain!EventCloseRuns,
           EventCloseRuns
<1> QED
  BY <1>2, <1>3, <1>4 DEF ServerChain!ExecutorRuns, ExecutorRuns

\* Cancelling the timer of the metadata cancels its event, if it has fired.
LEMMA CancelMaps ==
    ASSUME TypeOK, TimerTypes, CancelStored,
           \A e \in Events : (pc'[e] = "new") <=> (pc[e] = "new")
    PROVE  eventCtx' = [e \in Events |-> IF e = stored /\ pc[e] # "new" THEN "cancelled"
                                         ELSE eventCtx[e]]
BY CancelStoredIs DEF eventCtx

\* The Close of the timer that the metadata holds is the only one that a session
\* can still get: when the session ends, all of them are cancelled.
LEMMA EndMaps ==
    ASSUME TimerInv, NEW f \in Factories, inTime = "always" => entry = f,
           \A e \in Events : (pc'[e] = "new") <=> (pc[e] = "new"),
           \/ CancelStored
           \/ UNCHANGED ctx /\ (inTime = "always" => stored = None)
    PROVE  ServerChain!EndSession(f)
<1> USE DEF TimerInv
<1> DEFINE E == {e \in Events : CancelStored /\ e = stored /\ pc[e] # "new"}
           Sets == IF ServerChain!MidchainOrderly THEN {ServerChain!LateCloses(f)}
                   ELSE SUBSET Events
<1>1. eventCtx' = [e \in Events |-> IF e \in E THEN "cancelled" ELSE eventCtx[e]]
  <2>1. CASE CancelStored
    BY <2>1, CancelMaps
  <2>2. CASE UNCHANGED ctx /\ ~CancelStored
    BY <2>2 DEF eventCtx
  <2> QED
    BY <2>1, <2>2
<1>2. CASE inTime = "always"
  <2>1. ServerChain!MidchainOrderly
    BY <1>2 DEF ServerChain!MidchainOrderly, orderly
  <2>2. \A e \in Events : e \in E => e \in LateCloses(f)
    BY <1>2, NoneIsNoTimer DEF StoredIsCurrent, FiredByTimer, LateCloses
  <2>3. ASSUME NEW e \in LateCloses(f), pc[e] # "new" PROVE e \in E \/ eventCtx[e] = "cancelled"
    BY <1>2, <2>3, NoneIsNoTimer
       DEF OthersCancelled, StoredIsCurrent, FiredByTimer, LateCloses, eventCtx
  <2>4. \A e \in LateCloses(f) : pc[e] # "new"
    BY DEF FiredByTimer, LateCloses
  <2>5. eventCtx' = [e \in Events |-> IF e \in LateCloses(f) THEN "cancelled" ELSE eventCtx[e]]
    BY <1>1, <2>2, <2>3, <2>4 DEF LateCloses
  <2>6. ServerChain!LateCloses(f) = LateCloses(f)
    BY ChainShares
  <2> QED
    BY <2>1, <2>5, <2>6 DEF ServerChain!EndSession
<1>3. CASE inTime # "always"
  <2>1. ~ServerChain!MidchainOrderly
    BY <1>3 DEF ServerChain!MidchainOrderly, orderly
  <2>2. E \in SUBSET Events
    OBVIOUS
  <2> QED
    BY <1>1, <2>1, <2>2 DEF ServerChain!EndSession
<1> QED
  BY <1>2, <1>3

LEMMA ReturnMaps ==
    ASSUME TimerInv, NEW f \in Factories, TimeoutChainReturn(f)
    PROVE  ServerChain!ChainReturn(f)
<1> USE ChainShares DEF TimerInv
<1>1. InChain(f) /\ queue[f] # <<>>
  BY DEF TimeoutChainReturn, RequestSuccess, RequestFailure, ReselectCloseReturn,
         CloseReturn, EventCloseReturn, InChain, ChainPhases, RequestPhases, ClosePhases, TypeOK
<1>2. inTime = "always" => entry = f
  BY <1>1 DEF ActiveInMap
<1>3. \A e \in Events : (pc'[e] = "new") <=> (pc[e] = "new")
  BY <1>1, FinishFired DEF TimeoutChainReturn, RequestSuccess, RequestFailure,
         ReselectCloseReturn, CloseReturn, EventCloseReturn
<1>4. ASSUME NEW e \in Events, RequestSuccess(f), StartTimer(f, e)
      PROVE  ServerChain!ChainReturn(f)
  <2> DEFINE E == {d \in Events : d = stored /\ pc[d] # "new"}
  <2>1. eventCtx' = [d \in Events |-> IF d \in E THEN "cancelled" ELSE eventCtx[d]]
    BY <1>3, <1>4, CancelMaps DEF StartTimer
  <2>2. E \in SUBSET Events
    OBVIOUS
  <2>3. ServerChain!RenewSession
    BY <2>1, <2>2 DEF ServerChain!RenewSession
  <2> QED
    BY <1>4, <2>3 DEF ServerChain!ChainReturn
<1>5. CASE RequestFailure(f) /\ UNCHANGED <<ctx, timer, owner, stored>>
  <2>1. CASE state[f] = "established"
    BY <1>3, <1>5, <2>1, SameContexts DEF ServerChain!ChainReturn
  <2>2. CASE state[f] # "established"
    <3>1. inTime = "always" => stored = None
      BY <1>2, <2>2 DEF StoredIsCurrent
    <3>2. ServerChain!EndSession(f)
      BY <1>2, <1>3, <1>5, <3>1, EndMaps
    <3> QED
      BY <1>5, <2>2, <3>2 DEF ServerChain!ChainReturn
  <2> QED
    BY <2>1, <2>2
<1>6. CASE /\ ReselectCloseReturn(f) \/ CloseReturn(f) \/ EventCloseReturn(f)
           /\ StopTimer \/ (inTime = "mostly" /\ LeaveTimer)
  <2>1. ServerChain!EndSession(f)
    BY <1>2, <1>3, <1>6, EndMaps DEF StopTimer, LeaveTimer
  <2>2. ServerChain!ChainCloses
    BY <1>6 DEF ServerChain!ChainCloses, ServerChain!MidchainOrderly, ServerChain!None, orderly,
                StopTimer, LeaveTimer
  <2> QED
    BY <1>6, <2>1, <2>2 DEF ServerChain!ChainReturn
<1> QED
  BY <1>4, <1>5, <1>6 DEF TimeoutChainReturn

LEMMA FireMaps ==
    ASSUME TimerInv, NEW e \in Events, TimerFires(e)
    PROVE  ServerChain!Fire(e, owner[e], "close")
<1> USE ChainShares DEF TimerInv
<1>1. owner[e] \in Factories /\ timer[e] # "off"
  BY DEF TimerFires, FiredByTimer
<1>2. eventCtx' = [eventCtx EXCEPT ![e] = ctx[e]]
  BY DEF TimerFires, Fire, eventCtx, TypeOK, Tasks
<1>3. ctx[e] \in {"live", "cancelled"}
  BY DEF TypeOK
<1>4. /\ ServerChain!MidchainOrderly /\ state[owner[e]] = "closed"
      => ctx[e] = "cancelled"
  BY <1>1, NoneIsNoTimer DEF ServerChain!MidchainOrderly, orderly, StoredIsCurrent, OthersCancelled
<1> QED
  BY <1>1, <1>2, <1>3, <1>4
     DEF TimerFires, Fire, ServerChain!Fire, ServerChain!chainVars

LEMMA ChainInit == TimeoutInit => ServerChain!Init
<1> SUFFICES ASSUME TimeoutInit PROVE ServerChain!Init
  OBVIOUS
<1>1. eventCtx = [e \in Events |-> "live"]
  BY DEF TimeoutInit, Init, eventCtx, Tasks
<1>2. orderly \in {"orderly", "careless"}
  BY DEF orderly
<1> QED
  BY <1>1, <1>2 DEF TimeoutInit, Init, ServerChain!Init, ServerChain!None, ServerChain!Factories,
                    Factories, ServerChain!Tasks, Tasks

LEMMA ChainStep ==
    TimerInv /\ [TimeoutNext]_timeoutVars => [ServerChain!Next]_ServerChain!vars
<1> SUFFICES ASSUME TimerInv, [TimeoutNext]_timeoutVars
             PROVE  ServerChain!Next \/ UNCHANGED ServerChain!vars
  OBVIOUS
<1> USE ChainShares DEF TimerInv
<1>0. orderly' = orderly
  BY DEF TimeoutNext, timeoutVars, orderly
<1>1. ASSUME NEW c \in Calls,
             \/ ReceiveRequest(c, "request") \/ ReceiveRequest(c, "reselect")
             \/ ReceiveClose(c) \/ CallStep(c)
      PROVE  ServerChain!Next
  <2>1. UNCHANGED ctx /\ \A e \in Events : pc'[e] = pc[e]
    BY <1>1, DisjointTasks DEF TypeOK, ReceiveRequest, ReceiveClose, CallStep, AsyncExec,
                               RecallLoad, LoadOrStore, Tasks
  <2>2. UNCHANGED eventCtx
    BY <2>1, SameContexts
  <2> QED
    BY <1>0, <1>1, <2>2, CallsMap DEF ServerChain!Next, ServerChain!Environment, CallOps
<1>2. ASSUME NEW f \in Factories, TimeoutChainReturn(f) PROVE ServerChain!Next
  BY <1>0, <1>2, ReturnMaps DEF ServerChain!Next, ServerChain!ExecutorStep
<1>3. ASSUME NEW f \in Factories, ExecutorRuns(f) PROVE ServerChain!Next
  <2>1. queue[f] # <<>> /\ UNCHANGED ctx
    BY <1>3 DEF TypeOK, ExecutorRuns, RecallReturn, RequestStale, RequestStart, CloseSkip,
                CloseStart, EventRequest, EventClose, CanStart, Skip, Enter, Recall
  <2>2. \A e \in Events : (pc'[e] = "new") <=> (pc[e] = "new")
    <3>1. Skip(f) => \A e \in Events : (pc'[e] = "new") <=> (pc[e] = "new")
      BY <2>1, FinishFired DEF Skip
    <3>2. ASSUME NEW c \in Calls, Recall(f, c)
          PROVE  \A e \in Events : (pc'[e] = "new") <=> (pc[e] = "new")
      BY <3>2, DisjointTasks DEF TypeOK, Recall, Tasks
    <3> QED
      BY <1>3, <3>1, <3>2 DEF ExecutorRuns, RecallReturn, RequestStale, RequestStart, CloseSkip,
                CloseStart, EventRequest, EventClose, Enter
  <2>3. UNCHANGED eventCtx
    BY <2>1, <2>2, SameContexts
  <2> QED
    BY <1>0, <1>3, <2>3, RunsMap DEF ServerChain!Next, ServerChain!ExecutorStep
<1>4. ASSUME NEW e \in Events, TimerFires(e) PROVE ServerChain!Next
  <2>1. owner[e] \in Factories
    BY <1>4 DEF TimerFires, FiredByTimer
  <2> QED
    BY <1>0, <1>4, <2>1, FireMaps DEF ServerChain!Next, ServerChain!Environment
<1>5. ASSUME UNCHANGED vars PROVE UNCHANGED ServerChain!vars
  BY <1>0, <1>5, SameContexts DEF ServerChain!vars, ServerChain!factoryVars,
                                  ServerChain!taskVars, ServerChain!chainVars
<1> QED
  BY <1>1, <1>2, <1>3, <1>4, <1>5
     DEF TimeoutNext, timeoutVars, TimeoutExecutorStep, TimerStep, TimerStops, Terminated

\* beginServer with timeoutServer implements BeginServer: timeoutServer is one of
\* the midchain elements that its specification allows, and an orderly one as
\* long as no Close ends with a context error.
THEOREM TimeoutImplementsBegin == TimeoutSpec => ImplementsBegin
BY TimerInvariant, ChainInit, ChainStep, PTL DEF TimeoutSpec, ImplementsBegin, ServerChain!Spec

\* So begin/doc.go's Exclusivity holds in a server chain with timeoutServer as long
\* as no Close ends with a context error; the run BeginTimeoutExclusivity shows
\* that it does not hold without this proviso.
THEOREM ExclusiveInTime == TimeoutSpec => [](inTime = "always" => Exclusivity)
<1>1. TimerInv => (inTime = "always" => Exclusivity)
  BY DEF TimerInv, ActiveInMap, Exclusivity
<1> QED
  BY <1>1, TimerInvariant, PTL
==============================================================================
