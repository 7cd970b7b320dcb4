------------------------------- MODULE Begin -------------------------------
(***************************************************************************)
(* The state that the begin chain elements (pkg/networkservice/common/     *)
(* begin) keep for one Connection.Id, and the steps their client and       *)
(* server variants share.                                                  *)
(*                                                                         *)
(* A begin element keeps a map from Connection.Id to an event factory.     *)
(* Every factory owns a serialize.Executor, a FIFO queue that runs one     *)
(* function at a time.  Request and Close calls look their factory up and  *)
(* queue a function on it; elements in the middle of the chain queue       *)
(* Request and Close events on the factory that they found in their        *)
(* context.  Entries of different Connection.Ids share nothing, so one     *)
(* Connection.Id is modelled.                                              *)
(*                                                                         *)
(* A factory is the number of its creation and a connection the number of  *)
(* the chain's Request that produced it; 0 stands for "none" of either.    *)
(***************************************************************************)
EXTENDS Naturals, Sequences

CONSTANTS
    Calls,           \* Request/Close calls that arrive at the element
    Events,          \* Request/Close events that midchain elements fire
    MaxFactory       \* bound on the factories ever stored in the map

ASSUME DisjointTasks == Calls \cap Events = {}
ASSUME MaxFactoryAssumption == MaxFactory \in Nat

Tasks == Calls \cup Events
Factories == 1 .. MaxFactory
None == 0

VARIABLES
    entry,     \* the factory the map holds for the Connection.Id, or None
    created,   \* number of factories stored so far
    state,     \* connectionState of each factory
    request,   \* request.Connection of each factory, or None
    queue,     \* executor queue of each factory; its head is being run
    phase,     \* what the executor of each factory is doing
    op,        \* what each task asks for
    pc,        \* where each task is
    target,    \* the factory each task was queued on
    ctx,       \* CancelContext of each event
    midchain,  \* how midchain elements treat Close; never changes
    minted,    \* number of connections the chain has produced
    last,      \* the last Connection the chain returned successfully
    held       \* the connection the rest of the chain holds, or None

factoryVars == <<entry, created, state, request, queue, phase>>
taskVars    == <<op, pc, target, ctx>>
chainVars   == <<minted, last, held>>
vars        == <<factoryVars, taskVars, chainVars, midchain>>

CallOps  == {"request", "reselect", "close"}
Ops      == CallOps \cup {"none"}

RequestPhases == {"request", "eventRequest"}
ClosePhases   == {"close", "eventClose", "reselectClose"}
ChainPhases   == RequestPhases \cup ClosePhases
Phases        == ChainPhases \cup {"idle", "recall"}

\* Where a task is: "new" not received; "loaded" between the map lookup and
\* AsyncExec; "queued" on an executor, until the function has run; "recalled"
\* in the nested Request that a stale factory makes; "done".
Places == {"new", "loaded", "queued", "recalled", "done"}

\* A Close reaches every midchain element, and these then cancel the CancelContext
\* of the Close events of the session that has ended.
MidchainOrderly == midchain = "orderly"

\* The variables have values of their types, and a factory that is running
\* something has the task at the head of its queue.
TypeOK ==
    /\ entry \in Factories \cup {None}
    /\ created \in 0 .. MaxFactory
    /\ state \in [Factories -> {"zero", "established", "closed"}]
    /\ request \in [Factories -> Nat]
    /\ queue \in [Factories -> Seq(Tasks)]
    /\ phase \in [Factories -> Phases]
    /\ op \in [Tasks -> Ops]
    /\ pc \in [Tasks -> Places]
    /\ target \in [Tasks -> Factories \cup {None}]
    /\ ctx \in [Events -> {"live", "cancelled"}]
    /\ midchain \in {"orderly", "careless"}
    /\ \A f \in Factories : phase[f] # "idle" => queue[f] # <<>>
    /\ minted \in Nat
    /\ last \in Nat
    /\ held \in Nat

Init ==
    /\ entry = None
    /\ created = 0
    /\ state = [f \in Factories |-> "zero"]
    /\ request = [f \in Factories |-> None]
    /\ queue = [f \in Factories |-> <<>>]
    /\ phase = [f \in Factories |-> "idle"]
    /\ op = [t \in Tasks |-> "none"]
    /\ pc = [t \in Tasks |-> "new"]
    /\ target = [t \in Tasks |-> None]
    /\ ctx = [e \in Events |-> "live"]
    /\ midchain \in {"orderly", "careless"}
    /\ minted = 0
    /\ last = None
    /\ held = None

-----------------------------------------------------------------------------
(* The map and the executors.                                              *)

\* The task that the executor of f is running or would run next.
Current(f) == Head(queue[f])

InChain(f) == phase[f] \in ChainPhases

\* genericsync.Map.LoadOrStore with a new factory: t goes on with the factory
\* of the entry, which is the new one when there was no entry.
LoadOrStore(t) ==
    /\ \/ /\ entry # None
          /\ UNCHANGED <<entry, created>>
       \/ /\ entry = None
          /\ created < MaxFactory
          /\ created' = created + 1
          /\ entry' = created + 1
    /\ target' = [target EXCEPT ![t] = entry']
    /\ pc' = [pc EXCEPT ![t] = "loaded"]

\* serialize.Executor.AsyncExec of a call's function on the factory it loaded.
AsyncExec(c) ==
    /\ pc[c] = "loaded"
    /\ pc' = [pc EXCEPT ![c] = "queued"]
    /\ queue' = [queue EXCEPT ![target[c]] = Append(@, c)]
    /\ UNCHANGED <<entry, created, state, request, phase, op, target, ctx>>
    /\ UNCHANGED chainVars

\* The executor of f is free and its next function is that of t.
CanStart(f, t) ==
    /\ phase[f] = "idle"
    /\ queue[f] # <<>>
    /\ Current(f) = t

\* The executor of f has run its current function to the end.
Finish(f) ==
    /\ phase' = [phase EXCEPT ![f] = "idle"]
    /\ queue' = [queue EXCEPT ![f] = Tail(@)]
    /\ pc' = [pc EXCEPT ![Current(f)] = "done"]

\* The function of f returns without having changed anything.
Skip(f) ==
    /\ Finish(f)
    /\ UNCHANGED <<entry, created, state, request, op, target, ctx>>
    /\ UNCHANGED chainVars

\* The function of f calls the rest of the chain.
Enter(f, p) ==
    /\ phase' = [phase EXCEPT ![f] = p]
    /\ UNCHANGED <<entry, created, state, request, queue, op, pc, target, ctx>>
    /\ UNCHANGED chainVars

\* f is stale: its function makes call c all over again and waits for it.
Recall(f, c) ==
    /\ phase' = [phase EXCEPT ![f] = "recall"]
    /\ pc' = [pc EXCEPT ![c] = "recalled"]
    /\ UNCHANGED <<entry, created, state, request, queue, op, target, ctx>>
    /\ UNCHANGED chainVars

\* Mutant: the repeated call is queued on the factory that was found stale.
RecallLoad_Same(c) ==
    /\ pc[c] = "recalled"
    /\ pc' = [pc EXCEPT ![c] = "loaded"]
    /\ UNCHANGED <<entry, created, state, request, queue, phase, op, target, ctx>>
    /\ UNCHANGED chainVars

\* The lookup of the repeated call.
RecallLoad(c) ==
    /\ pc[c] = "recalled"
    /\ LoadOrStore(c)
    /\ UNCHANGED <<state, request, queue, phase, op, ctx>>
    /\ UNCHANGED chainVars

\* The repeated call has returned.
RecallReturn(f) ==
    /\ phase[f] = "recall"
    /\ pc[Current(f)] = "done"
    /\ Skip(f)

-----------------------------------------------------------------------------
(* The rest of the chain, as the begin element sees it.                    *)

\* The chain's Request returns a new Connection, which f remembers.
ChainConnects(f) ==
    /\ minted' = minted + 1
    /\ last' = minted + 1
    /\ held' = minted + 1
    /\ request' = [request EXCEPT ![f] = minted + 1]

\* The chain's Close has run; its elements drop what they hold whether or not
\* it returned an error.  If it ended early they may have kept it.
ChainCloses ==
    /\ held' \in IF MidchainOrderly THEN {None} ELSE {None, held}
    /\ UNCHANGED <<minted, last>>

LateCloses(f) == {e \in Events : op[e] = "close" /\ target[e] = f}

\* The session served by f is over.  Elements that behave like timeout and
\* cleanup have by now cancelled the contexts of their Close events.
EndSession(f) ==
    \E E \in IF MidchainOrderly THEN {LateCloses(f)} ELSE SUBSET Events :
        ctx' = [e \in Events |-> IF e \in E THEN "cancelled" ELSE ctx[e]]

\* f has been put into the context of a chain call, so a midchain element can
\* have taken it from there.
Exposed(f) == InChain(f) \/ state[f] # "zero"

\* A chain call that keeps the session: elements may replace the contexts of
\* the events that they have fired or may yet fire.
RenewSession ==
    \E E \in SUBSET Events :
        ctx' = [e \in Events |-> IF e \in E THEN "cancelled" ELSE ctx[e]]

\* EventFactory.Request or Close called midchain: the function is queued at
\* once.  A well-behaved element has no live context for an ended session.
Fire(e, f, o) ==
    /\ pc[e] = "new"
    /\ Exposed(f)
    /\ pc' = [pc EXCEPT ![e] = "queued"]
    /\ op' = [op EXCEPT ![e] = o]
    /\ target' = [target EXCEPT ![e] = f]
    /\ queue' = [queue EXCEPT ![f] = Append(@, e)]
    /\ \E x \in {"live", "cancelled"} :
          /\ ctx' = [ctx EXCEPT ![e] = x]
          /\ MidchainOrderly /\ o = "close" /\ state[f] = "closed" /\ ~InChain(f)
             => x = "cancelled"
    /\ UNCHANGED <<entry, created, state, request, phase>>
    /\ UNCHANGED chainVars

\* The element that fired e cancels the context it passed as CancelContext.
Cancel(e) ==
    /\ pc[e] = "queued"
    /\ ctx[e] = "live"
    /\ ctx' = [ctx EXCEPT ![e] = "cancelled"]
    /\ UNCHANGED factoryVars
    /\ UNCHANGED <<op, pc, target>>
    /\ UNCHANGED chainVars

\* All calls have returned and all events that were fired are processed.
Terminated ==
    /\ \A c \in Calls : pc[c] = "done"
    /\ \A e \in Events : pc[e] # "queued"
    /\ \A f \in Factories : phase[f] = "idle"
    /\ UNCHANGED vars

-----------------------------------------------------------------------------
(* What package begin promises (doc.go), and what its users rely on.       *)

\* doc.go, "Exclusivity": only one event is processed for a Connection.Id at a
\* time, i.e. at most one factory has a call inside the chain.
Exclusivity == \A f, g \in Factories : InChain(f) /\ InChain(g) => f = g

\* doc.go, "Close Correctness": a Close is run with the last Connection that
\* the chain returned successfully.
CloseCorrectness ==
    \A f \in Factories : phase[f] \in ClosePhases => request[f] = last

\* A connection that the rest of the chain holds is never forgotten: whenever
\* nothing is in the chain, it belongs to the established factory of the map,
\* so that a later Close or timeout can find it.
NoLeak ==
    (\A f \in Factories : ~InChain(f)) /\ held # None =>
        /\ entry # None
        /\ state[entry] = "established"

\* A factory that waits in a nested Request waits for a younger factory, so
\* executors can never wait for each other in a circle.
WaitsForYounger ==
    \A f \in Factories :
        /\ phase[f] = "recall"
        /\ pc[Current(f)] \in {"loaded", "queued"}
        => target[Current(f)] > f

\* The map loses a factory only through a function that this factory's own
\* executor runs: nobody evicts the factory of somebody else's connection.
EvictedByOwner ==
    [][\A f \in Factories :
          entry = f /\ entry' # f => InChain(f) /\ ~InChain(f)']_vars
=============================================================================
