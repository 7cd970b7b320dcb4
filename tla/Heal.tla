-------------------------------- MODULE Heal --------------------------------
(***************************************************************************)
(* heal.NewClient (common/heal): event loops that watch the control plane  *)
(* and the data plane of one connection and, when either is lost, request  *)
(* the connection again through the event factory of begin until that      *)
(* succeeds.                                                               *)
(*                                                                         *)
(* begin runs one Request or Close of the connection at a time.  The       *)
(* connection is followed up to its Close; after that its factory skips    *)
(* every event.                                                            *)
(***************************************************************************)
EXTENDS Naturals

CONSTANTS
    MaxLoops,     \* bound on the event loops that exist at a time
    MaxCalls,     \* bound on the Requests that callers make
    MaxLosses,    \* bound on the losses that loops observe
    HasLiveness   \* is a livenessCheck configured?

Loops  == 1 .. MaxLoops
None   == 0
Caller == MaxLoops + 1

VARIABLES
    state,     \* connectionState of the begin factory
    held,      \* does the rest of the chain hold the connection?
    loop,      \* where each event loop is
    cancelled, \* is the eventLoopCtx of each loop cancelled?
    lost,      \* has a monitor goroutine of each loop reported a loss?
    reselect,  \* does each loop heal with reselect?
    handle,    \* the loop whose handle is in the metadata, or None
    fired,     \* has each loop a Request event queued at begin?
    by,        \* whose Request is in the chain: a loop, Caller or None
    step,      \* how far that Request is
    loaded,    \* the loop whose handle that Request has taken, or None
    calls, losses

loopVars    == <<loop, cancelled, lost, reselect, fired>>
requestVars == <<by, step, loaded>>
vars == <<state, held, loopVars, handle, requestVars, calls, losses>>

Init ==
    /\ state = "zero"
    /\ held = FALSE
    /\ loop = [l \in Loops |-> "off"]
    /\ cancelled = [l \in Loops |-> FALSE]
    /\ lost = [l \in Loops |-> FALSE]
    /\ reselect = [l \in Loops |-> FALSE]
    /\ handle = None
    /\ fired = [l \in Loops |-> FALSE]
    /\ by = None /\ step = "idle" /\ loaded = None
    /\ calls = 0 /\ losses = 0

-----------------------------------------------------------------------------
(* An event loop.                                                          *)

\* A monitor goroutine sees the loss of its plane and closes its channel.
PlaneLost(l, r) ==
    /\ losses < MaxLosses
    /\ loop[l] = "watching"
    /\ ~lost[l]
    /\ lost' = [lost EXCEPT ![l] = TRUE]
    /\ reselect' = [reselect EXCEPT ![l] = r]
    /\ losses' = losses + 1
    /\ UNCHANGED <<state, held, loop, cancelled, fired, handle, requestVars, calls>>

\* monitorCtrlPlane: Recv fails or returns a DOWN connection.  It does not
\* report that once the loop is cancelled.
ControlPlaneLost(l) == ~cancelled[l] /\ PlaneLost(l, ~HasLiveness)

\* monitorCtrlPlane: Recv fails with codes.Canceled although nobody has cancelled the
\* loop, which takes that for a connection that was closed and ends.
ControlPlaneClosed(l) ==
    /\ losses < MaxLosses
    /\ loop[l] = "watching" /\ ~cancelled[l]
    /\ loop' = [loop EXCEPT ![l] = "closed"]
    /\ cancelled' = [cancelled EXCEPT ![l] = TRUE]
    /\ losses' = losses + 1
    /\ UNCHANGED <<state, held, lost, reselect, fired, handle, requestVars, calls>>

\* monitorDataPlane, which runs if there is a livenessCheck: a check that was
\* under way when the loop was cancelled still counts.
DataPlaneLost(l) == HasLiveness /\ PlaneLost(l, TRUE)

\* waitForEvents takes the loss: it announces that healing has started.
HealingStarts(l) ==
    /\ loop[l] = "watching"
    /\ lost[l]
    /\ loop' = [loop EXCEPT ![l] = "healing"]
    /\ cancelled' = [cancelled EXCEPT ![l] = TRUE]
    /\ UNCHANGED <<state, held, lost, reselect, fired, handle, requestVars, calls, losses>>

\* waitForEvents takes the cancelled context, even when there is a loss too.
WatchEnds(l) ==
    /\ loop[l] = "watching"
    /\ cancelled[l]
    /\ loop' = [loop EXCEPT ![l] = "ended"]
    /\ UNCHANGED <<state, held, cancelled, lost, reselect, fired, handle, requestVars,
                   calls, losses>>

\* The healing loop checks the data plane if it has not decided to reselect and
\* fires a Request event.
HealingFires(l) ==
    /\ loop[l] = "healing"
    /\ ~fired[l]
    /\ fired' = [fired EXCEPT ![l] = TRUE]
    /\ reselect' \in {[reselect EXCEPT ![l] = @ \/ r] : r \in BOOLEAN}
    /\ UNCHANGED <<state, held, loop, cancelled, lost, handle, requestVars, calls, losses>>

-----------------------------------------------------------------------------
(* Requests and Close, one at a time.                                      *)

\* The handle in the metadata is taken and its loop cancelled.
TakeHandle ==
    /\ handle' = None
    /\ cancelled' = [l \in Loops |-> cancelled[l] \/ l = handle]

CallerRequest ==
    /\ by = None
    /\ state # "closed"
    /\ calls < MaxCalls
    /\ calls' = calls + 1
    /\ by' = Caller
    /\ step' = "await"
    /\ TakeHandle
    /\ loaded' = handle
    /\ UNCHANGED <<state, held, loop, lost, reselect, fired, losses>>

\* begin runs the Request event of loop l.  A reselecting one closes the
\* connection first, which takes the handle, so that Request finds none.
EventRequest(l) ==
    /\ by = None
    /\ fired[l]
    /\ state = "established"
    /\ by' = l
    /\ step' = "await"
    /\ TakeHandle
    /\ loaded' = IF reselect[l] THEN None ELSE handle
    /\ held' = (held /\ ~reselect[l])
    /\ UNCHANGED <<state, loop, lost, reselect, fired, calls, losses>>

\* The loop takes a skipped event for a failure and fires again.
EventSkipped_Retries(l) ==
    /\ by = None
    /\ fired[l]
    /\ state # "established"
    /\ fired' = [fired EXCEPT ![l] = FALSE]
    /\ UNCHANGED <<state, held, loop, cancelled, lost, reselect, handle, requestVars, calls,
                   losses>>

\* begin skips the event after Close; the loop takes that for success.
EventSkipped(l) ==
    /\ by = None
    /\ fired[l]
    /\ state # "established"
    /\ fired' = [fired EXCEPT ![l] = FALSE]
    /\ loop' = [loop EXCEPT ![l] = "ended"]
    /\ UNCHANGED <<state, held, cancelled, lost, reselect, handle, requestVars, calls,
                   losses>>

\* A Request that took a handle waits on healingStartedCh until its loop has
\* left waitForEvents.
HandleAnswers ==
    /\ step = "await"
    /\ loaded # None => loop[loaded] # "watching"
    /\ step' = "chain"
    /\ UNCHANGED <<state, held, loopVars, handle, by, loaded, calls, losses>>

\* newEventLoop: a new loop watches and its handle is stored; loops is where the
\* others are, of which those that have ended leave their numbers.
StartEventLoop(loops) ==
    /\ LET free == {l \in Loops : loops[l] \in {"off", "ended", "closed"}}
           n == CHOOSE l \in free : \A m \in free : l <= m
       IN  /\ free # {}
           /\ handle' = n
           /\ loop' = [loops EXCEPT ![n] = "watching"]
           /\ cancelled' = [cancelled EXCEPT ![n] = FALSE]
           /\ lost' = [lost EXCEPT ![n] = FALSE]
           /\ reselect' = [reselect EXCEPT ![n] = FALSE]

\* newEventLoop fails, or is not called.
NoEventLoop == UNCHANGED <<handle, loop, cancelled, lost, reselect>>

\* The Request returns to its caller, or to the loop that fired it.
RequestReturns ==
    /\ by' = None /\ step' = "idle" /\ loaded' = None
    /\ fired' = [l \in Loops |-> fired[l] /\ l # by]
    /\ UNCHANGED <<calls, losses>>

\* The connection has a new loop; the one that fired the Request is done.
RequestSucceeds ==
    /\ step = "chain"
    /\ StartEventLoop([l \in Loops |-> IF l = by THEN "ended" ELSE loop[l]])
    /\ held' = TRUE
    /\ state' = "established"
    /\ RequestReturns

\* begin forgets a connection whose first Request fails.
AfterFailure == state' = IF state = "established" THEN state ELSE "closed"

\* The rest of the chain succeeds, but the connection cannot be watched: it is
\* closed again.
MonitorFails ==
    /\ step = "chain"
    /\ NoEventLoop
    /\ held' = FALSE
    /\ AfterFailure
    /\ RequestReturns

\* A failed Request does not watch again.
MustWatchAgain_Never == FALSE

\* loaded && !loopHandle.healingStarted
MustWatchAgain == loaded # None /\ loop[loaded] # "healing"

\* The rest of the chain fails.  The connection is watched again if it was and
\* is closed if it cannot be; a loop that is healing already goes on.
RequestFails ==
    /\ step = "chain"
    /\ IF MustWatchAgain
         THEN \/ StartEventLoop(loop) /\ UNCHANGED held
              \/ NoEventLoop /\ held' = FALSE
         ELSE NoEventLoop /\ UNCHANGED held
    /\ AfterFailure
    /\ RequestReturns

\* Close cancels the loop and does not wait for it.
Close ==
    /\ by = None
    /\ state = "established"
    /\ state' = "closed"
    /\ held' = FALSE
    /\ handle' = None
    /\ cancelled' = [l \in Loops |-> cancelled[l] \/ l = handle]
    /\ UNCHANGED <<loop, lost, reselect, fired, requestVars, calls, losses>>

-----------------------------------------------------------------------------
LoopStep(l) == HealingStarts(l) \/ WatchEnds(l) \/ HealingFires(l)

EventStep(l) == EventRequest(l) \/ EventSkipped(l)

Next ==
    \/ \E l \in Loops : ControlPlaneLost(l) \/ ControlPlaneClosed(l) \/ DataPlaneLost(l) \/ LoopStep(l) \/ EventStep(l)
    \/ CallerRequest
    \/ HandleAnswers
    \/ RequestSucceeds \/ MonitorFails \/ RequestFails
    \/ Close

\* Goroutines and the executor of begin are scheduled, chain calls return, and
\* a Request that is repeated for ever succeeds at last.
Fairness ==
    /\ \A l \in Loops : WF_vars(LoopStep(l)) /\ SF_vars(EventStep(l))
    /\ WF_vars(HandleAnswers)
    /\ WF_vars(RequestSucceeds \/ MonitorFails \/ RequestFails)
    /\ SF_vars(RequestSucceeds)

-----------------------------------------------------------------------------
\* Between Requests, a connection that the rest of the chain holds is watched by
\* a loop that nobody has cancelled, or a loop is healing it: whichever Requests
\* of callers and loops failed before, a loss does not go unnoticed.  The exception is
\* a connection whose stream of events ended with codes.Canceled, up to its next
\* Request, which finds the handle of the loop and starts another.  And a loop can be
\* cancelled, as its handle is in the metadata: no other one can start to heal behind
\* the back of the connection and undo a Close.
WatchedByOneLoop ==
    /\ held /\ by = None =>
           \/ handle # None /\ loop[handle] = "watching" /\ ~cancelled[handle]
           \/ handle # None /\ loop[handle] = "closed"
           \/ \E l \in Loops : loop[l] = "healing"
    /\ \A l \in Loops : loop[l] = "watching" /\ ~cancelled[l] => handle = l

\* A loop that has started to heal stops in the end: some Request succeeded or the
\* connection was closed.  A Request that waits for the loop that it has cancelled is
\* answered.  So, after the last loss, everything comes to rest.
LossIsRepaired ==
    (step = "await" \/ \E l \in Loops : loop[l] = "healing")
        ~> (by = None /\ \A l \in Loops : loop[l] # "healing")
=============================================================================
