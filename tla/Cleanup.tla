------------------------------ MODULE Cleanup ------------------------------
(***************************************************************************)
(* cleanup.NewClient (common/cleanup/client.go): when the context of the   *)
(* chain is done, every connection is closed through the event factory of  *)
(* begin, and a channel is closed once no connection is left.              *)
(*                                                                         *)
(* Each successful Request starts a goroutine.  begin runs one Request,    *)
(* Close or Close event of a connection at a time.                         *)
(***************************************************************************)
EXTENDS Naturals, FiniteSets

CONSTANTS
    Conn,        \* Connection.Ids
    MaxRequests  \* bound on the Requests of each connection

Routine == Conn \X (1 .. MaxRequests)   \* the goroutine of each Request
None    == <<>>

VARIABLES
    chainDone,   \* is chainCtx done?
    watching,    \* does the goroutine of NewClient wait for chainCtx?
    activeConns, \* the counter
    doneCh,      \* is doneCh closed?
    held,        \* does the rest of the chain hold each connection?
    call,        \* the Request of each connection: none, chain or returning
    routine,     \* where each goroutine is
    cancelled,   \* the goroutines whose cancelCtx is cancelled
    stored,      \* the goroutine whose cancel function is in the metadata
    requests

vars == <<chainDone, watching, activeConns, doneCh, held, call, routine, cancelled,
          stored, requests>>

Init ==
    /\ chainDone = FALSE
    /\ watching = TRUE
    /\ activeConns = 0
    /\ doneCh = FALSE
    /\ held = [c \in Conn |-> FALSE]
    /\ call = [c \in Conn |-> "none"]
    /\ routine = [r \in Routine |-> "off"]
    /\ cancelled = {}
    /\ stored = [c \in Conn |-> None]
    /\ requests = [c \in Conn |-> 0]

-----------------------------------------------------------------------------
ChainDone ==
    /\ ~chainDone
    /\ chainDone' = TRUE
    /\ UNCHANGED <<watching, activeConns, doneCh, held, call, routine, cancelled, stored,
                   requests>>

\* The goroutine of NewClient closes doneCh if there are no connections.
WatcherEnds ==
    /\ chainDone
    /\ watching
    /\ watching' = FALSE
    /\ doneCh' = (doneCh \/ activeConns = 0)
    /\ UNCHANGED <<chainDone, activeConns, held, call, routine, cancelled, stored, requests>>

-----------------------------------------------------------------------------
(* Requests and Closes.                                                    *)

\* Callers make no new Request once the context of the chain is done.
Request(c) ==
    /\ call[c] = "none"
    /\ ~chainDone
    /\ requests[c] < MaxRequests
    /\ call' = [call EXCEPT ![c] = "chain"]
    /\ requests' = [requests EXCEPT ![c] = @ + 1]
    /\ UNCHANGED <<chainDone, watching, activeConns, doneCh, held, routine, cancelled, stored>>

\* The rest of the chain succeeds.
RequestSucceeds(c) ==
    /\ call[c] = "chain"
    /\ held' = [held EXCEPT ![c] = TRUE]
    /\ call' = [call EXCEPT ![c] = "returning"]
    /\ UNCHANGED <<chainDone, watching, activeConns, doneCh, routine, cancelled, stored, requests>>

RequestFails(c) ==
    /\ call[c] = "chain"
    /\ call' = [call EXCEPT ![c] = "none"]
    /\ UNCHANGED <<chainDone, watching, activeConns, doneCh, held, routine, cancelled, stored,
                   requests>>

\* The goroutine of the previous Request goes on.
CancelStored_Keeps(c) == UNCHANGED cancelled

\* The cancel function in the metadata is called.
CancelStored(c) == cancelled' = cancelled \cup ({stored[c]} \ {None})

\* The connection is counted, the goroutine of the previous Request is cancelled
\* and a new one is started.
RequestReturns(c) ==
    /\ call[c] = "returning"
    /\ activeConns' = activeConns + 1
    /\ CancelStored(c)
    /\ stored' = [stored EXCEPT ![c] = <<c, requests[c]>>]
    /\ routine' = [routine EXCEPT ![<<c, requests[c]>>] = "waiting"]
    /\ call' = [call EXCEPT ![c] = "none"]
    /\ UNCHANGED <<chainDone, watching, doneCh, held, requests>>

\* cleanupClient.Close and the rest of the chain.
CloseConnection(c) ==
    /\ CancelStored(c)
    /\ stored' = [stored EXCEPT ![c] = None]
    /\ held' = [held EXCEPT ![c] = FALSE]

Close(c) ==
    /\ call[c] = "none"
    /\ held[c]
    /\ CloseConnection(c)
    /\ UNCHANGED <<chainDone, watching, activeConns, doneCh, call, routine, requests>>

-----------------------------------------------------------------------------
(* The goroutine of a Request.                                             *)

\* chainCtx is done: a Close event is queued at begin.
FiresClose(r) ==
    /\ routine[r] = "waiting"
    /\ chainDone
    /\ routine' = [routine EXCEPT ![r] = "closing"]
    /\ UNCHANGED <<chainDone, watching, activeConns, doneCh, held, call, cancelled, stored,
                   requests>>

\* The event skips the connection.
RunsClose_Never(r) ==
    /\ routine[r] = "closing"
    /\ call[r[1]] = "none"
    /\ routine' = [routine EXCEPT ![r] = "closed"]
    /\ UNCHANGED <<chainDone, watching, activeConns, doneCh, held, call, cancelled, stored,
                   requests>>

\* begin runs the event, unless the cancelCtx of the goroutine is cancelled.
RunsClose(r) ==
    /\ routine[r] = "closing"
    /\ call[r[1]] = "none"
    /\ routine' = [routine EXCEPT ![r] = "closed"]
    /\ IF r \in cancelled THEN UNCHANGED <<held, cancelled, stored>> ELSE CloseConnection(r[1])
    /\ UNCHANGED <<chainDone, watching, activeConns, doneCh, call, requests>>

\* The counter goes down, also for an event that was skipped.
CountsDown(r) ==
    /\ routine[r] = "closed"
    /\ activeConns' = activeConns - 1
    /\ routine' = [routine EXCEPT ![r] = "counted"]
    /\ UNCHANGED <<chainDone, watching, doneCh, held, call, cancelled, stored, requests>>

\* doneCh is closed if the counter is zero.
ClosesDone(r) ==
    /\ routine[r] = "counted"
    /\ doneCh' = (doneCh \/ activeConns = 0)
    /\ routine' = [routine EXCEPT ![r] = "ended"]
    /\ UNCHANGED <<chainDone, watching, activeConns, held, call, cancelled, stored, requests>>

\* cancelCtx is cancelled: the counter goes down and that is all.
EndsCancelled(r) ==
    /\ routine[r] = "waiting"
    /\ r \in cancelled
    /\ activeConns' = activeConns - 1
    /\ routine' = [routine EXCEPT ![r] = "ended"]
    /\ UNCHANGED <<chainDone, watching, doneCh, held, call, cancelled, stored, requests>>

-----------------------------------------------------------------------------
CallStep(c) == RequestSucceeds(c) \/ RequestFails(c) \/ RequestReturns(c)

RoutineStep(r) ==
    FiresClose(r) \/ RunsClose(r) \/ CountsDown(r) \/ ClosesDone(r) \/ EndsCancelled(r)

Next ==
    \/ ChainDone \/ WatcherEnds
    \/ \E c \in Conn : Request(c) \/ CallStep(c) \/ Close(c)
    \/ \E r \in Routine : RoutineStep(r)

Spec == Init /\ [][Next]_vars

\* Goroutines and the executors of begin are scheduled, and the rest of the
\* chain answers.
Fairness ==
    /\ WF_vars(WatcherEnds)
    /\ \A c \in Conn : WF_vars(CallStep(c))
    /\ \A r \in Routine : SF_vars(RoutineStep(r))

-----------------------------------------------------------------------------
\* A connection that the chain holds has exactly one goroutine that will close
\* it: the last one, which waits or has fired its event, and is not cancelled.
HeldHasRoutine ==
    \A c \in Conn : held[c] /\ call[c] = "none" =>
        /\ stored[c] # None
        /\ stored[c] \notin cancelled
        /\ routine[stored[c]] \in {"waiting", "closing"}
        /\ \A r \in Routine : r[1] = c /\ r # stored[c] /\ routine[r] \in {"waiting", "closing"}
                                => r \in cancelled

\* Once the context of the chain is done, every connection is closed in the end.
AllCleaned == \A c \in Conn : chainDone /\ held[c] ~> ~held[c]
=============================================================================
