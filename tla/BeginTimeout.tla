---------------------------- MODULE BeginTimeout ----------------------------
(***************************************************************************)
(* The beginning of a server chain: beginServer, the metadata element and  *)
(* timeoutServer (common/timeout/server.go), which closes a connection     *)
(* that was not refreshed before its token expired.                        *)
(*                                                                         *)
(* An event of module Begin is the goroutine and the CancelContext of one  *)
(* timer here; each successful Request starts a new one.                   *)
(***************************************************************************)
EXTENDS BeginServer

ASSUME NoneIsNoTimer == None \notin Events

VARIABLES
    inTime,   \* "always" if no Close call ends with a context error, or "mostly";
              \* never changes
    timer,    \* goroutine of each timer: not started, waiting, or ended
    owner,    \* the factory that each timer would close
    stored,   \* the timer whose cancel function the metadata of the
              \* Connection.Id holds, or None
    unclosed  \* the connection that was left by the last Close event that ended
              \* with a context error, or None (history)

timeoutVars == <<vars, inTime, timer, owner, stored, unclosed>>

TimeoutInit ==
    /\ Init
    /\ ~MidchainOrderly
    /\ inTime \in {"always", "mostly"}
    /\ timer = [e \in Events |-> "off"]
    /\ owner = [e \in Events |-> None]
    /\ stored = None
    /\ unclosed = None

\* metadata.Close takes the metadata of the Connection.Id out of its map before
\* it calls the next element.
DeleteMetadata == stored' = None

\* oldCancel(), when the metadata held a cancel function.
CancelStored ==
    ctx' = IF stored = None THEN ctx ELSE [ctx EXCEPT ![stored] = "cancelled"]

\* Mutant: the timer of the previous Request goes on.
StartTimer_KeepsOld(f, e) ==
    /\ timer[e] = "off"
    /\ timer' = [timer EXCEPT ![e] = "armed"]
    /\ owner' = [owner EXCEPT ![e] = f]
    /\ stored' = e
    /\ UNCHANGED ctx

\* Request, once the rest of the chain has succeeded: the timer of the previous
\* Request is cancelled and a new one is started.
StartTimer(f, e) ==
    /\ timer[e] = "off"
    /\ timer' = [timer EXCEPT ![e] = "armed"]
    /\ owner' = [owner EXCEPT ![e] = f]
    /\ CancelStored
    /\ stored' = e

\* Mutant: Close does not stop the timer.
StopTimer_Forgets ==
    /\ DeleteMetadata
    /\ held' = None
    /\ UNCHANGED <<minted, last, ctx, timer, owner>>

\* Close: the metadata is deleted on the way in, the timer is cancelled once the
\* rest of the chain has returned.
StopTimer ==
    /\ CancelStored
    /\ DeleteMetadata
    /\ held' = None
    /\ UNCHANGED <<minted, last, timer, owner>>

\* Mutant: Close gives up the timer although the connection may still be there.
LeaveTimer_Cancels ==
    /\ CancelStored
    /\ DeleteMetadata
    /\ held' \in {held, None}
    /\ UNCHANGED <<minted, last, timer, owner>>

\* Any Close, when the rest of the chain has returned DeadlineExceeded or Canceled:
\* the timer is left to try again.  The chain may have kept its connection.
LeaveTimer ==
    /\ DeleteMetadata
    /\ held' \in {held, None}
    /\ UNCHANGED <<minted, last, ctx, timer, owner>>

\* The goroutine of a timer: the token has expired.  When the context is
\* cancelled too, select takes either branch.
TimerFires(e) ==
    /\ timer[e] = "armed"
    /\ Fire(e, owner[e], "close")
    /\ ctx' = ctx
    /\ timer' = [timer EXCEPT ![e] = "ended"]
    /\ UNCHANGED <<owner, stored>>

\* The goroutine of a timer: the context was cancelled.
TimerStops(e) ==
    /\ timer[e] = "armed"
    /\ ctx[e] = "cancelled"
    /\ timer' = [timer EXCEPT ![e] = "ended"]
    /\ UNCHANGED <<owner, stored>>
    /\ UNCHANGED vars

TimeoutChainReturn(f) ==
    \/ RequestSuccess(f) /\ (\E e \in Events : StartTimer(f, e)) /\ UNCHANGED unclosed
    \/ RequestFailure(f) /\ UNCHANGED <<ctx, timer, owner, stored, unclosed>>
    \/ /\ ReselectCloseReturn(f) \/ CloseReturn(f) \/ EventCloseReturn(f)
       /\ \/ StopTimer /\ UNCHANGED unclosed
          \/ /\ inTime = "mostly" /\ LeaveTimer
             /\ unclosed' = IF phase[f] = "eventClose" THEN held' ELSE unclosed

TimeoutExecutorStep(f) ==
    \/ TimeoutChainReturn(f)
    \/ ExecutorRuns(f) /\ UNCHANGED <<timer, owner, stored, unclosed>>

TimerStep(e) == TimerFires(e) \/ TimerStops(e)

TimeoutNext ==
    /\ UNCHANGED <<midchain, inTime>>
    /\ \/ /\ \E c \in Calls : \/ ReceiveRequest(c, "request")
                              \/ ReceiveRequest(c, "reselect")
                              \/ ReceiveClose(c)
                              \/ CallStep(c)
          /\ UNCHANGED <<timer, owner, stored, unclosed>>
       \/ \E f \in Factories : TimeoutExecutorStep(f)
       \/ \E e \in Events : TimerStep(e) /\ UNCHANGED unclosed
       \/ /\ \A e \in Events : timer[e] # "armed"
          /\ Terminated
          /\ UNCHANGED <<timer, owner, stored, unclosed>>

TimeoutSpec == TimeoutInit /\ [][TimeoutNext]_timeoutVars

\* Goroutines are scheduled, tokens expire and chain calls return.
TimeoutFairSpec ==
    /\ TimeoutSpec
    /\ \A c \in Calls :
          WF_timeoutVars(CallStep(c) /\ UNCHANGED <<midchain, inTime, timer, owner, stored, unclosed>>)
    /\ \A f \in Factories :
          WF_timeoutVars(TimeoutExecutorStep(f) /\ UNCHANGED <<midchain, inTime>>)
    /\ \A e \in Events : WF_timeoutVars(TimerStep(e) /\ UNCHANGED <<midchain, inTime, unclosed>>)

-----------------------------------------------------------------------------
\* The context of a timer becomes that of a Close event when it fires.
eventCtx == [e \in Events |-> IF pc[e] = "new" THEN "live" ELSE ctx[e]]

orderly == IF inTime = "always" THEN "orderly" ELSE "careless"

ServerChain == INSTANCE BeginServer WITH midchain <- orderly, ctx <- eventCtx

\* timeoutServer is a midchain element as BeginServer assumes it, and an orderly
\* one unless a Close call ends with a context error: its Close events are
\* cancelled when their session ends.  What holds of BeginServer holds here.
ImplementsBegin == ServerChain!Spec

\* If no Close ends with a context error, a timer that can still close something
\* is the one of the map's established factory: no timer of an ended session or
\* of an earlier Request is live.
LiveTimerIsCurrent ==
    \A e \in Events :
        /\ inTime = "always"
        /\ timer[e] = "armed" \/ pc[e] = "queued"
        /\ ctx[e] = "live"
        /\ \A f \in Factories : ~InChain(f)
        => stored = e /\ owner[e] = entry /\ state[entry] = "established"

\* A connection that nobody refreshes or closes any more is closed by its
\* timer, and so is one whose Close, by a call or before a reselection, ended with a
\* context error.  The one exception: when the Close event of its own timer ends with
\* such an error, there is no timer left to try again.
AbandonedIsClosed == (held # None) ~> (held \in {None, unclosed})
=============================================================================
