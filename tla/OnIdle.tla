------------------------------- MODULE OnIdle -------------------------------
(***************************************************************************)
(* onidle.NewServer (common/onidle/server.go): notifies when there was no  *)
(* active connection for a while, and refuses all Requests from then on.   *)
(*                                                                         *)
(* The timer runs its function on a goroutine of its own, which may wait   *)
(* for the mutex while the timer is stopped and reset.  begin runs one     *)
(* Request or Close of a connection at a time.                             *)
(***************************************************************************)
EXTENDS Naturals

CONSTANTS
    Conn,       \* Connection.Ids
    MaxPeriods  \* bound on the idle periods

ASSUME OnIdleAssumption == MaxPeriods \in Nat \ {0}

Period == 1 .. MaxPeriods

VARIABLES
    activeConns, timerFired,
    ctxDone,    \* is the context of the server done?
    armed,      \* is the timer running?
    period,     \* the number of the idle period the timer was set for last
    callbacks,  \* periods that passed and whose function waits for the mutex
    calls       \* the Request of each connection in the chain: none, first, refresh

vars == <<activeConns, timerFired, ctxDone, armed, period, callbacks, calls>>

Init ==
    /\ activeConns = {}
    /\ timerFired = FALSE
    /\ ctxDone = FALSE
    /\ armed = TRUE
    /\ period = 1
    /\ callbacks = {}
    /\ calls = [c \in Conn |-> "none"]

-----------------------------------------------------------------------------
\* The timeout passes.  The function returns if the context is done.
TimerExpires ==
    /\ armed
    /\ armed' = FALSE
    /\ callbacks' = IF ctxDone THEN callbacks ELSE callbacks \cup {period}
    /\ UNCHANGED <<activeConns, timerFired, ctxDone, period, calls>>

\* The function does not look at the connections.
Expire_Always ==
    timerFired' = TRUE

\* The server expires unless it has, or has connections again.
Expire ==
    timerFired' = (timerFired \/ activeConns = {})

\* The function of the timer gets the mutex, or has seen the context done.
CallbackRuns(p) ==
    /\ p \in callbacks
    /\ callbacks' = callbacks \ {p}
    /\ \/ Expire
       \/ ctxDone /\ UNCHANGED timerFired
    /\ UNCHANGED <<activeConns, ctxDone, armed, period, calls>>

ContextDone ==
    /\ ~ctxDone
    /\ ctxDone' = TRUE
    /\ UNCHANGED <<activeConns, timerFired, armed, period, callbacks, calls>>

StopOnDone ==
    /\ ctxDone
    /\ armed
    /\ armed' = FALSE
    /\ UNCHANGED <<activeConns, timerFired, ctxDone, period, callbacks, calls>>

-----------------------------------------------------------------------------

\* addConnection; an expired server refuses the Request.
Request(c) ==
    /\ calls[c] = "none"
    /\ ~timerFired
    /\ activeConns' = activeConns \cup {c}
    /\ armed' = (armed /\ c \in activeConns)
    /\ calls' = [calls EXCEPT ![c] = IF c \in activeConns THEN "refresh" ELSE "first"]
    /\ UNCHANGED <<timerFired, ctxDone, period, callbacks>>

\* The timer is not reset with the last connection.
RemoveConnection_Stopped(c) ==
    /\ activeConns' = activeConns \ {c}
    /\ UNCHANGED <<armed, period>>

\* The last connection to go resets the timer.
RemoveConnection(c) ==
    /\ activeConns' = activeConns \ {c}
    /\ IF activeConns = {c} /\ ~ctxDone
         THEN period < MaxPeriods /\ period' = period + 1 /\ armed' = TRUE
         ELSE UNCHANGED <<armed, period>>

RequestSucceeds(c) ==
    /\ calls[c] # "none"
    /\ calls' = [calls EXCEPT ![c] = "none"]
    /\ UNCHANGED <<activeConns, timerFired, ctxDone, armed, period, callbacks>>

RequestFails(c) ==
    /\ calls[c] # "none"
    /\ calls' = [calls EXCEPT ![c] = "none"]
    /\ IF calls[c] = "first" THEN RemoveConnection(c) ELSE UNCHANGED <<activeConns, armed, period>>
    /\ UNCHANGED <<timerFired, ctxDone, callbacks>>

Close(c) ==
    /\ calls[c] = "none"
    /\ c \in activeConns
    /\ RemoveConnection(c)
    /\ UNCHANGED <<timerFired, ctxDone, callbacks, calls>>

-----------------------------------------------------------------------------
TimerStep == TimerExpires \/ StopOnDone \/ \E p \in Period : CallbackRuns(p)

Next ==
    \/ TimerStep
    \/ ContextDone
    \/ \E c \in Conn : Request(c) \/ RequestSucceeds(c) \/ RequestFails(c) \/ Close(c)

Spec == Init /\ [][Next]_vars

-----------------------------------------------------------------------------
TypeOK ==
    /\ activeConns \subseteq Conn
    /\ timerFired \in BOOLEAN /\ ctxDone \in BOOLEAN /\ armed \in BOOLEAN
    /\ period \in Period
    /\ callbacks \subseteq Period
    /\ calls \in [Conn -> {"none", "first", "refresh"}]
    /\ \A c \in Conn : calls[c] # "none" => c \in activeConns

\* The server never expires under a connection: once it has, no connection is
\* active and no Request is on its way through the chain, and none becomes so.
ExpiredIsEmpty == timerFired => activeConns = {} /\ \A c \in Conn : calls[c] = "none"

\* A server without connections is about to expire: whatever Requests failed and
\* whichever functions of the timer came too late, its timer runs or has fired.
IdleIsTimed ==
    activeConns = {} /\ ~timerFired /\ ~ctxDone => armed \/ callbacks # {}
=============================================================================
