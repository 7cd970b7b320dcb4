------------------------------- MODULE Expire -------------------------------
(***************************************************************************)
(* expireNSEServer and setregtimeNSEServer (registry/common/expire and     *)
(* setregistrationtime) in the chain of a registry, for one endpoint name. *)
(* Register picks the earliest of the expiration times it knows and starts *)
(* a goroutine that has begin unregister the endpoint then; the time of    *)
(* the first registration is kept in the metadata and handed to the later  *)
(* ones.  Time passes only when nobody has anything to do.                 *)
(***************************************************************************)
EXTENDS Integers, Sequences, SequencesExt, FiniteSetsExt

CONSTANTS
    Defaults,       \* values of defaultExpiration, 0 if there is none
    Offers,         \* what a Register brings: [own, token, peer], lifetimes or None
    RequestTimeout, \* requestTimeout: time that the context of a call leaves
    None,
    MaxTime,        \* bound: time
    MaxCalls        \* bound: calls of the client

MaxGens == MaxCalls
Gen == 1 .. MaxGens

VARIABLES
    default,    \* defaultExpiration (never changes)
    now,
    calls,
    registered, \* what the registry holds: its expiration and initial registration times, or None
    known,      \* begin: is the name registered?
    metadata,   \* setregistrationtime: the time it remembers, or None
    queue, run,
    cancel, cancelled, timers, due, gens,
    noTime      \* has the last Register found no expiration time at all?

expireVars == <<default, now, calls, registered, known, metadata, queue, run, cancel, cancelled, timers, due, gens, noTime>>

Call(name, own, token, peer) == [op |-> name, own |-> own, token |-> token, peer |-> peer, gen |-> 0]
Event(g) == [op |-> "expire", own |-> None, token |-> None, peer |-> None, gen |-> g]
Nothing == Call("none", None, None, None)

ExpireInit ==
    /\ default \in Defaults
    /\ now = 0 /\ calls = 0
    /\ registered = None /\ known = FALSE /\ metadata = None
    /\ queue = <<>> /\ run = Nothing
    /\ cancel = 0 /\ cancelled = {} /\ gens = 0
    /\ timers = [g \in Gen |-> "none"]
    /\ due = [g \in Gen |-> 0]
    /\ noTime = FALSE

At(lifetime) == IF lifetime = None THEN None ELSE now + lifetime

\* A client registers with an expiration time of its own, the token of its path and
\* the one of its connection; it may lack each of them.
ClientRegister(o) ==
    /\ calls < MaxCalls /\ calls' = calls + 1
    /\ queue' = Append(queue, Call("Register", At(o.own), At(o.token), At(o.peer)))
    /\ UNCHANGED <<default, now, registered, known, metadata, run, cancel, cancelled, timers, due, gens, noTime>>

ClientUnregister ==
    /\ calls < MaxCalls /\ calls' = calls + 1
    /\ queue' = Append(queue, Call("Unregister", None, None, None))
    /\ UNCHANGED <<default, now, registered, known, metadata, run, cancel, cancelled, timers, due, gens, noTime>>

\* begin: an event runs if the name is registered and its context is not done.
Start ==
    /\ run = Nothing /\ queue # <<>>
    /\ queue' = Tail(queue)
    /\ run' = IF Head(queue).op = "expire" /\ (~ known \/ Head(queue).gen \in cancelled) THEN Nothing ELSE Head(queue)
    /\ UNCHANGED <<default, now, calls, registered, known, metadata, cancel, cancelled, timers, due, gens, noTime>>

\* min(tokenExpirationTime, peerExpirationTime, defaultExpirationTime), if there is any.
selectMinExpirationTime(c) ==
    LET times == {c.token, c.peer} \cup (IF default = 0 THEN {} ELSE {now + default})
    IN  IF times = {None} THEN None ELSE Min(times \ {None})

\* setregtimeNSEServer.Register
initialRegistrationTime == IF metadata # None THEN metadata ELSE now

CancelOld == cancelled' = IF cancel = 0 THEN cancelled ELSE cancelled \cup {cancel}

\* expireNSEServer.Register.  Without an expiration time the zero time is taken, which
\* has passed long ago, even if the endpoint has one of its own.
Register ==
    /\ run.op = "Register" /\ gens < MaxGens
    /\ LET selected == selectMinExpirationTime(run)
           time     == IF run.own = None THEN selected
                       ELSE IF selected = None THEN run.own ELSE Min({run.own, selected})
       IN
          /\ registered' = [expires |-> time, initial |-> initialRegistrationTime]
          /\ due' = [due EXCEPT ![gens + 1] = IF selected = None THEN now ELSE time - RequestTimeout]
          /\ noTime' = (selected = None)
    /\ metadata' = initialRegistrationTime
    /\ known' = TRUE
    /\ CancelOld
    /\ gens' = gens + 1 /\ cancel' = gens + 1
    /\ timers' = [timers EXCEPT ![gens + 1] = "armed"]
    /\ run' = Nothing
    /\ UNCHANGED <<default, now, calls, queue>>

\* The next element fails: the metadata of a name that is not registered is dropped,
\* nothing else changes.
RegisterFails ==
    /\ run.op = "Register"
    /\ run' = Nothing
    /\ UNCHANGED <<default, now, calls, registered, known, metadata, queue, cancel, cancelled, timers, due, gens, noTime>>

\* Unregister of the client, or the event of the goroutine.
Unregister ==
    /\ run.op \in {"Unregister", "expire"}
    /\ CancelOld /\ cancel' = 0
    /\ metadata' = None /\ registered' = None /\ known' = FALSE
    /\ run' = Nothing
    /\ UNCHANGED <<default, now, calls, queue, timers, due, gens, noTime>>

TimerCancelled(g) ==
    /\ timers[g] = "armed" /\ g \in cancelled
    /\ timers' = [timers EXCEPT ![g] = "gone"]
    /\ UNCHANGED <<default, now, calls, registered, known, metadata, queue, run, cancel, cancelled, due, gens, noTime>>

TimerFires(g) ==
    /\ timers[g] = "armed" /\ due[g] <= now
    /\ timers' = [timers EXCEPT ![g] = "gone"]
    /\ queue' = Append(queue, Event(g))
    /\ UNCHANGED <<default, now, calls, registered, known, metadata, run, cancel, cancelled, due, gens, noTime>>

Tick ==
    /\ now < MaxTime /\ now' = now + 1
    /\ run = Nothing /\ queue = <<>>
    /\ \A g \in Gen : timers[g] = "armed" => g \notin cancelled /\ due[g] > now
    /\ UNCHANGED <<default, calls, registered, known, metadata, queue, run, cancel, cancelled, timers, due, gens, noTime>>

ExpireNext ==
    \/ \E o \in Offers : ClientRegister(o)
    \/ ClientUnregister \/ Start \/ Register \/ RegisterFails \/ Unregister
    \/ \E g \in Gen : TimerCancelled(g) \/ TimerFires(g)
    \/ Tick

-----------------------------------------------------------------------------
\* No endpoint is left in the registry after its expiration time, or without a
\* goroutine that will remove it, however Registers, their failures and Unregisters
\* follow each other.
ExpiredIsGone ==
    registered # None =>
        /\ registered.expires # None => now < registered.expires
        /\ run = Nothing =>
              /\ cancel # 0 /\ cancel \notin cancelled
              /\ timers[cancel] = "armed" \/ Event(cancel) \in ToSet(queue)

\* An endpoint that nobody unregisters is not removed before its time, less the time
\* of a call, has come, and a new Register makes an older time void; and its first
\* registration time stays the same as long as it is registered.
NotExpiredIsKept ==
    [][registered # None =>
          /\ registered' = None /\ run.op = "expire" => noTime \/ now >= registered.expires - RequestTimeout
          /\ registered' # None => registered'.initial = registered.initial]_expireVars
=============================================================================
