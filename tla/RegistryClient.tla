---------------------------- MODULE RegistryClient --------------------------
(***************************************************************************)
(* The registry client of an application for one name, begin - retry -     *)
(* heal - refresh - connect, against a registry that crashes and comes     *)
(* back empty.  healNSClient and healNSEClient watch what they have        *)
(* registered with a Find; when its stream breaks they have begin register *)
(* again.  refreshNSEClient registers again before the expiration time.    *)
(* begin runs one call at a time and drops an event whose context is done. *)
(*                                                                         *)
(* The loops of retry are looked at on their own at the end, with those of *)
(* networkservice/common/retry, which are the same but for the contexts    *)
(* that they look at.                                                      *)
(***************************************************************************)
EXTENDS Integers, Sequences, SequencesExt

CONSTANTS
    MaxCrashes,  \* bound: crashes of the registry
    MaxCalls,    \* bound: calls of the application
    MaxTimers,   \* bound: refreshes
    MaxAttempts  \* bound: attempts of a call that is repeated

VARIABLES
    api,       \* "ns" or "nse" (never changes)
    up,        \* is the registry up?
    holds,     \* does it hold the registration?
    crashes,
    calls,
    wanted,    \* begin: is the name registered, as far as the application knows?
    queue,     \* begin: calls and events that wait for the executor
    run,       \* the call that runs: [op, gen], and where it is
    pc,
    healers,   \* goroutines of heal by generation: "none", "recv", "broken", "gone"
    current,   \* heal: the generation whose cancel function is in the map, or 0
    cancelled, \* generations whose healCtx is done
    gens,      \* generations so far
    timer,     \* refresh: "none", "set" or "fired", and not cancelled since
    timers,    \* refresh: events so far, which are their generations
    gaveUp,    \* has the context of the last Register ended before its retries succeeded?
    blind,     \* did the registry lose the name between its Register and the watch?
    stream,    \* a watching Find of the application: "none", "recv", "broken", "ended"
    left       \* is the context of that Find done?

clientVars == <<api, up, holds, crashes, calls, wanted, queue, run, pc, healers, current, cancelled, gens, timer, timers, gaveUp, blind, stream, left>>

MaxGens == MaxCalls + MaxCrashes + MaxTimers + 1
Gen == 1 .. MaxGens
NoCall == [op |-> "none", gen |-> 0]
Call(o, g) == [op |-> o, gen |-> g]

ClientInit ==
    /\ api \in {"ns", "nse"}
    /\ up = TRUE /\ holds = FALSE /\ crashes = 0 /\ calls = 0
    /\ wanted = FALSE
    /\ queue = <<>> /\ run = NoCall /\ pc = "idle"
    /\ healers = [g \in Gen |-> "none"]
    /\ current = 0 /\ cancelled = {} /\ gens = 0
    /\ timer = "none" /\ timers = 0
    /\ gaveUp = FALSE /\ blind = FALSE
    /\ stream = "none" /\ left = FALSE

-----------------------------------------------------------------------------
(* The registry (external): a crash loses what it holds and breaks every   *)
(* stream.                                                                 *)

Crash ==
    /\ up /\ crashes < MaxCrashes
    /\ up' = FALSE /\ holds' = FALSE /\ crashes' = crashes + 1
    /\ healers' = [g \in Gen |-> IF healers[g] = "recv" THEN "broken" ELSE healers[g]]
    /\ stream' = IF stream = "recv" THEN "broken" ELSE stream
    /\ UNCHANGED <<api, calls, wanted, queue, run, pc, current, cancelled, gens, timer, timers, gaveUp, blind, left>>

Restart ==
    /\ ~ up /\ up' = TRUE
    /\ UNCHANGED <<api, holds, crashes, calls, wanted, queue, run, pc, healers, current, cancelled, gens, timer, timers, gaveUp, blind, stream, left>>

\* An endpoint that nobody refreshes expires.
Expire ==
    /\ api = "nse" /\ holds /\ timer # "set" /\ run = NoCall /\ queue = <<>> /\ gaveUp
    /\ holds' = FALSE
    /\ UNCHANGED <<api, up, crashes, calls, wanted, queue, run, pc, healers, current, cancelled, gens, timer, timers, gaveUp, blind, stream, left>>

-----------------------------------------------------------------------------
(* The application and begin.                                              *)

Application(o) ==
    /\ stream = "none" /\ calls < MaxCalls /\ calls' = calls + 1
    /\ queue' = Append(queue, Call(o, 0))
    /\ UNCHANGED <<api, up, holds, crashes, wanted, run, pc, healers, current, cancelled, gens, timer, timers, gaveUp, blind, stream, left>>

\* The executor of begin: an event runs if its context is not done and the name is
\* still registered.
Preclude(c) ==
    \/ c.op \in {"heal", "refresh"} /\ ~ wanted
    \/ c.op = "heal" /\ c.gen \in cancelled
    \/ c.op = "refresh" /\ ~ (timer = "fired" /\ c.gen = timers)

Begin ==
    /\ run = NoCall /\ queue # <<>>
    /\ queue' = Tail(queue)
    /\ IF Preclude(Head(queue))
       THEN UNCHANGED <<run, pc>>
       ELSE /\ run' = Head(queue)
            /\ pc' = IF Head(queue).op = "Unregister" THEN "heal" ELSE "next"
    /\ UNCHANGED <<api, up, holds, crashes, calls, wanted, healers, current, cancelled, gens, timer, timers, gaveUp, blind, stream, left>>

Ends == run' = NoCall /\ pc' = "idle"

-----------------------------------------------------------------------------
(* Register: refresh and what is below it, then the watch of heal.         *)

\* refreshNSEClient.Register after the registry has answered: the timer of the
\* previous Register is replaced, and its event, if there is one, will not run.
refreshNSEClient_Register == timer' = IF api = "nse" /\ timers < MaxTimers THEN "set" ELSE "none"

NextRegister ==
    /\ pc = "next" /\ up
    /\ holds' = TRUE
    /\ refreshNSEClient_Register
    /\ pc' = "watch"
    /\ UNCHANGED <<api, up, crashes, calls, wanted, queue, run, healers, current, cancelled, gens, timers, gaveUp, blind, stream, left>>

\* An attempt that fails: the registry is down, or something is lost on the way.
Fault == IF up THEN crashes < MaxCrashes /\ crashes' = crashes + 1 ELSE UNCHANGED crashes

\* retry tries again, from the start, or gives up when the context of the call has
\* ended; the first Register of the name then leaves begin as it was.
TriesAgain == pc' = "next" /\ UNCHANGED <<run, gaveUp>>
RetryGivesUp == gaveUp' = TRUE /\ Ends

RegisterFails ==
    /\ pc = "next" /\ Fault
    /\ holds' \in IF up THEN {holds, TRUE} ELSE {holds}
    /\ TriesAgain \/ RetryGivesUp
    /\ UNCHANGED <<api, up, calls, wanted, queue, healers, current, cancelled, gens, timer, timers, blind, stream, left>>

\* healNSEClient.Register cancels the goroutine of the previous Register and starts
\* one of its own.  Without a stream it fails, and what Register has left in the
\* registry stays there.
HealRegister ==
    /\ pc = "watch" /\ gens < MaxGens
    /\ cancelled' = IF current = 0 THEN cancelled ELSE cancelled \cup {current}
    /\ \/ /\ up
          /\ gens' = gens + 1
          /\ current' = gens + 1
          /\ healers' = [g \in Gen |-> IF g = gens + 1 THEN "recv"
                                       ELSE IF g = current /\ healers[g] = "recv" THEN "broken"
                                       ELSE healers[g]]
          /\ wanted' = TRUE /\ gaveUp' = FALSE /\ blind' = ~ holds
          /\ Ends
          /\ UNCHANGED crashes
       \/ /\ Fault
          /\ current' = 0
          /\ healers' = [g \in Gen |-> IF g = current /\ healers[g] = "recv" THEN "broken" ELSE healers[g]]
          /\ TriesAgain \/ RetryGivesUp
          /\ UNCHANGED <<gens, wanted, blind>>

healNSEClient_Register ==
    api = "nse" /\ HealRegister /\ UNCHANGED <<api, up, holds, calls, queue, timer, timers, stream, left>>
healNSClient_Register ==
    api = "ns" /\ HealRegister /\ UNCHANGED <<api, up, holds, calls, queue, timer, timers, stream, left>>

-----------------------------------------------------------------------------
(* The goroutines.                                                         *)

\* A bug: the goroutine cancels its context on its way out.
healLoop_Cancels(g) ==
    /\ healers[g] = "broken"
    /\ healers' = [healers EXCEPT ![g] = "gone"]
    /\ cancelled' = cancelled \cup {g}
    /\ queue' = Append(queue, Call("heal", g))
    /\ UNCHANGED <<api, up, holds, crashes, calls, wanted, run, pc, current, gens, timer, timers, gaveUp, blind, stream, left>>

\* heal: Recv fails, the Register event is handed to begin.
healLoop(g) ==
    /\ healers[g] = "broken"
    /\ healers' = [healers EXCEPT ![g] = "gone"]
    /\ queue' = Append(queue, Call("heal", g))
    /\ UNCHANGED <<api, up, holds, crashes, calls, wanted, run, pc, current, cancelled, gens, timer, timers, gaveUp, blind, stream, left>>

\* The stream breaks although the registry is up.
StreamBreaks(g) ==
    /\ healers[g] = "recv" /\ crashes < MaxCrashes
    /\ crashes' = crashes + 1
    /\ healers' = [healers EXCEPT ![g] = "broken"]
    /\ UNCHANGED <<api, up, holds, calls, wanted, queue, run, pc, current, cancelled, gens, timer, timers, gaveUp, blind, stream, left>>

refreshLoop ==
    /\ timer = "set"
    /\ timer' = "fired" /\ timers' = timers + 1
    /\ queue' = Append(queue, Call("refresh", timers + 1))
    /\ UNCHANGED <<api, up, holds, crashes, calls, wanted, run, pc, healers, current, cancelled, gens, gaveUp, blind, stream, left>>

-----------------------------------------------------------------------------
(* Unregister: heal and refresh cancel what they run, then the registry.   *)

refreshNSEClient_Unregister == timer' = "none"

HealUnregister ==
    /\ pc = "heal"
    /\ current' = 0
    /\ cancelled' = IF current = 0 THEN cancelled ELSE cancelled \cup {current}
    /\ healers' = [g \in Gen |-> IF g = current /\ healers[g] = "recv" THEN "broken" ELSE healers[g]]
    /\ refreshNSEClient_Unregister
    /\ pc' = "unregister"

healNSEClient_Unregister ==
    api = "nse" /\ HealUnregister /\ UNCHANGED <<api, up, holds, crashes, calls, wanted, queue, run, gens, timers, gaveUp, blind, stream, left>>
healNSClient_Unregister ==
    api = "ns" /\ HealUnregister /\ UNCHANGED <<api, up, holds, crashes, calls, wanted, queue, run, gens, timers, gaveUp, blind, stream, left>>

\* begin forgets the name whether the registry answers or the context ends first.
NextUnregister ==
    /\ pc = "unregister"
    /\ holds' = IF up THEN FALSE ELSE holds
    /\ wanted' = FALSE
    /\ Ends
    /\ UNCHANGED <<api, up, crashes, calls, queue, healers, current, cancelled, gens, timer, timers, gaveUp, blind, stream, left>>

-----------------------------------------------------------------------------
(* A watching Find of the application (one that makes no other calls).     *)

HealFind ==
    /\ calls = 0 /\ stream = "none" /\ up
    /\ stream' = "recv"
    /\ UNCHANGED <<api, up, holds, crashes, calls, wanted, queue, run, pc, healers, current, cancelled, gens, timer, timers, gaveUp, blind, left>>

healNSEClient_Find == api = "nse" /\ HealFind
healNSClient_Find == api = "ns" /\ HealFind

Leave ==
    /\ stream \in {"recv", "broken"} /\ ~ left
    /\ left' = TRUE /\ stream' = "broken"
    /\ UNCHANGED <<api, up, holds, crashes, calls, wanted, queue, run, pc, healers, current, cancelled, gens, timer, timers, gaveUp, blind>>

\* Recv of the stream that heal has wrapped: it makes new streams until one works or
\* the context is done.
FindClient_Recv ==
    /\ stream = "broken"
    /\ \/ up /\ ~ left /\ stream' = "recv"
       \/ left /\ stream' = "ended"
    /\ UNCHANGED <<api, up, holds, crashes, calls, wanted, queue, run, pc, healers, current, cancelled, gens, timer, timers, gaveUp, blind, left>>

healNSEFindClient_Recv == api = "nse" /\ FindClient_Recv
healNSFindClient_Recv == api = "ns" /\ FindClient_Recv

ClientNext ==
    \/ Crash \/ Restart \/ Expire \/ Application("Register") \/ Application("Unregister")
    \/ Begin \/ NextRegister \/ RegisterFails \/ healNSEClient_Register \/ healNSClient_Register
    \/ \E g \in Gen : healLoop(g) \/ StreamBreaks(g)
    \/ refreshLoop \/ healNSEClient_Unregister \/ healNSClient_Unregister \/ NextUnregister
    \/ healNSEClient_Find \/ healNSClient_Find \/ Leave \/ healNSEFindClient_Recv \/ healNSFindClient_Recv

-----------------------------------------------------------------------------
(* The loops of retryClient (networkservice/common/retry), retryNSClient   *)
(* and retryNSEClient (registry/common/retry): an attempt that fails is    *)
(* followed by another one after an interval, until the context of the     *)
(* call, or that of the application, is done.  A Find has no timeout of    *)
(* its own for an attempt and sleeps without looking at the contexts.      *)

VARIABLES
    element,  \* "ns", "nsRegistry" or "nseRegistry" (never changes)
    op,       \* "Request" (or Close), "Register" (or Unregister), "Find" (never changes)
    loop,     \* "loop", "attempt", "failed", "wait" or "returned"
    ctx,      \* is the context of the call done?
    chain,    \* is the context of the application done?
    timedOut, \* has tryTimeout of the running attempt passed?
    returned, \* what the caller got
    attempts

retryVars == <<element, op, loop, ctx, chain, timedOut, returned, attempts>>

RetryInit ==
    /\ \/ element = "ns" /\ op = "Request"
       \/ element \in {"nsRegistry", "nseRegistry"} /\ op \in {"Register", "Find"}
    /\ loop = "loop"
    /\ ctx = FALSE /\ chain = FALSE /\ timedOut = FALSE
    /\ returned = "none" /\ attempts = 0

Return(r) == loop' = "returned" /\ returned' = r

\* The condition of the loop: retryNSEClient.Register does not look at chainCtx.
retryClient_Continues == element = "ns" /\ ~ ctx
retryNSClient_Continues == element = "nsRegistry" /\ ~ ctx /\ ~ chain
retryNSEClient_Continues == element = "nseRegistry" /\ ~ ctx /\ (op = "Find" => ~ chain)

Continues == retryClient_Continues \/ retryNSClient_Continues \/ retryNSEClient_Continues

Loop ==
    /\ loop = "loop"
    /\ IF Continues
       THEN loop' = "attempt" /\ attempts' = attempts + 1 /\ timedOut' = FALSE /\ UNCHANGED returned
       ELSE Return("error") /\ UNCHANGED <<attempts, timedOut>>
    /\ UNCHANGED <<element, op, ctx, chain>>

\* The attempt returns when it wants, or with an error once its context is done.
Succeeds ==
    /\ loop = "attempt" /\ Return("ok")
    /\ UNCHANGED <<element, op, ctx, chain, timedOut, attempts>>

Fails ==
    /\ loop = "attempt" /\ loop' = "wait"
    /\ UNCHANGED <<element, op, ctx, chain, timedOut, returned, attempts>>

TryTimeout ==
    /\ loop = "attempt" /\ op # "Find" /\ ~ timedOut
    /\ timedOut' = TRUE
    /\ UNCHANGED <<element, op, loop, ctx, chain, returned, attempts>>

\* The select after a failed attempt; the application's context is not looked at by
\* retryClient, and a Find only sleeps.
Wakes == ctx \/ (element # "ns" /\ chain)

Wait ==
    /\ loop = "wait"
    /\ \/ op # "Find" /\ Wakes /\ Return("error")
       \/ /\ op # "Find" => ~ Wakes
          /\ attempts < MaxAttempts \/ ~ Continues
          /\ loop' = "loop" /\ UNCHANGED returned
    /\ UNCHANGED <<element, op, ctx, chain, timedOut, attempts>>

\* The loops of the three clients.
retryClient == element = "ns" /\ (Loop \/ Wait)
retryNSClient == element = "nsRegistry" /\ (Loop \/ Wait)
retryNSEClient == element = "nseRegistry" /\ (Loop \/ Wait)

ContextDone ==
    /\ loop # "returned"
    /\ \/ ~ ctx /\ ctx' = TRUE /\ UNCHANGED chain
       \/ ~ chain /\ chain' = TRUE /\ UNCHANGED ctx
    /\ UNCHANGED <<element, op, loop, timedOut, returned, attempts>>

RetryNext ==
    \/ retryClient \/ retryNSClient \/ retryNSEClient
    \/ Succeeds \/ Fails \/ TryTimeout \/ ContextDone

-----------------------------------------------------------------------------
\* At most one goroutine watches with a context that is not done, it is the one in
\* the map, and while nothing runs a registered name has such a goroutine or its
\* event in the queue, unless the last Register was given up: then the name may be in
\* the registry with nobody who watches it.
Watched ==
    /\ \A g \in Gen : healers[g] = "recv" => g = current
    /\ wanted /\ run = NoCall /\ ~ gaveUp =>
          /\ current # 0
          /\ healers[current] \in {"recv", "broken"} \/ Call("heal", current) \in ToSet(queue)

\* The registry holds again what it has lost, unless the application unregisters it,
\* the context of the call ended first, or it was lost before the watch began; a
\* watching Find whose stream broke goes on, or ends if its caller has left.
Healed ==
    /\ wanted ~> (holds \/ ~ wanted \/ gaveUp \/ blind)
    /\ stream = "broken" ~> stream \in {"recv", "ended"}

\* Register events of heal end: what the client registers is not lost and
\* registered over and over without a crash.
Quiet == <>[](queue = <<>> /\ run = NoCall)

\* A call fails only when its context, or the application's, is done.
RetryPersists == returned = "error" => ctx \/ (element # "ns" /\ chain)

\* A call whose context is done returns; so does one of the registry after the
\* application's, once its running attempt has.
RetryEnds ==
    /\ ctx ~> loop = "returned"
    /\ element # "ns" /\ op # "Find" /\ chain ~> loop = "returned"
=============================================================================
