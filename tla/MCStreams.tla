------------------------------ MODULE MCStreams -----------------------------
(***************************************************************************)
(* The parts that move answers and events through channels and streams,    *)
(* and those that try again when they break, one at a time: the initial    *)
(* state chooses one, and the variables of the others stay as they are.    *)
(***************************************************************************)
EXTENDS Integers, Sequences

CONSTANTS
    Client,       \* callers of querycache, and subscribers of eventchannel
    Servers,      \* monitor servers that are combined
    MaxUpdates,   \* bound: events of each of them
    ChannelSize,  \* of the adapters of Find
    MaxAnswers,   \* bound: answers to a Find
    Buffer,       \* capacity of the channel of a subscriber
    MaxEvents,    \* bound: events of an eventchannel
    MaxEntries,   \* bound: entries of querycache
    MaxChanges,   \* bound: changes of the registry that querycache asks
    MaxAttempts,  \* bound: attempts of a call
    MaxCrashes,   \* bound: crashes of the registry of a registry client
    MaxCalls,     \* bound: calls of its application
    MaxTimers     \* bound: its refreshes

ASSUME StreamsAssumption ==
    /\ {Servers, MaxUpdates, MaxAnswers, MaxEvents, MaxEntries, MaxChanges} \subseteq Nat
    /\ {MaxAttempts, MaxCrashes, MaxCalls, MaxTimers} \subseteq Nat
    /\ {ChannelSize, Buffer} \subseteq Nat \ {0}

VARIABLES
    part,
    api, watch, answers, done, ch, closed, pc, sent, msg, got, result,
    monitors, version, initCh, merged, errCh, main, over, out, unsent,
    side, produced, ended, executor, subs, left, ran, stopped, state, fanout, closes, seen,
    registry, changes, entries, stored, nse, expired, cleaned, cancelled, watcher, events, missed,
    find, answer,
    element, op, loop, ctx, chain, timedOut, returned, attempts,
    kind, up, holds, crashes, calls, wanted, queue, run, step, healers, current, dropped, gens,
    timer, timers, gaveUp, blind, stream, leaves

Stream == INSTANCE FindStream WITH Cap <- ChannelSize

Events == INSTANCE MonitorStreams WITH
    Sub <- Client, Cap <- Buffer, pc <- monitors, done <- over, ch <- fanout, got <- seen

Cache == INSTANCE QueryCache WITH Caller <- Client

Registrar == INSTANCE RegistryClient WITH
    api <- kind, pc <- step, cancelled <- dropped, left <- leaves

streamVars == <<api, watch, answers, done, ch, closed, pc, sent, msg, got, result>>
combineVars == <<monitors, version, initCh, merged, errCh, main, over, out, unsent>>
fanoutVars == <<side, produced, ended, executor, subs, left, ran, stopped, state, fanout, closes, seen>>
cacheVars == <<registry, changes, entries, stored, nse, expired, cleaned, cancelled, watcher, events,
               missed, find, answer>>
retryVars == <<element, op, loop, ctx, chain, timedOut, returned, attempts>>
clientVars == <<kind, up, holds, crashes, calls, wanted, queue, run, step, healers, current, dropped, gens,
                timer, timers, gaveUp, blind, stream, leaves>>

\* The choices that a part makes in its initial state are made only for that part.
MCInit ==
    /\ part \in {"find", "combine", "fanout", "cache", "retry", "registrar"}
    /\ Stream!StreamInit /\ Events!CombineInit /\ Events!EventInit /\ Cache!CacheInit
    /\ Registrar!RetryInit /\ Registrar!ClientInit
    /\ part # "find" => api = "ns" /\ watch /\ answers = 0
    /\ part # "fanout" => side = "client"
    /\ part # "retry" => element = "ns"
    /\ part # "registrar" => kind = "ns"

MCNext ==
    /\ UNCHANGED part
    /\ \/ /\ part = "find" /\ Stream!StreamNext
          /\ UNCHANGED <<combineVars, fanoutVars, cacheVars, retryVars, clientVars>>
       \/ /\ part = "combine" /\ Events!CombineNext
          /\ UNCHANGED <<streamVars, fanoutVars, cacheVars, retryVars, clientVars>>
       \/ /\ part = "fanout" /\ Events!EventNext
          /\ UNCHANGED <<streamVars, combineVars, cacheVars, retryVars, clientVars>>
       \/ /\ part = "cache" /\ Cache!CacheNext
          /\ UNCHANGED <<streamVars, combineVars, fanoutVars, retryVars, clientVars>>
       \/ /\ part = "retry" /\ Registrar!RetryNext
          /\ UNCHANGED <<streamVars, combineVars, fanoutVars, cacheVars, clientVars>>
       \/ /\ part = "registrar" /\ Registrar!ClientNext
          /\ UNCHANGED <<streamVars, combineVars, fanoutVars, cacheVars, retryVars>>

vars == <<part, streamVars, combineVars, fanoutVars, cacheVars, retryVars, clientVars>>

\* Goroutines that can run do.  A registry that is asked answers, but nothing forces
\* it to fail or a caller to cancel.
FindFairness ==
    /\ WF_streamVars(part = "find" /\ Stream!RegistryFind)
    /\ WF_streamVars(part = "find" /\ Stream!FindServerToClient)
    /\ WF_streamVars(part = "find" /\ (Stream!nsFindClientToServer \/ Stream!nseFindClientToServer \/ Stream!monitorClientToServer))

\* Every monitor server sends its initial state, and returns once the context is done.
CombineFairness ==
    /\ \A s \in Events!Server :
          /\ WF_combineVars(part = "combine" /\ Events!SendInitial(s))
          /\ WF_combineVars(part = "combine" /\ Events!Initialized(s))
          /\ WF_combineVars(part = "combine" /\ over /\ Events!startMonitorConnectionsServer(s))
    /\ WF_combineVars(part = "combine" /\ (Events!ReadInitial \/ Events!processInitEvent \/ Events!CombineReturns))

\* An attempt whose context is done fails; nothing else about it is sure.
RetryFairness ==
    /\ WF_retryVars(part = "retry" /\ (Registrar!retryClient \/ Registrar!retryNSClient \/ Registrar!retryNSEClient))
    /\ WF_retryVars(part = "retry" /\ Registrar!TryTimeout)
    /\ WF_retryVars(part = "retry" /\ ((ctx \/ timedOut) /\ Registrar!Fails))

\* The registry comes back; what the client has to do, it does.
ClientFairness ==
    /\ WF_clientVars(part = "registrar" /\ Registrar!Restart)
    /\ WF_clientVars(part = "registrar" /\ Registrar!Begin)
    /\ WF_clientVars(part = "registrar" /\ Registrar!NextRegister)
    /\ WF_clientVars(part = "registrar" /\ Registrar!NextUnregister)
    /\ WF_clientVars(part = "registrar" /\ (Registrar!healNSEClient_Register \/ Registrar!healNSClient_Register))
    /\ WF_clientVars(part = "registrar" /\ (Registrar!healNSEClient_Unregister \/ Registrar!healNSClient_Unregister))
    /\ WF_clientVars(part = "registrar" /\ (\E g \in Registrar!Gen : Registrar!healLoop(g)))
    /\ WF_clientVars(part = "registrar" /\ (Registrar!healNSEFindClient_Recv \/ Registrar!healNSFindClient_Recv))

MCSpec ==
    /\ MCInit /\ [][MCNext]_vars
    /\ FindFairness /\ CombineFairness /\ RetryFairness /\ ClientFairness

\* Nothing is lost or reordered on the way: the answers of a Find through the
\* adapters, the events of combineMonitorServer as long as its Sends do not fail,
\* those of eventchannel (which also never closes a channel twice); no call is given
\* up by the retry clients before a context is done; what querycache has cached is
\* watched by exactly one goroutine, and so is what registry heal has registered,
\* unless the last Register was given up.
NothingIsLost ==
    /\ Stream!FindIsComplete
    /\ Events!CombinedViewIsCurrent
    /\ Events!FanoutIsSound
    /\ Registrar!RetryPersists
    /\ Cache!CacheIsWatched
    /\ Registrar!Watched

\* Cancelled and failed calls return and leave no goroutine behind: Find through the
\* adapters, combineMonitorServer, the retry clients.
StreamsEnd ==
    /\ Stream!FindEnds
    /\ Events!CombineEnds
    /\ Registrar!RetryEnds

\* registry heal: after a crash of the registry the client registers again, and
\* then it is quiet.
HealedAndQuiet == Registrar!Healed /\ Registrar!Quiet
=============================================================================
