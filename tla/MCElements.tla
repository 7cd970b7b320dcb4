----------------------------- MODULE MCElements -----------------------------
(***************************************************************************)
(* Elements that are looked at one at a time, in their own modules, onidle *)
(* and cleanup of network services and the memory of the registry: the     *)
(* initial state chooses the element, and the others stay at rest.         *)
(***************************************************************************)
EXTENDS OnIdle, FiniteSets

CONSTANTS MaxRequests, Name, Watcher, ChannelSize, MaxRegistrations,
    n1    \* a name

ASSUME ElementsAssumption ==
    /\ {MaxRequests, ChannelSize, MaxRegistrations} \subseteq Nat
    /\ IsFiniteSet(Name)
    /\ IsFiniteSet(Watcher)

VARIABLES
    element,
    chainDone, watching, counter, doneCh, held, call, routine, cancelled, stored, requests,
    kind, store, unsent, queue, out, channels, channel, find, view, registrations

CleanupClient == INSTANCE Cleanup WITH activeConns <- counter

Memory == INSTANCE RegistryMemory WITH MaxCalls <- MaxRegistrations, calls <- registrations

cleanupVars == <<chainDone, watching, counter, doneCh, held, call, routine, cancelled,
                 stored, requests>>

memoryVars == <<kind, store, unsent, queue, out, channels, channel, find, view, registrations>>

allVars == <<vars, element, cleanupVars, memoryVars>>

MCInit ==
    /\ element \in {"onidle", "cleanup", "memory"}
    /\ Init
    /\ CleanupClient!Init
    /\ Memory!Init
    /\ element # "memory" => kind = "endpoints"

\* Names are alike: n1 is the one that is registered first.
FirstIsN1 == registrations' = 1 => store'[n1] # Memory!Missing

MCNext ==
    /\ UNCHANGED element
    /\ \/ element = "onidle" /\ Next /\ UNCHANGED <<cleanupVars, memoryVars>>
       \/ element = "cleanup" /\ CleanupClient!Next /\ UNCHANGED <<vars, memoryVars>>
       \/ element = "memory" /\ Memory!Next /\ FirstIsN1 /\ UNCHANGED <<vars, cleanupVars>>

MCFairSpec == MCInit /\ [][MCNext]_allVars /\ CleanupClient!Fairness /\ Memory!Fairness

\* cleanupClient: a connection that the chain holds has exactly one goroutine
\* that will close it (module Cleanup).
HeldHasRoutine == CleanupClient!HeldHasRoutine

\* cleanupClient: once the context of the chain is done, every connection is
\* closed in the end.
AllCleaned == CleanupClient!AllCleaned

\* memoryNSServer, memoryNSEServer: the last that is on its way to a watching Find
\* is what the registry holds (module RegistryMemory).
WatchersLearn == Memory!WatchersLearn

\* memoryNSServer, memoryNSEServer: the executor never gets stuck on the channel of a
\* Find that has ended.
ExecutorGoesOn == Memory!ExecutorGoesOn
=============================================================================
