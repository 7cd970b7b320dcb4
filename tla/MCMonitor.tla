----------------------------- MODULE MCMonitor -----------------------------
(***************************************************************************)
(* monitor, which reports connections, and heal, which repairs what it is  *)
(* told of, each on its own: the initial state chooses one, and the other  *)
(* stays at rest.  One of the watchers selects connection c1, others       *)
(* select all, and most happens to c1.                                     *)
(***************************************************************************)
EXTENDS Monitor

CONSTANTS
    c1, one,
    MaxSteps,                                       \* bound: calls and events of c1 and of one other
    MaxLoops, MaxRequests, MaxLosses, HasLiveness   \* of Heal

ASSUME HealAssumption == MaxLoops \in Nat

VARIABLES
    part,
    state, held, loops, cancelled, lost, reselect, handle, fired, by, step, taken, requests, losses

MCSelector  == [w \in Watcher |-> IF w = one THEN {c1} ELSE Conn]
MCMaxCalls  == [c \in Conn |-> IF c = c1 THEN 3 ELSE 1]
MCMaxEvents == [c \in Conn |-> IF c = c1 THEN 1 ELSE 0]

Healing == INSTANCE Heal WITH
    MaxCalls <- MaxRequests, loop <- loops, loaded <- taken, calls <- requests

healVars == <<state, held, loops, cancelled, lost, reselect, handle, fired, by, step, taken, requests, losses>>

\* The calls of c1 and the events of its next hop; the calls of others count as one.
Steps == calls[c1] + events[c1] + (IF \E c \in Conn \ {c1} : calls[c] # 0 THEN 1 ELSE 0)

MCInit == part \in {"monitor", "heal"} /\ Init /\ Healing!Init

MCNext ==
    /\ UNCHANGED part
    /\ \/ part = "monitor" /\ Next /\ Steps' <= MaxSteps /\ UNCHANGED healVars
       \/ part = "heal" /\ Healing!Next /\ UNCHANGED vars

\* The fairness of a part that was not chosen asks for nothing: it is at rest.
MCFairSpec == MCInit /\ [][MCNext]_<<part, vars, healVars>> /\ Fairness /\ Healing!Fairness

\* healClient: a connection that is held is watched, or being healed, by loops that its
\* handle reaches (module Heal).
WatchedByOneLoop == Healing!WatchedByOneLoop

\* healClient: a loss that a loop has taken is repaired, and no Request waits for ever for
\* the loop that it has cancelled (module Heal).
LossIsRepaired == Healing!LossIsRepaired
=============================================================================
