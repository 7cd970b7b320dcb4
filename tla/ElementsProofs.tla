--------------------------- MODULE ElementsProofs ---------------------------
(***************************************************************************)
(* Proofs about the elements of MCElements: onidle and cleanup, for any    *)
(* connections and numbers of Requests, and the memory of the registry,    *)
(* for any names, watchers, numbers of calls and sizes of a channel.       *)
(***************************************************************************)
EXTENDS Sequences, MCElements, FiniteSetTheorems, WellFoundedInduction, TLAPS

LEMMA InitType == Init => TypeOK
  <1>1. 1 \in Period
    BY OnIdleAssumption DEF Period
  <1>2. QED
    BY <1>1 DEF Init, TypeOK

LEMMA RemoveType ==
    ASSUME TypeOK, NEW c \in Conn, RemoveConnection(c)
    PROVE  /\ activeConns' \subseteq Conn
           /\ armed' \in BOOLEAN
           /\ period' \in Period
  <1>1. activeConns' \subseteq Conn
    BY DEF TypeOK, RemoveConnection
  <1>2. armed' \in BOOLEAN
    BY DEF TypeOK, RemoveConnection
  <1>3. period' \in Period
    <2>1. period \in Period /\ (period' = period \/ (period < MaxPeriods /\ period' = period + 1))
      BY DEF TypeOK, RemoveConnection
    <2>2. QED
      BY <2>1, OnIdleAssumption DEF Period
  <1>4. QED
    BY <1>1, <1>2, <1>3

LEMMA NextType ==
    ASSUME TypeOK, [Next]_vars
    PROVE  TypeOK'
  <1>1. CASE TimerExpires
    BY <1>1 DEF TimerExpires, TypeOK
  <1>2. ASSUME NEW p \in Period, CallbackRuns(p)
        PROVE  TypeOK'
    BY <1>2 DEF CallbackRuns, Expire, TypeOK
  <1>3. CASE ContextDone \/ StopOnDone
    BY <1>3 DEF ContextDone, StopOnDone, TypeOK
  <1>4. ASSUME NEW c \in Conn, Request(c)
        PROVE  TypeOK'
    BY <1>4 DEF Request, TypeOK
  <1>5. ASSUME NEW c \in Conn, RequestSucceeds(c)
        PROVE  TypeOK'
    BY <1>5 DEF RequestSucceeds, TypeOK
  <1>6. ASSUME NEW c \in Conn, RequestFails(c)
        PROVE  TypeOK'
    <2>1. CASE calls[c] = "first"
      <3>1. RemoveConnection(c)
        BY <1>6, <2>1 DEF RequestFails
      <3>2. \A d \in Conn : calls'[d] # "none" => d \in activeConns'
        BY <1>6, <3>1 DEF RequestFails, RemoveConnection, TypeOK
      <3>3. QED
        BY <1>6, <3>1, <3>2, RemoveType DEF RequestFails, TypeOK
    <2>2. CASE calls[c] # "first"
      BY <1>6, <2>2 DEF RequestFails, TypeOK
    <2>3. QED
      BY <2>1, <2>2
  <1>7. ASSUME NEW c \in Conn, Close(c)
        PROVE  TypeOK'
    <2>1. \A d \in Conn : calls'[d] # "none" => d \in activeConns'
      BY <1>7 DEF Close, RemoveConnection, TypeOK
    <2>2. QED
      BY <1>7, <2>1, RemoveType DEF Close, TypeOK
  <1>8. CASE UNCHANGED vars
    BY <1>8 DEF vars, TypeOK
  <1>9. QED
    BY <1>1, <1>2, <1>3, <1>4, <1>5, <1>6, <1>7, <1>8 DEF Next, TimerStep

\* The variables of onIdleServer keep their types, and a Request in the chain
\* has its connection among the active ones.
THEOREM TypeCorrect == Spec => []TypeOK
  BY InitType, NextType, PTL DEF Spec

\* The server never expires under a connection, however the function of the
\* timer, Requests and Closes take turns on the mutex.
THEOREM NeverExpiresUnderConnection == Spec => []ExpiredIsEmpty
  <1> DEFINE Inv == TypeOK /\ ExpiredIsEmpty
  <1>1. Init => Inv
    BY InitType DEF Init, ExpiredIsEmpty
  <1>2. Inv /\ [Next]_vars => Inv'
    <2> SUFFICES ASSUME TypeOK, ExpiredIsEmpty, [Next]_vars
                 PROVE  ExpiredIsEmpty'
      BY NextType
    <2>1. CASE TimerExpires \/ ContextDone \/ StopOnDone
      BY <2>1 DEF TimerExpires, ContextDone, StopOnDone, ExpiredIsEmpty
    <2>2. ASSUME NEW p \in Period, CallbackRuns(p)
          PROVE  ExpiredIsEmpty'
      BY <2>2 DEF CallbackRuns, Expire, ExpiredIsEmpty, TypeOK
    <2>3. ASSUME NEW c \in Conn,
                 Request(c) \/ RequestSucceeds(c) \/ RequestFails(c) \/ Close(c)
          PROVE  ExpiredIsEmpty'
      <3>1. timerFired' = timerFired
        BY <2>3 DEF Request, RequestSucceeds, RequestFails, Close
      <3>2. ~timerFired
        BY <2>3 DEF Request, RequestSucceeds, RequestFails, Close, ExpiredIsEmpty
      <3>3. QED
        BY <3>1, <3>2 DEF ExpiredIsEmpty
    <2>4. CASE UNCHANGED vars
      BY <2>4 DEF vars, ExpiredIsEmpty
    <2>5. QED
      BY <2>1, <2>2, <2>3, <2>4 DEF Next, TimerStep
  <1>3. QED
    BY <1>1, <1>2, PTL DEF Spec, ExpiredIsEmpty

\* A server without connections has its timer running or about to fire: no
\* failed Request and no late function of the timer leaves it idle for ever.
THEOREM IdleServerIsTimed == Spec => []IdleIsTimed
  <1> DEFINE Inv == TypeOK /\ IdleIsTimed
  <1>1. Init => Inv
    BY InitType DEF Init, IdleIsTimed
  <1>2. Inv /\ [Next]_vars => Inv'
    <2> SUFFICES ASSUME TypeOK, IdleIsTimed, [Next]_vars
                 PROVE  IdleIsTimed'
      BY NextType
    <2>1. CASE TimerExpires \/ ContextDone \/ StopOnDone
      BY <2>1 DEF TimerExpires, ContextDone, StopOnDone, IdleIsTimed, TypeOK
    <2>2. ASSUME NEW p \in Period, CallbackRuns(p)
          PROVE  IdleIsTimed'
      BY <2>2 DEF CallbackRuns, Expire, IdleIsTimed, TypeOK
    <2>3. ASSUME NEW c \in Conn, RemoveConnection(c), c \in activeConns,
                 UNCHANGED <<timerFired, ctxDone, callbacks>>
          PROVE  IdleIsTimed'
      BY <2>3 DEF RemoveConnection, IdleIsTimed, TypeOK
    <2>4. ASSUME NEW c \in Conn, Request(c)
          PROVE  IdleIsTimed'
      BY <2>4 DEF Request, IdleIsTimed
    <2>5. ASSUME NEW c \in Conn, RequestSucceeds(c)
          PROVE  IdleIsTimed'
      BY <2>5 DEF RequestSucceeds, IdleIsTimed
    <2>6. ASSUME NEW c \in Conn, RequestFails(c)
          PROVE  IdleIsTimed'
      <3>1. CASE calls[c] = "first"
        BY <2>3, <2>6, <3>1 DEF RequestFails, TypeOK
      <3>2. CASE calls[c] # "first"
        BY <2>6, <3>2 DEF RequestFails, IdleIsTimed
      <3>3. QED
        BY <3>1, <3>2
    <2>7. ASSUME NEW c \in Conn, Close(c)
          PROVE  IdleIsTimed'
      BY <2>3, <2>7 DEF Close
    <2>8. CASE UNCHANGED vars
      BY <2>8 DEF vars, IdleIsTimed
    <2>9. QED
      BY <2>1, <2>2, <2>4, <2>5, <2>6, <2>7, <2>8 DEF Next, TimerStep
  <1>3. QED
    BY <1>1, <1>2, PTL DEF Spec, IdleIsTimed

-----------------------------------------------------------------------------
(* cleanup.  A goroutine is named by its connection and the number of its  *)
(* Request.                                                                *)

LiveRoutine == {"waiting", "closing"}

CleanupTypes ==
    /\ held \in [Conn -> BOOLEAN]
    /\ call \in [Conn -> {"none", "chain", "returning"}]
    /\ routine \in [CleanupClient!Routine -> LiveRoutine \cup {"off", "closed", "counted", "ended"}]
    /\ cancelled \subseteq CleanupClient!Routine
    /\ stored \in [Conn -> CleanupClient!Routine \cup {CleanupClient!None}]
    /\ requests \in [Conn -> 0 .. MaxRequests]
    /\ \A c \in Conn : call[c] # "none" => requests[c] # 0

\* The Requests of c that have come back are the first Done(c).
Done(c) == IF call[c] = "none" THEN requests[c] ELSE requests[c] - 1

\* A Request that has not come back has no goroutine, nothing to cancel.
StartedByReturn ==
    \A r \in CleanupClient!Routine :
        r[2] > Done(r[1]) => routine[r] = "off" /\ r \notin cancelled

\* The goroutine in the metadata is one of the connection that goes on.
StoredGoesOn ==
    \A c \in Conn : stored[c] # CleanupClient!None =>
        /\ stored[c][1] = c
        /\ stored[c] \notin cancelled
        /\ routine[stored[c]] \in LiveRoutine

\* Every other one that goes on is cancelled, also while a Request is in the chain.
OthersAreCancelled ==
    \A c \in Conn : \A r \in CleanupClient!Routine :
        r[1] = c /\ r # stored[c] /\ routine[r] \in LiveRoutine => r \in cancelled

\* The chain holds no connection without a goroutine, but for a first Request
\* that comes back.
HeldIsStored ==
    \A c \in Conn : held[c] /\ call[c] # "returning" => stored[c] # CleanupClient!None

CleanupInv ==
    /\ CleanupTypes
    /\ StartedByReturn
    /\ StoredGoesOn
    /\ OthersAreCancelled
    /\ HeldIsStored

LEMMA CleanupInit ==
    ASSUME CleanupClient!Init
    PROVE  CleanupInv
  BY ElementsAssumption
     DEF CleanupClient!Init, CleanupInv, CleanupTypes, StartedByReturn, StoredGoesOn, OthersAreCancelled,
         HeldIsStored, LiveRoutine

\* The steps that leave the goroutines alone.
LEMMA CleanupRequest ==
    ASSUME CleanupInv, NEW c \in Conn,
           CleanupClient!Request(c) \/ CleanupClient!RequestSucceeds(c) \/ CleanupClient!RequestFails(c)
    PROVE  CleanupInv'
  <1> USE ElementsAssumption DEF CleanupInv, CleanupClient!Request, CleanupClient!RequestSucceeds,
          CleanupClient!RequestFails
  <1>1. CleanupTypes'
    <2>1. CASE CleanupClient!Request(c)
      <3>1. requests[c] \in 0 .. MaxRequests /\ requests[c] + 1 \in 1 .. MaxRequests
        BY <2>1 DEF CleanupTypes
      <3>2. QED
        BY <2>1, <3>1 DEF CleanupTypes
    <2>2. CASE CleanupClient!RequestSucceeds(c) \/ CleanupClient!RequestFails(c)
      BY <2>2 DEF CleanupTypes
    <2>3. QED
      BY <2>1, <2>2
  <1>2. \A d \in Conn : Done(d)' >= Done(d)
    BY DEF CleanupTypes, Done
  <1>3. StartedByReturn'
    <2> SUFFICES ASSUME NEW r \in CleanupClient!Routine, r[2] > Done(r[1])'
                 PROVE  routine[r] = "off" /\ r \notin cancelled
      BY DEF StartedByReturn
    <2>1. r[1] \in Conn /\ r[2] \in Nat
      BY DEF CleanupClient!Routine
    <2>2. Done(r[1]) \in Nat /\ Done(r[1])' \in Nat
      BY <1>1, <2>1 DEF Done, CleanupTypes
    <2>3. r[2] > Done(r[1])
      BY <1>2, <2>1, <2>2
    <2>4. QED
      BY <2>3 DEF StartedByReturn
  <1>4. StoredGoesOn' /\ OthersAreCancelled'
    BY DEF StoredGoesOn, OthersAreCancelled
  <1>5. HeldIsStored'
    BY DEF HeldIsStored, CleanupTypes
  <1>6. QED
    BY <1>1, <1>3, <1>4, <1>5

\* The new goroutine takes the place of the one in the metadata, which is cancelled.
LEMMA CleanupReturn ==
    ASSUME CleanupInv, NEW c \in Conn, CleanupClient!RequestReturns(c)
    PROVE  CleanupInv'
  <1> USE DEF CleanupInv, CleanupClient!RequestReturns, CleanupClient!CancelStored, LiveRoutine
  <1> DEFINE new == <<c, requests[c]>>
  <1>1. requests[c] \in 1 .. MaxRequests
    BY ElementsAssumption DEF CleanupTypes
  <1>2. new \in CleanupClient!Routine /\ new[1] = c /\ new[2] = requests[c] /\ new # CleanupClient!None
    BY <1>1 DEF CleanupClient!Routine, CleanupClient!None
  <1>3. routine[new] = "off" /\ new \notin cancelled
    BY <1>1, <1>2, ElementsAssumption DEF StartedByReturn, Done
  <1>4. stored[c] # new
    BY <1>2, <1>3 DEF StoredGoesOn
  <1>5. /\ stored' = [stored EXCEPT ![c] = new]
        /\ routine' = [routine EXCEPT ![new] = "waiting"]
        /\ cancelled' = cancelled \cup ({stored[c]} \ {CleanupClient!None})
        /\ call' = [call EXCEPT ![c] = "none"]
        /\ UNCHANGED <<held, requests>>
    OBVIOUS
  <1> HIDE DEF new, CleanupClient!RequestReturns
  <1>6. CleanupTypes'
    BY <1>2, <1>5 DEF CleanupTypes
  <1>7. StartedByReturn'
    <2> SUFFICES ASSUME NEW r \in CleanupClient!Routine, r[2] > Done(r[1])'
                 PROVE  routine'[r] = "off" /\ r \notin cancelled'
      BY DEF StartedByReturn
    <2>1. r[1] \in Conn /\ r[2] \in Nat
      BY DEF CleanupClient!Routine
    <2>2. r # new /\ r[2] > Done(r[1])
      BY <1>1, <1>2, <1>5, <2>1, ElementsAssumption DEF Done, CleanupTypes
    <2>3. routine[r] = "off" /\ r \notin cancelled
      BY <2>2 DEF StartedByReturn
    <2>4. r # stored[c]
      <3>1. r # CleanupClient!None
        BY DEF CleanupClient!None, CleanupClient!Routine
      <3>2. QED
        BY <2>3, <3>1 DEF StoredGoesOn
    <2>5. QED
      BY <1>5, <2>2, <2>3, <2>4 DEF CleanupTypes
  <1>8. StoredGoesOn'
    <2> SUFFICES ASSUME NEW d \in Conn, stored'[d] # CleanupClient!None
                 PROVE  /\ stored'[d][1] = d
                        /\ stored'[d] \notin cancelled'
                        /\ routine'[stored'[d]] \in LiveRoutine
      BY DEF StoredGoesOn
    <2>1. CASE d = c
      BY <1>2, <1>3, <1>4, <1>5, <2>1 DEF CleanupTypes
    <2>2. CASE d # c
      <3>1. stored'[d] = stored[d] /\ stored[d] \in CleanupClient!Routine
        BY <1>5, <2>2 DEF CleanupTypes
      <3>2. stored[d][1] = d /\ stored[d] \notin cancelled /\ routine[stored[d]] \in LiveRoutine
        BY <3>1 DEF StoredGoesOn
      <3>3. stored[d] # new /\ stored[d] # stored[c]
        BY <1>2, <2>2, <3>1, <3>2 DEF StoredGoesOn
      <3>4. QED
        BY <1>5, <3>1, <3>2, <3>3 DEF CleanupTypes
    <2>3. QED
      BY <2>1, <2>2
  <1>9. OthersAreCancelled'
    <2> SUFFICES ASSUME NEW r \in CleanupClient!Routine, r # stored'[r[1]], routine'[r] \in LiveRoutine
                 PROVE  r \in cancelled'
      BY DEF OthersAreCancelled
    <2>1. r[1] \in Conn /\ r # CleanupClient!None
      BY DEF CleanupClient!Routine, CleanupClient!None
    <2>2. r # new
      BY <1>2, <1>5 DEF CleanupTypes
    <2>3. routine[r] \in LiveRoutine
      BY <1>2, <1>5, <2>2 DEF CleanupTypes
    <2>4. r = stored[c] \/ r # stored[r[1]]
      BY <1>5, <2>1 DEF CleanupTypes
    <2>5. QED
      BY <1>5, <2>1, <2>3, <2>4 DEF OthersAreCancelled
  <1>10. HeldIsStored'
    BY <1>2, <1>5 DEF HeldIsStored, CleanupTypes
  <1>11. QED
    BY <1>6, <1>7, <1>8, <1>9, <1>10

\* Close of a connection with no Request in the chain.
LEMMA CleanupClosed ==
    ASSUME CleanupInv, NEW c \in Conn, call[c] = "none",
           CleanupClient!CloseConnection(c), UNCHANGED <<call, requests>>,
           routine' \in [CleanupClient!Routine -> LiveRoutine \cup {"off", "closed", "counted", "ended"}],
           \A r \in CleanupClient!Routine :
               \/ routine'[r] = routine[r]
               \/ r = stored[c] /\ routine'[r] = "closed"
    PROVE  CleanupInv'
  <1> USE DEF CleanupInv, CleanupClient!CloseConnection, CleanupClient!CancelStored, LiveRoutine
  <1>1. CleanupTypes'
    BY DEF CleanupTypes
  <1>2. StartedByReturn'
    <2> SUFFICES ASSUME NEW r \in CleanupClient!Routine, r[2] > Done(r[1])'
                 PROVE  routine'[r] = "off" /\ r \notin cancelled'
      BY DEF StartedByReturn
    <2>1. routine[r] = "off" /\ r \notin cancelled
      BY DEF StartedByReturn, Done
    <2>2. r # stored[c]
      BY <2>1 DEF StoredGoesOn, CleanupClient!None, CleanupClient!Routine
    <2>3. QED
      BY <2>1, <2>2
  <1>3. StoredGoesOn'
    <2> SUFFICES ASSUME NEW d \in Conn, stored'[d] # CleanupClient!None
                 PROVE  /\ stored'[d][1] = d
                        /\ stored'[d] \notin cancelled'
                        /\ routine'[stored'[d]] \in LiveRoutine
      BY DEF StoredGoesOn
    <2>1. d # c /\ stored'[d] = stored[d] /\ stored[d] \in CleanupClient!Routine
      BY DEF CleanupTypes
    <2>2. stored[d][1] = d /\ stored[d] \notin cancelled /\ routine[stored[d]] \in LiveRoutine
      BY <2>1 DEF StoredGoesOn
    <2>3. stored[d] # stored[c]
      BY <2>1, <2>2 DEF StoredGoesOn
    <2>4. QED
      BY <2>1, <2>2, <2>3
  <1>4. OthersAreCancelled'
    <2> SUFFICES ASSUME NEW r \in CleanupClient!Routine, r # stored'[r[1]], routine'[r] \in LiveRoutine
                 PROVE  r \in cancelled'
      BY DEF OthersAreCancelled
    <2>1. r[1] \in Conn /\ r # CleanupClient!None
      BY DEF CleanupClient!Routine, CleanupClient!None
    <2>2. r = stored[c] \/ r # stored[r[1]]
      BY <2>1 DEF CleanupTypes
    <2>3. QED
      BY <2>1, <2>2 DEF OthersAreCancelled
  <1>5. HeldIsStored'
    BY DEF HeldIsStored, CleanupTypes
  <1>6. QED
    BY <1>1, <1>2, <1>3, <1>4, <1>5

\* A goroutine that is cancelled, or is done, and no longer goes on.
LEMMA CleanupEnds ==
    ASSUME CleanupInv, NEW r \in CleanupClient!Routine, NEW s \in {"closed", "counted", "ended"},
           r \in cancelled \/ routine[r] \in {"closed", "counted"}, routine[r] # "off",
           routine' = [routine EXCEPT ![r] = s],
           UNCHANGED <<held, call, cancelled, stored, requests>>
    PROVE  CleanupInv'
  <1> USE DEF CleanupInv, LiveRoutine
  <1>1. CleanupTypes'
    BY DEF CleanupTypes
  <1>2. StartedByReturn'
    <2> SUFFICES ASSUME NEW q \in CleanupClient!Routine, q[2] > Done(q[1])'
                 PROVE  routine'[q] = "off" /\ q \notin cancelled'
      BY DEF StartedByReturn
    <2>1. routine[q] = "off" /\ q \notin cancelled
      BY DEF StartedByReturn, Done
    <2>2. QED
      BY <2>1 DEF CleanupTypes
  <1>3. StoredGoesOn'
    BY DEF StoredGoesOn, CleanupTypes
  <1>4. OthersAreCancelled'
    BY DEF OthersAreCancelled, CleanupTypes
  <1>5. HeldIsStored'
    BY DEF HeldIsStored
  <1>6. QED
    BY <1>1, <1>2, <1>3, <1>4, <1>5

LEMMA CleanupRoutine ==
    ASSUME CleanupInv, NEW r \in CleanupClient!Routine, CleanupClient!RoutineStep(r)
    PROVE  CleanupInv'
  <1> USE DEF CleanupInv
  <1>0. r[1] \in Conn
    BY DEF CleanupClient!Routine
  <1>1. CASE CleanupClient!FiresClose(r)
    <2> USE <1>1 DEF CleanupClient!FiresClose
    <2>1. CleanupTypes'
      BY DEF CleanupTypes, LiveRoutine
    <2>2. StartedByReturn'
      BY DEF StartedByReturn, Done, CleanupTypes
    <2>3. StoredGoesOn' /\ OthersAreCancelled'
      BY DEF StoredGoesOn, OthersAreCancelled, CleanupTypes, LiveRoutine
    <2>4. HeldIsStored'
      BY DEF HeldIsStored
    <2>5. QED
      BY <2>1, <2>2, <2>3, <2>4
  <1>2. CASE CleanupClient!RunsClose(r) /\ r \in cancelled
    <2>1. /\ routine' = [routine EXCEPT ![r] = "closed"]
          /\ routine[r] # "off"
          /\ UNCHANGED <<held, call, cancelled, stored, requests>>
      BY <1>2 DEF CleanupClient!RunsClose
    <2>2. QED
      BY <1>2, <2>1, CleanupEnds
  <1>3. CASE CleanupClient!RunsClose(r) /\ r \notin cancelled
    <2>1. r = stored[r[1]]
      BY <1>0, <1>3 DEF CleanupClient!RunsClose, OthersAreCancelled, LiveRoutine
    <2>2. QED
      BY <1>0, <1>3, <2>1, CleanupClosed DEF CleanupClient!RunsClose, CleanupTypes
  <1>4. CASE CleanupClient!CountsDown(r) \/ CleanupClient!ClosesDone(r) \/ CleanupClient!EndsCancelled(r)
    BY <1>4, CleanupEnds
       DEF CleanupClient!CountsDown, CleanupClient!ClosesDone, CleanupClient!EndsCancelled
  <1>5. QED
    BY <1>1, <1>2, <1>3, <1>4 DEF CleanupClient!RoutineStep

LEMMA CleanupNext ==
    ASSUME CleanupInv, CleanupClient!Next \/ UNCHANGED cleanupVars
    PROVE  CleanupInv'
  <1>1. CASE CleanupClient!ChainDone \/ CleanupClient!WatcherEnds \/ UNCHANGED cleanupVars
    BY <1>1
       DEF CleanupClient!ChainDone, CleanupClient!WatcherEnds, cleanupVars, CleanupInv, CleanupTypes,
           StartedByReturn, Done, StoredGoesOn, OthersAreCancelled, HeldIsStored
  <1>2. ASSUME NEW c \in Conn, CleanupClient!Request(c) \/ CleanupClient!CallStep(c)
        PROVE  CleanupInv'
    BY <1>2, CleanupRequest, CleanupReturn DEF CleanupClient!CallStep
  <1>3. ASSUME NEW c \in Conn, CleanupClient!Close(c)
        PROVE  CleanupInv'
    BY <1>3, CleanupClosed DEF CleanupClient!Close, CleanupInv, CleanupTypes
  <1>4. QED
    BY <1>1, <1>2, <1>3, CleanupRoutine DEF CleanupClient!Next

LEMMA CleanupHeld ==
    ASSUME CleanupInv
    PROVE  HeldHasRoutine
  BY DEF CleanupInv, HeldHasRoutine, CleanupClient!HeldHasRoutine, HeldIsStored, StoredGoesOn,
         OthersAreCancelled, LiveRoutine

\* cleanup: for any connections and Requests, a connection that the chain holds
\* has exactly one goroutine that will close it, however Requests that fail or
\* succeed, Closes and the end of the chain's context take turns.
THEOREM HeldIsCleaned == MCFairSpec => []HeldHasRoutine
  <1>1. MCInit => CleanupInv
    BY CleanupInit DEF MCInit
  <1>2. CleanupInv /\ [MCNext]_allVars => CleanupInv'
    BY CleanupNext DEF MCNext, allVars
  <1>3. QED
    BY <1>1, <1>2, CleanupHeld, PTL DEF MCFairSpec
-----------------------------------------------------------------------------
(* The memory of the registry.                                             *)

LEMMA GreatestExists ==
    ASSUME NEW k \in Nat, NEW S \in SUBSET (1 .. k), S # {}
    PROVE  \E i \in S : \A j \in S : j <= i
  <1> DEFINE R == OpToRel(<, Nat)
  <1> DEFINE T == {k - i : i \in S}
  <1>1. IsWellFoundedOn(R, Nat)
    BY NatLessThanWellFounded
  <1>2. \A m, n \in Nat : m < n => <<m, n>> \in R
    BY DEF OpToRel
  <1>3. T \subseteq Nat /\ T # {}
    <2>1. PICK i \in S : TRUE
      OBVIOUS
    <2>2. k - i \in T
      OBVIOUS
    <2>3. \A j \in S : k - j \in Nat
      OBVIOUS
    <2>4. QED
      BY <2>2, <2>3
  <1> HIDE DEF R, T
  <1>4. PICK t \in T : \A u \in T : <<u, t>> \notin R
    BY <1>1, <1>3, WFMin
  <1>5. PICK i \in S : t = k - i
    BY DEF T
  <1>6. ASSUME NEW j \in S
        PROVE  j <= i
    <2>1. k - j \in T
      BY DEF T
    <2>2. ~(k - j < k - i)
      BY <1>2, <1>3, <1>4, <1>5, <2>1
    <2>3. QED
      BY <2>2
  <1>7. QED
    BY <1>6

LEMMA GreatestIsMax ==
    ASSUME NEW k \in Nat, NEW S \in SUBSET (1 .. k), NEW i \in S, \A j \in S : j <= i
    PROVE  Memory!Max(S) = i
  <1> DEFINE m == Memory!Max(S)
  <1>1. \E z \in S : \A y \in S : z >= y
    OBVIOUS
  <1>2. m \in S /\ \A y \in S : m >= y
    BY <1>1, Zenon DEF Memory!Max
  <1> HIDE DEF m
  <1>3. m = i
    BY <1>2
  <1>4. QED
    BY <1>3 DEF m

LEMMA MaxIsGreatest ==
    ASSUME NEW k \in Nat, NEW S \in SUBSET (1 .. k), S # {}
    PROVE  Memory!Max(S) \in S /\ \A j \in S : j <= Memory!Max(S)
  <1>1. PICK i \in S : \A j \in S : j <= i
    BY GreatestExists
  <1>2. Memory!Max(S) = i
    BY <1>1, GreatestIsMax
  <1>3. QED
    BY <1>1, <1>2

\* The last of some positions of a sequence, once its head is gone.
LEMMA LastOfTail ==
    ASSUME NEW T, NEW s \in Seq(T), s # <<>>, NEW S \in SUBSET DOMAIN s,
           NEW R, R = {i \in DOMAIN Tail(s) : i + 1 \in S}
    PROVE  /\ R # {} => S # {} /\ Tail(s)[Memory!Max(R)] = s[Memory!Max(S)]
           /\ R = {} /\ S # {} => 1 \in S /\ s[Memory!Max(S)] = Head(s)
  <1>1. /\ DOMAIN s = 1 .. Len(s) /\ Len(s) \in Nat /\ Len(s) # 0
        /\ DOMAIN Tail(s) = 1 .. (Len(s) - 1)
        /\ \A i \in 1 .. (Len(s) - 1) : Tail(s)[i] = s[i + 1]
    OBVIOUS
  <1>0. Len(s) - 1 \in Nat /\ R \in SUBSET (1 .. (Len(s) - 1)) /\ S \in SUBSET (1 .. Len(s))
    BY <1>1
  <1>2. ASSUME R # {}
        PROVE  S # {} /\ Tail(s)[Memory!Max(R)] = s[Memory!Max(S)]
    <2>1. PICK i \in R : \A j \in R : j <= i
      BY <1>0, <1>2, GreatestExists
    <2>2. i \in 1 .. (Len(s) - 1) /\ i + 1 \in S
      BY <1>1
    <2>3. ASSUME NEW j \in S
          PROVE  j <= i + 1
      <3>1. j \in 1 .. Len(s)
        BY <1>1
      <3>2. j = 1 \/ j - 1 \in R
        BY <1>1, <3>1
      <3>3. QED
        BY <2>1, <2>2, <3>1, <3>2
    <2>4. Memory!Max(S) = i + 1
      BY <1>1, <2>2, <2>3, GreatestIsMax
    <2>5. Memory!Max(R) = i
      BY <1>0, <2>1, GreatestIsMax
    <2>6. QED
      BY <1>1, <2>2, <2>4, <2>5
  <1>3. ASSUME R = {}, S # {}
        PROVE  1 \in S /\ s[Memory!Max(S)] = Head(s)
    <2>1. \A j \in S : j = 1
      <3> SUFFICES ASSUME NEW j \in S, j # 1
                   PROVE  j - 1 \in R
        BY <1>3
      <3>1. j - 1 \in 1 .. (Len(s) - 1)
        BY <1>1
      <3>2. QED
        BY <1>1, <3>1
    <2>2. 1 \in S /\ \A j \in S : j <= 1
      BY <1>3, <2>1
    <2>3. Memory!Max(S) = 1
      BY <1>0, <1>1, <2>2, GreatestIsMax
    <2>4. QED
      BY <2>2, <2>3
  <1>4. QED
    BY <1>2, <1>3

\* The last of some positions of a sequence of length k, once it is longer by one.
LEMMA LastOfAppend ==
    ASSUME NEW k \in Nat, NEW S \in SUBSET (1 .. k), NEW R \in SUBSET (1 .. (k + 1)),
           \A i \in 1 .. k : i \in R <=> i \in S
    PROVE  /\ k + 1 \in R => Memory!Max(R) = k + 1
           /\ k + 1 \notin R => R = S
           /\ S # {} => Memory!Max(S) \in 1 .. k
  <1>1. k + 1 \in Nat /\ \A j \in R : j <= k + 1
    OBVIOUS
  <1>2. k + 1 \in R => Memory!Max(R) = k + 1
    BY <1>1, GreatestIsMax
  <1>3. k + 1 \notin R => R = S
    <2>1. k + 1 \notin R => \A j \in R : j \in 1 .. k
      BY <1>1
    <2>2. QED
      BY <2>1
  <1>4. S # {} => Memory!Max(S) \in 1 .. k
    BY MaxIsGreatest
  <1>5. QED
    BY <1>2, <1>3, <1>4

LEMMA CardinalitySame == ASSUME NEW S PROVE Memory!Cardinality(S) = Cardinality(S)
  BY DEF Memory!Cardinality, Cardinality

\* A sequence of a finite set holds every element of it.
LEMMA SequenceOfSet ==
    ASSUME NEW S, IsFiniteSet(S), NEW s \in Memory!SetToSeqs(S)
    PROVE  /\ s \in Seq(S)
           /\ \A x \in S : \E i \in DOMAIN s : s[i] = x
  <1>1. Cardinality(S) \in Nat
    BY FS_CardinalityType
  <1>2. /\ s \in [1 .. Cardinality(S) -> S]
        /\ \A i, j \in 1 .. Cardinality(S) : i # j => s[i] # s[j]
    BY CardinalitySame DEF Memory!SetToSeqs
  <1>3. s \in Injection(1 .. Cardinality(S), S)
    BY <1>2 DEF Injection, IsInjective
  <1>4. Cardinality(1 .. Cardinality(S)) = Cardinality(S)
    BY <1>1, FS_Interval
  <1>5. s \in Surjection(1 .. Cardinality(S), S)
    BY <1>3, <1>4, FS_Injection
  <1>6. QED
    BY <1>1, <1>2, <1>5 DEF Surjection

Value    == Nat
MemEvent == [name : Name, value : Value]
MemWrite == [to : Watcher, event : MemEvent]
MemFunction == [op : {"event"}, event : MemEvent] \cup [op : {"find", "close"}, watcher : Watcher]

MemTypes ==
    /\ registrations \in Nat
    /\ store \in [Name -> Value]
    /\ unsent \subseteq MemEvent
    /\ queue \in Seq(MemFunction)
    /\ out \in Seq(MemWrite)
    /\ channels \subseteq Watcher
    /\ channel \in [Watcher -> Seq(MemEvent)]
    /\ find \in [Watcher -> {"new", "watching", "draining", "returned"}]
    /\ view \in [Watcher -> [Name -> Value]]

\* No call for n is on its way, and watchers are told of what it has left.
Settled(n) ==
    /\ \A e \in unsent : e.name # n
    /\ Memory!SendsDeleted \/ store[n] # Memory!Missing

LastWaiting(n)    == queue[Memory!Max(Memory!Waiting(n))].event.value
LastWriting(w, n) == out[Memory!Max(Memory!Writing(w, n))].event.value
LastWritten(w, n) == channel[w][Memory!Max(Memory!Written(w, n))].value

\* What a call has still to hand over is what it has left in the map.
UnsentIsCurrent == \A e \in unsent : e.value = store[e.name]

\* The last function that waits for the executor has what the map holds.
WaitingIsCurrent ==
    \A n \in Name : Settled(n) /\ Memory!Waiting(n) # {} => LastWaiting(n) = store[n]

\* The executor writes to the watchers in eventChannels and to no others.
WritesToChannels == \A i \in DOMAIN out : out[i].to \in channels

\* A watcher that has not been added has been sent nothing.
NewKnowsNothing ==
    \A w \in Watcher \ channels : find[w] \in {"new", "watching"} =>
        channel[w] = <<>> /\ \A n \in Name : view[w][n] = Memory!Missing

\* No function adds a watcher whose Find has not started.
NewIsUnknown ==
    \A w \in Watcher : find[w] = "new" =>
        /\ w \notin channels
        /\ \A i \in DOMAIN queue : queue[i].op = "find" => queue[i].watcher # w

MemInv ==
    /\ MemTypes
    /\ UnsentIsCurrent
    /\ WaitingIsCurrent
    /\ WritesToChannels
    /\ NewKnowsNothing
    /\ NewIsUnknown
    /\ WatchersLearn

LEMMA MemInit == Memory!Init => MemInv
  BY DEF Memory!Init, MemInv, MemTypes, Value, UnsentIsCurrent, WaitingIsCurrent, WritesToChannels, NewKnowsNothing,
         NewIsUnknown, WatchersLearn, Memory!WatchersLearn, Memory!Waiting, Memory!Missing

\* What LastSent is, one case after the other.
LEMMA LastSentCases ==
    ASSUME NEW w, NEW n
    PROVE  /\ Memory!Waiting(n) # {} => Memory!LastSent(w, n) = LastWaiting(n)
           /\ Memory!Waiting(n) = {} /\ Memory!Writing(w, n) # {} => Memory!LastSent(w, n) = LastWriting(w, n)
           /\ Memory!Waiting(n) = {} /\ Memory!Writing(w, n) = {} =>
                 /\ Memory!Written(w, n) # {} => Memory!LastSent(w, n) = LastWritten(w, n)
                 /\ Memory!Written(w, n) = {} => Memory!LastSent(w, n) = view[w][n]
  BY DEF Memory!LastSent, LastWaiting, LastWriting, LastWritten

LEMMA LastSentCasesNext ==
    ASSUME NEW w, NEW n
    PROVE  /\ Memory!Waiting(n)' # {} => Memory!LastSent(w, n)' = LastWaiting(n)'
           /\ Memory!Waiting(n)' = {} /\ Memory!Writing(w, n)' # {} => Memory!LastSent(w, n)' = LastWriting(w, n)'
           /\ Memory!Waiting(n)' = {} /\ Memory!Writing(w, n)' = {} =>
                 /\ Memory!Written(w, n)' # {} => Memory!LastSent(w, n)' = LastWritten(w, n)'
                 /\ Memory!Written(w, n)' = {} => Memory!LastSent(w, n)' = view'[w][n]
  BY DEF Memory!LastSent, LastWaiting, LastWriting, LastWritten

LEMMA LastWaitingAppended ==
    ASSUME MemTypes, NEW f \in MemFunction, queue' = Append(queue, f), NEW n \in Name
    PROVE  /\ f.op = "event" /\ f.event.name = n =>
                  Memory!Waiting(n)' # {} /\ LastWaiting(n)' = f.event.value
           /\ ~(f.op = "event" /\ f.event.name = n) =>
                  /\ Memory!Waiting(n)' = Memory!Waiting(n)
                  /\ Memory!Waiting(n) # {} => LastWaiting(n)' = LastWaiting(n)
  <1> DEFINE S == Memory!Waiting(n)
             R == Memory!Waiting(n)'
  <1>1. queue \in Seq(MemFunction) /\ Len(queue) \in Nat
    BY DEF MemTypes
  <1>2. S \in SUBSET (1 .. Len(queue)) /\ R \in SUBSET (1 .. (Len(queue) + 1))
    BY <1>1 DEF Memory!Waiting
  <1>3. \A i \in 1 .. Len(queue) : queue'[i] = queue[i] /\ (i \in R <=> i \in S)
    BY <1>1 DEF Memory!Waiting
  <1>4. queue'[Len(queue) + 1] = f /\ (Len(queue) + 1 \in R <=> f.op = "event" /\ f.event.name = n)
    BY <1>1 DEF Memory!Waiting
  <1> HIDE DEF S, R
  <1>5. /\ Len(queue) + 1 \in R => Memory!Max(R) = Len(queue) + 1
        /\ Len(queue) + 1 \notin R => R = S
        /\ S # {} => Memory!Max(S) \in 1 .. Len(queue)
    BY <1>1, <1>2, <1>3, LastOfAppend
  <1>6. QED
    BY <1>3, <1>4, <1>5 DEF S, R, LastWaiting

LEMMA LastWaitingTaken ==
    ASSUME MemTypes, queue # <<>>, queue' = Tail(queue), NEW n \in Name
    PROVE  /\ Memory!Waiting(n)' # {} =>
                  Memory!Waiting(n) # {} /\ LastWaiting(n)' = LastWaiting(n)
           /\ Memory!Waiting(n)' = {} /\ Memory!Waiting(n) # {} =>
                  Head(queue).op = "event" /\ Head(queue).event.name = n /\ LastWaiting(n) = Head(queue).event.value
  <1> DEFINE S == Memory!Waiting(n)
             R == Memory!Waiting(n)'
  <1>1. queue \in Seq(MemFunction)
    BY DEF MemTypes
  <1>2. S \in SUBSET DOMAIN queue
    BY DEF Memory!Waiting
  <1>3. R = {i \in DOMAIN Tail(queue) : i + 1 \in S}
    BY <1>1 DEF Memory!Waiting
  <1>4. 1 \in S => Head(queue).op = "event" /\ Head(queue).event.name = n
    BY <1>1 DEF Memory!Waiting
  <1> HIDE DEF S, R
  <1>5. /\ R # {} => S # {} /\ Tail(queue)[Memory!Max(R)] = queue[Memory!Max(S)]
        /\ R = {} /\ S # {} => 1 \in S /\ queue[Memory!Max(S)] = Head(queue)
    BY <1>1, <1>2, <1>3, LastOfTail
  <1>6. QED
    BY <1>4, <1>5 DEF S, R, LastWaiting

LEMMA LastWritingTaken ==
    ASSUME MemTypes, out # <<>>, out' = Tail(out), NEW w \in Watcher, NEW n \in Name
    PROVE  /\ Memory!Writing(w, n)' # {} =>
                  Memory!Writing(w, n) # {} /\ LastWriting(w, n)' = LastWriting(w, n)
           /\ Memory!Writing(w, n)' = {} /\ Memory!Writing(w, n) # {} =>
                  /\ Head(out).to = w /\ Head(out).event.name = n
                  /\ LastWriting(w, n) = Head(out).event.value
           /\ Memory!Writing(w, n)' = {} /\ Memory!Writing(w, n) = {} =>
                  ~(Head(out).to = w /\ Head(out).event.name = n)
  <1> DEFINE S == Memory!Writing(w, n)
             R == Memory!Writing(w, n)'
  <1>1. out \in Seq(MemWrite)
    BY DEF MemTypes
  <1>2. S \in SUBSET DOMAIN out
    BY DEF Memory!Writing
  <1>3. R = {i \in DOMAIN Tail(out) : i + 1 \in S}
    BY <1>1 DEF Memory!Writing
  <1>4. 1 \in S <=> Head(out).to = w /\ Head(out).event.name = n
    BY <1>1 DEF Memory!Writing
  <1> HIDE DEF S, R
  <1>5. /\ R # {} => S # {} /\ Tail(out)[Memory!Max(R)] = out[Memory!Max(S)]
        /\ R = {} /\ S # {} => 1 \in S /\ out[Memory!Max(S)] = Head(out)
    BY <1>1, <1>2, <1>3, LastOfTail
  <1>6. QED
    BY <1>4, <1>5 DEF S, R, LastWriting

LEMMA LastWrittenAppended ==
    ASSUME MemTypes, NEW w \in Watcher, NEW n \in Name, NEW e \in MemEvent,
           channel'[w] = Append(channel[w], e)
    PROVE  /\ e.name = n => Memory!Written(w, n)' # {} /\ LastWritten(w, n)' = e.value
           /\ e.name # n =>
                  /\ Memory!Written(w, n)' = Memory!Written(w, n)
                  /\ Memory!Written(w, n) # {} => LastWritten(w, n)' = LastWritten(w, n)
  <1> DEFINE S == Memory!Written(w, n)
             R == Memory!Written(w, n)'
             ch == channel[w]
  <1>1. ch \in Seq(MemEvent) /\ Len(ch) \in Nat
    BY DEF MemTypes
  <1>2. S \in SUBSET (1 .. Len(ch)) /\ R \in SUBSET (1 .. (Len(ch) + 1))
    BY <1>1 DEF Memory!Written
  <1>3. \A i \in 1 .. Len(ch) : channel'[w][i] = ch[i] /\ (i \in R <=> i \in S)
    BY <1>1 DEF Memory!Written
  <1>4. channel'[w][Len(ch) + 1] = e /\ (Len(ch) + 1 \in R <=> e.name = n)
    BY <1>1 DEF Memory!Written
  <1> HIDE DEF S, R, ch
  <1>5. /\ Len(ch) + 1 \in R => Memory!Max(R) = Len(ch) + 1
        /\ Len(ch) + 1 \notin R => R = S
        /\ S # {} => Memory!Max(S) \in 1 .. Len(ch)
    BY <1>1, <1>2, <1>3, LastOfAppend
  <1>6. QED
    BY <1>3, <1>4, <1>5 DEF S, R, ch, LastWritten

LEMMA LastWrittenTaken ==
    ASSUME MemTypes, NEW w \in Watcher, NEW n \in Name, channel[w] # <<>>,
           channel'[w] = Tail(channel[w])
    PROVE  /\ Memory!Written(w, n)' # {} =>
                  Memory!Written(w, n) # {} /\ LastWritten(w, n)' = LastWritten(w, n)
           /\ Memory!Written(w, n)' = {} /\ Memory!Written(w, n) # {} =>
                  Head(channel[w]).name = n /\ LastWritten(w, n) = Head(channel[w]).value
           /\ Memory!Written(w, n) = {} => Head(channel[w]).name # n
  <1> DEFINE S == Memory!Written(w, n)
             R == Memory!Written(w, n)'
             ch == channel[w]
  <1>1. ch \in Seq(MemEvent) /\ ch # <<>>
    BY DEF MemTypes
  <1>2. S \in SUBSET DOMAIN ch
    BY DEF Memory!Written
  <1>3. R = {i \in DOMAIN Tail(ch) : i + 1 \in S}
    BY <1>1 DEF Memory!Written
  <1>4. 1 \in S <=> Head(ch).name = n
    BY <1>1 DEF Memory!Written
  <1>7. channel'[w] = Tail(ch)
    OBVIOUS
  <1> HIDE DEF S, R, ch
  <1>5. /\ R # {} => S # {} /\ Tail(ch)[Memory!Max(R)] = ch[Memory!Max(S)]
        /\ R = {} /\ S # {} => 1 \in S /\ ch[Memory!Max(S)] = Head(ch)
    BY <1>1, <1>2, <1>3, LastOfTail
  <1>6. QED
    BY <1>4, <1>5, <1>7 DEF S, R, ch, LastWritten

LEMMA SameSequences ==
    ASSUME NEW w, NEW n
    PROVE  /\ queue' = queue =>
                  Memory!Waiting(n)' = Memory!Waiting(n) /\ LastWaiting(n)' = LastWaiting(n)
           /\ out' = out =>
                  Memory!Writing(w, n)' = Memory!Writing(w, n) /\ LastWriting(w, n)' = LastWriting(w, n)
           /\ channel'[w] = channel[w] =>
                  Memory!Written(w, n)' = Memory!Written(w, n) /\ LastWritten(w, n)' = LastWritten(w, n)
  BY DEF Memory!Waiting, LastWaiting, Memory!Writing, LastWriting, Memory!Written, LastWritten

\* Register and Unregister.
LEMMA MemCall ==
    ASSUME MemInv, NEW m \in Name, Memory!CallStep(m), UNCHANGED kind
    PROVE  MemInv'
  <1> USE DEF MemInv
  <1>1. /\ UNCHANGED <<queue, out, channels, channel, find, view>>
        /\ \A e \in unsent : e.name # m
        /\ registrations' = registrations + 1
        /\ \A n \in Name \ {m} : store'[n] = store[n]
    BY DEF Memory!CallStep, Memory!Register, Memory!Unregister, Memory!MayCall, MemTypes
  <1>2. PICK v \in Value : /\ store' = [store EXCEPT ![m] = v]
                           /\ \/ unsent' = unsent \cup {[name |-> m, value |-> v]}
                              \/ ~Memory!SendsDeleted /\ v = Memory!Missing /\ unsent' = unsent
    <2>1. registrations + 1 \in Value /\ Memory!Missing \in Value
      BY DEF MemTypes, Value, Memory!Missing
    <2>2. QED
      BY <2>1 DEF Memory!CallStep, Memory!Register, Memory!Unregister, Memory!Event
  <1>3. MemTypes'
    BY <1>1, <1>2 DEF MemTypes, MemEvent, Value
  <1>4. UnsentIsCurrent'
    <2> SUFFICES ASSUME NEW e \in unsent'
                 PROVE  e.value = store'[e.name]
      BY DEF UnsentIsCurrent
    <2>1. CASE e \in unsent
      <3>1. e.name \in Name \ {m}
        BY <1>1, <2>1 DEF MemTypes, MemEvent
      <3>2. QED
        BY <1>1, <2>1, <3>1 DEF UnsentIsCurrent
    <2>2. CASE e \notin unsent
      BY <1>2, <2>2 DEF MemTypes
    <2>3. QED
      BY <2>1, <2>2
  <1>5. Memory!SendsDeleted' <=> Memory!SendsDeleted
    BY DEF Memory!SendsDeleted
  <1>6. ASSUME NEW n \in Name, Settled(n)'
        PROVE  n # m /\ Settled(n) /\ store'[n] = store[n]
    <2>1. n # m
      <3>1. CASE unsent' = unsent \cup {[name |-> m, value |-> v]}
        <4>1. [name |-> m, value |-> v].name # n
          BY <1>6, <3>1 DEF Settled
        <4>2. QED
          BY <4>1
      <3>2. CASE ~Memory!SendsDeleted /\ v = Memory!Missing
        <4>1. store'[m] = Memory!Missing
          BY <1>2, <3>2 DEF MemTypes
        <4>2. store'[n] # Memory!Missing
          BY <1>5, <1>6, <3>2 DEF Settled, Memory!Missing
        <4>3. QED
          BY <4>1, <4>2
      <3>3. QED
        BY <1>2, <3>1, <3>2
    <2>2. \A e \in unsent : e.name # n
      BY <1>2, <1>6 DEF Settled
    <2>3. QED
      BY <1>1, <1>5, <1>6, <2>1, <2>2 DEF Settled, Memory!Missing
  <1>7. WaitingIsCurrent'
    BY <1>1, <1>6, SameSequences DEF WaitingIsCurrent
  <1>8. WritesToChannels' /\ NewKnowsNothing' /\ NewIsUnknown'
    BY <1>1 DEF WritesToChannels, NewKnowsNothing, NewIsUnknown, Memory!Missing
  <1>9. WatchersLearn'
    <2> SUFFICES ASSUME NEW w \in channels', NEW n \in Name, find'[w] = "watching", Settled(n)'
                 PROVE  store'[n] = Memory!LastSent(w, n)'
      BY DEF WatchersLearn, Memory!WatchersLearn, Settled
    <2>1. store[n] = Memory!LastSent(w, n)
      BY <1>1, <1>6 DEF WatchersLearn, Memory!WatchersLearn, Settled
    <2>2. Memory!LastSent(w, n)' = Memory!LastSent(w, n)
      BY <1>1, SameSequences, LastSentCases, LastSentCasesNext
    <2>3. QED
      BY <1>6, <2>1, <2>2
  <1>10. QED
    BY <1>3, <1>4, <1>7, <1>8, <1>9

\* A step that leaves the map alone: a name is settled if it was, or its event has
\* been handed over.
LEMMA MemLearn ==
    ASSUME MemInv, UNCHANGED <<kind, store>>,
           \A w \in channels' : find'[w] = "watching" => w \in channels /\ find[w] = "watching",
           \A w \in channels, n \in Name : find[w] = "watching" /\ Settled(n)' =>
               \/ Settled(n) /\ Memory!LastSent(w, n)' = Memory!LastSent(w, n)
               \/ Memory!LastSent(w, n)' = store[n]
    PROVE  WatchersLearn'
  <1> SUFFICES ASSUME NEW w \in channels', NEW n \in Name, find'[w] = "watching", Settled(n)'
               PROVE  store'[n] = Memory!LastSent(w, n)'
    BY DEF WatchersLearn, Memory!WatchersLearn, Settled
  <1>1. w \in channels /\ find[w] = "watching"
    OBVIOUS
  <1>2. CASE Settled(n) /\ Memory!LastSent(w, n)' = Memory!LastSent(w, n)
    BY <1>1, <1>2 DEF MemInv, WatchersLearn, Memory!WatchersLearn, Settled
  <1>3. CASE Memory!LastSent(w, n)' = store[n]
    BY <1>3
  <1>4. QED
    BY <1>1, <1>2, <1>3

\* The last function about n that waits is what the watchers are sent last.
LEMMA MemSend ==
    ASSUME MemInv, NEW e \in unsent, Memory!SendEvent(e), UNCHANGED kind
    PROVE  MemInv'
  <1> USE DEF MemInv
  <1> DEFINE f == [op |-> "event", event |-> e]
  <1>1. /\ UNCHANGED <<store, out, channels, channel, find, view, registrations>>
        /\ unsent' = unsent \ {e}
        /\ queue' = Append(queue, f)
    BY DEF Memory!SendEvent
  <1>2. e \in MemEvent /\ f \in MemFunction /\ e.name \in Name /\ e.value = store[e.name]
    BY DEF MemTypes, MemEvent, MemFunction, UnsentIsCurrent
  <1>3. f.op = "event" /\ f.event = e
    OBVIOUS
  <1> HIDE DEF f
  <1>4. MemTypes'
    BY <1>1, <1>2 DEF MemTypes
  <1>5. UnsentIsCurrent'
    BY <1>1 DEF UnsentIsCurrent
  <1>6. \A n \in Name : n # e.name /\ Settled(n)' => Settled(n)
    BY <1>1 DEF Settled, Memory!SendsDeleted, Memory!Missing
  <1>7. Memory!Waiting(e.name)' # {} /\ LastWaiting(e.name)' = store[e.name]
    BY <1>1, <1>2, <1>3, LastWaitingAppended
  <1>8. ASSUME NEW n \in Name, n # e.name
        PROVE  /\ Memory!Waiting(n)' = Memory!Waiting(n)
               /\ Memory!Waiting(n) # {} => LastWaiting(n)' = LastWaiting(n)
    BY <1>1, <1>2, <1>3, <1>8, LastWaitingAppended
  <1>9. WaitingIsCurrent'
    BY <1>1, <1>6, <1>7, <1>8 DEF WaitingIsCurrent
  <1>10. WritesToChannels' /\ NewKnowsNothing'
    BY <1>1 DEF WritesToChannels, NewKnowsNothing, Memory!Missing
  <1>11. NewIsUnknown'
    <2>1. queue \in Seq(MemFunction)
      BY DEF MemTypes
    <2>2. \A i \in DOMAIN queue' : (i \in DOMAIN queue /\ queue'[i] = queue[i]) \/ queue'[i] = f
      BY <1>1, <1>2, <2>1
    <2>3. QED
      BY <1>1, <1>3, <2>2 DEF NewIsUnknown
  <1>12. ASSUME NEW w \in channels, NEW n \in Name, n # e.name
         PROVE  Memory!LastSent(w, n)' = Memory!LastSent(w, n)
    BY <1>1, <1>8, <1>12, SameSequences, LastSentCases, LastSentCasesNext
  <1>13. \A w \in channels : Memory!LastSent(w, e.name)' = store[e.name]
    BY <1>7, LastSentCasesNext
  <1>14. WatchersLearn'
    BY <1>1, <1>6, <1>12, <1>13, MemLearn
  <1>15. QED
    BY <1>4, <1>5, <1>9, <1>10, <1>11, <1>14

LEMMA MemRunEvent ==
    ASSUME MemInv, Memory!RunEvent, UNCHANGED kind
    PROVE  MemInv'
  <1> USE DEF MemInv
  <1> DEFINE f == Head(queue)
  <1> DEFINE Writes == {Memory!Write(w, f.event) : w \in channels}
  <1>1. /\ UNCHANGED <<store, unsent, channels, channel, find, view, registrations>>
        /\ out = <<>> /\ queue # <<>> /\ f.op = "event"
        /\ queue' = Tail(queue)
        /\ out' \in Memory!SetToSeqs(Writes)
    BY DEF Memory!RunEvent, Memory!Running
  <1>2. queue \in Seq(MemFunction) /\ queue' \in Seq(MemFunction) /\ f \in MemFunction
    BY <1>1 DEF MemTypes
  <1>3. f.event \in MemEvent
    BY <1>1, <1>2 DEF MemFunction
  <1>4. IsFiniteSet(Writes)
    <2>1. IsFiniteSet(channels)
      BY ElementsAssumption, FS_Subset DEF MemTypes
    <2>2. [w \in channels |-> Memory!Write(w, f.event)] \in Surjection(channels, Writes)
      BY DEF Surjection
    <2>3. QED
      BY <2>1, <2>2, FS_Surjection
  <1>5. Writes \subseteq MemWrite
    BY <1>3 DEF MemTypes, MemWrite, Memory!Write
  <1>6. out' \in Seq(Writes) /\ \A x \in Writes : \E i \in DOMAIN out' : out'[i] = x
    BY <1>1, <1>4, SequenceOfSet
  <1>7. \A i \in DOMAIN out' : out'[i] \in Writes
    BY <1>6
  <1>8. \A x \in Writes : x.to \in channels /\ x.event = f.event
    BY DEF Memory!Write
  <1> HIDE DEF f, Writes
  <1>9. MemTypes'
    <2>1. out' \in Seq(MemWrite)
      BY <1>5, <1>6
    <2>2. QED
      BY <1>1, <1>2, <2>1 DEF MemTypes
  <1>10. UnsentIsCurrent'
    BY <1>1 DEF UnsentIsCurrent
  <1>11. \A n \in Name : Settled(n)' <=> Settled(n)
    BY <1>1 DEF Settled, Memory!SendsDeleted, Memory!Missing
  <1>12. \A n \in Name :
            /\ Memory!Waiting(n)' # {} => Memory!Waiting(n) # {} /\ LastWaiting(n)' = LastWaiting(n)
            /\ Memory!Waiting(n)' = {} /\ Memory!Waiting(n) # {} =>
                   f.event.name = n /\ LastWaiting(n) = f.event.value
    BY <1>1, LastWaitingTaken DEF f
  <1>13. WaitingIsCurrent'
    BY <1>1, <1>11, <1>12 DEF WaitingIsCurrent
  <1>14. WritesToChannels'
    BY <1>1, <1>7, <1>8 DEF WritesToChannels
  <1>15. NewKnowsNothing'
    BY <1>1 DEF NewKnowsNothing, Memory!Missing
  <1>16. NewIsUnknown'
    BY <1>1, <1>2 DEF NewIsUnknown
  <1>17. ASSUME NEW w \in channels, NEW n \in Name
         PROVE  Memory!LastSent(w, n)' = Memory!LastSent(w, n)
    <2>1. w \in Watcher /\ Memory!Writing(w, n) = {}
      BY <1>1 DEF MemTypes, Memory!Writing
    <2>2. CASE n = f.event.name
      <3>1. 1 \in Memory!Waiting(n)
        BY <1>1, <1>2, <2>2 DEF Memory!Waiting, f
      <3>2. Memory!Write(w, f.event) \in Writes
        BY DEF Writes
      <3>3. PICK i \in DOMAIN out' : out'[i] = Memory!Write(w, f.event)
        BY <1>6, <3>2
      <3>4. i \in Memory!Writing(w, n)'
        BY <2>2, <3>3 DEF Memory!Writing, Memory!Write
      <3>5. Memory!Max(Memory!Writing(w, n)') \in DOMAIN out'
        <4>1. DOMAIN out' = 1 .. Len(out') /\ Len(out') \in Nat
          BY <1>6
        <4>2. Memory!Writing(w, n)' \in SUBSET (1 .. Len(out'))
          BY <4>1 DEF Memory!Writing
        <4>3. QED
          BY <3>4, <4>1, <4>2, MaxIsGreatest
      <3>6. LastWriting(w, n)' = f.event.value
        <4>1. LastWriting(w, n)' = out'[Memory!Max(Memory!Writing(w, n)')].event.value
          BY DEF LastWriting
        <4>2. QED
          BY <1>7, <1>8, <3>5, <4>1
      <3>7. Memory!Waiting(n) # {} /\ Memory!Writing(w, n)' # {}
        BY <3>1, <3>4
      <3>8. QED
        BY <1>12, <3>6, <3>7, LastSentCases, LastSentCasesNext
    <2>3. CASE n # f.event.name
      <3>1. Memory!Writing(w, n)' = {}
        BY <1>7, <1>8, <2>3 DEF Memory!Writing
      <3>2. Memory!Waiting(n)' = {} <=> Memory!Waiting(n) = {}
        BY <1>12, <2>3
      <3>3. QED
        BY <1>1, <1>12, <2>1, <3>1, <3>2, SameSequences, LastSentCases, LastSentCasesNext
    <2>4. QED
      BY <2>2, <2>3
  <1>18. WatchersLearn'
    BY <1>1, <1>11, <1>17, MemLearn
  <1>19. QED
    BY <1>9, <1>10, <1>13, <1>14, <1>15, <1>16, <1>18

LEMMA MemRunFind ==
    ASSUME MemInv, Memory!RunFind, UNCHANGED kind
    PROVE  MemInv'
  <1> USE DEF MemInv
  <1> DEFINE v == Head(queue).watcher
  <1> DEFINE Held == {m \in Name : store[m] # Memory!Missing}
  <1> DEFINE Writes == Memory!Matches(v)
  <1>1. /\ UNCHANGED <<store, unsent, channel, find, view, registrations>>
        /\ out = <<>> /\ queue # <<>> /\ Head(queue).op = "find"
        /\ queue' = Tail(queue)
        /\ channels' = channels \cup {v}
        /\ out' \in Memory!SetToSeqs(Writes)
    BY DEF Memory!RunFind, Memory!Running
  <1>2. queue \in Seq(MemFunction) /\ queue' \in Seq(MemFunction) /\ Head(queue) \in MemFunction
    BY <1>1 DEF MemTypes
  <1>3. v \in Watcher
    BY <1>1, <1>2 DEF MemFunction
  <1>4. IsFiniteSet(Writes)
    <2>1. IsFiniteSet(Held)
      BY ElementsAssumption, FS_Subset
    <2>2. [n \in Held |-> Memory!Write(v, Memory!Event(n, store[n]))] \in Surjection(Held, Writes)
      BY DEF Surjection, Memory!Matches
    <2>3. QED
      BY <2>1, <2>2, FS_Surjection
  <1>5. Writes \subseteq MemWrite
    BY <1>3 DEF MemTypes, MemWrite, MemEvent, Memory!Write, Memory!Event, Memory!Matches
  <1>6. out' \in Seq(Writes) /\ \A x \in Writes : \E i \in DOMAIN out' : out'[i] = x
    BY <1>1, <1>4, SequenceOfSet
  <1>7. \A i \in DOMAIN out' : out'[i] \in Writes
    BY <1>6
  <1>8. \A x \in Writes : /\ x.to = v /\ x.event.name \in Name
                          /\ x.event.value = store[x.event.name]
                          /\ store[x.event.name] # Memory!Missing
    BY DEF Memory!Matches, Memory!Write, Memory!Event
  <1>9. ASSUME NEW n \in Held
        PROVE  \E x \in Writes : x.to = v /\ x.event.name = n
    <2>1. Memory!Write(v, Memory!Event(n, store[n])) \in Writes
      BY DEF Memory!Matches
    <2>2. QED
      BY <2>1 DEF Memory!Write, Memory!Event
  <1>10. v \in Watcher /\ find[v] # "new"
    <2>1. 1 \in DOMAIN queue /\ queue[1] = Head(queue)
      BY <1>1, <1>2
    <2>2. QED
      BY <1>1, <1>3, <2>1 DEF NewIsUnknown
  <1> HIDE DEF v, Writes
  <1>11. MemTypes'
    <2>1. out' \in Seq(MemWrite)
      BY <1>5, <1>6
    <2>2. QED
      BY <1>1, <1>2, <1>3, <2>1 DEF MemTypes
  <1>12. UnsentIsCurrent'
    BY <1>1 DEF UnsentIsCurrent
  <1>13. \A n \in Name : Settled(n)' <=> Settled(n)
    BY <1>1 DEF Settled, Memory!SendsDeleted, Memory!Missing
  <1>14. \A n \in Name :
            /\ Memory!Waiting(n)' # {} => Memory!Waiting(n) # {} /\ LastWaiting(n)' = LastWaiting(n)
            /\ Memory!Waiting(n)' = {} => Memory!Waiting(n) = {}
    BY <1>1, LastWaitingTaken
  <1>15. WaitingIsCurrent'
    BY <1>1, <1>13, <1>14 DEF WaitingIsCurrent
  <1>16. WritesToChannels'
    BY <1>1, <1>7, <1>8 DEF WritesToChannels
  <1>17. NewKnowsNothing'
    BY <1>1 DEF NewKnowsNothing, Memory!Missing
  <1>18. NewIsUnknown'
    BY <1>1, <1>2, <1>10 DEF NewIsUnknown
  <1>19. ASSUME NEW w \in channels', NEW n \in Name, find'[w] = "watching", Settled(n)'
         PROVE  store'[n] = Memory!LastSent(w, n)'
    <2>1. w \in Watcher /\ Memory!Writing(w, n) = {} /\ Settled(n) /\ find[w] = "watching"
      BY <1>1, <1>3, <1>13, <1>19 DEF MemTypes, Memory!Writing
    <2>2. CASE Memory!Waiting(n)' # {}
      BY <1>1, <1>14, <2>1, <2>2, LastSentCasesNext DEF WaitingIsCurrent
    <2>3. CASE Memory!Waiting(n)' = {} /\ Memory!Writing(w, n)' # {}
      <3>1. Memory!Max(Memory!Writing(w, n)') \in Memory!Writing(w, n)'
        <4>1. DOMAIN out' = 1 .. Len(out') /\ Len(out') \in Nat
          BY <1>6
        <4>2. Memory!Writing(w, n)' \in SUBSET (1 .. Len(out'))
          BY <4>1 DEF Memory!Writing
        <4>3. QED
          BY <2>3, <4>1, <4>2, MaxIsGreatest
      <3>2. PICK x \in Writes : LastWriting(w, n)' = x.event.value /\ x.event.name = n
        <4>1. LastWriting(w, n)' = out'[Memory!Max(Memory!Writing(w, n)')].event.value
          BY DEF LastWriting
        <4>2. QED
          BY <1>7, <3>1, <4>1 DEF Memory!Writing
      <3>3. QED
        BY <1>1, <1>8, <2>3, <3>2, LastSentCasesNext
    <2>4. CASE Memory!Waiting(n)' = {} /\ Memory!Writing(w, n)' = {}
      <3>1. Memory!LastSent(w, n)' = Memory!LastSent(w, n)
        BY <1>1, <1>14, <2>1, <2>4, SameSequences, LastSentCases, LastSentCasesNext
      <3>2. CASE w \in channels
        BY <1>1, <2>1, <3>1, <3>2 DEF WatchersLearn, Memory!WatchersLearn, Settled
      <3>3. CASE w \notin channels
        <4>1. channel[w] = <<>> /\ view[w][n] = Memory!Missing
          BY <2>1, <3>3 DEF NewKnowsNothing
        <4>2. Memory!Written(w, n) = {}
          BY <4>1 DEF Memory!Written
        <4>3. Memory!LastSent(w, n) = Memory!Missing
          BY <1>14, <2>1, <2>4, <4>1, <4>2, LastSentCases
        <4>4. n \notin Held
          <5> SUFFICES ASSUME n \in Held
                       PROVE  Memory!Writing(w, n)' # {}
            BY <2>4
          <5>1. w = v
            BY <1>1, <3>3
          <5>2. PICK x \in Writes : x.to = v /\ x.event.name = n
            BY <1>9
          <5>3. QED
            BY <1>6, <5>1, <5>2 DEF Memory!Writing
        <4>5. QED
          BY <1>1, <3>1, <4>3, <4>4
      <3>4. QED
        BY <3>2, <3>3
    <2>5. QED
      BY <2>2, <2>3, <2>4
  <1>20. WatchersLearn'
    BY <1>19 DEF WatchersLearn, Memory!WatchersLearn, Settled
  <1>21. QED
    BY <1>11, <1>12, <1>15, <1>16, <1>17, <1>18, <1>20

LEMMA MemRunClose ==
    ASSUME MemInv, Memory!RunClose, UNCHANGED kind
    PROVE  MemInv'
  <1> USE DEF MemInv
  <1> DEFINE v == Head(queue).watcher
  <1>1. /\ UNCHANGED <<store, unsent, out, channel, view, registrations>>
        /\ out = <<>> /\ queue # <<>> /\ Head(queue).op = "close"
        /\ queue' = Tail(queue)
        /\ channels' = channels \ {v}
        /\ find' = [find EXCEPT ![v] = "returned"]
    BY DEF Memory!RunClose, Memory!Running
  <1>2. queue \in Seq(MemFunction) /\ queue' \in Seq(MemFunction)
    BY <1>1 DEF MemTypes
  <1>3. v \in Watcher
    BY <1>1, <1>2 DEF MemFunction
  <1> HIDE DEF v
  <1>4. MemTypes'
    BY <1>1, <1>2 DEF MemTypes
  <1>5. UnsentIsCurrent'
    BY <1>1 DEF UnsentIsCurrent
  <1>6. \A n \in Name : Settled(n)' <=> Settled(n)
    BY <1>1 DEF Settled, Memory!SendsDeleted, Memory!Missing
  <1>7. \A n \in Name :
            /\ Memory!Waiting(n)' = {} <=> Memory!Waiting(n) = {}
            /\ Memory!Waiting(n)' # {} => LastWaiting(n)' = LastWaiting(n)
    BY <1>1, LastWaitingTaken
  <1>8. WaitingIsCurrent'
    BY <1>1, <1>6, <1>7 DEF WaitingIsCurrent
  <1>9. WritesToChannels'
    BY <1>1 DEF WritesToChannels
  <1>10. NewKnowsNothing'
    BY <1>1, <1>3 DEF NewKnowsNothing, MemTypes, Memory!Missing
  <1>11. NewIsUnknown'
    BY <1>1, <1>2, <1>3 DEF NewIsUnknown, MemTypes
  <1>12. ASSUME NEW w \in channels, NEW n \in Name
         PROVE  Memory!LastSent(w, n)' = Memory!LastSent(w, n)
    BY <1>1, <1>7, SameSequences, LastSentCases, LastSentCasesNext
  <1>13. \A w \in channels' : find'[w] = "watching" => w \in channels /\ find[w] = "watching"
    BY <1>1, <1>3 DEF MemTypes
  <1>14. WatchersLearn'
    BY <1>1, <1>6, <1>12, <1>13, MemLearn
  <1>15. QED
    BY <1>4, <1>5, <1>8, <1>9, <1>10, <1>11, <1>14

\* What is written goes from the end of one sequence to the start of the next.
LEMMA MemWriteNext ==
    ASSUME MemInv, Memory!WriteNext, UNCHANGED kind
    PROVE  MemInv'
  <1> USE DEF MemInv
  <1> DEFINE v == Head(out).to
  <1> DEFINE e == Head(out).event
  <1>1. /\ UNCHANGED <<store, unsent, queue, channels, find, view, registrations>>
        /\ out # <<>>
        /\ channel' = [channel EXCEPT ![v] = Append(@, e)]
        /\ out' = Tail(out)
    BY DEF Memory!WriteNext
  <1>2. out \in Seq(MemWrite) /\ out' \in Seq(MemWrite) /\ Head(out) \in MemWrite
    BY <1>1 DEF MemTypes
  <1>3. v \in Watcher /\ e \in MemEvent
    BY <1>2 DEF MemWrite
  <1>4. v \in channels
    BY <1>1, <1>2 DEF WritesToChannels
  <1> HIDE DEF v, e
  <1>5. channel'[v] = Append(channel[v], e) /\ \A w \in Watcher \ {v} : channel'[w] = channel[w]
    BY <1>1, <1>3 DEF MemTypes
  <1>6. MemTypes'
    BY <1>1, <1>2, <1>3 DEF MemTypes
  <1>7. UnsentIsCurrent'
    BY <1>1 DEF UnsentIsCurrent
  <1>8. \A n \in Name : Settled(n)' <=> Settled(n)
    BY <1>1 DEF Settled, Memory!SendsDeleted, Memory!Missing
  <1>9. WaitingIsCurrent'
    BY <1>1, <1>8, SameSequences DEF WaitingIsCurrent
  <1>10. WritesToChannels'
    BY <1>1, <1>2 DEF WritesToChannels
  <1>11. NewKnowsNothing'
    BY <1>1, <1>4, <1>5 DEF NewKnowsNothing, Memory!Missing
  <1>12. NewIsUnknown'
    BY <1>1 DEF NewIsUnknown
  <1>13. ASSUME NEW w \in channels, NEW n \in Name
         PROVE  Memory!LastSent(w, n)' = Memory!LastSent(w, n)
    <2>1. w \in Watcher
      BY DEF MemTypes
    <2>2. /\ Memory!Writing(w, n)' # {} =>
                 Memory!Writing(w, n) # {} /\ LastWriting(w, n)' = LastWriting(w, n)
          /\ Memory!Writing(w, n)' = {} /\ Memory!Writing(w, n) # {} =>
                 v = w /\ e.name = n /\ LastWriting(w, n) = e.value
          /\ Memory!Writing(w, n)' = {} /\ Memory!Writing(w, n) = {} => ~(v = w /\ e.name = n)
      BY <1>1, <2>1, LastWritingTaken DEF v, e
    <2>3. Memory!Waiting(n)' = Memory!Waiting(n) /\ LastWaiting(n)' = LastWaiting(n)
      BY <1>1, SameSequences
    <2>4. CASE v = w /\ e.name = n
      <3>1. Memory!Written(w, n)' # {} /\ LastWritten(w, n)' = e.value
        BY <1>3, <1>5, <2>1, <2>4, LastWrittenAppended
      <3>2. QED
        BY <2>2, <2>3, <2>4, <3>1, LastSentCases, LastSentCasesNext
    <2>5. CASE ~(v = w /\ e.name = n)
      <3>1. /\ Memory!Written(w, n)' = Memory!Written(w, n)
            /\ Memory!Written(w, n) # {} => LastWritten(w, n)' = LastWritten(w, n)
        BY <1>3, <1>5, <2>1, <2>5, LastWrittenAppended, SameSequences
      <3>2. QED
        BY <1>1, <2>2, <2>3, <2>5, <3>1, LastSentCases, LastSentCasesNext
    <2>6. QED
      BY <2>4, <2>5
  <1>14. WatchersLearn'
    BY <1>1, <1>8, <1>13, MemLearn
  <1>15. QED
    BY <1>6, <1>7, <1>9, <1>10, <1>11, <1>12, <1>14

\* A Find starts or ends: a function of its own waits for the executor.
LEMMA MemFind ==
    ASSUME MemInv, NEW v \in Watcher, Memory!Find(v) \/ Memory!FindEnds(v), UNCHANGED kind
    PROVE  MemInv'
  <1> USE DEF MemInv
  <1>1. PICK op \in {"find", "close"}, s \in {"watching", "draining"} :
            /\ queue' = Append(queue, [op |-> op, watcher |-> v])
            /\ find' = [find EXCEPT ![v] = s]
            /\ s = "watching" => v \notin channels
            /\ find[v] \in {"new", "watching"}
    <2>1. CASE Memory!Find(v)
      BY <2>1 DEF Memory!Find, NewIsUnknown
    <2>2. CASE Memory!FindEnds(v)
      BY <2>2 DEF Memory!FindEnds
    <2>3. QED
      BY <2>1, <2>2
  <1> DEFINE f == [op |-> op, watcher |-> v]
  <1>2. UNCHANGED <<store, unsent, out, channels, channel, view, registrations>>
    BY DEF Memory!Find, Memory!FindEnds
  <1>3. f \in MemFunction /\ f.op # "event" /\ f.watcher = v /\ queue' = Append(queue, f)
    BY <1>1 DEF MemFunction
  <1> HIDE DEF f
  <1>4. MemTypes'
    BY <1>1, <1>2, <1>3 DEF MemTypes
  <1>5. UnsentIsCurrent'
    BY <1>2 DEF UnsentIsCurrent
  <1>6. \A n \in Name : Settled(n)' <=> Settled(n)
    BY <1>2 DEF Settled, Memory!SendsDeleted, Memory!Missing
  <1>7. \A n \in Name :
            /\ Memory!Waiting(n)' = Memory!Waiting(n)
            /\ Memory!Waiting(n) # {} => LastWaiting(n)' = LastWaiting(n)
    BY <1>3, LastWaitingAppended
  <1>8. WaitingIsCurrent'
    BY <1>2, <1>6, <1>7 DEF WaitingIsCurrent
  <1>9. WritesToChannels'
    BY <1>2 DEF WritesToChannels
  <1>10. NewKnowsNothing'
    BY <1>1, <1>2 DEF NewKnowsNothing, MemTypes, Memory!Missing
  <1>11. NewIsUnknown'
    <2>1. queue \in Seq(MemFunction)
      BY DEF MemTypes
    <2>2. \A i \in DOMAIN queue' : (i \in DOMAIN queue /\ queue'[i] = queue[i]) \/ queue'[i] = f
      BY <1>3, <2>1
    <2>3. \A w \in Watcher : find'[w] = "new" => w # v /\ find[w] = "new"
      BY <1>1 DEF MemTypes
    <2>4. QED
      BY <1>2, <1>3, <2>2, <2>3 DEF NewIsUnknown
  <1>12. ASSUME NEW w \in channels, NEW n \in Name
         PROVE  Memory!LastSent(w, n)' = Memory!LastSent(w, n)
    BY <1>2, <1>7, SameSequences, LastSentCases, LastSentCasesNext
  <1>13. \A w \in channels' : find'[w] = "watching" => w \in channels /\ find[w] = "watching"
    BY <1>1, <1>2 DEF MemTypes
  <1>14. WatchersLearn'
    BY <1>2, <1>6, <1>12, <1>13, MemLearn
  <1>15. QED
    BY <1>4, <1>5, <1>8, <1>9, <1>10, <1>11, <1>14

\* A Find reads its channel, and sends what it reads or, at its end, drops it.
LEMMA MemRead ==
    ASSUME MemInv, NEW v \in Watcher, Memory!FindStep(v), UNCHANGED kind
    PROVE  MemInv'
  <1> USE DEF MemInv
  <1> DEFINE e == Head(channel[v])
  <1>1. /\ UNCHANGED <<store, unsent, queue, out, channels, find, registrations>>
        /\ channel[v] # <<>>
        /\ channel' = [channel EXCEPT ![v] = Tail(@)]
    BY DEF Memory!FindStep, Memory!ReceiveEvent, Memory!Drain
  <1>2. channel[v] \in Seq(MemEvent) /\ e \in MemEvent
    BY <1>1 DEF MemTypes
  <1>3. \/ view' = [view EXCEPT ![v][e.name] = e.value]
        \/ view' = view /\ find[v] = "draining"
    BY DEF Memory!FindStep, Memory!ReceiveEvent, Memory!Drain
  <1>4. e.name \in Name /\ e.value \in Value
    BY <1>2 DEF MemEvent
  <1>5. v \in channels \/ find[v] \notin {"new", "watching"}
    BY <1>1 DEF NewKnowsNothing
  <1> HIDE DEF e
  <1>6. channel'[v] = Tail(channel[v]) /\ \A w \in Watcher \ {v} : channel'[w] = channel[w]
    BY <1>1 DEF MemTypes
  <1>7. MemTypes'
    <2>1. channel' \in [Watcher -> Seq(MemEvent)]
      BY <1>1, <1>2 DEF MemTypes
    <2>2. view' \in [Watcher -> [Name -> Value]]
      <3>1. view[v] \in [Name -> Value]
        BY DEF MemTypes
      <3>2. [view[v] EXCEPT ![e.name] = e.value] \in [Name -> Value]
        BY <1>4, <3>1
      <3>3. QED
        BY <1>3, <3>2 DEF MemTypes
    <2>3. QED
      BY <1>1, <2>1, <2>2 DEF MemTypes
  <1>8. UnsentIsCurrent'
    BY <1>1 DEF UnsentIsCurrent
  <1>9. \A n \in Name : Settled(n)' <=> Settled(n)
    BY <1>1 DEF Settled, Memory!SendsDeleted, Memory!Missing
  <1>10. WaitingIsCurrent'
    BY <1>1, <1>9, SameSequences DEF WaitingIsCurrent
  <1>11. WritesToChannels'
    BY <1>1 DEF WritesToChannels
  <1>12. \A w \in Watcher \ {v} : view'[w] = view[w]
    BY <1>3 DEF MemTypes
  <1>13. NewKnowsNothing'
    BY <1>1, <1>5, <1>6, <1>12 DEF NewKnowsNothing, Memory!Missing
  <1>14. NewIsUnknown'
    BY <1>1 DEF NewIsUnknown
  <1>15. ASSUME NEW w \in channels, NEW n \in Name, find[w] = "watching"
         PROVE  Memory!LastSent(w, n)' = Memory!LastSent(w, n)
    <2>1. w \in Watcher
      BY DEF MemTypes
    <2>2. CASE w # v
      BY <1>1, <1>6, <1>12, <2>1, <2>2, SameSequences, LastSentCases, LastSentCasesNext
    <2>3. CASE w = v
      <3>1. view'[w][n] = IF e.name = n THEN e.value ELSE view[w][n]
        BY <1>3, <1>4, <1>15, <2>3 DEF MemTypes
      <3>2. /\ Memory!Written(w, n)' # {} =>
                   Memory!Written(w, n) # {} /\ LastWritten(w, n)' = LastWritten(w, n)
            /\ Memory!Written(w, n)' = {} /\ Memory!Written(w, n) # {} =>
                   e.name = n /\ LastWritten(w, n) = e.value
            /\ Memory!Written(w, n) = {} => e.name # n
        BY <1>1, <1>6, <2>1, <2>3, LastWrittenTaken DEF e
      <3>3. QED
        BY <1>1, <3>1, <3>2, SameSequences, LastSentCases, LastSentCasesNext
    <2>4. QED
      BY <2>2, <2>3
  <1>16. WatchersLearn'
    BY <1>1, <1>9, <1>15, MemLearn
  <1>17. QED
    BY <1>7, <1>8, <1>10, <1>11, <1>13, <1>14, <1>16

LEMMA MemSame ==
    ASSUME MemInv, UNCHANGED memoryVars
    PROVE  MemInv'
  <1> USE DEF MemInv, memoryVars
  <1>1. MemTypes' /\ UnsentIsCurrent' /\ WritesToChannels' /\ NewKnowsNothing' /\ NewIsUnknown'
    BY DEF MemTypes, UnsentIsCurrent, WritesToChannels, NewKnowsNothing, NewIsUnknown, Memory!Missing
  <1>2. \A n \in Name : Settled(n)' <=> Settled(n)
    BY DEF Settled, Memory!SendsDeleted, Memory!Missing
  <1>3. WaitingIsCurrent'
    BY <1>2, SameSequences DEF WaitingIsCurrent
  <1>4. \A w \in channels, n \in Name : Memory!LastSent(w, n)' = Memory!LastSent(w, n)
    BY SameSequences, LastSentCases, LastSentCasesNext
  <1>5. WatchersLearn'
    BY <1>2, <1>4, MemLearn
  <1>6. QED
    BY <1>1, <1>3, <1>5

LEMMA MemNext ==
    ASSUME MemInv, Memory!Next \/ UNCHANGED memoryVars
    PROVE  MemInv'
  BY MemCall, MemSend, MemRunEvent, MemRunFind, MemRunClose, MemWriteNext, MemFind, MemRead, MemSame
     DEF Memory!Next, Memory!ExecutorStep

\* registry memory: for any names, watchers, number of calls and size of the channels,
\* the last that is on its way to a watching Find is what the map holds, although the
\* map is not changed in the executor that tells the watchers.
THEOREM WatchersAreTold == MCFairSpec => []WatchersLearn
  <1>1. MCInit => MemInv
    BY MemInit DEF MCInit
  <1>2. MemInv /\ [MCNext]_allVars => MemInv'
    BY MemNext DEF MCNext, allVars
  <1>3. QED
    BY <1>1, <1>2, PTL DEF MCFairSpec, MemInv
=============================================================================
