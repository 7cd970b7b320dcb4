------------------------------ MODULE ChainsProofs ------------------------------
(***************************************************************************)
(* Proofs about the calls of MCChains that are authorized, that choose a   *)
(* forwarder and an endpoint, or that leave a path behind: for any number  *)
(* of calls, of changes and of connections.                                *)
(***************************************************************************)
EXTENDS MCChains, FiniteSetTheorems, WellFoundedInduction, TLAPS

-----------------------------------------------------------------------------
(* Authorization of registrations.                                         *)

Caller == Authorization!Caller
RegistryCalls == [Caller -> RegistryCall \cup {None}]

RegistryType ==
    /\ policies \in BOOLEAN
    /\ clientIds \in Id \cup {None} /\ serverIds \in Id \cup {None} /\ registered \in Id \cup {None}
    /\ call \in RegistryCalls
    /\ loose \in BOOLEAN /\ unsure \in BOOLEAN /\ taken \in BOOLEAN

\* Where calls are: those of a peer are only in the server.
RegistryPlaces ==
    /\ call["peer"] # None => Authorization!InServer("peer") /\ ~ call["peer"].rollback
    /\ \A c \in Caller :
          /\ Authorization!At(c, "store") => call[c].op = "Register"
          /\ Authorization!At(c, "chain") => call[c].op = "Unregister"
    /\ Authorization!At("client", "call") => call["client"].rollback
    /\ call["client"] # None /\ call["client"].rollback =>
          call["client"].op = "Unregister" /\ call["client"].at # "client" /\ clientIds = None

\* Calls that meet are alike, or the history tells.
CallsMeet ==
    /\ call["client"] # None /\ call["peer"] # None
    /\ \/ call["client"].alone \/ call["peer"].alone
       \/ ~ loose /\ Authorization!InServer("client") /\ Authorization!InServer("peer")
    => Authorization!Alike(call["client"], call["peer"])

\* A call in the server finds its own id or none.
OwnId(c) ==
    /\ ~ loose /\ Authorization!InServer(c) => serverIds \in {None, call[c].id} /\ registered \in {None, call[c].id}
    /\ (~ loose \/ call[c].alone) /\ Authorization!At(c, "store") => registered = call[c].id
    /\ (~ loose \/ call[c].alone) /\ Authorization!At(c, "chain") => serverIds = None

\* What the server knows: it lets in only the id that it has, and it has the one of the
\* registry if that has not changed behind its back.
ServerKnows ==
    /\ ~ taken
    /\ loose => unsure
    /\ \/ loose
       \/ serverIds = registered
       \/ Authorization!At("client", "store") \/ Authorization!At("client", "chain")
       \/ Authorization!At("peer", "store") \/ Authorization!At("peer", "chain")
    /\ OwnId("client") /\ OwnId("peer")

\* What the client knows, and what a call of it has done.
ClientKnows ==
    /\ \/ call["client"] = None
       \/ (Authorization!At("client", "server") \/ Authorization!At("client", "chain")) /\ ~ call["client"].rollback
       => unsure \/ clientIds = registered
    /\ Authorization!At("client", "store") => unsure \/ clientIds \in {None, call["client"].id}
    /\ call["client"] # None /\ ~ call["client"].alone => unsure
    /\ ~ unsure /\ call["peer"] # None => call["peer"].op = "Register" /\ registered = call["peer"].id
    /\ Authorization!At("client", "client") /\ call["client"].alone =>
          /\ ~ loose
          /\ call["client"].op = "Register" =>
                registered = call["client"].id /\ (unsure \/ clientIds \in {None, call["client"].id})
          /\ call["client"].op = "Unregister" => registered = None

RegistryInv == RegistryType /\ RegistryPlaces /\ (policies => CallsMeet /\ ServerKnows /\ ClientKnows)

LEMMA NoneIsNoCall == None \notin RegistryCall
  BY ChainsAssumption DEF RegistryCall

LEMMA Callers == Caller = {"client", "peer"} /\ (\A c \in Caller : Authorization!Other(c) \in Caller \ {c})
  BY DEF Caller, Authorization!Caller, Authorization!Other

LEMMA RegistryInit == Authorization!RegistryAuthorizeInit => RegistryInv
  BY DEF Authorization!RegistryAuthorizeInit, RegistryInv, RegistryType, RegistryCalls, RegistryPlaces, CallsMeet,
         ServerKnows, OwnId, ClientKnows, Authorization!At, Authorization!InServer, Caller, Authorization!Caller,
         Authorization!Other

\* What becomes of the calls.
LEMMA CallGoesOn ==
    ASSUME call \in RegistryCalls, NEW c \in Caller, call[c] # None,
           NEW a \in {"call", "server", "store", "chain", "client"}, Authorization!GoOn(c, a)
    PROVE  /\ call' \in RegistryCalls /\ call'[c] # None /\ call'[c].at = a
           /\ call'[c].op = call[c].op /\ call'[c].id = call[c].id
           /\ call'[c].rollback = call[c].rollback /\ call'[c].alone = call[c].alone
           /\ call'[Authorization!Other(c)] = call[Authorization!Other(c)]
  <1>1. call[c] \in RegistryCall
    BY DEF RegistryCalls
  <1>2. [call[c] EXCEPT !.at = a] \in RegistryCall
    BY <1>1 DEF RegistryCall
  <1>3. call'[c] = [call[c] EXCEPT !.at = a] /\ call'[Authorization!Other(c)] = call[Authorization!Other(c)]
    BY Callers DEF Authorization!GoOn, RegistryCalls
  <1>4. call' \in RegistryCalls
    BY <1>2 DEF Authorization!GoOn, RegistryCalls
  <1>5. QED
    BY <1>1, <1>2, <1>3, <1>4, NoneIsNoCall DEF RegistryCall

LEMMA CallBecomes ==
    ASSUME call \in RegistryCalls, NEW c \in Caller, NEW r \in RegistryCall, call' = [call EXCEPT ![c] = r]
    PROVE  call' \in RegistryCalls /\ call'[c] = r /\ call'[Authorization!Other(c)] = call[Authorization!Other(c)]
  BY Callers DEF RegistryCalls

LEMMA CallEnds ==
    ASSUME call \in RegistryCalls, NEW c \in Caller, Authorization!Ends(c)
    PROVE  call' \in RegistryCalls /\ call'[c] = None /\ call'[Authorization!Other(c)] = call[Authorization!Other(c)]
  BY Callers DEF Authorization!Ends, RegistryCalls

\* An answer gets to the client, or to the peer.
LEMMA CallAnswers ==
    ASSUME call \in RegistryCalls, NEW c \in Caller, call[c] # None, Authorization!Answers(c)
    PROVE  /\ call' \in RegistryCalls /\ call'[Authorization!Other(c)] = call[Authorization!Other(c)]
           /\ c = "peer" => call'[c] = None
           /\ c = "client" => /\ call'[c] # None /\ call'[c].at = "client"
                              /\ call'[c].op = call[c].op /\ call'[c].id = call[c].id
                              /\ call'[c].rollback = call[c].rollback /\ call'[c].alone = call[c].alone
  BY CallGoesOn, CallEnds, Callers DEF Authorization!Answers

\* r is the call, but perhaps not alone any more.
SameCall(r, s) == r # None /\ r.op = s.op /\ r.id = s.id /\ r.at = s.at /\ r.rollback = s.rollback

LEMMA NotAloneCall ==
    ASSUME NEW r \in RegistryCall \cup {None}
    PROVE  /\ Authorization!NotAlone(r) \in RegistryCall \cup {None}
           /\ r = None => Authorization!NotAlone(r) = None
           /\ r # None => SameCall(Authorization!NotAlone(r), r) /\ Authorization!NotAlone(r).alone = FALSE
  <1>1. CASE r = None
    BY <1>1 DEF Authorization!NotAlone
  <1>2. CASE r # None
    <2>1. r \in RegistryCall /\ [r EXCEPT !.alone = FALSE] \in RegistryCall
      BY <1>2 DEF RegistryCall
    <2>2. QED
      BY <1>2, <2>1, NoneIsNoCall DEF Authorization!NotAlone, RegistryCall, SameCall
  <1>3. QED
    BY <1>1, <1>2

LEMMA CallEnters ==
    ASSUME call \in RegistryCalls, NEW c \in Caller, NEW r \in RegistryCall, Authorization!Enters(c, r)
    PROVE  LET o == Authorization!Other(c)
           IN  /\ call' \in RegistryCalls
               /\ call'[c] # None /\ call'[c].at = "server" /\ call'[c].op = r.op /\ call'[c].id = r.id
               /\ call'[c].rollback = r.rollback
               /\ call'[c].alone = (r.alone /\ ~ Authorization!Crosses(c, r))
               /\ call[o] = None => call'[o] = None
               /\ call[o] # None => /\ SameCall(call'[o], call[o])
                                    /\ call'[o].alone = (call[o].alone /\ ~ Authorization!Crosses(c, r))
  <1> DEFINE o == Authorization!Other(c)
             s == [r EXCEPT !.at = "server", !.alone = r.alone /\ ~ Authorization!Crosses(c, r)]
             t == IF Authorization!Crosses(c, r) THEN Authorization!NotAlone(call[o]) ELSE call[o]
  <1>1. call[o] \in RegistryCall \cup {None} /\ o \in Caller /\ o # c
    BY Callers DEF RegistryCalls
  <1>2. Authorization!Crosses(c, r) \in BOOLEAN
    BY DEF Authorization!Crosses
  <1>3. s \in RegistryCall
    BY <1>2 DEF RegistryCall
  <1>4. t \in RegistryCall \cup {None}
    BY <1>1, NotAloneCall
  <1>5. call' = [call EXCEPT ![c] = s, ![o] = t]
    BY DEF Authorization!Enters
  <1>6. call' \in RegistryCalls /\ call'[c] = s /\ call'[o] = t
    BY <1>1, <1>3, <1>4, <1>5 DEF RegistryCalls
  <1>7. call[o] # None => SameCall(t, call[o]) /\ t.alone = (call[o].alone /\ ~ Authorization!Crosses(c, r))
    <2>1. CASE Authorization!Crosses(c, r)
      BY <1>1, <2>1, NotAloneCall
    <2>2. CASE ~ Authorization!Crosses(c, r)
      BY <1>1, <2>2 DEF SameCall, RegistryCall
    <2>3. QED
      BY <2>1, <2>2
  <1>8. s # None /\ s.at = "server" /\ s.op = r.op /\ s.id = r.id /\ s.rollback = r.rollback
        /\ s.alone = (r.alone /\ ~ Authorization!Crosses(c, r))
    BY <1>3, NoneIsNoCall DEF RegistryCall
  <1>9. call[o] = None => t = None
    BY DEF Authorization!NotAlone
  <1>10. QED
    BY <1>6, <1>7, <1>8, <1>9

\* A call that enters the server finds its own id or none, and the other call there.
LEMMA RegistryEnters ==
    ASSUME RegistryInv, NEW c \in Caller, NEW r \in RegistryCall, Authorization!Enters(c, r),
           policies /\ ~ r.alone => unsure,
           \/ call[c] = None /\ ~ r.rollback /\ r.alone
           \/ c = "client" /\ call[c] = r /\ r.at = "call"
    PROVE  RegistryInv'
  <1> DEFINE o == Authorization!Other(c)
  <1>1. /\ call' \in RegistryCalls
        /\ call'[c] # None /\ call'[c].at = "server" /\ call'[c].op = r.op /\ call'[c].id = r.id
        /\ call'[c].rollback = r.rollback
        /\ call'[c].alone = (r.alone /\ ~ Authorization!Crosses(c, r))
        /\ call[o] = None => call'[o] = None
        /\ call[o] # None => /\ SameCall(call'[o], call[o])
                             /\ call'[o].alone = (call[o].alone /\ ~ Authorization!Crosses(c, r))
    BY CallEnters DEF RegistryInv, RegistryType
  <1>2. /\ UNCHANGED <<policies, clientIds, serverIds, registered, taken>>
        /\ loose' = (loose \/ (Authorization!Crosses(c, r) /\ Authorization!InServer(o)))
        /\ unsure' = (unsure \/ Authorization!Crosses(c, r) \/ c = "peer")
        /\ policies => serverIds \in {None, r.id}
    BY DEF Authorization!Enters, Authorization!fixed, Authorization!ClientAllowed
  <1>3. RegistryType'
    BY <1>1, <1>2
       DEF RegistryInv, RegistryType, Authorization!Crosses, Authorization!InServer
  <1>7. (c = "client" /\ o = "peer") \/ (c = "peer" /\ o = "client")
    BY Callers DEF Authorization!Other
  <1>8. c = "client" /\ r.rollback => r.op = "Unregister" /\ clientIds = None
    BY NoneIsNoCall DEF RegistryInv, RegistryPlaces
  <1>4. RegistryPlaces'
    <2>1. CASE c = "client"
      BY <1>1, <1>2, <1>7, <1>8, <2>1, Callers
         DEF RegistryInv, RegistryPlaces, SameCall, Authorization!At, Authorization!InServer
    <2>2. CASE c = "peer"
      BY <1>1, <1>2, <1>7, <2>2, Callers
         DEF RegistryInv, RegistryPlaces, SameCall, Authorization!At, Authorization!InServer
    <2>3. QED
      BY <1>7, <2>1, <2>2
  <1>5. CASE policies
    <2>1. CallsMeet'
      BY <1>1, <1>2, <1>5, Callers
         DEF RegistryInv, CallsMeet, SameCall, Authorization!InServer, Authorization!Other,
             Authorization!Crosses, Authorization!Alike
    <2>2. ServerKnows'
      BY <1>1, <1>2, <1>5, Callers
         DEF RegistryInv, RegistryPlaces, CallsMeet, ServerKnows, OwnId, SameCall, Authorization!At,
             Authorization!InServer, Authorization!Other, Authorization!Crosses, Authorization!Alike
    <2>3. ClientKnows'
      <3>1. CASE c = "client"
        <4>1. call[c] = r => (~ r.rollback => FALSE)
          BY <1>1, NoneIsNoCall, <3>1 DEF RegistryInv, RegistryPlaces, Authorization!At, RegistryCall
        <4>2. QED
          BY <1>1, <1>2, <1>5, <1>7, <1>8, <3>1, <4>1
             DEF RegistryInv, RegistryPlaces, ClientKnows, SameCall, Authorization!At, Authorization!InServer,
                 Authorization!Crosses, Authorization!Alike
      <3>2. CASE c = "peer"
        BY <1>1, <1>2, <1>5, <1>7, <3>2
           DEF RegistryInv, RegistryPlaces, ClientKnows, SameCall, Authorization!At, Authorization!InServer,
               Authorization!Crosses, Authorization!Alike
      <3>3. QED
        BY <1>7, <3>1, <3>2
    <2>4. QED
      BY <1>2, <1>3, <1>4, <2>1, <2>2, <2>3 DEF RegistryInv
  <1>6. QED
    BY <1>2, <1>3, <1>4, <1>5 DEF RegistryInv

LEMMA RegistryBegin ==
    ASSUME RegistryInv, NEW c \in Caller, NEW i \in Id, NEW o \in {"Register", "Unregister"},
           Authorization!Begin(c, o, i)
    PROVE  RegistryInv'
  <1> DEFINE r == [op |-> o, id |-> i, at |-> "call", rollback |-> FALSE, alone |-> TRUE]
  <1>1. r \in RegistryCall /\ ~ r.rollback /\ r.alone
    BY DEF RegistryCall
  <1>2. call[c] = None /\ Authorization!Enters(c, r)
    BY DEF Authorization!Begin
  <1>3. QED
    BY <1>1, <1>2, RegistryEnters

\* A Register in the server.
LEMMA RegistryRegisters ==
    ASSUME RegistryInv, NEW c \in Caller,
           Authorization!Registered(c) \/ Authorization!Stores(c) \/ Authorization!RegisterFails(c)
    PROVE  RegistryInv'
  <1> DEFINE o == Authorization!Other(c)
  <1>1. /\ call \in RegistryCalls /\ call[c] \in RegistryCall /\ call[c] # None
        /\ call[c].op = "Register" /\ call[c].id \in Id
    BY DEF Authorization!Registered, Authorization!Stores, Authorization!RegisterFails, Authorization!Register,
           Authorization!At, RegistryInv, RegistryType, RegistryCalls, RegistryCall
  <1>2. CASE Authorization!Registered(c)
    <2>1. /\ call' \in RegistryCalls /\ call'[c] # None /\ call'[c].at = "store"
          /\ call'[c].op = call[c].op /\ call'[c].id = call[c].id
          /\ call'[c].rollback = call[c].rollback /\ call'[c].alone = call[c].alone
          /\ call'[o] = call[o]
      BY <1>1, <1>2, CallGoesOn DEF Authorization!Registered
    <2>2. /\ call[c].at = "server" /\ registered' = call[c].id
          /\ taken' = (taken \/ (~ loose /\ registered \notin {None, call[c].id}))
          /\ UNCHANGED <<policies, clientIds, serverIds, loose, unsure>>
      BY <1>2 DEF Authorization!Registered, Authorization!Register, Authorization!At, Authorization!fixed
    <2>3. RegistryType' /\ RegistryPlaces'
      BY <1>1, <2>1, <2>2, Callers
         DEF RegistryInv, RegistryType, RegistryPlaces, Authorization!At, Authorization!InServer,
             Authorization!Other
    <2>4. CASE policies
      <3>1. CallsMeet'
        BY <1>1, <2>1, <2>2, <2>4, Callers
           DEF RegistryInv, CallsMeet, Authorization!InServer, Authorization!Other, Authorization!Alike
      <3>2. ServerKnows'
        BY <1>1, <2>1, <2>2, <2>4, Callers
           DEF RegistryInv, RegistryPlaces, CallsMeet, ServerKnows, OwnId, Authorization!At, Authorization!InServer,
               Authorization!Other, Authorization!Alike
      <3>3. ClientKnows'
        BY <1>1, <2>1, <2>2, <2>4, Callers
           DEF RegistryInv, RegistryPlaces, CallsMeet, ServerKnows, OwnId, ClientKnows, Authorization!At,
               Authorization!InServer, Authorization!Other, Authorization!Alike
      <3>4. QED
        BY <2>2, <2>3, <3>1, <3>2, <3>3 DEF RegistryInv
    <2>5. QED
      BY <2>2, <2>3, <2>4 DEF RegistryInv
  <1>3. CASE Authorization!Stores(c)
    <2>1. /\ call' \in RegistryCalls /\ call'[o] = call[o]
          /\ c = "peer" => call'[c] = None
          /\ c = "client" => /\ call'[c] # None /\ call'[c].at = "client"
                             /\ call'[c].op = call[c].op /\ call'[c].id = call[c].id
                             /\ call'[c].rollback = call[c].rollback /\ call'[c].alone = call[c].alone
      BY <1>1, <1>3, CallAnswers DEF Authorization!Stores
    <2>2. /\ call[c].at = "store" /\ serverIds' = (IF policies THEN call[c].id ELSE serverIds)
          /\ loose' = (loose /\ ~ call[c].alone)
          /\ UNCHANGED <<policies, clientIds, registered, unsure, taken>>
      BY <1>3 DEF Authorization!Stores, Authorization!Register, Authorization!At, Authorization!Stored,
                  Authorization!fixed
    <2>3. RegistryType' /\ RegistryPlaces'
      BY <1>1, <2>1, <2>2, Callers
         DEF RegistryInv, RegistryType, RegistryPlaces, RegistryCall, Authorization!At, Authorization!InServer,
             Authorization!Other
    <2>4. CASE policies
      <3>1. CallsMeet'
        BY <1>1, <2>1, <2>2, <2>4, Callers
           DEF RegistryInv, CallsMeet, Authorization!InServer, Authorization!Other, Authorization!Alike
      <3>2. ServerKnows'
        BY <1>1, <2>1, <2>2, <2>4, Callers
           DEF RegistryInv, RegistryPlaces, CallsMeet, ServerKnows, OwnId, Authorization!At, Authorization!InServer,
               Authorization!Other, Authorization!Alike
      <3>3. ClientKnows'
        BY <1>1, <2>1, <2>2, <2>4, Callers
           DEF RegistryInv, RegistryPlaces, CallsMeet, ServerKnows, OwnId, ClientKnows, Authorization!At,
               Authorization!InServer, Authorization!Other, Authorization!Alike
      <3>4. QED
        BY <2>2, <2>3, <3>1, <3>2, <3>3 DEF RegistryInv
    <2>5. QED
      BY <2>2, <2>3, <2>4 DEF RegistryInv
  <1>4. CASE Authorization!RegisterFails(c)
    <2>1. call' \in RegistryCalls /\ call'[c] = None /\ call'[o] = call[o]
      BY <1>1, <1>4, CallEnds DEF Authorization!RegisterFails
    <2>2. /\ call[c].at = "server" /\ registered' \in {registered, call[c].id}
          /\ taken' = (taken \/ (~ loose /\ registered \notin {None, registered'}))
          /\ loose' = (loose \/ registered' # registered) /\ unsure' = TRUE
          /\ UNCHANGED <<policies, clientIds, serverIds>>
      BY <1>4 DEF Authorization!RegisterFails, Authorization!Register, Authorization!At, Authorization!fixed
    <2>3. RegistryType' /\ RegistryPlaces'
      BY <1>1, <2>1, <2>2, Callers
         DEF RegistryInv, RegistryType, RegistryPlaces, Authorization!At, Authorization!InServer,
             Authorization!Other
    <2>4. CASE policies
      <3>1. CallsMeet'
        BY <1>1, <2>1, <2>2, <2>4, Callers
           DEF RegistryInv, CallsMeet, Authorization!InServer, Authorization!Other, Authorization!Alike
      <3>2. ServerKnows'
        BY <1>1, <2>1, <2>2, <2>4, Callers
           DEF RegistryInv, RegistryPlaces, CallsMeet, ServerKnows, OwnId, Authorization!At, Authorization!InServer,
               Authorization!Other, Authorization!Alike
      <3>3. ClientKnows'
        BY <1>1, <2>1, <2>2, <2>4, Callers
           DEF RegistryInv, RegistryPlaces, CallsMeet, ServerKnows, OwnId, ClientKnows, Authorization!At,
               Authorization!InServer, Authorization!Other, Authorization!Alike
      <3>4. QED
        BY <2>2, <2>3, <3>1, <3>2, <3>3 DEF RegistryInv
    <2>5. QED
      BY <2>2, <2>3, <2>4 DEF RegistryInv
  <1>5. QED
    BY <1>2, <1>3, <1>4

\* An Unregister in the server.
LEMMA RegistryUnregisters ==
    ASSUME RegistryInv, NEW c \in Caller,
           Authorization!Deletes(c) \/ Authorization!Unregistered(c) \/ Authorization!UnregisterFails(c)
    PROVE  RegistryInv'
  <1> DEFINE o == Authorization!Other(c)
  <1>1. call \in RegistryCalls /\ call[c] \in RegistryCall /\ call[c] # None /\ call[c].op = "Unregister"
    BY DEF Authorization!Deletes, Authorization!Unregistered, Authorization!UnregisterFails,
           Authorization!Unregister, Authorization!At, RegistryInv, RegistryType, RegistryCalls, RegistryCall
  <1>2. CASE Authorization!Deletes(c)
    <2>1. /\ call' \in RegistryCalls /\ call'[c] # None /\ call'[c].at = "chain"
          /\ call'[c].op = call[c].op /\ call'[c].id = call[c].id
          /\ call'[c].rollback = call[c].rollback /\ call'[c].alone = call[c].alone
          /\ call'[o] = call[o]
      BY <1>1, <1>2, CallGoesOn DEF Authorization!Deletes
    <2>2. /\ call[c].at = "server" /\ serverIds' = (IF policies THEN None ELSE serverIds)
          /\ UNCHANGED <<policies, clientIds, registered, loose, unsure, taken>>
      BY <1>2 DEF Authorization!Deletes, Authorization!Unregister, Authorization!At, Authorization!Forgotten,
                  Authorization!fixed
    <2>3. RegistryType' /\ RegistryPlaces'
      BY <1>1, <2>1, <2>2, Callers
         DEF RegistryInv, RegistryType, RegistryPlaces, Authorization!At, Authorization!InServer,
             Authorization!Other
    <2>4. CASE policies
      BY <1>1, <2>1, <2>2, <2>3, <2>4, Callers
         DEF RegistryInv, RegistryPlaces, CallsMeet, ServerKnows, OwnId, ClientKnows, Authorization!At,
             Authorization!InServer, Authorization!Other, Authorization!Alike
    <2>5. QED
      BY <2>2, <2>3, <2>4 DEF RegistryInv
  <1>3. CASE Authorization!Unregistered(c)
    <2>1. /\ call' \in RegistryCalls /\ call'[o] = call[o]
          /\ c = "peer" \/ call[c].rollback => call'[c] = None
          /\ c = "client" /\ ~ call[c].rollback =>
                /\ call'[c] # None /\ call'[c].at = "client"
                /\ call'[c].op = call[c].op /\ call'[c].id = call[c].id
                /\ call'[c].rollback = call[c].rollback /\ call'[c].alone = call[c].alone
      BY <1>1, <1>3, CallAnswers, CallEnds DEF Authorization!Unregistered
    <2>2. /\ call[c].at = "chain" /\ registered' = None /\ loose' = (loose /\ ~ call[c].alone)
          /\ UNCHANGED <<policies, clientIds, serverIds, unsure, taken>>
      BY <1>3 DEF Authorization!Unregistered, Authorization!Unregister, Authorization!At, Authorization!fixed
    <2>3. RegistryType' /\ RegistryPlaces'
      BY <1>1, <2>1, <2>2, Callers
         DEF RegistryInv, RegistryType, RegistryPlaces, RegistryCall, Authorization!At, Authorization!InServer,
             Authorization!Other
    <2>4. CASE policies
      <3>1. CallsMeet'
        BY <1>1, <2>1, <2>2, <2>4, Callers
           DEF RegistryInv, CallsMeet, Authorization!InServer, Authorization!Other, Authorization!Alike
      <3>2. ServerKnows'
        BY <1>1, <2>1, <2>2, <2>4, Callers
           DEF RegistryInv, RegistryPlaces, CallsMeet, ServerKnows, OwnId, Authorization!At, Authorization!InServer,
               Authorization!Other, Authorization!Alike
      <3>3. ClientKnows'
        BY <1>1, <2>1, <2>2, <2>4, Callers
           DEF RegistryInv, RegistryPlaces, CallsMeet, ServerKnows, OwnId, ClientKnows, Authorization!At,
               Authorization!InServer, Authorization!Other, Authorization!Alike
      <3>4. QED
        BY <2>2, <2>3, <3>1, <3>2, <3>3 DEF RegistryInv
    <2>5. QED
      BY <2>2, <2>3, <2>4 DEF RegistryInv
  <1>4. CASE Authorization!UnregisterFails(c)
    <2>1. call' \in RegistryCalls /\ call'[c] = None /\ call'[o] = call[o]
      BY <1>1, <1>4, CallEnds DEF Authorization!UnregisterFails
    <2>2. /\ call[c].at = "chain" /\ loose' = (loose \/ registered # None) /\ unsure' = TRUE
          /\ UNCHANGED <<policies, clientIds, serverIds, registered, taken>>
      BY <1>4 DEF Authorization!UnregisterFails, Authorization!Unregister, Authorization!At, Authorization!fixed
    <2>3. RegistryType' /\ RegistryPlaces'
      BY <1>1, <2>1, <2>2, Callers
         DEF RegistryInv, RegistryType, RegistryPlaces, Authorization!At, Authorization!InServer,
             Authorization!Other
    <2>4. CASE policies
      BY <1>1, <2>1, <2>2, <2>3, <2>4, Callers
         DEF RegistryInv, RegistryPlaces, CallsMeet, ServerKnows, OwnId, ClientKnows, Authorization!At,
             Authorization!InServer, Authorization!Other, Authorization!Alike
    <2>5. QED
      BY <2>2, <2>3, <2>4 DEF RegistryInv
  <1>5. QED
    BY <1>2, <1>3, <1>4

\* The client has its answer.
LEMMA RegistryClient ==
    ASSUME RegistryInv, Authorization!Kept \/ Authorization!Refused \/ Authorization!Forget
    PROVE  RegistryInv'
  <1> DEFINE r == call["client"]
  <1>0. "client" \in Caller /\ Authorization!Other("client") = "peer"
    BY Callers DEF Authorization!Other
  <1>1. call \in RegistryCalls /\ r \in RegistryCall /\ r # None /\ r.at = "client" /\ r.id \in Id
    BY <1>0 DEF Authorization!Kept, Authorization!Refused, Authorization!Forget, Authorization!Register,
           Authorization!Unregister, Authorization!At, RegistryInv, RegistryType, RegistryCalls, RegistryCall
  <1>2. CASE Authorization!Ends("client")
    <2>1. call' \in RegistryCalls /\ call'["client"] = None /\ call'["peer"] = call["peer"]
      BY <1>0, <1>1, <1>2, CallEnds
    <2>2. /\ \/ /\ r.op = "Register" /\ (policies => clientIds \in {None, r.id})
                /\ clientIds' = (IF policies THEN r.id ELSE clientIds) /\ unsure' = ~ r.alone
             \/ /\ r.op = "Register" /\ policies /\ clientIds # None /\ UNCHANGED <<clientIds, unsure>>
             \/ /\ r.op = "Unregister"
                /\ clientIds' = (IF policies THEN None ELSE clientIds) /\ unsure' = ~ r.alone
             \/ r.op = "Unregister" /\ UNCHANGED clientIds /\ unsure' = TRUE
          /\ UNCHANGED <<policies, serverIds, registered, loose, taken>>
      <3>1. CASE Authorization!Kept
        BY <3>1 DEF Authorization!Kept, Authorization!Register, Authorization!ClientAllowed,
                    Authorization!Stored, Authorization!fixed
      <3>2. CASE Authorization!Refused
        <4>1. CASE clientIds # None
          BY <3>2, <4>1 DEF Authorization!Refused, Authorization!Register, Authorization!fixed
        <4>2. CASE clientIds = None
          <5> DEFINE s == [r EXCEPT !.op = "Unregister", !.at = "call", !.rollback = TRUE]
          <5>1. s \in RegistryCall /\ s # None
            BY <1>1, NoneIsNoCall DEF RegistryCall
          <5>2. call' = IF Authorization!Crosses("client", s)
                        THEN [client |-> Authorization!NotAlone(s), peer |-> Authorization!NotAlone(call["peer"])]
                        ELSE [call EXCEPT !["client"] = s]
            BY <3>2, <4>2 DEF Authorization!Refused
          <5>3. Authorization!NotAlone(s) # None
            BY <5>1, NotAloneCall DEF SameCall
          <5>4. call'["client"] # None
            BY <1>0, <1>1, <5>1, <5>2, <5>3 DEF RegistryCalls
          <5>5. QED
            BY <2>1, <5>4
        <4>3. QED
          BY <4>1, <4>2
      <3>3. CASE Authorization!Forget
        BY <3>3 DEF Authorization!Forget, Authorization!Unregister, Authorization!Forgotten,
                    Authorization!fixed
      <3>4. QED
        BY <3>1, <3>2, <3>3
    <2>3. RegistryType' /\ RegistryPlaces'
      BY <1>1, <2>1, <2>2, Callers
         DEF RegistryInv, RegistryType, RegistryPlaces, RegistryCall, Authorization!At, Authorization!InServer
    <2>4. CASE policies
      <3>1. CallsMeet'
        BY <1>0, <2>1, <2>2, <2>4, Callers
           DEF RegistryInv, CallsMeet, Authorization!InServer, Authorization!Other, Authorization!Alike
      <3>2. ServerKnows' /\ ClientKnows'
        BY <1>0, <1>1, <2>1, <2>2, <2>4, Callers
           DEF RegistryInv, RegistryPlaces, CallsMeet, ServerKnows, OwnId, ClientKnows, Authorization!At,
               Authorization!InServer, Authorization!Alike
      <3>3. QED
        BY <2>2, <2>3, <3>1, <3>2 DEF RegistryInv
    <2>5. QED
      BY <2>2, <2>3, <2>4 DEF RegistryInv
  <1>3. CASE ~ Authorization!Ends("client")
    <2> DEFINE s == [r EXCEPT !.op = "Unregister", !.at = "call", !.rollback = TRUE]
               x == Authorization!Crosses("client", s)
    <2>1. /\ r.op = "Register" /\ clientIds = None /\ policies
          /\ call' = IF x THEN [client |-> Authorization!NotAlone(s), peer |-> Authorization!NotAlone(call["peer"])]
                          ELSE [call EXCEPT !["client"] = s]
          /\ unsure' = (unsure \/ x)
          /\ UNCHANGED <<policies, clientIds, serverIds, registered, loose, taken>>
      BY <1>3 DEF Authorization!Kept, Authorization!Refused, Authorization!Forget, Authorization!Register,
                  Authorization!fixed
    <2>2. s \in RegistryCall /\ s # None /\ s.op = "Unregister" /\ s.at = "call" /\ s.rollback
          /\ s.id = r.id /\ s.alone = r.alone
      BY <1>1, NoneIsNoCall DEF RegistryCall
    <2>3. call["peer"] \in RegistryCall \cup {None} /\ "peer" \in Caller
      BY <1>1, Callers DEF RegistryCalls
    <2>4. x = (call["peer"] # None)
      BY <1>0, <2>2 DEF Authorization!Crosses, Authorization!Alike
    <2>5. /\ call' \in RegistryCalls
          /\ SameCall(call'["client"], s) /\ call'["client"].alone = (s.alone /\ ~ x)
          /\ call["peer"] = None => call'["peer"] = None
          /\ call["peer"] # None => SameCall(call'["peer"], call["peer"]) /\ ~ call'["peer"].alone
      <3>1. CASE x
        <4>1. call' = [client |-> Authorization!NotAlone(s), peer |-> Authorization!NotAlone(call["peer"])]
          BY <2>1, <3>1
        <4>2. call'["client"] = Authorization!NotAlone(s) /\ call'["peer"] = Authorization!NotAlone(call["peer"])
              /\ DOMAIN call' = Caller
          BY <4>1, Callers
        <4>3. Authorization!NotAlone(s) \in RegistryCall \cup {None} /\ SameCall(Authorization!NotAlone(s), s)
              /\ Authorization!NotAlone(s).alone = FALSE
          BY <2>2, NotAloneCall
        <4>4. /\ Authorization!NotAlone(call["peer"]) \in RegistryCall \cup {None}
              /\ SameCall(Authorization!NotAlone(call["peer"]), call["peer"])
              /\ Authorization!NotAlone(call["peer"]).alone = FALSE
          BY <2>3, <2>4, <3>1, NotAloneCall
        <4>5. call' \in RegistryCalls
          BY <4>1, <4>3, <4>4, Callers DEF RegistryCalls
        <4>6. QED
          BY <2>4, <3>1, <4>2, <4>3, <4>4, <4>5
      <3>2. CASE ~ x
        <4>1. call' = [call EXCEPT !["client"] = s]
          BY <2>1, <3>2
        <4>2. call' \in RegistryCalls /\ call'["client"] = s /\ call'["peer"] = call["peer"]
          BY <1>0, <1>1, <2>2, <4>1, CallBecomes
        <4>3. s.alone \in BOOLEAN
          BY <2>2 DEF RegistryCall
        <4> HIDE DEF s, x
        <4>4. QED
          BY <2>2, <2>4, <3>2, <4>2, <4>3 DEF SameCall
      <3>3. QED
        BY <3>1, <3>2
    <2>6. RegistryType' /\ RegistryPlaces'
      BY <1>1, <2>1, <2>2, <2>4, <2>5, Callers
         DEF RegistryInv, RegistryType, RegistryPlaces, SameCall, Authorization!At, Authorization!InServer
    <2>7. CallsMeet'
      BY <1>0, <1>1, <2>1, <2>2, <2>4, <2>5, Callers
         DEF RegistryInv, CallsMeet, SameCall, Authorization!InServer, Authorization!Other, Authorization!Alike
    <2>8. ServerKnows' /\ ClientKnows'
      BY <1>0, <1>1, <2>1, <2>2, <2>4, <2>5, Callers
         DEF RegistryInv, RegistryPlaces, CallsMeet, ServerKnows, OwnId, ClientKnows, SameCall, Authorization!At,
             Authorization!InServer, Authorization!Alike
    <2>9. QED
      BY <2>6, <2>7, <2>8 DEF RegistryInv
  <1>4. QED
    BY <1>2, <1>3

LEMMA RegistryRollback ==
    ASSUME RegistryInv, Authorization!Rollback
    PROVE  RegistryInv'
  <1>0. "client" \in Caller /\ Authorization!Other("client") = "peer"
    BY Callers DEF Authorization!Other
  <1>1. /\ call \in RegistryCalls /\ call["client"] \in RegistryCall
        /\ call["client"] # None /\ call["client"].at = "call"
    BY <1>0 DEF Authorization!Rollback, Authorization!At, RegistryInv, RegistryType, RegistryCalls
  <1>2. CASE Authorization!Enters("client", call["client"])
    <2>1. policies /\ ~ call["client"].alone => unsure
      BY <1>1 DEF RegistryInv, ClientKnows
    <2>2. QED
      BY <1>0, <1>1, <1>2, <2>1, RegistryEnters
  <1>3. CASE ~ Authorization!Enters("client", call["client"])
    <2>1. Authorization!Ends("client") /\ unsure' = TRUE
          /\ UNCHANGED <<policies, clientIds, serverIds, registered, loose, taken>>
      BY <1>3 DEF Authorization!Rollback, Authorization!fixed
    <2>2. call' \in RegistryCalls /\ call'["client"] = None /\ call'["peer"] = call["peer"]
      BY <1>0, <1>1, <2>1, CallEnds
    <2>3. RegistryType' /\ RegistryPlaces'
      BY <1>1, <2>1, <2>2, Callers
         DEF RegistryInv, RegistryType, RegistryPlaces, Authorization!At, Authorization!InServer
    <2>4. CASE policies
      BY <1>0, <1>1, <2>1, <2>2, <2>3, <2>4, Callers
         DEF RegistryInv, RegistryPlaces, CallsMeet, ServerKnows, OwnId, ClientKnows, Authorization!At,
             Authorization!InServer, Authorization!Other, Authorization!Alike
    <2>5. QED
      BY <2>1, <2>3, <2>4 DEF RegistryInv
  <1>4. QED
    BY <1>2, <1>3

LEMMA RegistryExpires ==
    ASSUME RegistryInv, Authorization!Expires
    PROVE  RegistryInv'
  <1>1. /\ call' = [c \in Caller |-> Authorization!NotAlone(call[c])]
        /\ registered' = None /\ loose' = TRUE /\ unsure' = TRUE
        /\ UNCHANGED <<policies, clientIds, serverIds, taken>>
    BY DEF Authorization!Expires, Authorization!fixed, Caller
  <1>2. \A c \in Caller : call[c] \in RegistryCall \cup {None}
    BY DEF RegistryInv, RegistryType, RegistryCalls
  <1>3. \A c \in Caller : /\ call'[c] \in RegistryCall \cup {None}
                          /\ call[c] = None => call'[c] = None
                          /\ call[c] # None => SameCall(call'[c], call[c]) /\ call'[c].alone = FALSE
    BY <1>1, <1>2, NotAloneCall
  <1>4. RegistryType'
    BY <1>1, <1>3 DEF RegistryInv, RegistryType, RegistryCalls
  <1>5. RegistryPlaces'
    BY <1>1, <1>3, Callers DEF RegistryInv, RegistryPlaces, SameCall, Authorization!At, Authorization!InServer
  <1>6. policies => CallsMeet' /\ ServerKnows' /\ ClientKnows'
    BY <1>1, <1>3, Callers
       DEF RegistryInv, CallsMeet, ServerKnows, OwnId, ClientKnows, SameCall, Authorization!At, Authorization!InServer
  <1>7. QED
    BY <1>1, <1>4, <1>5, <1>6 DEF RegistryInv

LEMMA RegistryNext ==
    ASSUME RegistryInv, Authorization!RegistryAuthorizeNext
    PROVE  RegistryInv'
  BY RegistryBegin, RegistryRegisters, RegistryClient, RegistryRollback, RegistryUnregisters, RegistryExpires
     DEF Authorization!RegistryAuthorizeNext, Authorization!RegisterServer, Authorization!UnregisterServer,
         Authorization!authorizeNSClient_Register, Authorization!authorizeNSClient_Unregister,
         Authorization!authorizeNSServer_Register, Authorization!authorizeNSServer_Unregister,
         Authorization!authorizeNSEClient_Register, Authorization!authorizeNSEClient_Unregister,
         Authorization!authorizeNSEServer_Register, Authorization!authorizeNSEServer_Unregister, Caller

LEMMA RegistrySame ==
    ASSUME RegistryInv,
           UNCHANGED <<policies, clientIds, serverIds, registered, call, loose, unsure, taken>>
    PROVE  RegistryInv'
  BY DEF RegistryInv, RegistryType, RegistryCalls, RegistryPlaces, CallsMeet, ServerKnows, OwnId, ClientKnows,
         Authorization!At, Authorization!InServer, Authorization!Alike

LEMMA RegistryFits == RegistryInv => Authorization!OwnerKeepsName /\ Authorization!ClientKnowsNames
  BY Callers
     DEF RegistryInv, ServerKnows, ClientKnows, Authorization!OwnerKeepsName, Authorization!ClientKnowsNames,
         Authorization!At, Authorization!InServer, Caller

-----------------------------------------------------------------------------
(* Authorization of connections.                                           *)

Places == {"idle", "add", "store", "rest", "check", "close", "delete", "closeStore", "closeRest"}

AuthType ==
    /\ owner \in Owners
    /\ sets \in Seq(SUBSET Conn)
    /\ spiffeIDConnectionMap \in [Authorization!Identity -> 0 .. Len(sets)]
    /\ pc \in [Conn -> Places]
    /\ ids \in [Conn -> 0 .. Len(sets)]

\* A set of ids belongs to one identity.
SetsAreOwn ==
    /\ \A c \in Conn : owner[c] = None \/ pc[c] = "idle" => ids[c] = 0
    /\ \A c \in Conn : owner[c] = None => pc[c] \notin {"add", "store", "delete", "closeStore"}
    /\ \A c, d \in Conn : ids[c] # 0 /\ ids[c] = ids[d] => owner[c] = owner[d]
    /\ \A c \in Conn, i \in Authorization!Identity : ids[c] # 0 /\ spiffeIDConnectionMap[i] = ids[c] => owner[c] = i
    /\ \A i, j \in Authorization!Identity :
          spiffeIDConnectionMap[i] # 0 /\ spiffeIDConnectionMap[i] = spiffeIDConnectionMap[j] => i = j

\* What the rest of the chain has at each step of a call.
RefusedInv ==
    \A c \in Conn :
        /\ pc[c] \in {"idle", "add", "store", "rest"} /\ c \notin lost => (c \in has <=> c \in authorized)
        /\ pc[c] = "check" => c \in has
        /\ pc[c] \in {"close", "delete", "closeStore", "closeRest"} => c \notin authorized

Ref(c) == spiffeIDConnectionMap[owner[c]]

\* A connection that stays while others of its identity have calls.
Settled(c) == pc[c] = "idle" /\ c \in has /\ c \notin lost /\ c \notin forgotten

\* How a call of a connection and the entry of its identity fit together.
Watched(c) ==
    /\ pc[c] = "idle" /\ c \notin lost /\ c \notin forgotten => (c \in Authorization!Set(Ref(c)) <=> c \in has)
    /\ pc[c] \in {"add", "store", "rest", "check"} => ids[c] # 0 /\ (Ref(c) = 0 \/ Ref(c) = ids[c])
    /\ pc[c] \in {"add", "store"} => Ref(c) # 0 \/ sets[ids[c]] \subseteq {c}
    /\ pc[c] \in {"store", "rest", "check"} => c \in sets[ids[c]]
    /\ pc[c] \in {"rest", "check"} => Ref(c) # 0
    /\ pc[c] \in {"delete", "closeStore"} => ids[c] = Ref(c)
    /\ pc[c] \in {"closeStore", "closeRest"} => c \notin Authorization!Set(Ref(c))

\* Calls of one identity overlap only while another of its connections stays.
OneStays(c) ==
    \A d \in Conn \ {c} :
        owner[d] = owner[c] /\ pc[c] # "idle" /\ pc[d] # "idle" => \E e \in Conn : owner[e] = owner[c] /\ Settled(e)

WatchInv == \A c \in Conn : owner[c] # None /\ owner[c] \notin disturbed => Watched(c) /\ OneStays(c)

AuthInv == AuthType /\ SetsAreOwn /\ RefusedInv /\ WatchInv

LEMMA IdentityOf ==
    ASSUME owner \in Owners, NEW c \in Conn, owner[c] # None
    PROVE  owner[c] \in Authorization!Identity
  BY DEF Authorization!Identity

LEMMA AuthFacts ==
    ASSUME AuthType, NEW c \in Conn
    PROVE  /\ pc[c] \in Places
           /\ Len(sets) \in Nat
           /\ ids[c] \in 0 .. Len(sets)
           /\ owner[c] # None => Ref(c) \in 0 .. Len(sets)
           /\ \A r \in 0 .. Len(sets) : r # 0 => sets[r] \subseteq Conn
  <1>1. Len(sets) \in Nat /\ \A r \in 1 .. Len(sets) : sets[r] \in SUBSET Conn
    BY DEF AuthType
  <1>2. owner[c] # None => Ref(c) \in 0 .. Len(sets)
    BY IdentityOf DEF AuthType, Ref
  <1>3. QED
    BY <1>1, <1>2 DEF AuthType

LEMMA AuthInit == Authorization!AuthorizeInit => AuthInv
  <1> SUFFICES ASSUME Authorization!AuthorizeInit PROVE AuthInv
    OBVIOUS
  <1>1. Len(sets) = 0 /\ sets \in Seq(SUBSET Conn)
    BY DEF Authorization!AuthorizeInit
  <1>2. AuthType
    BY <1>1 DEF Authorization!AuthorizeInit, AuthType, Places
  <1>3. SetsAreOwn /\ RefusedInv
    BY DEF Authorization!AuthorizeInit, SetsAreOwn, RefusedInv
  <1>4. ASSUME NEW c \in Conn, owner[c] # None PROVE Ref(c) = 0
    BY <1>4, <1>2, IdentityOf DEF Ref, Authorization!AuthorizeInit, AuthType
  <1>5. WatchInv
    BY <1>4 DEF Authorization!AuthorizeInit, WatchInv, Watched, OneStays, Authorization!Set
  <1>6. QED
    BY <1>2, <1>3, <1>5 DEF AuthInv

\* A call that starts leaves a connection to those of its identity that have calls.
LEMMA StartsStays ==
    ASSUME AuthInv, NEW c \in Conn, Authorization!Starts(c), owner' = owner, has' = has, forgotten' = forgotten,
           \A d \in Conn \ {c} : pc'[d] = pc[d] /\ (d \in lost' <=> d \in lost),
           NEW d \in Conn, owner[d] # None, owner[d] \notin disturbed'
    PROVE  OneStays(d)'
  <1> SUFFICES ASSUME NEW f \in Conn \ {d}, owner[f] = owner[d], pc'[d] # "idle", pc'[f] # "idle"
               PROVE  \E e \in Conn : owner[e] = owner[d] /\ Settled(e)'
    BY DEF OneStays
  <1>1. owner[d] \notin disturbed
    BY DEF Authorization!Starts
  <1>2. CASE owner[d] = owner[c]
    <2>1. ~ Authorization!Overlaps(c)
      BY <1>2 DEF Authorization!Starts
    <2>2. \E g \in Conn \ {c} : owner[g] = owner[c] /\ pc[g] # "idle"
      BY <1>2
    <2>3. PICK e \in Conn \ {c} : owner[e] = owner[c] /\ pc[e] = "idle" /\ e \in has /\ e \notin lost \cup forgotten
      BY <2>1, <2>2 DEF Authorization!Overlaps, Authorization!Mine, Authorization!Meets
    <2>4. QED
      BY <2>3, <1>2 DEF Settled
  <1>3. CASE owner[d] # owner[c]
    <2>1. PICK e \in Conn : owner[e] = owner[d] /\ Settled(e)
      BY <1>1, <1>3 DEF AuthInv, WatchInv, OneStays
    <2>2. QED
      BY <2>1, <1>3 DEF Settled
  <1>4. QED
    BY <1>2, <1>3

\* Where no call starts, and no connection that stays has gone, they stay.
LEMMA StillStays ==
    ASSUME owner' = owner, NEW d \in Conn, OneStays(d),
           \A e \in Conn : pc'[e] # "idle" => pc[e] # "idle",
           \A e \in Conn : Settled(e) => Settled(e)'
    PROVE  OneStays(d)'
  BY DEF OneStays

\* A connection that has a call, and whose identity has another, has an entry.
LEMMA OverlapHasEntry ==
    ASSUME AuthInv, NEW c \in Conn, NEW d \in Conn \ {c}, owner[d] = owner[c], owner[c] # None, owner[c] \notin disturbed,
           pc[c] # "idle", pc[d] # "idle"
    PROVE  Ref(c) # 0 /\ Authorization!Set(Ref(c)) # {}
  <1>1. PICK e \in Conn : owner[e] = owner[c] /\ Settled(e)
    BY DEF AuthInv, WatchInv, OneStays
  <1>2. e \in Authorization!Set(Ref(e))
    BY <1>1 DEF AuthInv, WatchInv, Watched, Settled
  <1>3. QED
    BY <1>1, <1>2 DEF Ref, Authorization!Set

LEMMA AuthLoad ==
    ASSUME AuthInv, NEW c \in Conn, Authorization!Load(c)
    PROVE  AuthInv'
  <1>1. AuthType /\ SetsAreOwn /\ RefusedInv /\ WatchInv
    BY DEF AuthInv
  <1>2. /\ Authorization!Starts(c) /\ pc[c] = "idle" /\ ids[c] \in 0 .. Len(sets) /\ owner' = owner /\ has' = has /\ lost' = lost
        /\ forgotten' = forgotten
        /\ spiffeIDConnectionMap' = spiffeIDConnectionMap /\ authorized' = authorized
        /\ disturbed \subseteq disturbed'
    BY <1>1, AuthFacts DEF Authorization!Load, Authorization!Starts
  <1>3. CASE owner[c] = None
    <2>1. pc' = [pc EXCEPT ![c] = "rest"] /\ ids' = ids /\ sets' = sets
      BY <1>3 DEF Authorization!Load, Authorization!Goto
    <2>2. AuthType' /\ SetsAreOwn' /\ RefusedInv'
      BY <1>1, <1>2, <1>3, <2>1 DEF AuthType, SetsAreOwn, RefusedInv, Places
    <2>3. ASSUME NEW d \in Conn, owner[d] # None, owner[d] \notin disturbed'
          PROVE  Watched(d)' /\ OneStays(d)'
      <3>1. Watched(d) /\ d # c
        BY <1>1, <1>2, <1>3, <2>3 DEF WatchInv
      <3>2. Watched(d)'
        BY <1>1, <1>2, <2>1, <3>1 DEF Watched, Ref, Authorization!Set, AuthType
      <3>3. OneStays(d)'
        BY <1>1, <1>2, <2>1, <2>3, StartsStays DEF AuthType
      <3>4. QED
        BY <3>2, <3>3
    <2>4. QED
      BY <1>2, <2>2, <2>3 DEF AuthInv, WatchInv
  <1>4. CASE owner[c] # None
    <2> DEFINE r == spiffeIDConnectionMap[owner[c]]
               new == IF r = 0 THEN Len(sets) + 1 ELSE r
    <2>1. /\ pc' = [pc EXCEPT ![c] = "add"] /\ ids' = [ids EXCEPT ![c] = new]
          /\ sets' = IF r = 0 THEN Append(sets, {}) ELSE sets
      BY <1>4 DEF Authorization!Load, Authorization!Goto
    <2>2. r \in 0 .. Len(sets) /\ r = Ref(c) /\ owner[c] \in Authorization!Identity /\ Len(sets) \in Nat
      BY <1>1, <1>4, AuthFacts, IdentityOf DEF Ref, AuthType
    <2>3. /\ sets' \in Seq(SUBSET Conn) /\ Len(sets) <= Len(sets') /\ new \in 1 .. Len(sets')
          /\ \A q \in 1 .. Len(sets) : sets'[q] = sets[q]
          /\ r = 0 => sets'[new] = {} /\ Len(sets') \in Nat
      BY <1>1, <2>1, <2>2 DEF AuthType
    <2> HIDE DEF r, new
    <2>4. AuthType'
      BY <1>1, <1>2, <2>1, <2>2, <2>3 DEF AuthType, Places
    <2>5. /\ \A d \in Conn : ids[d] # new \/ r # 0
          /\ \A i \in Authorization!Identity : spiffeIDConnectionMap[i] # new \/ (r # 0 /\ i = owner[c])
          /\ \A d \in Conn : ids[d] = new /\ ids[d] # 0 => owner[d] = owner[c]
      BY <1>1, <2>2, <1>4 DEF AuthType, SetsAreOwn, r, new
    <2>6. SetsAreOwn'
      BY <1>1, <1>2, <1>4, <2>1, <2>2, <2>3, <2>5 DEF AuthType, SetsAreOwn
    <2>7. RefusedInv'
      BY <1>1, <1>2, <2>1 DEF AuthType, RefusedInv, Places
    <2>8. ASSUME NEW d \in Conn, owner[d] # None, owner[d] \notin disturbed'
          PROVE  Watched(d)' /\ OneStays(d)'
      <3>1. Watched(d) /\ owner[d] \notin disturbed
        BY <1>1, <1>2, <2>8 DEF WatchInv
      <3>2. OneStays(d)'
        BY <1>1, <1>2, <2>1, <2>8, StartsStays DEF AuthType
      <3>3. Ref(d)' = Ref(d) /\ Ref(d) \in 0 .. Len(sets) /\ Authorization!Set(Ref(d))' = Authorization!Set(Ref(d))
        BY <1>1, <1>2, <2>3, <2>8, AuthFacts DEF Ref, Authorization!Set
      <3>4. CASE d # c
        <4>1. pc'[d] = pc[d] /\ ids'[d] = ids[d] /\ ids[d] \in 0 .. Len(sets)
          BY <1>1, <2>1, <3>4, AuthFacts DEF AuthType
        <4>2. ids[d] # 0 => sets'[ids'[d]] = sets[ids[d]]
          BY <2>3, <4>1, <2>2
        <4>3. QED
          BY <1>2, <3>1, <3>2, <3>3, <4>1, <4>2 DEF Watched
      <3>5. CASE d = c
        <4>1. pc'[d] = "add" /\ ids'[d] = new /\ new # 0
          BY <1>1, <2>1, <2>3, <3>5 DEF AuthType
        <4>2. (Ref(c) = 0 \/ Ref(c) = new) /\ (Ref(c) # 0 \/ sets'[new] \subseteq {c})
          BY <2>2, <2>3 DEF new
        <4>3. QED
          BY <3>2, <3>3, <3>5, <4>1, <4>2 DEF Watched
      <3>6. QED
        BY <3>4, <3>5
    <2>9. QED
      BY <1>2, <2>4, <2>6, <2>7, <2>8 DEF AuthInv, WatchInv
  <1>5. QED
    BY <1>3, <1>4


\* The steps of a call that change neither sets nor entries, and with which it does not start.
LEMMA AuthQuiet ==
    ASSUME AuthInv, NEW c \in Conn,
           Authorization!RequestReturns(c) \/ Authorization!Authorized(c) \/ Authorization!NotAuthorized(c) \/ Authorization!CloseLost(c) \/ Authorization!LoadToClose(c) \/ Authorization!CloseRest(c)
    PROVE  AuthInv'
  <1>1. AuthType /\ SetsAreOwn /\ RefusedInv /\ WatchInv
    BY DEF AuthInv
  <1> DEFINE p == pc'[c]
             n == ids'[c]
  <1>2. /\ owner' = owner /\ sets' = sets /\ spiffeIDConnectionMap' = spiffeIDConnectionMap /\ disturbed' = disturbed
        /\ forgotten' \subseteq forgotten /\ forgotten \subseteq forgotten' \cup {c}
        /\ pc' = [pc EXCEPT ![c] = p] /\ p \in Places /\ ids' = [ids EXCEPT ![c] = n]
        /\ n \in {0, ids[c]} \/ (owner[c] # None /\ n = Ref(c))
        /\ \A d \in Conn \ {c} : (d \in has' <=> d \in has) /\ (d \in lost' <=> d \in lost) /\ (d \in authorized' <=> d \in authorized)
        /\ pc[c] # "idle"
    BY <1>1
      DEF AuthType, Places, Ref, Authorization!RequestReturns, Authorization!Authorized,
          Authorization!NotAuthorized, Authorization!CloseLost, Authorization!LoadToClose,
          Authorization!CloseRest, Authorization!Returns, Authorization!Goto
  <1>3. n \in 0 .. Len(sets)
    BY <1>1, <1>2, AuthFacts
  <1> HIDE DEF p, n
  <1>4. AuthType'
    BY <1>1, <1>2, <1>3 DEF AuthType
  <1>5. /\ owner[c] = None => n = 0 /\ p \notin {"add", "store", "delete", "closeStore"}
        /\ p = "idle" => n = 0
    <2>1. pc'[c] = p /\ ids'[c] = n
      BY <1>1, <1>2 DEF AuthType
    <2>2. QED
      BY <1>1, <1>2, <2>1
         DEF AuthType, SetsAreOwn, Places, Authorization!RequestReturns, Authorization!Authorized,
             Authorization!NotAuthorized, Authorization!CloseLost, Authorization!LoadToClose,
             Authorization!CloseRest, Authorization!Returns, Authorization!Goto
  <1>6. SetsAreOwn'
    <2>1. \A d \in Conn : n # 0 /\ n = ids[d] => owner[d] = owner[c]
      BY <1>1, <1>2, IdentityOf DEF AuthType, SetsAreOwn, Ref
    <2>2. \A i \in Authorization!Identity : n # 0 /\ spiffeIDConnectionMap[i] = n => owner[c] = i
      BY <1>1, <1>2, IdentityOf DEF AuthType, SetsAreOwn, Ref
    <2>3. QED
      BY <1>1, <1>2, <1>5, <2>1, <2>2 DEF AuthType, SetsAreOwn
  <1>7. RefusedInv'
    <2>1. \A d \in Conn \ {c} : pc'[d] = pc[d]
      BY <1>1, <1>2 DEF AuthType
    <2>2. /\ pc'[c] \in {"idle", "add", "store", "rest"} /\ c \notin lost' => (c \in has' <=> c \in authorized')
          /\ pc'[c] = "check" => c \in has'
          /\ pc'[c] \in {"close", "delete", "closeStore", "closeRest"} => c \notin authorized'
      BY <1>1
        DEF AuthType, RefusedInv, Places, Authorization!RequestReturns, Authorization!Authorized,
            Authorization!NotAuthorized, Authorization!CloseLost, Authorization!LoadToClose,
             Authorization!CloseRest, Authorization!Returns, Authorization!Goto
    <2>3. QED
      BY <1>1, <1>2, <2>1, <2>2 DEF RefusedInv
  <1>8. ASSUME NEW d \in Conn, owner[d] # None, owner[d] \notin disturbed
        PROVE  Watched(d)' /\ OneStays(d)'
    <2>1. Watched(d) /\ OneStays(d)
      BY <1>1, <1>8 DEF WatchInv
    <2>2. OneStays(d)'
      <3>1. \A e \in Conn : pc'[e] # "idle" => pc[e] # "idle"
        BY <1>1, <1>2 DEF AuthType
      <3>2. \A e \in Conn : Settled(e) => Settled(e)'
        BY <1>1, <1>2 DEF AuthType, Settled
      <3>3. QED
        BY <1>2, <2>1, <3>1, <3>2, StillStays
    <2>3. CASE d # c
      BY <1>1, <1>2, <2>1, <2>2, <2>3 DEF AuthType, Watched, Ref, Authorization!Set
    <2>4. CASE d = c
      <3>1. pc'[c] = p /\ ids'[c] = n
        BY <1>1, <1>2 DEF AuthType
      <3>2. Ref(c)' = Ref(c) /\ Authorization!Set(Ref(c))' = Authorization!Set(Ref(c)) /\ Authorization!Set(Ref(c)) = IF Ref(c) = 0 THEN {} ELSE sets[Ref(c)]
        BY <1>2 DEF Ref, Authorization!Set
      <3>3. Watched(c)'
        BY <1>1, <1>2, <1>8, <2>1, <2>4, <3>1, <3>2
           DEF AuthType, RefusedInv, Places, Watched, Authorization!RequestReturns, Authorization!Authorized,
               Authorization!NotAuthorized, Authorization!CloseLost,
               Authorization!LoadToClose, Authorization!CloseRest, Authorization!Returns, Authorization!Goto, Ref
      <3>4. QED
        BY <2>2, <2>4, <3>3
    <2>5. QED
      BY <2>3, <2>4
  <1>9. QED
    BY <1>2, <1>4, <1>6, <1>7, <1>8 DEF AuthInv, WatchInv

LEMMA AuthClose ==
    ASSUME AuthInv, NEW c \in Conn, Authorization!Close(c)
    PROVE  AuthInv'
  <1>1. AuthType /\ SetsAreOwn /\ RefusedInv /\ WatchInv
    BY DEF AuthInv
  <1>2. /\ Authorization!Starts(c) /\ owner' = owner /\ sets' = sets /\ ids' = ids /\ has' = has /\ pc[c] = "idle"
        /\ forgotten' = forgotten
        /\ spiffeIDConnectionMap' = spiffeIDConnectionMap /\ disturbed \subseteq disturbed'
        /\ authorized' = authorized \ {c}
        /\ \/ pc' = [pc EXCEPT ![c] = "close"] /\ lost' = lost
           \/ pc' = pc /\ lost' = lost \cup {c}
    BY DEF Authorization!Close, Authorization!Starts, Authorization!Goto
  <1>3. AuthType' /\ SetsAreOwn' /\ RefusedInv'
    BY <1>1, <1>2 DEF AuthType, SetsAreOwn, RefusedInv, Places
  <1>4. ASSUME NEW d \in Conn, owner[d] # None, owner[d] \notin disturbed'
        PROVE  Watched(d)' /\ OneStays(d)'
    <2>1. Watched(d)
      BY <1>1, <1>2, <1>4 DEF WatchInv
    <2>2. Watched(d)'
      BY <1>1, <1>2, <2>1 DEF AuthType, Watched, Ref, Authorization!Set
    <2>3. OneStays(d)'
      BY <1>1, <1>2, <1>4, StartsStays DEF AuthType
    <2>4. QED
      BY <2>2, <2>3
  <1>5. QED
    BY <1>2, <1>3, <1>4 DEF AuthInv, WatchInv

\* A failed Request takes the entry of its identity.
LEMMA AuthFails ==
    ASSUME AuthInv, NEW c \in Conn, Authorization!RequestFails(c)
    PROVE  AuthInv'
  <1>1. AuthType /\ SetsAreOwn /\ RefusedInv /\ WatchInv
    BY DEF AuthInv
  <1>2. /\ pc[c] = "rest" /\ pc' = [pc EXCEPT ![c] = "idle"] /\ ids' = [ids EXCEPT ![c] = 0]
        /\ owner' = owner /\ sets' = sets /\ has' = has /\ lost' = lost /\ authorized' = authorized
        /\ IF owner[c] = None
           THEN UNCHANGED <<spiffeIDConnectionMap, forgotten, disturbed>>
           ELSE /\ spiffeIDConnectionMap' = [spiffeIDConnectionMap EXCEPT ![owner[c]] = 0]
                /\ forgotten' = forgotten \cup (has \cap ({c} \cup Authorization!Mine(c)))
                /\ disturbed' = IF Authorization!Meets(c) THEN disturbed \cup {owner[c]} ELSE disturbed
    BY DEF Authorization!RequestFails, Authorization!Returns, Authorization!Goto, Authorization!StoreIds
  <1>3. AuthType'
    <2>1. spiffeIDConnectionMap' \in [Authorization!Identity -> 0 .. Len(sets)]
      <3>1. spiffeIDConnectionMap \in [Authorization!Identity -> 0 .. Len(sets)] /\ 0 \in 0 .. Len(sets)
        BY <1>1, AuthFacts DEF AuthType
      <3>2. QED
        BY <1>2, <3>1
    <2>2. pc' \in [Conn -> Places] /\ ids' \in [Conn -> 0 .. Len(sets)]
      BY <1>1, <1>2, AuthFacts DEF AuthType, Places
    <2>3. QED
      BY <1>1, <1>2, <2>1, <2>2 DEF AuthType
  <1>4. SetsAreOwn' /\ RefusedInv'
    BY <1>1, <1>2 DEF AuthType, SetsAreOwn, RefusedInv
  <1>5. ASSUME NEW d \in Conn, owner[d] # None, owner[d] \notin disturbed'
        PROVE  Watched(d)' /\ OneStays(d)'
    <2>1. Watched(d) /\ OneStays(d) /\ owner[d] \in Authorization!Identity
      BY <1>1, <1>2, <1>5, IdentityOf DEF WatchInv, AuthType
    <2>2. CASE owner[d] # owner[c]
      <3>1. Ref(d)' = Ref(d) /\ d # c
        BY <1>1, <1>2, <2>1, <2>2 DEF Ref, AuthType
      <3>2. d \in forgotten' <=> d \in forgotten
        BY <1>2, <2>2 DEF Authorization!Mine
      <3>3. Watched(d)'
        BY <1>1, <1>2, <2>1, <3>1, <3>2 DEF AuthType, Watched, Authorization!Set
      <3>4. ASSUME NEW e \in Conn, owner[e] = owner[d], Settled(e)
            PROVE  Settled(e)'
        BY <1>1, <1>2, <2>2, <3>4 DEF AuthType, Settled, Authorization!Mine
      <3>5. OneStays(d)'
        BY <1>1, <1>2, <2>1, <2>2, <3>4 DEF AuthType, OneStays
      <3>6. QED
        BY <3>3, <3>5
    <2>3. CASE owner[d] = owner[c]
      <3>1. ~ Authorization!Meets(c) /\ Ref(d)' = 0
        BY <1>1, <1>2, <1>5, <2>1, <2>3 DEF Ref, AuthType
      <3>2. \A e \in Conn : owner[e] = owner[c] => pc'[e] = "idle"
        BY <1>1, <1>2, <3>1 DEF AuthType, Authorization!Meets, Authorization!Mine
      <3>3. d \in has => d \in forgotten'
        BY <1>2, <1>5, <2>3 DEF Authorization!Mine
      <3>4. QED
        BY <1>2, <2>3, <3>1, <3>2, <3>3 DEF Watched, OneStays, Authorization!Set
    <2>4. QED
      BY <2>2, <2>3
  <1>6. QED
    BY <1>2, <1>3, <1>4, <1>5 DEF AuthInv, WatchInv

LEMMA AuthAdd ==
    ASSUME AuthInv, NEW c \in Conn, Authorization!Add(c)
    PROVE  AuthInv'
  <1>1. AuthType /\ SetsAreOwn /\ RefusedInv /\ WatchInv
    BY DEF AuthInv
  <1>2. /\ pc[c] = "add" /\ pc' = [pc EXCEPT ![c] = "store"] /\ sets' = [sets EXCEPT ![ids[c]] = @ \cup {c}]
        /\ owner' = owner /\ ids' = ids /\ has' = has /\ lost' = lost /\ authorized' = authorized
        /\ forgotten' = forgotten
        /\ spiffeIDConnectionMap' = spiffeIDConnectionMap /\ disturbed' = disturbed
    BY DEF Authorization!Add, Authorization!Goto
  <1>3. ids[c] \in 0 .. Len(sets) /\ Len(sets) \in Nat
    BY <1>1, AuthFacts
  <1>4. /\ sets' \in Seq(SUBSET Conn) /\ Len(sets') = Len(sets)
        /\ ids[c] # 0 => sets'[ids[c]] = sets[ids[c]] \cup {c}
        /\ \A q \in 1 .. Len(sets) : q # ids[c] => sets'[q] = sets[q]
        /\ \A q \in 1 .. Len(sets), e \in Conn \ {c} : e \in sets'[q] <=> e \in sets[q]
    <2> DEFINE v == sets[ids[c]] \cup {c}
    <2>1. sets \in Seq(SUBSET Conn) /\ (ids[c] # 0 => v \in SUBSET Conn)
      BY <1>1, <1>3, AuthFacts DEF AuthType
    <2>2. CASE ids[c] # 0
      <3>1. sets' = [sets EXCEPT ![ids[c]] = v] /\ v \in SUBSET Conn
        BY <1>2, <2>1, <2>2
      <3>2. \A e \in Conn \ {c} : e \in v <=> e \in sets[ids[c]]
        OBVIOUS
      <3> HIDE DEF v
      <3>3. /\ sets' \in Seq(SUBSET Conn) /\ Len(sets') = Len(sets)
            /\ \A q \in 1 .. Len(sets) : sets'[q] = IF q = ids[c] THEN v ELSE sets[q]
        <4>1. sets \in [1 .. Len(sets) -> SUBSET Conn]
          BY <2>1
        <4>2. sets' \in [1 .. Len(sets) -> SUBSET Conn]
          BY <3>1, <4>1
        <4>3. \A q \in 1 .. Len(sets) : sets'[q] = IF q = ids[c] THEN v ELSE sets[q]
          BY <3>1, <4>1
        <4>4. sets' \in Seq(SUBSET Conn) /\ Len(sets') = Len(sets)
          BY <1>3, <4>2
        <4>5. QED
          BY <4>3, <4>4
      <3>4. sets'[ids[c]] = v /\ \A q \in 1 .. Len(sets) : q # ids[c] => sets'[q] = sets[q]
        BY <1>3, <2>2, <3>3
      <3>5. \A q \in 1 .. Len(sets), e \in Conn \ {c} : e \in sets'[q] <=> e \in sets[q]
        BY <3>2, <3>4
      <3>6. QED
        BY <3>3, <3>4, <3>5 DEF v
    <2>3. CASE ids[c] = 0
      <3>1. sets' = sets
        BY <1>2, <1>3, <2>1, <2>3
      <3>2. QED
        BY <2>1, <2>3, <3>1
    <2>4. QED
      BY <2>2, <2>3
  <1>5. AuthType'
    BY <1>1, <1>2, <1>4 DEF AuthType, Places
  <1>6. SetsAreOwn' /\ RefusedInv'
    BY <1>1, <1>2 DEF AuthType, SetsAreOwn, RefusedInv
  <1>7. ASSUME NEW d \in Conn, owner[d] # None, owner[d] \notin disturbed
        PROVE  Watched(d)' /\ OneStays(d)'
    <2>1. Watched(d) /\ OneStays(d)
      BY <1>1, <1>7 DEF WatchInv
    <2>2. \A e \in Conn : (pc'[e] # "idle" => pc[e] # "idle") /\ (Settled(e) => Settled(e)')
      BY <1>1, <1>2 DEF AuthType, Settled
    <2>3. OneStays(d)'
      BY <1>2, <2>1, <2>2, StillStays
    <2>4. /\ Ref(d)' = Ref(d) /\ Ref(d) \in 0 .. Len(sets) /\ ids[d] \in 0 .. Len(sets) /\ ids'[d] = ids[d]
      BY <1>1, <1>2, <1>7, AuthFacts DEF Ref
    <2>5. CASE d = c
      <3>1. pc'[c] = "store" /\ ids[c] # 0 /\ sets'[ids[c]] = sets[ids[c]] \cup {c}
        BY <1>1, <1>2, <1>3, <1>4, <2>1, <2>5 DEF AuthType, Watched
      <3>2. Watched(c)'
        BY <1>2, <2>1, <2>4, <2>5, <3>1 DEF Watched
      <3>3. QED
        BY <2>3, <2>5, <3>2
    <2>6. CASE d # c
      <3>1. pc'[d] = pc[d]
        BY <1>1, <1>2, <2>6 DEF AuthType
      <3>2. /\ d \in Authorization!Set(Ref(d))' <=> d \in Authorization!Set(Ref(d))
            /\ ids[d] # 0 => (d \in sets'[ids[d]] <=> d \in sets[ids[d]])
        BY <1>3, <1>4, <2>4, <2>6 DEF Authorization!Set, Ref
      <3>3. pc[d] \in {"add", "store"} /\ Ref(d) = 0 => ids[d] # 0 /\ ids[d] # ids[c]
        <4>1. SUFFICES ASSUME pc[d] \in {"add", "store"}, Ref(d) = 0 PROVE ids[d] # ids[c]
          BY <2>1 DEF Watched
        <4>2. SUFFICES ASSUME ids[d] = ids[c] PROVE FALSE
          OBVIOUS
        <4>3. owner[d] = owner[c]
          BY <1>1, <2>1, <4>1, <4>2 DEF SetsAreOwn, Watched
        <4>4. QED
          BY <1>2, <1>7, <2>6, <4>1, <4>3, OverlapHasEntry
      <3>4. pc[d] \in {"add", "store"} /\ Ref(d) = 0 => sets'[ids[d]] = sets[ids[d]]
        BY <1>3, <1>4, <2>4, <3>3 DEF Ref
      <3>5. Watched(d)'
        BY <1>2, <2>1, <2>4, <3>1, <3>2, <3>4 DEF Watched
      <3>6. QED
        BY <2>3, <3>5
    <2>7. QED
      BY <2>5, <2>6
  <1>8. QED
    BY <1>2, <1>5, <1>6, <1>7 DEF AuthInv, WatchInv

LEMMA AuthDelete ==
    ASSUME AuthInv, NEW c \in Conn, Authorization!Delete(c)
    PROVE  AuthInv'
  <1>1. AuthType /\ SetsAreOwn /\ RefusedInv /\ WatchInv
    BY DEF AuthInv
  <1>2. /\ pc[c] = "delete" /\ pc' = [pc EXCEPT ![c] = "closeStore"]
        /\ sets' = IF ids[c] = 0 THEN sets ELSE [sets EXCEPT ![ids[c]] = @ \ {c}]
        /\ owner' = owner /\ ids' = ids /\ has' = has /\ lost' = lost /\ authorized' = authorized
        /\ forgotten' = forgotten
        /\ spiffeIDConnectionMap' = spiffeIDConnectionMap /\ disturbed' = disturbed
    BY DEF Authorization!Delete, Authorization!Goto
  <1>3. ids[c] \in 0 .. Len(sets) /\ Len(sets) \in Nat
    BY <1>1, AuthFacts
  <1>4. /\ sets' \in Seq(SUBSET Conn) /\ Len(sets') = Len(sets)
        /\ ids[c] # 0 => sets'[ids[c]] = sets[ids[c]] \ {c}
        /\ \A q \in 1 .. Len(sets) : q # ids[c] => sets'[q] = sets[q]
        /\ \A q \in 1 .. Len(sets), e \in Conn \ {c} : e \in sets'[q] <=> e \in sets[q]
    <2> DEFINE v == sets[ids[c]] \ {c}
    <2>1. sets \in Seq(SUBSET Conn) /\ (ids[c] # 0 => v \in SUBSET Conn)
      BY <1>1, <1>3, AuthFacts DEF AuthType
    <2>2. CASE ids[c] # 0
      <3>1. sets' = [sets EXCEPT ![ids[c]] = v] /\ v \in SUBSET Conn
        BY <1>2, <2>1, <2>2
      <3>2. \A e \in Conn \ {c} : e \in v <=> e \in sets[ids[c]]
        OBVIOUS
      <3> HIDE DEF v
      <3>3. /\ sets' \in Seq(SUBSET Conn) /\ Len(sets') = Len(sets)
            /\ \A q \in 1 .. Len(sets) : sets'[q] = IF q = ids[c] THEN v ELSE sets[q]
        <4>1. sets \in [1 .. Len(sets) -> SUBSET Conn]
          BY <2>1
        <4>2. sets' \in [1 .. Len(sets) -> SUBSET Conn]
          BY <3>1, <4>1
        <4>3. \A q \in 1 .. Len(sets) : sets'[q] = IF q = ids[c] THEN v ELSE sets[q]
          BY <3>1, <4>1
        <4>4. sets' \in Seq(SUBSET Conn) /\ Len(sets') = Len(sets)
          BY <1>3, <4>2
        <4>5. QED
          BY <4>3, <4>4
      <3>4. sets'[ids[c]] = v /\ \A q \in 1 .. Len(sets) : q # ids[c] => sets'[q] = sets[q]
        BY <1>3, <2>2, <3>3
      <3>5. \A q \in 1 .. Len(sets), e \in Conn \ {c} : e \in sets'[q] <=> e \in sets[q]
        BY <3>2, <3>4
      <3>6. QED
        BY <3>3, <3>4, <3>5 DEF v
    <2>3. CASE ids[c] = 0
      <3>1. sets' = sets
        BY <1>2, <1>3, <2>1, <2>3
      <3>2. QED
        BY <2>1, <2>3, <3>1
    <2>4. QED
      BY <2>2, <2>3
  <1>5. AuthType'
    BY <1>1, <1>2, <1>4 DEF AuthType, Places
  <1>6. SetsAreOwn' /\ RefusedInv'
    BY <1>1, <1>2 DEF AuthType, SetsAreOwn, RefusedInv
  <1>7. ASSUME NEW d \in Conn, owner[d] # None, owner[d] \notin disturbed
        PROVE  Watched(d)' /\ OneStays(d)'
    <2>1. Watched(d) /\ OneStays(d)
      BY <1>1, <1>7 DEF WatchInv
    <2>2. \A e \in Conn : (pc'[e] # "idle" => pc[e] # "idle") /\ (Settled(e) => Settled(e)')
      BY <1>1, <1>2 DEF AuthType, Settled
    <2>3. OneStays(d)'
      BY <1>2, <2>1, <2>2, StillStays
    <2>4. /\ Ref(d)' = Ref(d) /\ Ref(d) \in 0 .. Len(sets) /\ ids[d] \in 0 .. Len(sets) /\ ids'[d] = ids[d]
      BY <1>1, <1>2, <1>7, AuthFacts DEF Ref
    <2>5. CASE d = c
      <3>1. pc'[c] = "closeStore" /\ ids[c] = Ref(c)
        BY <1>1, <1>2, <2>1, <2>5 DEF AuthType, Watched
      <3>2. c \notin Authorization!Set(Ref(c))'
        BY <1>3, <1>4, <2>4, <2>5, <3>1 DEF Authorization!Set, Ref
      <3>3. Watched(c)'
        BY <2>4, <2>5, <3>1, <3>2 DEF Watched
      <3>4. QED
        BY <2>3, <2>5, <3>3
    <2>6. CASE d # c
      <3>1. pc'[d] = pc[d]
        BY <1>1, <1>2, <2>6 DEF AuthType
      <3>2. /\ d \in Authorization!Set(Ref(d))' <=> d \in Authorization!Set(Ref(d))
            /\ ids[d] # 0 => (d \in sets'[ids[d]] <=> d \in sets[ids[d]]) /\ sets'[ids[d]] \subseteq sets[ids[d]]
        BY <1>3, <1>4, <2>4, <2>6 DEF Authorization!Set, Ref
      <3>3. Watched(d)'
        BY <1>2, <2>1, <2>4, <3>1, <3>2 DEF Watched
      <3>4. QED
        BY <2>3, <3>3
    <2>7. QED
      BY <2>5, <2>6
  <1>8. QED
    BY <1>2, <1>5, <1>6, <1>7 DEF AuthInv, WatchInv

\* The two steps that change the entry of an identity.
LEMMA AuthStore ==
    ASSUME AuthInv, NEW c \in Conn, Authorization!Store(c) \/ Authorization!StoreLeft(c)
    PROVE  AuthInv'
  <1>1. AuthType /\ SetsAreOwn /\ RefusedInv /\ WatchInv
    BY DEF AuthInv
  <1> DEFINE i == owner[c]
             r == IF Authorization!Store(c) THEN ids[c] ELSE IF Authorization!Set(ids[c]) = {} THEN 0 ELSE ids[c]
  <1>2. /\ owner' = owner /\ sets' = sets /\ ids' = ids /\ has' = has /\ lost' = lost /\ authorized' = authorized
        /\ disturbed' = disturbed /\ forgotten' = forgotten
        /\ pc[c] = IF Authorization!Store(c) THEN "store" ELSE "closeStore"
        /\ pc' = [pc EXCEPT ![c] = IF Authorization!Store(c) THEN "rest" ELSE "closeRest"]
        /\ spiffeIDConnectionMap' = [spiffeIDConnectionMap EXCEPT ![i] = r]
    BY DEF Authorization!Store, Authorization!StoreLeft, Authorization!Goto, Authorization!StoreIds
  <1>3. /\ ids[c] \in 0 .. Len(sets) /\ r \in 0 .. Len(sets) /\ r \in {0, ids[c]}
        /\ i \in Authorization!Identity /\ i # None
    <2>1. i # None
      BY <1>1, <1>2 DEF SetsAreOwn
    <2>2. ids[c] \in 0 .. Len(sets) /\ Len(sets) \in Nat
      BY <1>1, AuthFacts
    <2>3. QED
      BY <1>1, <2>1, <2>2, IdentityOf DEF AuthType
  <1>4. AuthType'
    <2>1. spiffeIDConnectionMap' \in [Authorization!Identity -> 0 .. Len(sets)]
      BY <1>1, <1>2, <1>3 DEF AuthType
    <2>2. QED
      BY <1>1, <1>2, <2>1 DEF AuthType, Places
  <1>5. \A j \in Authorization!Identity : spiffeIDConnectionMap'[j] = IF j = i THEN r ELSE spiffeIDConnectionMap[j]
    BY <1>1, <1>2 DEF AuthType
  <1>6. r \in {0, ids[c]} /\ i = owner[c]
    BY <1>3
  <1>7. ASSUME i \notin disturbed
        PROVE  /\ r = 0 \/ r = ids[c]
               /\ Authorization!Store(c) => r # 0
               /\ Ref(c) # 0 => r = Ref(c) \/ (r = 0 /\ Authorization!Set(Ref(c)) = {})
               /\ Ref(c) = 0 => r = 0 \/ (Authorization!Store(c) /\ sets[r] \subseteq {c} /\ c \in sets[r])
               /\ \A d \in Conn \ {c} : owner[d] = i /\ pc[d] # "idle" => r = Ref(c) /\ r # 0
    <2>1. Watched(c)
      BY <1>1, <1>3, <1>7 DEF WatchInv
    <2>2. Authorization!Store(c) => ids[c] # 0 /\ (Ref(c) = 0 \/ Ref(c) = ids[c]) /\ c \in sets[ids[c]] /\ (Ref(c) # 0 \/ sets[ids[c]] \subseteq {c})
      BY <1>2, <2>1 DEF Watched
    <2>3. ~ Authorization!Store(c) => ids[c] = Ref(c)
      BY <1>2, <2>1 DEF Watched
    <2>4. \A d \in Conn \ {c} : owner[d] = i /\ pc[d] # "idle" => Ref(c) # 0 /\ Authorization!Set(Ref(c)) # {}
      BY <1>2, <1>3, <1>7, OverlapHasEntry
    <2>5. ~ Authorization!Store(c) => r = IF Authorization!Set(Ref(c)) = {} THEN 0 ELSE Ref(c)
      BY <2>3
    <2>6. QED
      BY <1>3, <2>2, <2>3, <2>4, <2>5
  <1> HIDE DEF i, r
  <1>8. SetsAreOwn'
    BY <1>1, <1>2, <1>3, <1>5, <1>6 DEF AuthType, SetsAreOwn
  <1>9. RefusedInv'
    BY <1>1, <1>2 DEF AuthType, RefusedInv
  <1>10. ASSUME NEW d \in Conn, owner[d] # None, owner[d] \notin disturbed
         PROVE  Watched(d)' /\ OneStays(d)'
    <2>1. Watched(d) /\ OneStays(d)
      BY <1>1, <1>10 DEF WatchInv
    <2>2. \A e \in Conn : (pc'[e] # "idle" => pc[e] # "idle") /\ (Settled(e) => Settled(e)')
      BY <1>1, <1>2 DEF AuthType, Settled
    <2>3. OneStays(d)'
      BY <1>2, <2>1, <2>2, StillStays
    <2>4. owner[d] \in Authorization!Identity
      BY <1>1, <1>10, IdentityOf DEF AuthType
    <2>5. CASE owner[d] # i
      <3>1. Ref(d)' = Ref(d) /\ pc'[d] = pc[d]
        BY <1>1, <1>2, <1>5, <1>6, <2>4, <2>5 DEF Ref, AuthType
      <3>2. Watched(d)'
        BY <1>2, <2>1, <3>1 DEF Watched, Authorization!Set
      <3>3. QED
        BY <2>3, <3>2
    <2>6. CASE owner[d] = i
      <3>1. Ref(d)' = r /\ Ref(d) = Ref(c)
        BY <1>2, <1>5, <1>6, <2>4, <2>6 DEF Ref
      <3>2. /\ Authorization!Store(c) => r # 0
            /\ Ref(c) # 0 => r = Ref(c) \/ (r = 0 /\ Authorization!Set(Ref(c)) = {})
            /\ Ref(c) = 0 => r = 0 \/ (Authorization!Store(c) /\ sets[r] \subseteq {c} /\ c \in sets[r])
            /\ \A e \in Conn \ {c} : owner[e] = i /\ pc[e] # "idle" => r = Ref(c) /\ r # 0
        BY <1>7, <1>10, <2>6
      <3>3. \A e \in Conn : Authorization!Set(r) \ {c} = Authorization!Set(Ref(c)) \ {c}
        BY <3>2 DEF Authorization!Set
      <3>4. CASE d # c
        <4>1. pc'[d] = pc[d]
          BY <1>1, <1>2, <3>4 DEF AuthType
        <4>2. pc[d] # "idle" => r = Ref(d)
          BY <2>6, <3>1, <3>2, <3>4
        <4>3. d \in Authorization!Set(r) <=> d \in Authorization!Set(Ref(d))
          BY <3>1, <3>3, <3>4
        <4>4. Authorization!Set(Ref(d))' = Authorization!Set(r)
          BY <1>2, <3>1 DEF Authorization!Set
        <4>5. Watched(d)'
          BY <1>2, <2>1, <3>1, <4>1, <4>2, <4>3, <4>4 DEF Watched
        <4>6. QED
          BY <2>3, <4>5
      <3>5. CASE d = c
        <4>1. CASE Authorization!Store(c)
          <5>1. pc[c] = "store" /\ pc'[c] = "rest" /\ r = ids[c] /\ r # 0
            BY <1>1, <1>2, <3>2, <4>1, <1>6 DEF AuthType
          <5>2. QED
            BY <1>2, <2>1, <2>3, <3>1, <3>5, <5>1 DEF Watched
        <4>2. CASE ~ Authorization!Store(c)
          <5>1. pc[c] = "closeStore" /\ pc'[c] = "closeRest" /\ c \notin Authorization!Set(Ref(c))
            BY <1>1, <1>2, <2>1, <3>5, <4>2 DEF AuthType, Watched
          <5>2. c \notin Authorization!Set(r) /\ Authorization!Set(Ref(c))' = Authorization!Set(r)
            BY <1>2, <3>1, <3>2, <3>5, <4>2, <5>1 DEF Authorization!Set
          <5>3. QED
            BY <2>3, <3>5, <5>1, <5>2 DEF Watched
        <4>3. QED
          BY <4>1, <4>2
      <3>6. QED
        BY <3>4, <3>5
    <2>7. QED
      BY <2>5, <2>6
  <1>11. QED
    BY <1>2, <1>4, <1>8, <1>9, <1>10 DEF AuthInv, WatchInv

LEMMA AuthNext ==
    ASSUME AuthInv, Authorization!AuthorizeNext
    PROVE  AuthInv'
  BY AuthLoad, AuthAdd, AuthStore, AuthQuiet, AuthFails, AuthClose, AuthDelete DEF Authorization!AuthorizeNext

LEMMA AuthSame ==
    ASSUME AuthInv, UNCHANGED Authorization!authorizeVars
    PROVE  AuthInv'
  BY DEF AuthInv, AuthType, SetsAreOwn, RefusedInv, WatchInv, Watched, OneStays, Settled, Ref,
         Authorization!Set, Authorization!authorizeVars

LEMMA AuthFits ==
    ASSUME AuthInv
    PROVE  Authorization!RefusedIsClosed /\ Authorization!WatchesItsOwn
  <1>1. Authorization!RefusedIsClosed
    BY DEF AuthInv, RefusedInv, Authorization!RefusedIsClosed
  <1>2. ASSUME NEW c \in Conn, pc[c] = "idle", c \notin lost \cup forgotten, owner[c] # None, owner[c] \notin disturbed
        PROVE  Authorization!MonitorConnections(owner[c], {c}) <=> c \in has
    BY <1>2 DEF AuthInv, WatchInv, Watched, Ref, Authorization!MonitorConnections
  <1>3. QED
    BY <1>1, <1>2 DEF Authorization!WatchesItsOwn

-----------------------------------------------------------------------------
AuthorizationInv ==
    /\ part = "authorize" => AuthInv
    /\ part = "registry" => RegistryInv

LEMMA AuthorizationNext ==
    ASSUME AuthorizationInv, [MCNext \/ Done]_allVars
    PROVE  AuthorizationInv'
  <1>1. CASE part = "authorize" /\ Authorization!AuthorizeNext /\ part' = part
    BY <1>1, AuthNext DEF AuthorizationInv
  <1>2. CASE part = "registry" /\ Authorization!RegistryAuthorizeNext /\ part' = part
    BY <1>2, RegistryNext DEF AuthorizationInv
  <1>3. CASE part \notin {"authorize", "registry"} /\ part' = part
    BY <1>3 DEF AuthorizationInv
  <1>4. CASE UNCHANGED allVars
    <2>1. UNCHANGED Authorization!authorizeVars
          /\ UNCHANGED <<policies, clientIds, serverIds, registered, call, loose, unsure, taken>>
      BY <1>4 DEF allVars, shared, authorizeOnly, registryOnly, Authorization!authorizeVars
    <2>2. part' = part
      BY <1>4 DEF allVars
    <2>3. QED
      BY <2>1, <2>2, AuthSame, RegistrySame DEF AuthorizationInv
  <1>5. QED
    BY <1>1, <1>2, <1>3, <1>4 DEF MCNext, Done

\* authorize, registry authorize: for any connections, identities, ids and numbers of
\* calls, the rest of the chain has what the client has marked, and a client may watch
\* just that while one of its connections stays, after a failed Request from the next
\* refresh on; a registered name stays with its id, and the client knows the names that
\* are, from an uncrossed call that got through until calls cross, fail or expire.
THEOREM AuthorizationHolds == MCSpec => []AuthorizationFits
  <1>1. MCInit => AuthorizationInv
    BY AuthInit, RegistryInit DEF MCInit, AuthorizationInv
  <1>2. AuthorizationInv /\ [MCNext \/ Done]_allVars => AuthorizationInv'
    BY AuthorizationNext
  <1>3. AuthorizationInv => AuthorizationFits
    BY AuthFits, RegistryFits DEF AuthorizationInv, AuthorizationFits
  <1>4. QED
    BY <1>1, <1>2, <1>3, PTL DEF MCSpec

-----------------------------------------------------------------------------
(* Forwarders and endpoints.                                               *)

DiscoverType ==
    /\ matches \in Matches
    /\ registered \in [Discovery!Host -> {"none", "live", "expired"}]
    /\ roundRobin \in [Forwarder -> Nat]
    /\ forwarderName \in Forwarder \cup {None}
    /\ path \in Forwarder \cup {None} /\ nseName \in Endpoint \cup {None}
    /\ has \subseteq Discovery!Host
    /\ call \in DiscoverCall \cup {None}

\* What the client, the manager and the others know of the connection.
ConnectionInv ==
    /\ path = None <=> nseName = None
    /\ path # None => forwarderName \in {None, path}
    /\ has \subseteq lost \cup {path, nseName}

\* What a Request knows of the connection, and of the forwarders, until it returns.
KnownInv ==
    /\ call.at # "forwarder"
    /\ path = call.was
    /\ call.name # None => forwarderName = call.name
    /\ call.nse # None => nseName = call.nse
    /\ call.nse = None => call.reselect \/ nseName = None
    /\ call.reselect => has \subseteq lost
    /\ call.at = "endpoint" => call.selected # None /\ (call.nse # None => call.selected = call.nse)
    /\ call.at = "roundrobin" => call.nse = None

TryingInv ==
    /\ call.found = {} => call.at = "manager" /\ call.nses = <<>> /\ call.tried = {}
    /\ call.found # {} =>
          /\ call.nses # <<>>
          /\ call.found = call.tried \cup Discovery!Range(call.nses)
          /\ call.name # None => Discovery!Range(call.nses) \subseteq {call.name}
          /\ ~ call.reselect /\ call.was \in call.found => call.was \in call.tried \/ Head(call.nses) = call.was

RequestInv == call # None /\ call.op = "Request" /\ call.at # "done" => KnownInv /\ TryingInv

\* What a Close leaves behind.
CloseInv ==
    call # None /\ call.op = "Close" =>
        /\ call.at \in {"manager", "forwarder", "done"}
        /\ call.nse = nseName /\ nseName # None
        /\ call.at = "forwarder" => call.nses # <<>> /\ Head(call.nses) = path
        /\ call.at = "done" => has \subseteq lost

\* The endpoints that the last k steps of a round robin have chosen.
Chosen(es, counter, k) == {es[((counter - j) % Len(es)) + 1] : j \in 1 .. k}

\* Those of k steps of a call and n of others are tried, but n at most.
Overtaken(es, counter, k, n, tried) ==
    /\ k + n <= counter
    /\ \E m : IsFiniteSet(m) /\ Cardinality(m) <= n /\ Chosen(es, counter, k + n) \subseteq tried \cup m

RoundRobinInv ==
    call # None /\ (call.at = "roundrobin" \/ (call.at = "endpoint" /\ call.nse = None)) =>
        /\ call.endpoints # <<>> /\ call.left <= Len(call.endpoints) /\ call.nses # <<>>
        /\ Overtaken(call.endpoints, roundRobin[Head(call.nses)], Len(call.endpoints) - call.left, call.others,
                     call.failed \cup (IF call.at = "endpoint" THEN {call.selected} ELSE {}))

KeptInv == call # None /\ call.ok => call.at = "done" /\ Discovery!ForwarderIsKept

DiscoverInv == DiscoverType /\ ConnectionInv /\ RequestInv /\ CloseInv /\ RoundRobinInv /\ KeptInv

\* A set of numbers has a smallest one.
LEMMA LeastExists ==
    ASSUME NEW S \in SUBSET Nat, S # {}
    PROVE  \E n \in S : \A m \in S : n <= m
  <1> DEFINE R == OpToRel(<, Nat)
  <1>1. IsWellFoundedOn(R, Nat)
    BY NatLessThanWellFounded
  <1>2. \A m, n \in Nat : m < n => <<m, n>> \in R
    BY DEF OpToRel
  <1> HIDE DEF R
  <1>3. PICK n \in S : \A m \in S : <<m, n>> \notin R
    BY <1>1, WFMin
  <1>4. \A m \in S : m \in Nat /\ n \in Nat /\ ~(m < n)
    BY <1>2, <1>3
  <1>5. QED
    BY <1>4

LEMMA LeastIn ==
    ASSUME NEW S \in SUBSET Nat, S # {}
    PROVE  Discovery!Min(S) \in S /\ \A m \in S : Discovery!Min(S) <= m
  BY LeastExists DEF Discovery!Min

\* What Discover and the library call the size of a set is the same.
LEMMA SameCardinality ==
    ASSUME NEW S
    PROVE  Discovery!Cardinality(S) = Cardinality(S)
  BY DEF Discovery!Cardinality, Cardinality

\* A set of numbers has a k-th one.
LEMMA NthIn ==
    ASSUME NEW n \in Nat, NEW S \in SUBSET (1 .. n), NEW k \in 1 .. Cardinality(S)
    PROVE  Discovery!Nth(S, k) \in S
  <1> DEFINE Upto(m) == {y \in S : y <= m}
             T == {m \in 0 .. n : Cardinality(Upto(m)) >= k}
  <1>1. IsFiniteSet(S)
    <2>1. IsFiniteSet(1 .. n) /\ S \subseteq 1 .. n
      BY FS_Interval
    <2>2. QED
      BY <2>1, FS_Subset
  <1>2. \A m \in Nat : IsFiniteSet(Upto(m)) /\ Cardinality(Upto(m)) \in Nat
    <2> SUFFICES ASSUME NEW m \in Nat PROVE IsFiniteSet(Upto(m)) /\ Cardinality(Upto(m)) \in Nat
      OBVIOUS
    <2>1. Upto(m) \subseteq S
      OBVIOUS
    <2>2. QED
      BY <1>1, <2>1, FS_Subset, FS_CardinalityType
  <1>3. n \in T
    <2>1. Upto(n) = S
      <3>1. \A y \in S : y <= n
        OBVIOUS
      <3>2. \A y : y \in Upto(n) <=> y \in S
        BY <3>1
      <3> HIDE DEF Upto
      <3>3. QED
        BY <3>2
    <2>2. Cardinality(S) \in Nat
      BY <1>1, FS_CardinalityType
    <2>3. n \in 0 .. n /\ k <= Cardinality(S)
      BY <2>2
    <2> HIDE DEF Upto
    <2>4. QED
      BY <2>1, <2>2, <2>3
  <1>4. PICK m \in T : \A l \in T : m <= l
    <2>1. T \in SUBSET Nat /\ T # {}
      BY <1>3
    <2> HIDE DEF T
    <2>2. QED
      BY <2>1, LeastExists
  <1>5. m \in 1 .. n
    <2>1. Upto(0) = {}
      <3>1. \A y \in S : ~(y <= 0)
        OBVIOUS
      <3>2. \A y : y \notin Upto(0)
        BY <3>1
      <3> HIDE DEF Upto
      <3>3. QED
        BY <3>2
    <2>2. 0 \notin T
      <3>1. Cardinality(Upto(0)) = 0
        BY <2>1, FS_EmptySet
      <3>2. ~(0 >= k)
        <4>1. Cardinality(S) \in Nat
          BY <1>1, FS_CardinalityType
        <4>2. QED
          BY <4>1
      <3> HIDE DEF Upto
      <3>3. QED
        BY <3>1, <3>2
    <2>3. QED
      BY <2>2
  <1>6. Cardinality(Upto(m - 1)) < k
    <2>1. m - 1 \in 0 .. n /\ ~(m <= m - 1) /\ m - 1 \in Nat
      BY <1>5
    <2>2. m - 1 \notin T
      <3> HIDE DEF T
      <3>1. QED
        BY <1>4, <2>1
    <2>3. Cardinality(Upto(m - 1)) \in Nat
      BY <1>2, <2>1
    <2>4. ~(Cardinality(Upto(m - 1)) >= k)
      <3> HIDE DEF Upto
      <3>1. QED
        BY <2>1, <2>2
    <2>5. k \in Int
      OBVIOUS
    <2> HIDE DEF Upto
    <2>6. QED
      BY <2>3, <2>4, <2>5
  <1>7. m \in S
    <2>1. SUFFICES ASSUME m \notin S PROVE FALSE
      OBVIOUS
    <2>2. Upto(m) = Upto(m - 1)
      <3>1. \A y \in S : y <= m <=> y <= m - 1
        BY <1>5, <2>1
      <3>2. \A y : y \in Upto(m) <=> y \in Upto(m - 1)
        BY <3>1
      <3> HIDE DEF Upto
      <3>3. QED
        BY <3>2
    <2>3. Cardinality(Upto(m)) >= k /\ Cardinality(Upto(m)) \in Nat
      BY <1>2, <1>4, <1>5
    <2>4. k \in Int
      OBVIOUS
    <2> HIDE DEF Upto
    <2>5. QED
      BY <1>6, <2>2, <2>3, <2>4
  <1>8. Cardinality(Upto(m)) = Cardinality(Upto(m - 1)) + 1
    <2>1. Upto(m) = Upto(m - 1) \cup {m} /\ m \notin Upto(m - 1)
      <3>1. \A y \in S : y <= m <=> (y <= m - 1 \/ y = m)
        BY <1>5
      <3>2. m \notin Upto(m - 1)
        BY <1>5
      <3>3. \A y : y \in Upto(m) <=> y \in Upto(m - 1) \cup {m}
        BY <1>7, <3>1
      <3> HIDE DEF Upto
      <3>4. QED
        BY <3>2, <3>3
    <2>2. IsFiniteSet(Upto(m - 1))
      <3>1. m - 1 \in Nat
        BY <1>5
      <3>2. QED
        BY <1>2, <3>1
    <2> HIDE DEF Upto
    <2>3. QED
      BY <2>1, <2>2, FS_AddElement
  <1>9. Cardinality(Upto(m)) = k
    <2>1. Cardinality(Upto(m - 1)) \in Nat /\ Cardinality(Upto(m)) \in Nat /\ Cardinality(Upto(m)) >= k /\ k \in Nat
      <3>1. Cardinality(S) \in Nat
        BY <1>1, FS_CardinalityType
      <3>2. m - 1 \in Nat /\ m \in Nat /\ k \in Nat
        BY <1>5, <3>1
      <3>3. Cardinality(Upto(m)) >= k
        OBVIOUS
      <3> HIDE DEF Upto
      <3>4. QED
        BY <1>2, <3>2, <3>3
    <2> HIDE DEF Upto
    <2>2. QED
      BY <1>6, <1>8, <2>1
  <1>10. \E x \in S : Discovery!Cardinality({y \in S : y <= x}) = k
    BY <1>7, <1>9, SameCardinality
  <1>11. QED
    BY <1>10 DEF Discovery!Nth

\* Quotient and remainder.
LEMMA Division ==
    ASSUME NEW k \in Nat \ {0}, NEW a \in Nat
    PROVE  /\ a % k \in 0 .. k - 1
           /\ \E q \in Nat : a = (k * q) + (a % k)
  <1>1. a = (k * (a \div k)) + (a % k) /\ a \div k \in Nat /\ a % k \in 0 .. k - 1
    OBVIOUS
  <1>2. QED
    BY <1>1

\* Two multiples are the same or at least one length apart.
LEMMA Multiples ==
    ASSUME NEW k \in Nat \ {0}, NEW p \in Nat, NEW q \in Nat, k * p < (k * q) + k, k * q < (k * p) + k
    PROVE  k * p = k * q
  OBVIOUS

\* There is one remainder.
LEMMA Remainder ==
    ASSUME NEW k \in Nat \ {0}, NEW q \in Nat, NEW r \in 0 .. k - 1
    PROVE  ((k * q) + r) % k = r
  <1> DEFINE a == (k * q) + r
  <1>1. k * q \in Nat /\ a \in Nat
    OBVIOUS
  <1>2. PICK p \in Nat : a = (k * p) + (a % k)
    BY <1>1, Division
  <1>3. k * p \in Nat /\ a % k \in 0 .. k - 1
    BY <1>1, Division
  <1> DEFINE x == k * q
             y == k * p
             s == a % k
  <1>4. x \in Nat /\ y \in Nat /\ s \in 0 .. k - 1 /\ x + r = y + s
    BY <1>1, <1>2, <1>3
  <1>5. x < y + k /\ y < x + k
    <2> HIDE DEF x, y, s
    <2>1. QED
      BY <1>4
  <1>6. x = y
    BY <1>5, Multiples
  <1>7. s = r
    <2> HIDE DEF x, y, s
    <2>1. QED
      BY <1>4, <1>6
  <1>8. QED
    BY <1>7

LEMMA SeqsOf ==
    ASSUME NEW S, IsFiniteSet(S), NEW s \in Discovery!SetToSeqs(S)
    PROVE  s \in Seq(S)
  <1>1. Cardinality(S) \in Nat
    BY FS_CardinalityType
  <1>2. s \in [1 .. Cardinality(S) -> S]
    BY SameCardinality DEF Discovery!SetToSeqs
  <1>3. QED
    BY <1>1, <1>2

LEMMA CandidatesType ==
    ASSUME NEW S, NEW nses \in Seq(S), NEW m, Len(m.routes) \in Nat
    PROVE  Discovery!Candidates(m, nses) \in Seq(S)
  <1> DEFINE n == Len(nses)
             k == Len(m.routes)
             Nse(x) == nses[((x - 1) % n) + 1]
             fit == {x \in 1 .. k * n : Discovery!IsSubset(Discovery!Labels(Nse(x)), m.routes[((x - 1) \div n) + 1], NsLabels)}
  <1>1. n \in Nat /\ k \in Nat /\ k * n \in Nat
    OBVIOUS
  <1>2. \A x \in 1 .. k * n : Nse(x) \in S
    <2> SUFFICES ASSUME NEW x \in 1 .. k * n PROVE Nse(x) \in S
      OBVIOUS
    <2>1. n # 0
      BY <1>1
    <2>2. x - 1 \in Nat
      BY <1>1
    <2>3. (x - 1) % n \in 0 .. n - 1
      BY <1>1, <2>1, <2>2, Division
    <2>4. ((x - 1) % n) + 1 \in 1 .. n
      <3> DEFINE d == (x - 1) % n
      <3>1. d \in 0 .. n - 1
        BY <2>3
      <3> HIDE DEF d
      <3>2. d + 1 \in 1 .. n
        BY <1>1, <3>1
      <3>3. QED
        BY <3>2 DEF d
    <2>5. QED
      BY <2>4
  <1>3. fit \in SUBSET (1 .. k * n)
    OBVIOUS
  <1>4. IsFiniteSet(fit) /\ Cardinality(fit) \in Nat
    <2>1. IsFiniteSet(1 .. k * n)
      BY <1>1, FS_Interval
    <2>2. QED
      BY <1>3, <2>1, FS_Subset, FS_CardinalityType
  <1>5. Discovery!Candidates(m, nses) = [j \in 1 .. Cardinality(fit) |-> Nse(Discovery!Nth(fit, j))]
    BY SameCardinality DEF Discovery!Candidates
  <1> HIDE DEF Nse, fit, n, k
  <1>6. \A j \in 1 .. Cardinality(fit) : Nse(Discovery!Nth(fit, j)) \in S
    BY <1>1, <1>2, <1>3, NthIn
  <1>7. QED
    BY <1>4, <1>5, <1>6


\* The rest of a list.
LEMMA TailOf ==
    ASSUME NEW S, NEW s \in Seq(S), s # <<>>
    PROVE  /\ Head(s) \in S /\ Tail(s) \in Seq(S)
           /\ Discovery!Range(s) = {Head(s)} \cup Discovery!Range(Tail(s))
           /\ Len(s) # 1 => Tail(s) # <<>>
  <1>1. Len(s) \in Nat /\ Len(s) # 0 /\ DOMAIN s = 1 .. Len(s) /\ Head(s) = s[1] /\ s[1] \in S
    OBVIOUS
  <1>2. Tail(s) \in Seq(S) /\ Len(Tail(s)) = Len(s) - 1 /\ \A i \in 1 .. Len(s) - 1 : Tail(s)[i] = s[i + 1]
    OBVIOUS
  <1>3. DOMAIN Tail(s) = 1 .. Len(s) - 1
    BY <1>2
  <1> DEFINE t == Tail(s)
  <1> HIDE DEF t
  <1>4. \A i \in 2 .. Len(s) : i - 1 \in 1 .. Len(s) - 1 /\ t[i - 1] = s[i]
    BY <1>1, <1>2 DEF t
  <1>5. \A x : x \in Discovery!Range(s) <=> x = s[1] \/ x \in Discovery!Range(t)
    <2> SUFFICES ASSUME NEW x PROVE x \in Discovery!Range(s) <=> x = s[1] \/ x \in Discovery!Range(t)
      OBVIOUS
    <2>1. ASSUME x \in Discovery!Range(s) PROVE x = s[1] \/ x \in Discovery!Range(t)
      <3>1. PICK i \in 1 .. Len(s) : x = s[i]
        BY <1>1, <2>1 DEF Discovery!Range
      <3>2. i = 1 \/ i \in 2 .. Len(s)
        BY <1>1
      <3>3. QED
        BY <1>3, <1>4, <3>1, <3>2 DEF Discovery!Range, t
    <2>2. s[1] \in Discovery!Range(s)
      BY <1>1 DEF Discovery!Range
    <2>3. ASSUME x \in Discovery!Range(t) PROVE x \in Discovery!Range(s)
      <3>1. PICK i \in 1 .. Len(s) - 1 : x = t[i]
        BY <1>3, <2>3 DEF Discovery!Range, t
      <3>2. x = s[i + 1] /\ i + 1 \in 1 .. Len(s)
        BY <1>1, <1>2, <3>1 DEF t
      <3>3. QED
        BY <1>1, <3>2 DEF Discovery!Range
    <2>4. QED
      BY <2>1, <2>2, <2>3
  <1>6. Discovery!Range(s) = {s[1]} \cup Discovery!Range(t)
    BY <1>5
  <1>7. Len(s) # 1 => t # <<>>
    <2>1. Len(t) = Len(s) - 1
      BY <1>2 DEF t
    <2>2. QED
      BY <1>1, <2>1
  <1>8. QED
    BY <1>1, <1>2, <1>6, <1>7 DEF t

\* Without a route there is no candidate.
LEMMA NoCandidates ==
    ASSUME NEW nses, NEW m, Len(m.routes) = 0
    PROVE  Discovery!Candidates(m, nses) = <<>>
  <1> DEFINE k == 0 * Len(nses)
             Nse(x) == nses[((x - 1) % Len(nses)) + 1]
             fit == {x \in 1 .. k : Discovery!IsSubset(Discovery!Labels(Nse(x)), m.routes[((x - 1) \div Len(nses)) + 1], NsLabels)}
  <1>1. 1 .. k = {}
    OBVIOUS
  <1>2. fit = {}
    BY <1>1
  <1>3. Discovery!Cardinality(fit) = 0
    BY <1>2, FS_EmptySet, SameCardinality
  <1>4. Discovery!Candidates(m, nses) = [j \in 1 .. Discovery!Cardinality(fit) |-> Nse(Discovery!Nth(fit, j))]
    BY DEF Discovery!Candidates
  <1> HIDE DEF fit, Nse
  <1>5. QED
    BY <1>3, <1>4

-----------------------------------------------------------------------------
\* The fields of a call.
LEMMA CallFields ==
    ASSUME NEW c \in DiscoverCall
    PROVE  /\ c.op \in {"Request", "Close"} /\ c.at \in {"manager", "roundrobin", "endpoint", "forwarder", "done"}
           /\ c.reselect \in BOOLEAN /\ c.ok \in BOOLEAN /\ c.others \in Nat
           /\ c.was \in Forwarder \cup {None} /\ c.name \in Forwarder \cup {None} /\ c.nse \in Endpoint \cup {None}
           /\ c.nses \in Seq(Forwarder) /\ c.found \subseteq Forwarder /\ c.tried \subseteq Forwarder
           /\ c.endpoints \in Seq(Endpoint) /\ c.selected \in Endpoint \cup {None} /\ c.left \in Nat
           /\ c.failed \subseteq Endpoint
  BY DEF DiscoverCall

\* What a call keeps when it leaves a forwarder.
LEMMA LeftCall ==
    ASSUME call \in DiscoverCall, NEW at \in {"manager", "done"}
    PROVE  LET c == Discovery!Left(at) IN
           /\ c \in DiscoverCall
           /\ c.op = call.op /\ c.at = at /\ c.reselect = call.reselect /\ c.ok = call.ok /\ c.was = call.was
           /\ c.name = call.name /\ c.nse = call.nse /\ c.nses = call.nses /\ c.found = call.found /\ c.tried = call.tried
  <1>1. <<>> \in Seq(Endpoint) /\ {} \subseteq Endpoint /\ 0 \in Nat
    OBVIOUS
  <1>2. Discovery!Left(at) \in DiscoverCall
    BY <1>1 DEF Discovery!Left, DiscoverCall
  <1>3. QED
    BY <1>2 DEF Discovery!Left, DiscoverCall

LEMMA ReturnedCall ==
    ASSUME call \in DiscoverCall, NEW ok \in BOOLEAN
    PROVE  LET c == Discovery!Returns(ok) IN
           /\ c \in DiscoverCall
           /\ c.op = call.op /\ c.at = "done" /\ c.reselect = call.reselect /\ c.ok = ok /\ c.was = call.was
           /\ c.name = call.name /\ c.nse = call.nse /\ c.found = call.found /\ c.tried = call.tried
  <1> DEFINE l == Discovery!Left("done")
  <1>1. l \in DiscoverCall /\ l.op = call.op /\ l.at = "done" /\ l.reselect = call.reselect /\ l.was = call.was
        /\ l.name = call.name /\ l.nse = call.nse /\ l.found = call.found /\ l.tried = call.tried
    BY LeftCall
  <1>2. <<>> \in Seq(Forwarder)
    OBVIOUS
  <1>3. Discovery!Returns(ok) = [l EXCEPT !.nses = <<>>, !.ok = ok]
    BY DEF Discovery!Returns
  <1> HIDE DEF l
  <1>4. [l EXCEPT !.nses = <<>>, !.ok = ok] \in DiscoverCall
    BY <1>1, <1>2 DEF DiscoverCall
  <1>5. QED
    BY <1>1, <1>3, <1>4 DEF DiscoverCall

\* A call begins.
LEMMA NewCall ==
    ASSUME DiscoverType, NEW o \in {"Request", "Close"}, NEW reselect \in BOOLEAN
    PROVE  LET c == Discovery!Call(o, reselect) IN
           /\ c \in DiscoverCall
           /\ c.op = o /\ c.at = "manager" /\ c.reselect = reselect /\ ~ c.ok /\ c.was = path
           /\ c.name = IF o = "Request" /\ reselect THEN None ELSE forwarderName
           /\ c.nse = IF o = "Request" /\ reselect THEN None ELSE nseName
           /\ c.nses = <<>> /\ c.found = {} /\ c.tried = {}
  <1>1. <<>> \in Seq(Endpoint) /\ <<>> \in Seq(Forwarder) /\ {} \subseteq Endpoint /\ {} \subseteq Forwarder /\ 0 \in Nat
    OBVIOUS
  <1>2. Discovery!Call(o, reselect) \in DiscoverCall
    BY <1>1 DEF Discovery!Call, Discovery!loadForwarderName, DiscoverCall, DiscoverType
  <1>3. QED
    BY <1>2 DEF Discovery!Call, Discovery!loadForwarderName

LEMMA IsCall == ASSUME DiscoverType PROVE call # None => call \in DiscoverCall
  BY DEF DiscoverType

LEMMA DiscoverInit == Discovery!DiscoverInit => DiscoverInv
  <1> SUFFICES ASSUME Discovery!DiscoverInit PROVE DiscoverInv
    OBVIOUS
  <1>1. DiscoverType
    BY DEF Discovery!DiscoverInit, DiscoverType
  <1>2. QED
    BY <1>1 DEF Discovery!DiscoverInit, DiscoverInv, ConnectionInv, RequestInv, CloseInv, RoundRobinInv, KeptInv

\* A call returns without a result.
LEMMA ReturnsFailed ==
    ASSUME DiscoverInv, call # None, call' = Discovery!Returns(FALSE),
           UNCHANGED <<matches, registered, roundRobin, path, nseName, has>>,
           forwarderName' \in {None, forwarderName}, lost \subseteq lost',
           call.op = "Close" => has \subseteq lost'
    PROVE  DiscoverInv'
  <1> DEFINE c == Discovery!Returns(FALSE)
  <1>1. call \in DiscoverCall
    BY IsCall DEF DiscoverInv
  <1>2. c \in DiscoverCall /\ c.op = call.op /\ c.at = "done" /\ c.ok = FALSE /\ c.nse = call.nse
    BY <1>1, ReturnedCall
  <1>3. c # None
    BY <1>2, ChainsAssumption
  <1> HIDE DEF c
  <1>4. call' = c
    BY DEF c
  <1>5. DiscoverType'
    BY <1>2, <1>4 DEF DiscoverInv, DiscoverType
  <1>6. ConnectionInv'
    BY DEF DiscoverInv, ConnectionInv
  <1>7. RequestInv' /\ RoundRobinInv' /\ KeptInv'
    BY <1>2, <1>4 DEF RequestInv, RoundRobinInv, KeptInv
  <1>8. CloseInv'
    BY <1>2, <1>3, <1>4 DEF DiscoverInv, CloseInv
  <1>9. QED
    BY <1>5, <1>6, <1>7, <1>8 DEF DiscoverInv

\* The next forwarder is tried.
LEMMA TriesNext ==
    ASSUME DiscoverInv, call # None, call.op = "Request", call.at # "done", call.found # {}, call' = Discovery!NextForwarder,
           UNCHANGED <<matches, registered, roundRobin, forwarderName, path, nseName, has, lost>>
    PROVE  DiscoverInv'
  <1>1. call \in DiscoverCall
    BY IsCall DEF DiscoverInv
  <1>2. CASE Len(call.nses) = 1
    BY <1>2, ReturnsFailed DEF Discovery!NextForwarder
  <1>3. CASE Len(call.nses) # 1
    <2> DEFINE l == Discovery!Left("manager")
               c == [l EXCEPT !.nses = Tail(call.nses), !.tried = call.tried \cup {Head(call.nses)}]
    <2>1. l \in DiscoverCall /\ l.op = call.op /\ l.at = "manager" /\ l.reselect = call.reselect /\ l.was = call.was
          /\ l.ok = call.ok /\ l.name = call.name /\ l.nse = call.nse /\ l.nses = call.nses /\ l.found = call.found
          /\ l.tried = call.tried
      BY <1>1, LeftCall
    <2>2. call.nses \in Seq(Forwarder) /\ call.tried \subseteq Forwarder
      BY <1>1, CallFields
    <2>3. KnownInv /\ TryingInv
      BY DEF DiscoverInv, RequestInv
    <2>4. ~ call.ok
      BY DEF DiscoverInv, KeptInv
    <2>5. Tail(call.nses) \in Seq(Forwarder) /\ Tail(call.nses) # <<>> /\ Head(call.nses) \in Forwarder
          /\ Discovery!Range(call.nses) = {Head(call.nses)} \cup Discovery!Range(Tail(call.nses))
      BY <1>3, <2>2, <2>3, TailOf DEF TryingInv
    <2>6. call' = c
      BY <1>3, <2>1 DEF Discovery!NextForwarder
    <2> HIDE DEF l
    <2>7. c \in DiscoverCall
      BY <2>1, <2>2, <2>5 DEF DiscoverCall
    <2>8. c.op = "Request" /\ c.at = "manager" /\ c.reselect = call.reselect /\ c.was = call.was /\ c.ok = call.ok
          /\ c.name = call.name /\ c.nse = call.nse /\ c.nses = Tail(call.nses) /\ c.found = call.found
          /\ c.tried = call.tried \cup {Head(call.nses)}
      BY <2>1 DEF DiscoverCall
    <2> HIDE DEF c
    <2>9. DiscoverType'
      BY <2>6, <2>7 DEF DiscoverInv, DiscoverType
    <2>10. ConnectionInv' /\ CloseInv' /\ RoundRobinInv' /\ KeptInv'
      BY <2>4, <2>6, <2>8 DEF DiscoverInv, ConnectionInv, CloseInv, RoundRobinInv, KeptInv
    <2>11. KnownInv'
      BY <2>3, <2>6, <2>8 DEF KnownInv
    <2>12. TryingInv'
      <3> DEFINE R == Discovery!Range(call.nses)
                 T == Discovery!Range(Tail(call.nses))
      <3>1. R = {Head(call.nses)} \cup T /\ T = Discovery!Range(c.nses)
        BY <2>5, <2>8
      <3>2. call.found = call.tried \cup R /\ (call.name # None => R \subseteq {call.name})
            /\ (~ call.reselect /\ call.was \in call.found => call.was \in call.tried \/ Head(call.nses) = call.was)
        BY <2>3 DEF TryingInv
      <3> HIDE DEF R, T
      <3>3. c.found # {} /\ c.nses # <<>> /\ c.found = c.tried \cup T /\ (c.name # None => T \subseteq {c.name})
            /\ (~ c.reselect /\ c.was \in c.found => c.was \in c.tried)
        BY <2>5, <2>8, <3>1, <3>2
      <3>4. QED
        BY <2>6, <3>1, <3>3 DEF TryingInv
    <2>13. QED
      BY <2>9, <2>10, <2>11, <2>12 DEF DiscoverInv, RequestInv
  <1>4. QED
    BY <1>2, <1>3

-----------------------------------------------------------------------------
(* The steps of a Request.                                                 *)

LEMMA RequestStep ==
    ASSUME DiscoverInv, Discovery!Request
    PROVE  DiscoverInv'
  <1> DEFINE c == Discovery!Call("Request", FALSE)
  <1>1. c \in DiscoverCall /\ c.op = "Request" /\ c.at = "manager" /\ ~ c.reselect /\ ~ c.ok /\ c.was = path
        /\ c.name = forwarderName /\ c.nse = nseName /\ c.nses = <<>> /\ c.found = {} /\ c.tried = {}
    BY NewCall DEF DiscoverInv
  <1>2. call' = c
    BY DEF Discovery!Request
  <1> HIDE DEF c
  <1>3. UNCHANGED <<matches, registered, roundRobin, forwarderName, path, nseName, has, lost>>
    BY DEF Discovery!Request
  <1>4. DiscoverType'
    BY <1>1, <1>2, <1>3 DEF DiscoverInv, DiscoverType
  <1>5. KnownInv'
    BY <1>1, <1>2, <1>3 DEF KnownInv
  <1>6. TryingInv'
    BY <1>1, <1>2 DEF TryingInv
  <1>7. ConnectionInv' /\ CloseInv' /\ RoundRobinInv' /\ KeptInv'
    BY <1>1, <1>2, <1>3 DEF DiscoverInv, ConnectionInv, CloseInv, RoundRobinInv, KeptInv
  <1>8. QED
    BY <1>4, <1>5, <1>6, <1>7 DEF DiscoverInv, RequestInv

\* The forwarders that are found, and their order.
LEMMA ForwardersFound ==
    ASSUME NEW nm \in Forwarder \cup {None},
           NEW nses \in Discovery!SetToSeqs(Discovery!matchForwarders(Discovery!MatchNetworkServiceEndpoints(nm, Forwarder)))
    PROVE  nses \in Seq(Forwarder) /\ (nm # None => Discovery!Range(nses) \subseteq {nm})
  <1> DEFINE hosts == Discovery!MatchNetworkServiceEndpoints(nm, Forwarder)
             fs == Discovery!matchForwarders(hosts)
  <1>1. hosts \subseteq Forwarder /\ (nm # None => hosts \subseteq {nm})
    BY DEF Discovery!MatchNetworkServiceEndpoints
  <1>2. \A m : Discovery!Forwarders(m, hosts) \subseteq hosts
    BY DEF Discovery!Forwarders
  <1>3. fs \subseteq hosts
    BY <1>2 DEF Discovery!matchForwarders
  <1> HIDE DEF fs, hosts
  <1>4. IsFiniteSet(fs)
    BY <1>1, <1>3, FS_Subset, ChainsAssumption
  <1>5. nses \in Discovery!SetToSeqs(fs)
    BY DEF fs, hosts
  <1>6. nses \in Seq(fs)
    BY <1>4, <1>5, SeqsOf
  <1>7. nses \in Seq(Forwarder)
    BY <1>1, <1>3, <1>6
  <1>8. Discovery!Range(nses) \subseteq fs
    BY <1>6 DEF Discovery!Range
  <1>9. QED
    BY <1>1, <1>3, <1>7, <1>8

\* The preferred one is put first, and none gets lost.
LEMMA PreferredFirst ==
    ASSUME NEW nses \in Seq(Forwarder), nses # <<>>
    PROVE  LET order == Discovery!preferred(nses) IN
           /\ order \in Seq(Forwarder) /\ order # <<>>
           /\ Discovery!Range(order) = Discovery!Range(nses)
           /\ call.name = None /\ ~ call.reselect /\ path \in Discovery!Range(nses) => Head(order) = path
  <1> DEFINE is == {i \in DOMAIN nses : nses[i] = path}
             n == Len(nses)
  <1>1. n \in Nat \ {0} /\ DOMAIN nses = 1 .. n /\ nses \in [1 .. n -> Forwarder]
    OBVIOUS
  <1>2. CASE is = {} \/ call.name # None \/ call.reselect
    <2>1. Discovery!preferred(nses) = nses
      BY <1>2 DEF Discovery!preferred
    <2>2. is = {} => path \notin Discovery!Range(nses)
      BY DEF Discovery!Range
    <2>3. QED
      BY <1>2, <2>1, <2>2
  <1>3. CASE ~ (is = {} \/ call.name # None \/ call.reselect)
    <2> DEFINE m == Discovery!Min(is)
               order == [nses EXCEPT ![1] = nses[m], ![m] = nses[1]]
    <2>1. Discovery!preferred(nses) = order
      BY <1>3 DEF Discovery!preferred
    <2>2. m \in is
      <3>1. is \in SUBSET Nat /\ is # {}
        BY <1>1, <1>3
      <3> HIDE DEF is
      <3>2. QED
        BY <3>1, LeastIn
    <2>3. m \in 1 .. n /\ nses[m] = path /\ nses[m] \in Forwarder /\ nses[1] \in Forwarder /\ 1 \in 1 .. n
      <3> HIDE DEF m
      <3>1. QED
        BY <1>1, <2>2
    <2> HIDE DEF m, n, is
    <2>4. order \in [1 .. n -> Forwarder]
      BY <1>1, <2>3
    <2>5. \A i \in 1 .. n : order[i] = IF i = m THEN nses[1] ELSE IF i = 1 THEN nses[m] ELSE nses[i]
      BY <1>1, <2>3
    <2> HIDE DEF order
    <2>6. order \in Seq(Forwarder) /\ Len(order) = n /\ order # <<>> /\ DOMAIN order = 1 .. n
      BY <1>1, <2>4
    <2>7. \A x : x \in Discovery!Range(order) <=> x \in Discovery!Range(nses)
      <3> SUFFICES ASSUME NEW x PROVE x \in Discovery!Range(order) <=> x \in Discovery!Range(nses)
        OBVIOUS
      <3>1. x \in Discovery!Range(order) <=> \E i \in 1 .. n : x = order[i]
        BY <2>6 DEF Discovery!Range
      <3>2. x \in Discovery!Range(nses) <=> \E i \in 1 .. n : x = nses[i]
        BY <1>1 DEF Discovery!Range
      <3>3. ASSUME NEW i \in 1 .. n PROVE \E j \in 1 .. n : order[i] = nses[j]
        BY <2>3, <2>5
      <3>4. ASSUME NEW i \in 1 .. n PROVE \E j \in 1 .. n : nses[i] = order[j]
        <4>1. i = m => nses[i] = order[1]
          BY <2>3, <2>5
        <4>2. i = 1 => nses[i] = order[m]
          BY <2>3, <2>5
        <4>3. i # 1 /\ i # m => nses[i] = order[i]
          BY <2>5
        <4>4. QED
          BY <2>3, <4>1, <4>2, <4>3
      <3>5. QED
        BY <3>1, <3>2, <3>3, <3>4
    <2>8. Discovery!Range(order) = Discovery!Range(nses)
      BY <2>7
    <2>9. Head(order) = path
      BY <2>3, <2>5, <2>6
    <2>10. QED
      BY <2>1, <2>6, <2>8, <2>9
  <1>4. QED
    BY <1>2, <1>3

LEMMA FindFailsStep ==
    ASSUME DiscoverInv, Discovery!FindFails
    PROVE  DiscoverInv'
  BY ReturnsFailed DEF Discovery!FindFails

LEMMA FindStep ==
    ASSUME DiscoverInv, Discovery!FindForwarders
    PROVE  DiscoverInv'
  <1>1. call # None /\ call.at = "manager" /\ call.op = "Request" /\ call.found = {}
        /\ UNCHANGED <<matches, registered, roundRobin, forwarderName, path, nseName, has, lost>>
    BY DEF Discovery!FindForwarders
  <1>2. call \in DiscoverCall
    BY <1>1, IsCall DEF DiscoverInv
  <1>3. call.name \in Forwarder \cup {None} /\ call.was \in Forwarder \cup {None}
    BY <1>2, CallFields
  <1>4. PICK nses \in Discovery!SetToSeqs(Discovery!matchForwarders(Discovery!MatchNetworkServiceEndpoints(call.name, Forwarder))) :
           call' = IF nses = <<>> THEN Discovery!Returns(FALSE)
                   ELSE [call EXCEPT !.nses = Discovery!preferred(nses), !.found = Discovery!Range(nses)]
    BY DEF Discovery!FindForwarders
  <1>5. nses \in Seq(Forwarder) /\ (call.name # None => Discovery!Range(nses) \subseteq {call.name})
    BY <1>3, ForwardersFound
  <1>6. CASE nses = <<>>
    BY <1>1, <1>4, <1>6, ReturnsFailed
  <1>7. CASE nses # <<>>
    <2> DEFINE order == Discovery!preferred(nses)
               R == Discovery!Range(nses)
               c == [call EXCEPT !.nses = order, !.found = R]
    <2>1. order \in Seq(Forwarder) /\ order # <<>> /\ Discovery!Range(order) = R
          /\ (call.name = None /\ ~ call.reselect /\ path \in R => Head(order) = path)
      BY <1>5, <1>7, PreferredFirst
    <2>2. R \subseteq Forwarder
      BY <1>5 DEF Discovery!Range
    <2>3. nses[1] \in R
      BY <1>5, <1>7 DEF Discovery!Range
    <2>4. call' = c
      BY <1>4, <1>7
    <2>5. Head(order) \in Discovery!Range(order)
      BY <2>1, TailOf
    <2> HIDE DEF order, R
    <2>6. c \in DiscoverCall
      BY <1>2, <2>1, <2>2 DEF DiscoverCall
    <2>7. c.op = "Request" /\ c.at = "manager" /\ c.reselect = call.reselect /\ c.was = call.was /\ c.ok = call.ok
          /\ c.name = call.name /\ c.nse = call.nse /\ c.nses = order /\ c.found = R /\ c.tried = call.tried
      BY <1>1, <1>2 DEF DiscoverCall
    <2> HIDE DEF c
    <2>8. KnownInv /\ TryingInv /\ ~ call.ok
      BY <1>1 DEF DiscoverInv, RequestInv, KeptInv
    <2>9. DiscoverType'
      BY <1>1, <2>4, <2>6 DEF DiscoverInv, DiscoverType
    <2>10. ConnectionInv' /\ CloseInv' /\ RoundRobinInv' /\ KeptInv'
      BY <1>1, <2>4, <2>7, <2>8 DEF DiscoverInv, ConnectionInv, CloseInv, RoundRobinInv, KeptInv
    <2>11. KnownInv'
      BY <1>1, <2>4, <2>7, <2>8 DEF KnownInv
    <2>12. path = call.was /\ (call.name # None => forwarderName = call.name) /\ call.tried = {}
      BY <1>1, <2>8 DEF KnownInv, TryingInv
    <2>13. path # None => forwarderName \in {None, path}
      BY DEF DiscoverInv, ConnectionInv
    <2>14. call.was \in R /\ ~ call.reselect => Head(order) = call.was
      <3>1. None \notin Forwarder
        BY ChainsAssumption
      <3>2. QED
        BY <1>5, <2>1, <2>2, <2>5, <2>12, <2>13, <3>1 DEF R
    <2>15. TryingInv'
      <3>1. c.found # {} /\ c.nses # <<>> /\ c.found = c.tried \cup Discovery!Range(c.nses)
            /\ (c.name # None => Discovery!Range(c.nses) \subseteq {c.name})
            /\ (~ c.reselect /\ c.was \in c.found => c.was \in c.tried \/ Head(c.nses) = c.was)
        BY <1>5, <2>1, <2>3, <2>7, <2>12, <2>14 DEF R
      <3>2. QED
        BY <2>4, <3>1 DEF TryingInv
    <2>16. QED
      BY <2>9, <2>10, <2>11, <2>15 DEF DiscoverInv, RequestInv
  <1>8. QED
    BY <1>6, <1>7

LEMMA DiscoverFailsStep ==
    ASSUME DiscoverInv, Discovery!DiscoverFails
    PROVE  DiscoverInv'
  BY TriesNext DEF Discovery!DiscoverFails

\* Candidates of the forwarder, from the list that it has found.
LEMMA EndpointsFound ==
    ASSUME DiscoverType,
           NEW list \in Discovery!SetToSeqs(Discovery!validateExpirationTime(Discovery!MatchNetworkServiceEndpoints(None, Endpoint)))
    PROVE  Discovery!MatchEndpoint(list) \in Seq(Endpoint)
  <1> DEFINE found == Discovery!validateExpirationTime(Discovery!MatchNetworkServiceEndpoints(None, Endpoint))
             ms == Discovery!DecideEndpoint(list)
  <1>1. found \subseteq Endpoint
    BY DEF Discovery!validateExpirationTime, Discovery!MatchNetworkServiceEndpoints
  <1>2. IsFiniteSet(found)
    BY <1>1, FS_Subset, ChainsAssumption
  <1> HIDE DEF found
  <1>3. list \in Seq(found)
    BY <1>2, SeqsOf DEF found
  <1>4. list \in Seq(Endpoint)
    BY <1>1, <1>3
  <1>5. matches \in Matches
    BY DEF DiscoverType
  <1>6. \A i \in DOMAIN matches : i \in Nat /\ Len(matches[i].routes) \in Nat
    BY <1>5, ChainsAssumption
  <1>7. \A i \in ms : i \in DOMAIN matches
    BY DEF Discovery!DecideEndpoint
  <1>8. ms # {} => Discovery!Min(ms) \in DOMAIN matches
    <2>1. ms \in SUBSET Nat
      BY <1>6, <1>7
    <2> HIDE DEF ms
    <2>2. QED
      BY <1>7, <2>1, LeastIn
  <1>9. ms # {} => Discovery!Candidates(matches[Discovery!Min(ms)], list) \in Seq(Endpoint)
    BY <1>4, <1>6, <1>8, CandidatesType
  <1>10. <<>> \in Seq(Endpoint)
    OBVIOUS
  <1>11. QED
    BY <1>4, <1>9, <1>10 DEF Discovery!MatchEndpoint

LEMMA DiscoverStep ==
    ASSUME DiscoverInv, Discovery!Discover
    PROVE  DiscoverInv'
  <1>1. call # None /\ call.at = "manager" /\ call.op = "Request" /\ call.found # {}
        /\ UNCHANGED <<matches, registered, roundRobin, forwarderName, path, nseName, has, lost>>
    BY DEF Discovery!Discover
  <1>2. call \in DiscoverCall
    BY <1>1, IsCall DEF DiscoverInv
  <1>3. KnownInv /\ TryingInv /\ ~ call.ok /\ DiscoverType
    BY <1>1 DEF DiscoverInv, RequestInv, KeptInv
  <1>4. CASE call' = Discovery!NextForwarder
    BY <1>1, <1>4, TriesNext
  <1>5. CASE call.nse # None /\ call' = [call EXCEPT !.at = "endpoint", !.selected = call.nse, !.left = 0]
    <2> DEFINE c == [call EXCEPT !.at = "endpoint", !.selected = call.nse, !.left = 0]
    <2>1. c \in DiscoverCall
      BY <1>2, CallFields DEF DiscoverCall
    <2>2. c.op = "Request" /\ c.at = "endpoint" /\ c.reselect = call.reselect /\ c.was = call.was /\ c.ok = call.ok
          /\ c.name = call.name /\ c.nse = call.nse /\ c.nses = call.nses /\ c.found = call.found /\ c.tried = call.tried
          /\ c.selected = call.nse
      BY <1>1, <1>2 DEF DiscoverCall
    <2>3. call' = c
      BY <1>5
    <2> HIDE DEF c
    <2>4. DiscoverType'
      BY <1>1, <1>3, <2>1, <2>3 DEF DiscoverType
    <2>5. ConnectionInv' /\ CloseInv' /\ RoundRobinInv' /\ KeptInv'
      BY <1>1, <1>3, <1>5, <2>2, <2>3 DEF DiscoverInv, ConnectionInv, CloseInv, RoundRobinInv, KeptInv
    <2>6. KnownInv'
      BY <1>1, <1>3, <1>5, <2>2, <2>3 DEF KnownInv
    <2>7. TryingInv'
      BY <1>1, <1>3, <2>2, <2>3 DEF TryingInv
    <2>8. QED
      BY <2>4, <2>5, <2>6, <2>7 DEF DiscoverInv, RequestInv
  <1>6. ASSUME call.nse = None, NEW es \in Seq(Endpoint), es # <<>>, call' = Discovery!WithCandidates(es)
        PROVE  DiscoverInv'
    <2> DEFINE c == [call EXCEPT !.at = "roundrobin", !.endpoints = es, !.left = Len(es), !.failed = {}, !.others = 0]
    <2>1. c \in DiscoverCall
      <3>1. Len(es) \in Nat /\ {} \subseteq Endpoint
        OBVIOUS
      <3>2. QED
        BY <1>2, <3>1 DEF DiscoverCall
    <2>2. c.op = "Request" /\ c.at = "roundrobin" /\ c.reselect = call.reselect /\ c.was = call.was /\ c.ok = call.ok
          /\ c.name = call.name /\ c.nse = call.nse /\ c.nses = call.nses /\ c.found = call.found /\ c.tried = call.tried
          /\ c.endpoints = es /\ c.left = Len(es) /\ c.failed = {} /\ c.others = 0
      BY <1>1, <1>2 DEF DiscoverCall
    <2>3. call' = c
      BY <1>6 DEF Discovery!WithCandidates
    <2> HIDE DEF c
    <2>4. DiscoverType'
      BY <1>1, <1>3, <2>1, <2>3 DEF DiscoverType
    <2>5. ConnectionInv' /\ CloseInv' /\ KeptInv'
      BY <1>1, <1>3, <2>2, <2>3 DEF DiscoverInv, ConnectionInv, CloseInv, KeptInv
    <2>6. KnownInv'
      BY <1>1, <1>3, <1>6, <2>2, <2>3 DEF KnownInv
    <2>7. TryingInv'
      BY <1>1, <1>3, <2>2, <2>3 DEF TryingInv
    <2>8. RoundRobinInv'
      <3>1. call.nses # <<>> /\ Head(call.nses) \in Forwarder
        <4>1. call.nses # <<>> /\ call.nses \in Seq(Forwarder)
          BY <1>1, <1>2, <1>3, CallFields DEF TryingInv
        <4>2. QED
          BY <4>1, TailOf
      <3>2. roundRobin[Head(call.nses)] \in Nat
        BY <1>3, <3>1 DEF DiscoverType
      <3>3. Len(es) \in Nat /\ Len(es) - Len(es) = 0 /\ 1 .. 0 = {}
        OBVIOUS
      <3>4. \A counter : Chosen(es, counter, 0) = {}
        BY <3>3 DEF Chosen
      <3>5. Overtaken(es, roundRobin[Head(call.nses)], 0, 0, {} \cup {})
        <4>1. IsFiniteSet({}) /\ Cardinality({}) <= 0
          BY FS_EmptySet
        <4> DEFINE counter == roundRobin[Head(call.nses)]
        <4>2. counter \in Nat /\ Chosen(es, counter, 0 + 0) = {}
          BY <3>2, <3>4
        <4> HIDE DEF counter
        <4>3. 0 + 0 <= counter
          BY <4>2
        <4>4. Chosen(es, counter, 0 + 0) \subseteq ({} \cup {}) \cup {}
          BY <4>2
        <4>5. Overtaken(es, counter, 0, 0, {} \cup {})
          BY <4>1, <4>3, <4>4, Zenon DEF Overtaken
        <4>6. QED
          BY <4>5 DEF counter
      <3>6. Overtaken(c.endpoints, roundRobin[Head(c.nses)], Len(c.endpoints) - c.left, c.others, c.failed \cup {})
        BY <2>2, <3>3, <3>5
      <3>7. c.left <= Len(c.endpoints) /\ c.endpoints # <<>> /\ c.nses # <<>> /\ roundRobin' = roundRobin
        BY <1>1, <1>6, <2>2, <3>1, <3>3
      <3>8. QED
        BY <2>2, <2>3, <3>6, <3>7 DEF RoundRobinInv
    <2>9. QED
      BY <2>4, <2>5, <2>6, <2>7, <2>8 DEF DiscoverInv, RequestInv
  <1>7. CASE Discovery!discoverNetworkServiceEndpoint
    BY <1>4, <1>5, <1>7 DEF Discovery!discoverNetworkServiceEndpoint
  <1>8. CASE Discovery!discoverNetworkServiceEndpoints
    <2>1. PICK list \in Discovery!SetToSeqs(Discovery!validateExpirationTime(Discovery!MatchNetworkServiceEndpoints(None, Endpoint))) :
             call' = IF Discovery!MatchEndpoint(list) = <<>> THEN Discovery!NextForwarder ELSE Discovery!WithCandidates(Discovery!MatchEndpoint(list))
      BY <1>8 DEF Discovery!discoverNetworkServiceEndpoints
    <2>2. Discovery!MatchEndpoint(list) \in Seq(Endpoint) /\ call.nse = None
      BY <1>3, <1>8, EndpointsFound DEF Discovery!discoverNetworkServiceEndpoints
    <2>3. QED
      BY <1>4, <1>6, <2>1, <2>2
  <1>9. QED
    BY <1>7, <1>8 DEF Discovery!Discover

-----------------------------------------------------------------------------
(* The round robin.                                                        *)

\* One more step has chosen one more endpoint.
LEMMA ChosenNext ==
    ASSUME NEW es, NEW c \in Nat, NEW k \in Nat
    PROVE  Chosen(es, c + 1, k + 1) = Chosen(es, c, k) \cup {es[(c % Len(es)) + 1]}
  <1> DEFINE E(n) == es[(n % Len(es)) + 1]
  <1>1. Chosen(es, c + 1, k + 1) = {E((c + 1) - j) : j \in 1 .. k + 1} /\ Chosen(es, c, k) = {E(c - j) : j \in 1 .. k}
    BY DEF Chosen
  <1> HIDE DEF E
  <1>2. 1 \in 1 .. k + 1 /\ (c + 1) - 1 = c
    OBVIOUS
  <1>3. \A j \in 1 .. k : j + 1 \in 1 .. k + 1 /\ (c + 1) - (j + 1) = c - j
    OBVIOUS
  <1>4. \A j \in 1 .. k + 1 : j = 1 \/ (j - 1 \in 1 .. k /\ (c + 1) - j = c - (j - 1))
    OBVIOUS
  <1>5. \A x : x \in {E((c + 1) - j) : j \in 1 .. k + 1} <=> x \in {E(c - j) : j \in 1 .. k} \/ x = E(c)
    <2> SUFFICES ASSUME NEW x
                 PROVE  (\E j \in 1 .. k + 1 : x = E((c + 1) - j)) <=> (\E j \in 1 .. k : x = E(c - j)) \/ x = E(c)
      OBVIOUS
    <2>1. ASSUME NEW j \in 1 .. k + 1, x = E((c + 1) - j) PROVE (\E i \in 1 .. k : x = E(c - i)) \/ x = E(c)
      BY <1>2, <1>4, <2>1
    <2>2. ASSUME NEW j \in 1 .. k, x = E(c - j) PROVE \E i \in 1 .. k + 1 : x = E((c + 1) - i)
      BY <1>3, <2>2
    <2>3. ASSUME x = E(c) PROVE \E i \in 1 .. k + 1 : x = E((c + 1) - i)
      BY <1>2, <2>3
    <2>4. QED
      BY <2>1, <2>2, <2>3
  <1>6. QED
    BY <1>1, <1>5 DEF E

\* All of them, when there are as many steps as endpoints.
LEMMA ChosenAll ==
    ASSUME NEW es \in Seq(Endpoint), es # <<>>, NEW c \in Nat, Len(es) <= c
    PROVE  Chosen(es, c, Len(es)) = Discovery!Range(es)
  <1> DEFINE n == Len(es)
             E(j) == es[(j % n) + 1]
  <1>1. n \in Nat \ {0} /\ DOMAIN es = 1 .. n
    OBVIOUS
  <1>2. Chosen(es, c, n) = {E(c - j) : j \in 1 .. n}
    BY DEF Chosen
  <1>3. n <= c
    OBVIOUS
  <1> HIDE DEF n
  <1>4. ASSUME NEW j \in 1 .. n PROVE (c - j) % n \in 0 .. n - 1 /\ ((c - j) % n) + 1 \in 1 .. n
    <2>1. c - j \in Nat
      BY <1>1, <1>3
    <2> DEFINE r == (c - j) % n
    <2>2. r \in 0 .. n - 1
      BY <1>1, <2>1, Division
    <2> HIDE DEF r
    <2>3. r + 1 \in 1 .. n
      BY <1>1, <2>2
    <2>4. QED
      BY <2>2, <2>3 DEF r
  <1>5. ASSUME NEW p \in 1 .. n PROVE \E j \in 1 .. n : (c - j) % n = p - 1
    <2> DEFINE j == ((c - p) % n) + 1
               r == (c - p) % n
    <2>1. c - p \in Nat
      BY <1>1, <1>3
    <2>2. r \in 0 .. n - 1
      BY <1>1, <2>1, Division
    <2>3. PICK q \in Nat : c - p = (n * q) + r
      BY <1>1, <2>1, Division
    <2> DEFINE m == n * q
    <2> HIDE DEF r
    <2>4. m \in Nat
      BY <1>1
    <2>5. j = r + 1 /\ c - p = m + r
      BY <2>3 DEF r
    <2> HIDE DEF m, j
    <2>6. c - j = m + (p - 1) /\ j \in 1 .. n /\ p - 1 \in 0 .. n - 1
      BY <1>1, <2>2, <2>4, <2>5
    <2>7. (m + (p - 1)) % n = p - 1
      BY <1>1, <2>6, Remainder DEF m
    <2>8. QED
      BY <2>6, <2>7
  <1>6. ASSUME NEW p \in 1 .. n PROVE \E j \in 1 .. n : es[p] = E(c - j)
    <2>1. PICK j \in 1 .. n : (c - j) % n = p - 1
      BY <1>5
    <2>2. (p - 1) + 1 = p
      BY <1>1
    <2>3. QED
      BY <2>1, <2>2
  <1>7. ASSUME NEW j \in 1 .. n PROVE \E p \in 1 .. n : E(c - j) = es[p]
    BY <1>4
  <1> HIDE DEF E
  <1>8. \A x : x \in {E(c - j) : j \in 1 .. n} <=> x \in Discovery!Range(es)
    BY <1>1, <1>6, <1>7 DEF Discovery!Range
  <1>9. QED
    BY <1>2, <1>8 DEF n

\* A step of the call, and one of another.
LEMMA OwnTurn ==
    ASSUME NEW es, NEW c \in Nat, NEW k \in Nat, NEW n \in Nat, NEW tried, Overtaken(es, c, k, n, tried)
    PROVE  Overtaken(es, c + 1, k + 1, n, tried \cup {es[(c % Len(es)) + 1]})
  <1>1. PICK m : IsFiniteSet(m) /\ Cardinality(m) <= n /\ Chosen(es, c, k + n) \subseteq tried \cup m
    BY DEF Overtaken
  <1>2. Chosen(es, c + 1, (k + n) + 1) = Chosen(es, c, k + n) \cup {es[(c % Len(es)) + 1]}
    BY ChosenNext
  <1>3. (k + n) + 1 = (k + 1) + n /\ k + n <= c /\ (k + 1) + n <= c + 1
    BY DEF Overtaken
  <1>4. QED
    BY <1>1, <1>2, <1>3 DEF Overtaken

LEMMA OthersTurn ==
    ASSUME NEW es, NEW c \in Nat, NEW k \in Nat, NEW n \in Nat, NEW tried, Overtaken(es, c, k, n, tried)
    PROVE  Overtaken(es, c + 1, k, n + 1, tried)
  <1> DEFINE e == es[(c % Len(es)) + 1]
  <1>1. PICK m : IsFiniteSet(m) /\ Cardinality(m) <= n /\ Chosen(es, c, k + n) \subseteq tried \cup m
    BY DEF Overtaken
  <1>2. Chosen(es, c + 1, (k + n) + 1) = Chosen(es, c, k + n) \cup {e}
    BY ChosenNext
  <1>3. (k + n) + 1 = k + (n + 1) /\ k + n <= c /\ k + (n + 1) <= c + 1
    BY DEF Overtaken
  <1> HIDE DEF e
  <1>4. IsFiniteSet(m \cup {e}) /\ Cardinality(m \cup {e}) <= n + 1
    <2>1. Cardinality(m) \in Nat
      BY <1>1, FS_CardinalityType
    <2>2. IsFiniteSet(m \cup {e}) /\ Cardinality(m \cup {e}) \in {Cardinality(m), Cardinality(m) + 1}
      BY <1>1, FS_AddElement
    <2>3. QED
      BY <1>1, <2>1, <2>2
  <1>5. Chosen(es, c + 1, k + (n + 1)) \subseteq tried \cup (m \cup {e})
    BY <1>1, <1>2, <1>3
  <1>6. QED
    BY <1>3, <1>4, <1>5 DEF Overtaken

\* After as many steps as there are endpoints.
LEMMA TurnsAll ==
    ASSUME NEW es \in Seq(Endpoint), es # <<>>, NEW c \in Nat, NEW n \in Nat, NEW tried,
           Overtaken(es, c, Len(es), n, tried)
    PROVE  Cardinality(Discovery!Range(es) \ tried) <= n
  <1>1. PICK m : IsFiniteSet(m) /\ Cardinality(m) <= n /\ Chosen(es, c, Len(es) + n) \subseteq tried \cup m
    BY DEF Overtaken
  <1>2. Len(es) \in Nat /\ Len(es) <= c
    BY DEF Overtaken
  <1>3. Chosen(es, c, Len(es)) = Discovery!Range(es)
    BY <1>2, ChosenAll
  <1>4. \A j \in 1 .. Len(es) : j \in 1 .. Len(es) + n
    BY <1>2
  <1>5. Chosen(es, c, Len(es)) \subseteq Chosen(es, c, Len(es) + n)
    BY <1>4 DEF Chosen
  <1> DEFINE r == Discovery!Range(es) \ tried
  <1>6. r \subseteq m
    BY <1>1, <1>3, <1>5
  <1> HIDE DEF r
  <1>7. Cardinality(r) <= Cardinality(m) /\ Cardinality(r) \in Nat /\ Cardinality(m) \in Nat
    BY <1>1, <1>6, FS_Subset, FS_CardinalityType
  <1>8. QED
    BY <1>1, <1>7 DEF r

LEMMA SelectStep ==
    ASSUME DiscoverInv, Discovery!Select
    PROVE  DiscoverInv'
  <1> DEFINE f == Head(call.nses)
             e == call.endpoints[(roundRobin[f] % Len(call.endpoints)) + 1]
             c == [call EXCEPT !.at = "endpoint", !.selected = e, !.left = call.left - 1]
  <1>1. call # None /\ call.at = "roundrobin" /\ call.left > 0
        /\ UNCHANGED <<matches, registered, forwarderName, path, nseName, has, lost>>
        /\ roundRobin' = [roundRobin EXCEPT ![f] = roundRobin[f] + 1]
    BY DEF Discovery!Select, Discovery!selectEndpoint
  <1>2. call \in DiscoverCall
    BY <1>1, IsCall DEF DiscoverInv
  <1>3. call.op = "Request"
    <2>1. call.op \in {"Request", "Close"}
      BY <1>2, CallFields
    <2>2. QED
      BY <1>1, <2>1 DEF DiscoverInv, CloseInv
  <1>4. KnownInv /\ TryingInv /\ ~ call.ok /\ DiscoverType /\ call.nse = None /\ call.found # {}
    BY <1>1, <1>3 DEF DiscoverInv, RequestInv, KeptInv, KnownInv, TryingInv
  <1>5. call.endpoints \in Seq(Endpoint) /\ call.nses \in Seq(Forwarder) /\ call.left \in Nat /\ call.selected \in Endpoint \cup {None}
    BY <1>2, CallFields
  <1>6. call.endpoints # <<>> /\ call.left <= Len(call.endpoints) /\ call.nses # <<>>
        /\ Overtaken(call.endpoints, roundRobin[f], Len(call.endpoints) - call.left, call.others, call.failed)
        /\ call.others \in Nat
    <2>1. call.others \in Nat /\ call.failed \cup {} = call.failed
      BY <1>2, CallFields
    <2>2. QED
      BY <1>1, <2>1 DEF DiscoverInv, RoundRobinInv
  <1>7. f \in Forwarder
    BY <1>5, <1>6, TailOf
  <1>8. roundRobin[f] \in Nat
    BY <1>4, <1>7 DEF DiscoverType
  <1> HIDE DEF f
  <1>9. e \in Endpoint
    <2> DEFINE n == Len(call.endpoints)
               r == roundRobin[f] % n
    <2>1. n \in Nat \ {0}
      BY <1>5, <1>6
    <2>2. r \in 0 .. n - 1
      BY <1>8, <2>1, Division
    <2> HIDE DEF r
    <2>3. r + 1 \in 1 .. n
      BY <2>1, <2>2
    <2>4. QED
      BY <1>5, <2>3 DEF r
  <1>10. e # None
    BY <1>9, ChainsAssumption
  <1> HIDE DEF e
  <1>11. c \in DiscoverCall
    <2>1. call.left - 1 \in Nat
      BY <1>1, <1>5
    <2>2. QED
      BY <1>2, <1>9, <2>1 DEF DiscoverCall
  <1>12. c.op = "Request" /\ c.at = "endpoint" /\ c.reselect = call.reselect /\ c.was = call.was /\ c.ok = call.ok
         /\ c.name = call.name /\ c.nse = None /\ c.nses = call.nses /\ c.found = call.found /\ c.tried = call.tried
         /\ c.endpoints = call.endpoints /\ c.left = call.left - 1 /\ c.failed = call.failed /\ c.others = call.others
         /\ c.selected = e
    BY <1>2, <1>3, <1>4 DEF DiscoverCall
  <1>13. call' = c
    BY DEF Discovery!Select, Discovery!selectEndpoint, e, f
  <1> HIDE DEF c
  <1>14. DiscoverType'
    <2>1. roundRobin' \in [Forwarder -> Nat]
      BY <1>1, <1>4, <1>7, <1>8 DEF DiscoverType
    <2>2. QED
      BY <1>1, <1>4, <1>11, <1>13, <2>1 DEF DiscoverType
  <1>15. ConnectionInv' /\ CloseInv' /\ KeptInv'
    BY <1>1, <1>4, <1>12, <1>13 DEF DiscoverInv, ConnectionInv, CloseInv, KeptInv
  <1>16. KnownInv'
    BY <1>1, <1>4, <1>10, <1>12, <1>13 DEF KnownInv
  <1>17. TryingInv'
    BY <1>1, <1>4, <1>12, <1>13 DEF TryingInv
  <1>18. RoundRobinInv'
    <2> DEFINE k == Len(call.endpoints) - call.left
    <2>1. k \in Nat /\ k + 1 = Len(call.endpoints) - (call.left - 1) /\ call.left - 1 <= Len(call.endpoints)
      BY <1>1, <1>5, <1>6
    <2>2. roundRobin'[f] = roundRobin[f] + 1
      BY <1>1, <1>4, <1>7 DEF DiscoverType
    <2>3. Overtaken(call.endpoints, roundRobin[f], k, call.others, call.failed)
      BY <1>6
    <2>4. Overtaken(call.endpoints, roundRobin[f] + 1, k + 1, call.others, call.failed \cup {e})
      BY <1>6, <1>8, <2>1, <2>3, OwnTurn DEF e
    <2>6. Overtaken(c.endpoints, roundRobin'[f], k + 1, c.others, c.failed \cup {e})
      BY <1>12, <2>2, <2>4
    <2>7. Len(c.endpoints) - c.left = k + 1 /\ Head(c.nses) = f
      BY <1>12, <2>1 DEF f
    <2> HIDE DEF k
    <2>8. c.endpoints # <<>> /\ c.left <= Len(c.endpoints) /\ c.nses # <<>>
      BY <1>6, <1>12, <2>1
    <2>9. QED
      BY <1>12, <1>13, <2>6, <2>7, <2>8 DEF RoundRobinInv
  <1>19. QED
    BY <1>14, <1>15, <1>16, <1>17, <1>18 DEF DiscoverInv, RequestInv

\* A step of another connection turns the counter, and the call counts it.
LEMMA OtherStep ==
    ASSUME DiscoverInv, NEW f \in Forwarder, Discovery!OtherSelects(f)
    PROVE  DiscoverInv'
  <1>1. UNCHANGED <<matches, registered, forwarderName, path, nseName, has, lost>>
        /\ roundRobin' = [roundRobin EXCEPT ![f] = roundRobin[f] + 1]
        /\ call' = IF call = None \/ call.nses = <<>> \/ call.nses[1] # f THEN call ELSE [call EXCEPT !.others = call.others + 1]
    BY DEF Discovery!OtherSelects, Discovery!selectEndpoint
  <1>2. DiscoverType
    BY DEF DiscoverInv
  <1>3. roundRobin' \in [Forwarder -> Nat] /\ \A g \in Forwarder \ {f} : roundRobin'[g] = roundRobin[g]
    BY <1>1, <1>2 DEF DiscoverType
  <1>4. CASE call' = call /\ (call = None \/ call.nses = <<>> \/ call.nses[1] # f)
    <2>1. DiscoverType'
      BY <1>1, <1>2, <1>3, <1>4 DEF DiscoverType
    <2>2. ConnectionInv' /\ RequestInv' /\ CloseInv' /\ KeptInv'
      BY <1>1, <1>4
        DEF DiscoverInv, ConnectionInv, RequestInv, KnownInv, TryingInv, CloseInv, KeptInv,
            Discovery!ForwarderIsKept, Discovery!Range
    <2>3. RoundRobinInv'
      <3>1. ASSUME call # None, call.nses # <<>>
            PROVE  roundRobin'[Head(call.nses)] = roundRobin[Head(call.nses)]
        <4>1. call.nses \in Seq(Forwarder)
          BY <1>2, <3>1, IsCall, CallFields
        <4>2. Head(call.nses) \in Forwarder /\ Head(call.nses) = call.nses[1]
          BY <3>1, <4>1
        <4>3. QED
          BY <1>3, <1>4, <3>1, <4>2
      <3>2. QED
        BY <1>4, <3>1 DEF DiscoverInv, RoundRobinInv
    <2>4. QED
      BY <2>1, <2>2, <2>3 DEF DiscoverInv
  <1>5. CASE call # None /\ call.nses # <<>> /\ call.nses[1] = f /\ call' = [call EXCEPT !.others = call.others + 1]
    <2> DEFINE c == [call EXCEPT !.others = call.others + 1]
    <2>1. call \in DiscoverCall /\ call.others \in Nat /\ call.others + 1 \in Nat /\ call.nses \in Seq(Forwarder)
          /\ call.endpoints \in Seq(Endpoint) /\ call.left \in Nat
      BY <1>2, <1>5, IsCall, CallFields
    <2>2. c \in DiscoverCall
      BY <2>1 DEF DiscoverCall
    <2>3. c.op = call.op /\ c.at = call.at /\ c.reselect = call.reselect /\ c.was = call.was /\ c.ok = call.ok
          /\ c.name = call.name /\ c.nse = call.nse /\ c.nses = call.nses /\ c.found = call.found /\ c.tried = call.tried
          /\ c.endpoints = call.endpoints /\ c.left = call.left /\ c.selected = call.selected /\ c.failed = call.failed
          /\ c.others = call.others + 1
      BY <2>1 DEF DiscoverCall
    <2>4. call' = c
      BY <1>5
    <2> HIDE DEF c
    <2>5. DiscoverType'
      BY <1>1, <1>2, <1>3, <2>2, <2>4 DEF DiscoverType
    <2>6. ConnectionInv' /\ CloseInv' /\ RoundRobinInv'
      <3>1. Head(call.nses) = f /\ roundRobin[f] \in Nat /\ roundRobin'[f] = roundRobin[f] + 1
        BY <1>1, <1>2, <1>5, <2>1 DEF DiscoverType
      <3>2. ASSUME call.at = "roundrobin" \/ (call.at = "endpoint" /\ call.nse = None)
            PROVE  /\ call.endpoints # <<>> /\ call.left <= Len(call.endpoints)
                   /\ Overtaken(call.endpoints, roundRobin'[f], Len(call.endpoints) - call.left, call.others + 1,
                                call.failed \cup (IF call.at = "endpoint" THEN {call.selected} ELSE {}))
        <4> DEFINE k == Len(call.endpoints) - call.left
                   tried == call.failed \cup (IF call.at = "endpoint" THEN {call.selected} ELSE {})
        <4>1. call.endpoints # <<>> /\ call.left <= Len(call.endpoints)
              /\ Overtaken(call.endpoints, roundRobin[f], k, call.others, tried)
          BY <1>5, <3>1, <3>2 DEF DiscoverInv, RoundRobinInv
        <4>2. k \in Nat
          BY <2>1, <4>1
        <4> HIDE DEF k, tried
        <4>3. Overtaken(call.endpoints, roundRobin[f] + 1, k, call.others + 1, tried)
          BY <2>1, <3>1, <4>1, <4>2, OthersTurn
        <4>4. QED
          BY <3>1, <4>1, <4>3 DEF k, tried
      <3>3. RoundRobinInv'
        BY <1>5, <2>3, <2>4, <3>1, <3>2 DEF RoundRobinInv
      <3>4. QED
        BY <1>1, <1>5, <2>3, <2>4, <3>3 DEF DiscoverInv, ConnectionInv, CloseInv
    <2>7. KeptInv'
      BY <1>1, <1>5, <2>3, <2>4 DEF DiscoverInv, KeptInv, Discovery!ForwarderIsKept
    <2>8. RequestInv'
      BY <1>1, <1>5, <2>3, <2>4 DEF DiscoverInv, RequestInv, KnownInv, TryingInv
    <2>9. QED
      BY <2>5, <2>6, <2>7, <2>8 DEF DiscoverInv
  <1>6. QED
    BY <1>1, <1>4, <1>5

LEMMA EndpointFailsStep ==
    ASSUME DiscoverInv, Discovery!EndpointFails
    PROVE  DiscoverInv'
  <1>1. call # None /\ call.at = "endpoint" /\ call.op = "Request"
        /\ UNCHANGED <<matches, registered, roundRobin, forwarderName, path, nseName, has, lost>>
        /\ call' = IF call.nse # None THEN Discovery!NextForwarder
                   ELSE [call EXCEPT !.at = "roundrobin", !.failed = call.failed \cup {call.selected}]
    BY DEF Discovery!EndpointFails
  <1>2. call \in DiscoverCall
    BY <1>1, IsCall DEF DiscoverInv
  <1>3. KnownInv /\ TryingInv /\ ~ call.ok /\ DiscoverType /\ call.found # {} /\ call.selected # None
    BY <1>1 DEF DiscoverInv, RequestInv, KeptInv, KnownInv, TryingInv
  <1>4. CASE call.nse # None
    BY <1>1, <1>3, <1>4, TriesNext
  <1>5. CASE call.nse = None
    <2> DEFINE c == [call EXCEPT !.at = "roundrobin", !.failed = call.failed \cup {call.selected}]
    <2>1. call.failed \cup {call.selected} \subseteq Endpoint
      BY <1>2, <1>3, CallFields
    <2>2. c \in DiscoverCall
      BY <1>2, <2>1 DEF DiscoverCall
    <2>3. c.op = "Request" /\ c.at = "roundrobin" /\ c.reselect = call.reselect /\ c.was = call.was /\ c.ok = call.ok
          /\ c.name = call.name /\ c.nse = call.nse /\ c.nses = call.nses /\ c.found = call.found /\ c.tried = call.tried
          /\ c.endpoints = call.endpoints /\ c.left = call.left /\ c.failed = call.failed \cup {call.selected}
          /\ c.others = call.others
      BY <1>1, <1>2 DEF DiscoverCall
    <2>4. call' = c
      BY <1>1, <1>5
    <2> HIDE DEF c
    <2>5. DiscoverType'
      BY <1>1, <1>3, <2>2, <2>4 DEF DiscoverType
    <2>6. ConnectionInv' /\ CloseInv' /\ KeptInv'
      BY <1>1, <1>3, <2>3, <2>4 DEF DiscoverInv, ConnectionInv, CloseInv, KeptInv
    <2>7. KnownInv'
      BY <1>1, <1>3, <1>5, <2>3, <2>4 DEF KnownInv
    <2>8. TryingInv'
      BY <1>1, <1>3, <2>3, <2>4 DEF TryingInv
    <2>9. c.endpoints # <<>> /\ c.left <= Len(c.endpoints) /\ c.nses # <<>>
          /\ Overtaken(c.endpoints, roundRobin[Head(c.nses)], Len(c.endpoints) - c.left, c.others, c.failed)
      BY <1>1, <1>5, <2>3 DEF DiscoverInv, RoundRobinInv
    <2>10. RoundRobinInv'
      <3>1. c.failed \cup {} = c.failed
        OBVIOUS
      <3>2. QED
        BY <1>1, <2>3, <2>4, <2>9, <3>1 DEF RoundRobinInv
    <2>11. QED
      BY <2>5, <2>6, <2>7, <2>8, <2>10 DEF DiscoverInv, RequestInv
  <1>6. QED
    BY <1>4, <1>5

LEMMA GiveUpStep ==
    ASSUME DiscoverInv, Discovery!GiveUp
    PROVE  DiscoverInv'
  <1>1. call # None /\ call.at = "roundrobin" /\ call' = Discovery!NextForwarder
        /\ UNCHANGED <<matches, registered, roundRobin, forwarderName, path, nseName, has, lost>>
    BY DEF Discovery!GiveUp
  <1>2. call.op \in {"Request", "Close"}
    BY <1>1, IsCall, CallFields DEF DiscoverInv
  <1>3. call.op = "Request"
    BY <1>1, <1>2 DEF DiscoverInv, CloseInv
  <1>4. call.found # {}
    BY <1>1, <1>3 DEF DiscoverInv, RequestInv, TryingInv
  <1>5. QED
    BY <1>1, <1>3, <1>4, TriesNext

LEMMA AcceptsStep ==
    ASSUME DiscoverInv, Discovery!Accepts
    PROVE  DiscoverInv'
  <1> DEFINE f == Head(call.nses)
             e == call.selected
             c == Discovery!Returns(TRUE)
  <1>1. call # None /\ call.at = "endpoint" /\ call.op = "Request" /\ UNCHANGED <<matches, registered, roundRobin>>
        /\ has' = has \cup {f, e} /\ path' = f /\ nseName' = e
        /\ forwarderName' = (IF call.name = None THEN f ELSE forwarderName)
        /\ lost' = (lost \cup call.tried \cup ({call.was} \ (call.found \cup {None}))) \ {f, e}
        /\ call' = c
    BY DEF Discovery!Accepts, Discovery!storeForwarderName
  <1>2. call \in DiscoverCall
    BY <1>1, IsCall DEF DiscoverInv
  <1>3. KnownInv /\ TryingInv /\ DiscoverType /\ ConnectionInv /\ call.found # {} /\ e # None
    BY <1>1 DEF DiscoverInv, RequestInv, KnownInv, TryingInv
  <1>4. call.nses \in Seq(Forwarder) /\ e \in Endpoint /\ call.nses # <<>>
    BY <1>2, <1>3, CallFields DEF TryingInv
  <1>5. f \in Forwarder /\ f \in Discovery!Range(call.nses) /\ f # None
    <2>1. f \in Forwarder /\ f \in Discovery!Range(call.nses)
      BY <1>4, TailOf
    <2>2. QED
      BY <2>1, ChainsAssumption
  <1>6. c \in DiscoverCall /\ c.op = call.op /\ c.at = "done" /\ c.reselect = call.reselect /\ c.ok = TRUE
        /\ c.was = call.was /\ c.found = call.found /\ c.tried = call.tried
    BY <1>2, ReturnedCall
  <1>7. call.name # None => f = call.name /\ forwarderName = call.name
    BY <1>3, <1>5 DEF KnownInv, TryingInv
  <1>8. ~ call.reselect /\ call.was \in call.found => f = call.was \/ call.was \in call.tried
    BY <1>3 DEF TryingInv
  <1>9. has \subseteq lost \/ (~ call.reselect /\ nseName \in {None, e})
    BY <1>1, <1>3 DEF KnownInv
  <1>10. None \notin Discovery!Host /\ has \subseteq Discovery!Host /\ path = call.was /\ has \subseteq lost \cup {path, nseName}
    BY <1>3, ChainsAssumption DEF Discovery!Host, KnownInv, ConnectionInv, DiscoverType
  <1> HIDE DEF f, e, c
  <1>11. DiscoverType'
    <2>1. has' \subseteq Discovery!Host
      BY <1>1, <1>4, <1>5, <1>10 DEF Discovery!Host
    <2>2. QED
      BY <1>1, <1>3, <1>4, <1>5, <1>6, <2>1 DEF DiscoverType
  <1>12. ConnectionInv'
    <2>1. has' \subseteq lost' \cup {f, e}
      BY <1>1, <1>8, <1>9, <1>10
    <2>2. forwarderName' \in {None, f}
      BY <1>1, <1>7
    <2>3. QED
      BY <1>1, <1>3, <1>5, <2>1, <2>2 DEF ConnectionInv
  <1>13. RequestInv' /\ CloseInv' /\ RoundRobinInv'
    BY <1>1, <1>6 DEF RequestInv, CloseInv, RoundRobinInv
  <1>14. KeptInv'
    BY <1>1, <1>6, <1>8 DEF KeptInv, Discovery!ForwarderIsKept
  <1>15. QED
    BY <1>11, <1>12, <1>13, <1>14 DEF DiscoverInv

-----------------------------------------------------------------------------
(* Close, and the surroundings.                                            *)

LEMMA CloseStep ==
    ASSUME DiscoverInv, NEW reselect \in BOOLEAN, Discovery!Close(reselect)
    PROVE  DiscoverInv'
  <1> DEFINE c == Discovery!Call("Close", reselect)
  <1>1. c \in DiscoverCall /\ c.op = "Close" /\ c.at = "manager" /\ c.reselect = reselect /\ ~ c.ok /\ c.nse = nseName
    BY NewCall DEF DiscoverInv
  <1>2. call' = c /\ nseName # None /\ UNCHANGED <<matches, registered, roundRobin, forwarderName, path, nseName, has, lost>>
    BY DEF Discovery!Close
  <1> HIDE DEF c
  <1>3. DiscoverType'
    BY <1>1, <1>2 DEF DiscoverInv, DiscoverType
  <1>4. ConnectionInv' /\ RequestInv' /\ CloseInv' /\ RoundRobinInv' /\ KeptInv'
    BY <1>1, <1>2 DEF DiscoverInv, ConnectionInv, RequestInv, CloseInv, RoundRobinInv, KeptInv
  <1>5. QED
    BY <1>3, <1>4 DEF DiscoverInv

LEMMA ListOf ==
    ASSUME NEW n \in Nat, NEW S, NEW s \in [1 .. n -> S]
    PROVE  s \in Seq(S) /\ Len(s) = n
  OBVIOUS

\* The list of one forwarder.
LEMMA OneInList ==
    ASSUME NEW f \in Forwarder
    PROVE  Discovery!SetToSeq({f}) \in Seq(Forwarder) /\ Discovery!SetToSeq({f}) # <<>> /\ Head(Discovery!SetToSeq({f})) = f
  <1> DEFINE s == [i \in 1 .. 1 |-> f]
             t == Discovery!SetToSeq({f})
  <1>1. Discovery!Cardinality({f}) = 1
    BY FS_Singleton, SameCardinality
  <1>2. s \in [1 .. 1 -> {f}] /\ Discovery!IsInjective(s)
    BY DEF Discovery!IsInjective
  <1>3. t = CHOOSE g \in [1 .. 1 -> {f}] : Discovery!IsInjective(g)
    BY <1>1 DEF Discovery!SetToSeq
  <1> HIDE DEF t, s
  <1>4. t \in [1 .. 1 -> {f}]
    BY <1>2, <1>3
  <1>5. t \in Seq({f}) /\ Len(t) = 1 /\ t[1] = f
    <2> DEFINE n == 1
               S == {f}
    <2>1. n \in Nat /\ n = 1 /\ t \in [1 .. n -> S]
      BY <1>4
    <2> HIDE DEF n, S
    <2>2. t \in Seq(S) /\ Len(t) = n
      BY <2>1, ListOf
    <2>3. t[1] \in S
      BY <2>1
    <2>4. QED
      BY <2>1, <2>2, <2>3 DEF S
  <1>6. QED
    BY <1>5 DEF t

LEMMA CloseAtManagerStep ==
    ASSUME DiscoverInv, Discovery!CloseAtManager
    PROVE  DiscoverInv'
  <1> DEFINE name == Discovery!CloseName
             found == IF name = None THEN {} ELSE Discovery!MatchNetworkServiceEndpoints(name, Forwarder)
  <1>1. call # None /\ call.at = "manager" /\ call.op = "Close" /\ forwarderName' = None
        /\ UNCHANGED <<matches, registered, roundRobin, path, nseName, has>>
    BY DEF Discovery!CloseAtManager
  <1>2. call \in DiscoverCall
    BY <1>1, IsCall DEF DiscoverInv
  <1>3. DiscoverType /\ ConnectionInv /\ CloseInv /\ ~ call.ok
    BY <1>1 DEF DiscoverInv, KeptInv
  <1>4. call.nse = nseName /\ nseName # None /\ path # None /\ path \in Forwarder
    BY <1>1, <1>3 DEF CloseInv, ConnectionInv, DiscoverType
  <1>5. name = path
    BY <1>3, <1>4 DEF Discovery!CloseName, Discovery!loadForwarderName, ConnectionInv
  <1>6. found = IF registered[path] # "none" THEN {path} ELSE {}
    BY <1>4, <1>5 DEF Discovery!MatchNetworkServiceEndpoints
  <1>7. CASE registered[path] = "none"
    <2>1. call' = Discovery!Returns(FALSE) /\ lost' = lost \cup has
      BY <1>4, <1>6, <1>7 DEF Discovery!CloseAtManager
    <2>2. QED
      BY <1>1, <2>1, ReturnsFailed
  <1>8. CASE registered[path] # "none"
    <2> DEFINE fs == Discovery!SetToSeq({path})
               c == [call EXCEPT !.at = "forwarder", !.nses = fs]
    <2>1. call' = c /\ lost' = lost
      BY <1>6, <1>8 DEF Discovery!CloseAtManager
    <2>2. fs \in Seq(Forwarder) /\ fs # <<>> /\ Head(fs) = path
      BY <1>4, OneInList
    <2> HIDE DEF fs
    <2>3. c \in DiscoverCall
      BY <1>2, <2>2 DEF DiscoverCall
    <2>4. c.op = "Close" /\ c.at = "forwarder" /\ c.nse = call.nse /\ c.nses = fs /\ c.ok = call.ok
      BY <1>1, <1>2 DEF DiscoverCall
    <2> HIDE DEF c
    <2>5. DiscoverType'
      BY <1>1, <1>3, <2>1, <2>3 DEF DiscoverType
    <2>6. ConnectionInv' /\ RequestInv' /\ CloseInv' /\ RoundRobinInv' /\ KeptInv'
      BY <1>1, <1>3, <1>4, <2>1, <2>2, <2>4 DEF ConnectionInv, RequestInv, CloseInv, RoundRobinInv, KeptInv
    <2>7. QED
      BY <2>5, <2>6 DEF DiscoverInv
  <1>9. QED
    BY <1>7, <1>8

LEMMA CloseAtForwarderStep ==
    ASSUME DiscoverInv, Discovery!CloseAtForwarder
    PROVE  DiscoverInv'
  <1> DEFINE closed == {Head(call.nses)} \cup Discovery!MatchNetworkServiceEndpoints(call.nse, Endpoint)
             c == Discovery!Returns(TRUE)
  <1>1. call # None /\ call.at = "forwarder" /\ call' = c
        /\ UNCHANGED <<matches, registered, roundRobin, forwarderName, path, nseName>>
        /\ has' = has \ closed /\ lost' = lost \cup ({call.nse} \ closed)
    BY DEF Discovery!CloseAtForwarder
  <1>2. call \in DiscoverCall
    BY <1>1, IsCall DEF DiscoverInv
  <1>3. DiscoverType /\ ConnectionInv /\ CloseInv
    BY DEF DiscoverInv
  <1>4. call.op = "Close"
    BY <1>1, <1>2, CallFields DEF DiscoverInv, RequestInv, KnownInv
  <1>5. call.nse = nseName /\ nseName # None /\ Head(call.nses) = path
    BY <1>1, <1>3, <1>4 DEF CloseInv
  <1>6. c \in DiscoverCall /\ c.op = "Close" /\ c.at = "done" /\ c.nse = call.nse
    BY <1>2, <1>4, ReturnedCall
  <1>7. c # None
    BY <1>6, ChainsAssumption
  <1>8. path \in closed
    BY <1>5
  <1> HIDE DEF closed, c
  <1>9. has' \subseteq lost'
    BY <1>1, <1>3, <1>5, <1>8 DEF ConnectionInv
  <1>10. DiscoverType'
    BY <1>1, <1>3, <1>6 DEF DiscoverType
  <1>11. ConnectionInv'
    BY <1>1, <1>3, <1>9 DEF ConnectionInv
  <1>12. RequestInv' /\ CloseInv' /\ RoundRobinInv' /\ KeptInv'
    BY <1>1, <1>5, <1>6, <1>7, <1>9 DEF RequestInv, CloseInv, RoundRobinInv, KeptInv, Discovery!ForwarderIsKept
  <1>13. QED
    BY <1>10, <1>11, <1>12 DEF DiscoverInv

LEMMA CloseFailsStep ==
    ASSUME DiscoverInv, Discovery!CloseFails
    PROVE  DiscoverInv'
  BY ReturnsFailed DEF Discovery!CloseFails

LEMMA FinishStep ==
    ASSUME DiscoverInv, Discovery!Finish
    PROVE  DiscoverInv'
  <1>1. call # None /\ call.at = "done" /\ UNCHANGED <<matches, registered, roundRobin, forwarderName, has, lost>>
    BY DEF Discovery!Finish
  <1>2. DiscoverType /\ ConnectionInv
    BY DEF DiscoverInv
  <1>3. call.op = "Close" => has \subseteq lost
    BY <1>1 DEF DiscoverInv, CloseInv
  <1>4. CASE call.op = "Close" /\ call.reselect
    <2> DEFINE c == Discovery!Call("Request", TRUE)
    <2>1. c \in DiscoverCall /\ c.op = "Request" /\ c.at = "manager" /\ c.reselect /\ ~ c.ok /\ c.was = path
          /\ c.name = None /\ c.nse = None /\ c.nses = <<>> /\ c.found = {} /\ c.tried = {}
      BY <1>2, NewCall
    <2>2. call' = c /\ UNCHANGED <<path, nseName>>
      BY <1>4 DEF Discovery!Finish
    <2> HIDE DEF c
    <2>3. DiscoverType'
      BY <1>1, <1>2, <2>1, <2>2 DEF DiscoverType
    <2>4. KnownInv'
      BY <1>1, <1>3, <1>4, <2>1, <2>2 DEF KnownInv
    <2>5. TryingInv'
      BY <2>1, <2>2 DEF TryingInv
    <2>6. ConnectionInv' /\ CloseInv' /\ RoundRobinInv' /\ KeptInv'
      BY <1>1, <1>2, <2>1, <2>2 DEF ConnectionInv, CloseInv, RoundRobinInv, KeptInv
    <2>7. QED
      BY <2>3, <2>4, <2>5, <2>6 DEF DiscoverInv, RequestInv
  <1>5. CASE ~ (call.op = "Close" /\ call.reselect)
    <2>1. call' = None /\ path' = (IF call.op = "Close" THEN None ELSE path)
          /\ nseName' = (IF call.op = "Close" THEN None ELSE nseName)
      BY <1>5 DEF Discovery!Finish
    <2>2. DiscoverType'
      BY <1>1, <1>2, <2>1 DEF DiscoverType
    <2>3. ConnectionInv'
      BY <1>1, <1>2, <1>3, <2>1 DEF ConnectionInv
    <2>4. RequestInv' /\ CloseInv' /\ RoundRobinInv' /\ KeptInv'
      BY <2>1 DEF RequestInv, CloseInv, RoundRobinInv, KeptInv
    <2>5. QED
      BY <2>2, <2>3, <2>4 DEF DiscoverInv
  <1>6. QED
    BY <1>4, <1>5

LEMMA RegisterStep ==
    ASSUME DiscoverInv, NEW h \in Discovery!Host, NEW state \in {"none", "live", "expired"}, Discovery!Register(h, state)
    PROVE  DiscoverInv'
  <1>1. registered' = [registered EXCEPT ![h] = state]
        /\ UNCHANGED <<matches, roundRobin, forwarderName, path, nseName, has, lost, call>>
    BY DEF Discovery!Register
  <1>2. DiscoverType'
    BY <1>1 DEF DiscoverInv, DiscoverType
  <1>3. QED
    BY <1>1, <1>2 DEF DiscoverInv, ConnectionInv, RequestInv, KnownInv, TryingInv, CloseInv, RoundRobinInv, KeptInv,
                      Discovery!ForwarderIsKept

LEMMA RestartStep ==
    ASSUME DiscoverInv, Discovery!Restart
    PROVE  DiscoverInv'
  <1>1. forwarderName' = None /\ UNCHANGED <<matches, registered, roundRobin, path, nseName, has>>
        /\ call' = (IF call = None \/ call.at = "done" THEN call ELSE Discovery!Returns(FALSE))
        /\ lost' = (IF call # None /\ call.op = "Close" /\ call.at # "done" THEN lost \cup has ELSE lost)
    BY DEF Discovery!Restart
  <1>2. CASE call = None \/ call.at = "done"
    <2>1. call' = call /\ lost' = lost
      BY <1>1, <1>2
    <2>2. DiscoverType' /\ ConnectionInv'
      BY <1>1, <2>1 DEF DiscoverInv, DiscoverType, ConnectionInv
    <2>3. RequestInv' /\ CloseInv' /\ RoundRobinInv' /\ KeptInv'
      BY <1>1, <1>2, <2>1 DEF DiscoverInv, RequestInv, CloseInv, RoundRobinInv, KeptInv, Discovery!ForwarderIsKept
    <2>4. QED
      BY <2>2, <2>3 DEF DiscoverInv
  <1>3. CASE ~ (call = None \/ call.at = "done")
    BY <1>1, <1>3, ReturnsFailed
  <1>4. QED
    BY <1>2, <1>3

LEMMA DiscoverNext ==
    ASSUME DiscoverInv, Discovery!DiscoverNext
    PROVE  DiscoverInv'
  BY RequestStep, FindStep, FindFailsStep, DiscoverStep, DiscoverFailsStep, SelectStep, EndpointFailsStep, GiveUpStep,
     AcceptsStep, CloseStep, CloseAtManagerStep, CloseAtForwarderStep, CloseFailsStep, FinishStep, OtherStep,
     RegisterStep, RestartStep DEF Discovery!DiscoverNext

LEMMA DiscoverSame ==
    ASSUME DiscoverInv, UNCHANGED <<matches, registered, roundRobin, forwarderName, path, nseName, has, lost, call>>
    PROVE  DiscoverInv'
  BY DEF DiscoverInv, DiscoverType, ConnectionInv, RequestInv, KnownInv, TryingInv, CloseInv, RoundRobinInv, KeptInv,
         Discovery!ForwarderIsKept

LEMMA DiscoverFits ==
    ASSUME DiscoverInv
    PROVE  /\ Discovery!ForwarderIsKept /\ Discovery!ClosedEverywhere
           /\ Discovery!AllCandidatesAreTried /\ Discovery!FallthroughFinds
  <1>1. Discovery!ForwarderIsKept
    BY DEF DiscoverInv, KeptInv, Discovery!ForwarderIsKept
  <1>2. Discovery!ClosedEverywhere
    <2> SUFFICES ASSUME nseName = None PROVE has \subseteq lost
      BY DEF Discovery!ClosedEverywhere
    <2>1. path = None /\ has \subseteq lost \cup {None} /\ has \subseteq Discovery!Host
      BY DEF DiscoverInv, ConnectionInv, DiscoverType
    <2>2. None \notin Discovery!Host
      BY ChainsAssumption DEF Discovery!Host
    <2>3. QED
      BY <2>1, <2>2
  <1>3. Discovery!AllCandidatesAreTried
    <2> SUFFICES ASSUME call # None, call.at = "roundrobin", call.left = 0
                 PROVE  Cardinality(Discovery!Range(call.endpoints) \ call.failed) <= call.others
      BY SameCardinality DEF Discovery!AllCandidatesAreTried
    <2>1. call.endpoints \in Seq(Endpoint) /\ call.nses \in Seq(Forwarder) /\ call.others \in Nat
          /\ call.failed \cup {} = call.failed
      BY IsCall, CallFields DEF DiscoverInv
    <2> DEFINE n == Len(call.endpoints)
               counter == roundRobin[Head(call.nses)]
    <2>2. n \in Nat /\ n - 0 = n
      BY <2>1
    <2>3. call.endpoints # <<>> /\ call.nses # <<>> /\ Overtaken(call.endpoints, counter, n, call.others, call.failed)
      BY <2>1, <2>2 DEF DiscoverInv, RoundRobinInv
    <2>4. Head(call.nses) \in Forwarder
      BY <2>1, <2>3, TailOf
    <2>5. counter \in Nat
      BY <2>4 DEF DiscoverInv, DiscoverType
    <2> HIDE DEF counter
    <2>6. QED
      BY <2>1, <2>3, <2>5, TurnsAll
  <1>4. Discovery!FallthroughFinds
    <2> DEFINE nses == Discovery!SetToSeq(Discovery!validateExpirationTime(Discovery!MatchNetworkServiceEndpoints(None, Endpoint)))
               ms == Discovery!DecideEndpoint(nses)
    <2> SUFFICES ASSUME \A i \in DOMAIN matches : matches[i].fallthrough,
                        NEW i \in DOMAIN matches,
                        Discovery!IsSubset(NsLabels, matches[i].source, NsLabels), Discovery!Candidates(matches[i], nses) # <<>>
                 PROVE  Discovery!MatchEndpoint(nses) # <<>>
      BY DEF Discovery!FallthroughFinds
    <2> HIDE DEF nses
    <2>1. matches \in Matches
      BY DEF DiscoverInv, DiscoverType
    <2>2. ms \in SUBSET Nat
      BY <2>1, ChainsAssumption DEF Discovery!DecideEndpoint
    <2>3. i \in ms
      BY DEF Discovery!DecideEndpoint
    <2>4. \A j \in ms : j \in DOMAIN matches /\ Discovery!Candidates(matches[j], nses) # <<>>
      BY DEF Discovery!DecideEndpoint
    <2> HIDE DEF ms
    <2>5. Discovery!Min(ms) \in ms
      BY <2>2, <2>3, LeastIn
    <2> DEFINE m == matches[Discovery!Min(ms)]
    <2>6. Discovery!Candidates(m, nses) # <<>>
      BY <2>4, <2>5
    <2>7. ms # {} /\ matches # <<>>
      BY <2>3
    <2>8. m.routes = <<>> => Discovery!Candidates(m, nses) = <<>>
      <3>1. SUFFICES ASSUME m.routes = <<>> PROVE Discovery!Candidates(m, nses) = <<>>
        OBVIOUS
      <3>2. Len(m.routes) = 0
        BY <3>1
      <3>3. QED
        BY <3>2, NoCandidates
    <2> HIDE DEF m
    <2>9. Discovery!MatchEndpoint(nses) = Discovery!Candidates(m, nses)
      BY <2>6, <2>7, <2>8 DEF Discovery!MatchEndpoint, ms, m
    <2>10. QED
      BY <2>6, <2>9
  <1>5. QED
    BY <1>1, <1>2, <1>3, <1>4

-----------------------------------------------------------------------------
DiscoveryInv == part = "discover" => DiscoverInv

LEMMA DiscoveryNext ==
    ASSUME DiscoveryInv, [MCNext \/ Done]_allVars
    PROVE  DiscoveryInv'
  <1>1. CASE part = "discover" /\ Discovery!DiscoverNext /\ part' = part
    BY <1>1, DiscoverNext DEF DiscoveryInv
  <1>2. CASE part # "discover" /\ part' = part
    BY <1>2 DEF DiscoveryInv
  <1>3. CASE UNCHANGED allVars
    <2>1. UNCHANGED <<matches, registered, roundRobin, forwarderName, path, nseName, has, lost, call>>
      BY <1>3 DEF allVars, shared, discoverOnly
    <2>2. part' = part
      BY <1>3 DEF allVars
    <2>3. QED
      BY <2>1, <2>2, DiscoverSame DEF DiscoveryInv
  <1>4. QED
    BY <1>1, <1>2, <1>3 DEF MCNext, Done

LEMMA DiscoverySafe == MCSpec => []DiscoveryInv
  <1>1. MCInit => DiscoveryInv
    BY DiscoverInit DEF MCInit, DiscoveryInv
  <1>2. DiscoveryInv /\ [MCNext \/ Done]_allVars => DiscoveryInv'
    BY DiscoveryNext
  <1>3. QED
    BY <1>1, <1>2, PTL DEF MCSpec

\* discoverforwarder: for any forwarders, endpoints, matches and labels, and any number
\* of calls, failures, changes of the registry and restarts, a connection moves only if
\* reselected or if its forwarder has failed or was not there; and a Close leaves
\* nothing behind that it could get to.
THEOREM ForwarderHolds == MCSpec => []ForwarderIsKept
  <1>1. DiscoveryInv => ForwarderIsKept
    BY DiscoverFits DEF DiscoveryInv, ForwarderIsKept
  <1>2. QED
    BY <1>1, DiscoverySafe, PTL

\* discover, roundrobin: however far the counter is, however many candidates there are and
\* however often Requests of other connections turn the counter in between, a forwarder
\* that gives up has missed at most one candidate for each of their turns, and none without
\* them; and a match that falls through hides no candidate of a later one.
THEOREM CandidatesHold == MCSpec => []AllCandidatesAreTried
  <1>1. DiscoveryInv => AllCandidatesAreTried
    BY DiscoverFits DEF DiscoveryInv, AllCandidatesAreTried
  <1>2. QED
    BY <1>1, DiscoverySafe, PTL
-----------------------------------------------------------------------------
(* Paths.                                                                  *)

PathsType ==
    /\ kind \in PathKinds /\ creds \in BOOLEAN /\ route \in Routes /\ last \in Routes \cup {<<>>}
    /\ ids \in Nat /\ calls \in Nat
    /\ known \in [Path!Process -> SUBSET Nat]
    /\ mine \in (IF kind = "conn" THEN ConnPath ELSE RegPath)
    /\ call # None => call \in PathCall(IF kind = "conn" THEN ConnPath ELSE RegPath)

\* The processes that have their segment.
Reached == IF call.down THEN call.at - 1 ELSE Len(route)

\* How far the call is, and the indexes to set back.
WayInv ==
    call # None =>
        /\ IF call.down THEN call.at >= 2 /\ Len(call.saved) = call.at - 2
                        ELSE call.at \in 1 .. Len(route) /\ Len(call.saved) = call.at - 1 /\ Len(route) >= 2
        /\ call.down => call.at <= Len(route) + 1
        /\ \A j \in 1 .. Len(call.saved) : call.saved[j] = [server |-> j - 1, client |-> j]

DistinctIds(s) == \A k, l \in 1 .. Len(s) : k # l => s[k].id # s[l].id
OldIds(s, n) == \A k \in 1 .. Len(s) : s[k].id <= n

\* The path that the client has, and who knows its ids.
MineInv ==
    IF mine = Path!NoPath THEN TRUE
    ELSE /\ last # <<>> /\ Len(mine.segments) = Len(last) /\ mine.index = 0 /\ mine.id = mine.segments[1].id
         /\ \A k \in 1 .. Len(last) : mine.segments[k].name = last[k]
         /\ DistinctIds(mine.segments) /\ OldIds(mine.segments, ids)
         /\ \A k \in 1 .. Len(last) : k > 1 \/ creds => mine.segments[k].token = mine.segments[Len(last)].token

\* What the processes know: the ids of the client's path, those that an answer has passed,
\* and no more those that a Close has passed or ended.
IdsKnown ==
    (call = None \/ call.op = "Request") /\ mine # Path!NoPath =>
        \A k \in 2 .. Len(last) : mine.segments[k].id \in known[last[k]]

TakenInv ==
    call # None /\ call.op = "Request" /\ ~ call.down =>
        \A k \in call.at + 1 .. Len(route) : call.msg.segments[k].id \in known[route[k]]

ClosedInv ==
    call # None /\ call.op = "Close" =>
        /\ route = last /\ mine # Path!NoPath
        /\ \A k \in 2 .. Len(last) : ~ call.down \/ k < call.at => mine.segments[k].id \notin known[last[k]]

EndedInv ==
    IF ended = <<>> THEN TRUE
    ELSE Len(ended) = Len(last) /\ \A k \in 2 .. Len(last) : ended[k].id \notin known[last[k]]

AwareInv ==
    /\ \A r \in Routes : known[r[1]] = {}
    /\ IdsKnown /\ TakenInv /\ ClosedInv
    /\ call = None => ended \in Seq(Seg) /\ EndedInv
    /\ call # None => ended = <<>>

\* The segments of a path on its way: their names and tokens, their ids, where the path
\* is, and what it has from the last one.
NamesInv ==
    call # None =>
        LET s == call.msg.segments IN
        /\ Len(s) >= Reached
        /\ \A k \in 1 .. Reached : s[k].name = route[k]
        /\ \A k \in 1 .. Reached : k > 1 \/ (creds /\ Reached > 1) => s[k].token = calls

IdsInv ==
    call # None =>
        LET s == call.msg.segments IN
        /\ DistinctIds(s) /\ OldIds(s, ids)
        /\ mine # Path!NoPath => \A k \in 1 .. Reached : k <= Len(last) /\ last[k] = route[k] => s[k].id = mine.segments[k].id

PlaceInv ==
    call # None =>
        LET s == call.msg.segments IN
        /\ call.down => call.msg.index = call.at - 2 /\ call.msg.id = s[call.at - 1].id
        /\ ~ call.down /\ call.op = "Request" =>
              call.msg.index = call.at - 1 /\ call.msg.id = s[call.at].id /\ (call.at < Len(route) => Len(s) = Len(route))

RestInv ==
    call # None /\ call.down =>
        LET s == call.msg.segments IN
        /\ mine # Path!NoPath => Len(s) >= Len(last)
        /\ \A k \in 1 .. Len(s) : k > Reached => mine # Path!NoPath /\ k <= Len(last) /\ s[k] = mine.segments[k]

SegmentsInv == NamesInv /\ IdsInv /\ PlaceInv /\ RestInv

ConnInv == kind = "conn" => MineInv /\ AwareInv /\ SegmentsInv

\* The ids of the processes in a registration.
RegistrationInv ==
    kind # "conn" =>
        /\ mine.index = 0
        /\ creds /\ mine # Path!NoPath => Len(mine.pathIds) >= Len(last) /\ \A k \in 1 .. Len(last) : mine.pathIds[k] = last[k]
        /\ call # None =>
              /\ call.msg.index = IF call.down THEN call.at - 2 ELSE call.at - 1
              /\ call.msg.segments = <<>> => call.down /\ call.at = 2
              /\ creds /\ Reached > 1 =>
                    Len(call.msg.pathIds) >= Reached /\ \A k \in 1 .. Reached : call.msg.pathIds[k] = route[k]

PathsInv == PathsType /\ WayInv /\ ConnInv /\ RegistrationInv

LEMMA RouteFacts ==
    ASSUME NEW r \in Routes
    PROVE  /\ r \in Seq(Path!Process) /\ Len(r) \in Nat /\ Len(r) > 0 /\ DOMAIN r = 1 .. Len(r)
           /\ \A i \in 1 .. Len(r) : r[i] \in Path!Process
           /\ \A i, j \in 1 .. Len(r) : i # j => r[i] # r[j]
           /\ \A s \in Routes : s[1] = r[1]
  <1>1. r \in Seq(Path!Process) /\ Len(r) > 0
    BY RoutesAssumption
  <1>2. Len(r) \in Nat /\ DOMAIN r = 1 .. Len(r) /\ \A i \in 1 .. Len(r) : r[i] \in Path!Process
    BY <1>1
  <1>3. QED
    BY <1>1, <1>2, RoutesAssumption

\* One element of a list is replaced, or added.
LEMMA ReplacedIn ==
    ASSUME NEW S, NEW s \in Seq(S), NEW i \in 1 .. Len(s), NEW v \in S
    PROVE  LET t == [s EXCEPT ![i] = v] IN
           /\ t \in Seq(S) /\ Len(t) = Len(s)
           /\ \A k \in 1 .. Len(s) : t[k] = IF k = i THEN v ELSE s[k]
  <1> DEFINE t == [s EXCEPT ![i] = v]
             n == Len(s)
  <1>1. n \in Nat /\ s \in [1 .. n -> S] /\ i \in 1 .. n
    OBVIOUS
  <1> HIDE DEF n
  <1>2. t \in [1 .. n -> S] /\ \A k \in 1 .. n : t[k] = IF k = i THEN v ELSE s[k]
    BY <1>1
  <1> HIDE DEF t
  <1>3. t \in Seq(S) /\ Len(t) = n
    BY <1>1, <1>2, ListOf
  <1>4. QED
    BY <1>2, <1>3 DEF t, n

LEMMA AppendedTo ==
    ASSUME NEW S, NEW s \in Seq(S), NEW v \in S
    PROVE  LET t == Append(s, v) IN
           /\ t \in Seq(S) /\ Len(t) = Len(s) + 1 /\ t[Len(s) + 1] = v
           /\ \A k \in 1 .. Len(s) : t[k] = s[k]
  OBVIOUS

\* A token is set.
WithToken(c, i, v) == [c EXCEPT !.segments[i].token = v]

DifferInToken(c, d, i, v) ==
    /\ d \in ConnPath /\ d.id = c.id /\ d.index = c.index
    /\ Len(d.segments) = Len(c.segments)
    /\ \A k \in 1 .. Len(c.segments) :
          /\ d.segments[k].name = c.segments[k].name /\ d.segments[k].id = c.segments[k].id
          /\ d.segments[k].token = IF k = i THEN v ELSE c.segments[k].token
          /\ k # i => d.segments[k] = c.segments[k]

LEMMA TokenSet ==
    ASSUME NEW c \in ConnPath, NEW i \in 1 .. Len(c.segments), NEW v \in Nat
    PROVE  DifferInToken(c, WithToken(c, i, v), i, v)
  <1> DEFINE s == c.segments
             g == [s[i] EXCEPT !.token = v]
             t == [s EXCEPT ![i] = g]
             d == [c EXCEPT !.segments = t]
  <1>1. WithToken(c, i, v) = d
    BY DEF WithToken
  <1>2. s \in Seq(Seg) /\ c.id \in Nat \cup {None} /\ c.index \in Nat
    BY DEF ConnPath
  <1>3. s[i] \in Seg
    BY <1>2
  <1>4. g \in Seg /\ g.name = s[i].name /\ g.id = s[i].id /\ g.token = v
    BY <1>3 DEF Seg
  <1> HIDE DEF g
  <1>5. t \in Seq(Seg) /\ Len(t) = Len(s) /\ \A k \in 1 .. Len(s) : t[k] = IF k = i THEN g ELSE s[k]
    BY <1>2, <1>4, ReplacedIn
  <1> HIDE DEF t
  <1>6. d \in ConnPath /\ d.id = c.id /\ d.index = c.index /\ d.segments = t
    BY <1>5 DEF ConnPath
  <1> HIDE DEF d
  <1>7. QED
    BY <1>1, <1>4, <1>5, <1>6 DEF DifferInToken

\* The next segment of the path: it is the one that is there, gets another name and id,
\* or is added.
Extended(c, d, a, p, new) ==
    LET s == c.segments  t == d.segments IN
    /\ d \in ConnPath /\ d.index = a - 1
    /\ Len(t) = (IF a > Len(s) THEN a ELSE Len(s))
    /\ \A k \in 1 .. Len(s) : k # a => t[k] = s[k]
    /\ t[a].name = p /\ d.id = t[a].id
    /\ t[a].id = IF a <= Len(s) /\ s[a].name = p THEN s[a].id ELSE new

LEMMA NextSegment ==
    ASSUME NEW c \in ConnPath, NEW a \in Nat, a >= 2, Len(c.segments) >= a - 1, c.index = a - 2,
           NEW p \in Path!Process, c.segments[a - 1].name # p, c.id = c.segments[a - 1].id, NEW new \in Nat
    PROVE  Extended(c, Path!updatePath(c, p, new), a, p, new)
  <1> DEFINE s == c.segments
             n == Len(s)
             d == Path!updatePath(c, p, new)
  <1>1. s \in Seq(Seg) /\ n \in Nat /\ c.id \in Nat \cup {None}
    BY DEF ConnPath
  <1>2. n # 0 /\ c.index < n /\ c.index + 1 = a - 1 /\ c.index + 2 = a /\ ~(c.index >= n)
    BY <1>1
  <1>3. Path!Current(c) = s[a - 1]
    BY <1>2 DEF Path!Current
  <1>4. Path!Segment(p, new) \in Seg /\ Path!Segment(p, new).name = p /\ Path!Segment(p, new).id = new
    BY DEF Seg, Path!Segment
  <1>5. d = IF a > n
            THEN [c EXCEPT !.id = new, !.index = c.index + 1, !.segments = Append(s, Path!Segment(p, new))]
            ELSE LET moved == IF s[a].name = p THEN c
                              ELSE [c EXCEPT !.segments[a].name = p, !.segments[a].id = new]
                 IN  [moved EXCEPT !.id = moved.segments[a].id, !.index = moved.index + 1]
    <2> DEFINE X0 == LET id == IF c.id = None THEN new ELSE c.id
                     IN  [c EXCEPT !.id = id, !.index = 0, !.segments = <<Path!Segment(p, id)>>]
               X1 == [c EXCEPT !.id = Path!Current(c).id]
               X3(next) == [c EXCEPT !.id = new, !.index = c.index + 1, !.segments = Append(s, Path!Segment(p, new))]
               X4(next) == LET moved == IF s[next].name = p THEN c
                                        ELSE [c EXCEPT !.segments[next].name = p, !.segments[next].id = new]
                           IN  [moved EXCEPT !.id = moved.segments[next].id, !.index = moved.index + 1]
    <2>1. d = IF n = 0 THEN X0
              ELSE IF c.index < n /\ Path!Current(c).name = p THEN X1
              ELSE IF c.index >= n \/ Path!Current(c).id # c.id THEN None
              ELSE IF c.index + 2 > n THEN X3(c.index + 2) ELSE X4(c.index + 2)
      BY DEF Path!updatePath
    <2> HIDE DEF d, X0, X1, X3, X4
    <2>2. d = IF a > n THEN X3(a) ELSE X4(a)
      BY <1>2, <1>3, <2>1
    <2>3. QED
      BY <2>2 DEF X3, X4
  <1>6. CASE a > n
    <2> DEFINE t == Append(s, Path!Segment(p, new))
    <2>1. a = n + 1
      BY <1>1, <1>6
    <2>2. t \in Seq(Seg) /\ Len(t) = n + 1 /\ t[n + 1] = Path!Segment(p, new) /\ \A k \in 1 .. n : t[k] = s[k]
      BY <1>1, <1>4, AppendedTo
    <2> HIDE DEF t
    <2>3. d = [c EXCEPT !.id = new, !.index = c.index + 1, !.segments = t]
      BY <1>5, <1>6 DEF t
    <2> HIDE DEF d
    <2>4. c.index + 1 = a - 1 /\ a - 1 \in Nat
      BY <1>2
    <2>5. d \in ConnPath /\ d.id = new /\ d.index = a - 1 /\ d.segments = t
      BY <2>2, <2>3, <2>4 DEF ConnPath
    <2>6. ~(a <= n) /\ \A k \in 1 .. n : k # a
      BY <2>1, <1>1
    <2>7. QED
      BY <1>4, <1>6, <2>1, <2>2, <2>5, <2>6 DEF d, Extended
  <1>7. CASE ~(a > n) /\ s[a].name = p
    <2>1. a \in 1 .. n
      BY <1>1, <1>7
    <2>2. s[a] \in Seg
      BY <1>1, <2>1
    <2>3. d = [c EXCEPT !.id = s[a].id, !.index = c.index + 1]
      BY <1>5, <1>7
    <2> HIDE DEF d
    <2>4. c.index + 1 = a - 1 /\ a - 1 \in Nat
      BY <1>2
    <2>5. s[a].id \in Nat
      BY <2>2 DEF Seg
    <2>6. d \in ConnPath /\ d.id = s[a].id /\ d.index = a - 1 /\ d.segments = s
      BY <2>3, <2>4, <2>5 DEF ConnPath
    <2>7. QED
      BY <1>7, <2>1, <2>6 DEF d, Extended
  <1>8. CASE ~(a > n) /\ s[a].name # p
    <2> DEFINE g == [s[a] EXCEPT !.name = p, !.id = new]
               t == [s EXCEPT ![a] = g]
               e == [c EXCEPT !.segments = t]
    <2>1. a \in 1 .. n
      BY <1>1, <1>8
    <2>2. s[a] \in Seg
      BY <1>1, <2>1
    <2>3. g \in Seg /\ g.name = p /\ g.id = new
      BY <2>2 DEF Seg
    <2>4. [c EXCEPT !.segments[a].name = p, !.segments[a].id = new] = e
      <3>1. c = [id |-> c.id, index |-> c.index, segments |-> s, pathIds |-> c.pathIds]
        BY DEF ConnPath
      <3>2. [s EXCEPT ![a].name = p, ![a].id = new] = t
        BY <1>1, <2>1, <2>2 DEF Seg
      <3>3. [c EXCEPT !.segments[a].name = p, !.segments[a].id = new]
              = [c EXCEPT !.segments = [s EXCEPT ![a].name = p, ![a].id = new]]
        BY <3>1
      <3>4. QED
        BY <3>2, <3>3
    <2> HIDE DEF g
    <2>5. t \in Seq(Seg) /\ Len(t) = n /\ \A k \in 1 .. n : t[k] = IF k = a THEN g ELSE s[k]
      BY <1>1, <2>1, <2>3, ReplacedIn
    <2> HIDE DEF t
    <2>6. e \in ConnPath /\ e.index = c.index /\ e.segments = t
      BY <2>5 DEF ConnPath
    <2>7. d = [e EXCEPT !.id = e.segments[a].id, !.index = e.index + 1]
      BY <1>5, <1>8, <2>4
    <2> HIDE DEF e, d
    <2>8. e.segments[a].id = new /\ e.index + 1 = a - 1 /\ a - 1 \in Nat
      BY <1>2, <2>1, <2>3, <2>5, <2>6
    <2>9. d \in ConnPath /\ d.id = new /\ d.index = a - 1 /\ d.segments = t
      BY <2>6, <2>7, <2>8 DEF ConnPath
    <2>10. QED
      BY <1>8, <2>1, <2>3, <2>5, <2>9 DEF d, Extended
  <1>9. QED
    BY <1>6, <1>7, <1>8

\* The process of a connection's call, and the client, that have it.
LEMMA PathFacts ==
    ASSUME PathsInv
    PROVE  /\ route \in Seq(Path!Process) /\ Len(route) \in Nat /\ Len(route) > 0 /\ DOMAIN route = 1 .. Len(route)
           /\ \A i \in 1 .. Len(route) : route[i] \in Path!Process
           /\ \A i, j \in 1 .. Len(route) : i # j => route[i] # route[j]
           /\ Len(last) \in Nat /\ DOMAIN last = 1 .. Len(last)
           /\ last # <<>> => last \in Routes /\ last[1] = route[1] /\ Len(last) > 0
           /\ last = <<>> => Len(last) = 0
           /\ \A i \in 1 .. Len(last) : last[i] \in Path!Process
           /\ \A i, j \in 1 .. Len(last) : i # j => last[i] # last[j]
  <1>1. route \in Routes /\ last \in Routes \cup {<<>>}
    BY DEF PathsInv, PathsType
  <1>2. CASE last \in Routes
    BY <1>1, <1>2, RouteFacts
  <1>3. CASE last = <<>>
    <2>1. Len(last) = 0 /\ DOMAIN last = 1 .. 0
      BY <1>3
    <2>2. QED
      BY <1>1, <1>3, <2>1, RouteFacts
  <1>4. QED
    BY <1>1, <1>2, <1>3

\* A call of a connection.
LEMMA ConnCall ==
    ASSUME PathsInv, kind = "conn", call # None
    PROVE  /\ call \in PathCall(ConnPath) /\ call.op \in {"Request", "Close"} /\ call.at \in Nat /\ call.down \in BOOLEAN
           /\ call.saved \in Seq([server : Nat, client : Nat]) /\ Len(call.saved) \in Nat
           /\ call.msg \in ConnPath /\ call.msg.segments \in Seq(Seg) /\ Len(call.msg.segments) \in Nat
           /\ call.msg.index \in Nat
  <1>1. call \in PathCall(ConnPath)
    BY DEF PathsInv, PathsType
  <1>2. call.saved \in Seq([server : Nat, client : Nat]) /\ call.msg \in ConnPath /\ call.op \in {"Request", "Close"}
        /\ call.at \in Nat /\ call.down \in BOOLEAN
    BY <1>1 DEF PathCall
  <1>3. call.msg.segments \in Seq(Seg) /\ call.msg.index \in Nat
    BY <1>2 DEF ConnPath
  <1>4. Len(call.saved) \in Nat /\ Len(call.msg.segments) \in Nat
    BY <1>2, <1>3
  <1>5. QED
    BY <1>1, <1>2, <1>3, <1>4

\* What a process makes of a call.
LEMMA ArrivedConn ==
    ASSUME PathsInv, kind = "conn", call # None, call.down, call.at <= Len(route), Path!updatePathServer_Request(call) # None
    PROVE  LET c == Path!updatePathServer_Request(call)
               a == call.at  s == call.msg.segments  t == c.msg.segments IN
           /\ c \in PathCall(ConnPath) /\ c.op = call.op /\ c.at = a /\ c.down
           /\ c.saved = Append(call.saved, [server |-> a - 2, client |-> a - 1])
           /\ c.msg.index = a - 1 /\ c.msg.id = t[a].id
           /\ Len(t) = (IF a > Len(s) THEN a ELSE Len(s))
           /\ \A k \in 1 .. Len(s) : k # a => t[k].name = s[k].name /\ t[k].id = s[k].id
           /\ \A k \in 1 .. Len(s) : k < a - 1 \/ k > a => t[k] = s[k]
           /\ t[a].name = route[a] /\ t[a].token = calls
           /\ t[a - 1].token = IF creds THEN calls ELSE s[a - 1].token
           /\ t[a].id = IF a <= Len(s) /\ s[a].name = route[a] THEN s[a].id ELSE ids + 1
  <1> DEFINE a == call.at
             s == call.msg.segments
             p == route[a]
             d == Path!updatePath(call.msg, p, ids + 1)
  <1>1. a \in Nat /\ a >= 2 /\ a \in 1 .. Len(route) /\ a - 1 \in 1 .. Len(route) /\ a - 1 # a
    BY ConnCall, PathFacts DEF PathsInv, WayInv
  <1>2. Reached = a - 1
    BY DEF Reached
  <1>3. Len(s) >= a - 1 /\ call.msg.index = a - 2 /\ call.msg.id = s[a - 1].id /\ s[a - 1].name = route[a - 1]
    <2>1. a - 1 \in 1 .. Reached
      BY <1>1, <1>2
    <2>2. QED
      BY <1>2, <2>1 DEF PathsInv, ConnInv, SegmentsInv, NamesInv, PlaceInv
  <1>4. p \in Path!Process /\ s[a - 1].name # p
    BY <1>1, <1>3, PathFacts
  <1>5. ids \in Nat /\ ids + 1 \in Nat /\ calls \in Nat /\ call.msg \in ConnPath /\ s \in Seq(Seg) /\ Len(s) \in Nat
        /\ call \in PathCall(ConnPath)
    BY ConnCall DEF PathsInv, PathsType
  <1>6. /\ d \in ConnPath /\ d.index = a - 1
        /\ Len(d.segments) = (IF a > Len(s) THEN a ELSE Len(s))
        /\ \A k \in 1 .. Len(s) : k # a => d.segments[k] = s[k]
        /\ d.segments[a].name = p /\ d.id = d.segments[a].id
        /\ d.segments[a].id = IF a <= Len(s) /\ s[a].name = p THEN s[a].id ELSE ids + 1
    <2>1. Extended(call.msg, d, a, p, ids + 1)
      <3> HIDE DEF a, p
      <3>1. QED
        BY <1>1, <1>3, <1>4, <1>5, NextSegment
    <2>2. QED
      BY <2>1 DEF Extended
  <1>7. d # None
    BY DEF Path!updatePathServer_Request
  <1>8. Path!FromContext(call) = IF creds THEN [of |-> route[a - 1], token |-> calls] ELSE None
    BY DEF Path!FromContext, Path!GetRequestMetadata, Path!generateToken
  <1>9. creds => Path!FromContext(call) # None /\ Path!FromContext(call).token = calls
    <2>1. creds => [of |-> route[a - 1], token |-> calls] \in Token
      BY <1>1, <1>5, PathFacts DEF Token
    <2>2. QED
      BY <1>8, <2>1, RoutesAssumption
  <1> DEFINE m == IF creds THEN WithToken(d, a - 1, calls) ELSE d
             e == WithToken(m, a, calls)
             sv == [server |-> a - 2, client |-> a - 1]
             c == [call EXCEPT !.msg = e, !.saved = Append(call.saved, sv)]
  <1>10. Path!updateTokenServer(call, d) = e
    <2>1. (d.index > 0 /\ Path!FromContext(call) # None) = creds
      <3>1. d.index > 0
        BY <1>1, <1>6
      <3>2. creds \in BOOLEAN
        BY DEF PathsInv, PathsType
      <3>3. QED
        BY <1>8, <1>9, <3>1, <3>2
    <2> DEFINE M == IF d.index > 0 /\ Path!FromContext(call) # None
                    THEN [d EXCEPT !.segments[d.index].token = Path!FromContext(call).token] ELSE d
    <2>2. Path!updateTokenServer(call, d) = Path!updateToken(M)
      BY DEF Path!updateTokenServer
    <2>3. M = m
      BY <1>6, <1>9, <2>1 DEF WithToken
    <2>4. m.index + 1 = a
      <3>1. m.index = d.index
        BY DEF WithToken
      <3>2. QED
        BY <1>1, <1>6, <3>1
    <2> HIDE DEF m, M
    <2>5. QED
      BY <2>2, <2>3, <2>4 DEF Path!updateToken, WithToken
  <1>11. Path!Index(call.msg, d) = a - 2
    BY <1>1, <1>3, <1>6 DEF Path!Index
  <1>12. Path!updatePathServer_Request(call) = c
    BY <1>6, <1>7, <1>10, <1>11 DEF Path!updatePathServer_Request
  <1> DEFINE n == Len(d.segments)
  <1>13. n \in Nat /\ a \in 1 .. n /\ a - 1 \in 1 .. n /\ \A k \in 1 .. Len(s) : k \in 1 .. n
    BY <1>1, <1>3, <1>5, <1>6
  <1> HIDE DEF d
  <1>14. /\ m \in ConnPath /\ m.id = d.id /\ m.index = d.index /\ Len(m.segments) = n
         /\ \A k \in 1 .. n : /\ m.segments[k].name = d.segments[k].name /\ m.segments[k].id = d.segments[k].id
                              /\ m.segments[k].token = IF k = a - 1 /\ creds THEN calls ELSE d.segments[k].token
                              /\ k # a - 1 => m.segments[k] = d.segments[k]
    <2>1. CASE creds
      <3>1. DifferInToken(d, WithToken(d, a - 1, calls), a - 1, calls)
        BY <1>5, <1>6, <1>13, TokenSet
      <3>2. m = WithToken(d, a - 1, calls)
        BY <2>1
      <3> HIDE DEF m
      <3>3. QED
        BY <2>1, <3>1, <3>2 DEF DifferInToken
    <2>2. CASE ~ creds
      BY <1>6, <2>2
    <2>3. QED
      BY <2>1, <2>2
  <1> HIDE DEF m
  <1>15. /\ e \in ConnPath /\ e.id = m.id /\ e.index = m.index /\ Len(e.segments) = n
         /\ \A k \in 1 .. n : /\ e.segments[k].name = m.segments[k].name /\ e.segments[k].id = m.segments[k].id
                              /\ e.segments[k].token = IF k = a THEN calls ELSE m.segments[k].token
                              /\ k # a => e.segments[k] = m.segments[k]
    <2>1. DifferInToken(m, WithToken(m, a, calls), a, calls)
      BY <1>5, <1>13, <1>14, TokenSet
    <2>2. QED
      BY <1>14, <2>1 DEF DifferInToken
  <1> HIDE DEF e
  <1>16. sv \in [server : Nat, client : Nat] /\ call.saved \in Seq([server : Nat, client : Nat])
    BY <1>1, ConnCall
  <1> HIDE DEF sv
  <1>17. Append(call.saved, sv) \in Seq([server : Nat, client : Nat])
    BY <1>16
  <1>18. c \in PathCall(ConnPath)
    BY <1>5, <1>15, <1>17 DEF PathCall
  <1>19. c.op = call.op /\ c.at = a /\ c.down /\ c.saved = Append(call.saved, sv) /\ c.msg = e
    BY <1>5 DEF PathCall
  <1> HIDE DEF c, n
  <1>20. \A k \in 1 .. Len(s) : k # a => e.segments[k].name = s[k].name /\ e.segments[k].id = s[k].id
    <2> SUFFICES ASSUME NEW k \in 1 .. Len(s), k # a
                 PROVE  e.segments[k].name = s[k].name /\ e.segments[k].id = s[k].id
      OBVIOUS
    <2>1. k \in 1 .. n
      BY <1>13
    <2>2. e.segments[k].name = d.segments[k].name /\ e.segments[k].id = d.segments[k].id
      BY <1>14, <1>15, <2>1
    <2>3. QED
      BY <1>6, <2>2
  <1>21. \A k \in 1 .. Len(s) : k < a - 1 \/ k > a => e.segments[k] = s[k]
    <2>1. \A k \in 1 .. Len(s) : k < a - 1 \/ k > a => k # a /\ k # a - 1
      BY <1>1
    <2>2. QED
      BY <1>6, <1>13, <1>14, <1>15, <2>1
  <1>22. e.segments[a].name = p /\ e.segments[a].token = calls
         /\ e.segments[a].id = IF a <= Len(s) /\ s[a].name = p THEN s[a].id ELSE ids + 1
    BY <1>6, <1>13, <1>14, <1>15
  <1>23. e.segments[a - 1].token = IF creds THEN calls ELSE s[a - 1].token
    <2>1. a - 1 # a /\ a - 1 \in 1 .. Len(s)
      BY <1>1, <1>3, <1>5
    <2> DEFINE b == a - 1
    <2>2. d.segments[b] = s[b]
      BY <1>6, <2>1
    <2>3. b \in 1 .. n /\ b # a
      BY <1>13, <2>1
    <2> HIDE DEF b
    <2>4. e.segments[b].token = m.segments[b].token
      BY <1>15, <2>3
    <2>5. m.segments[b].token = IF creds THEN calls ELSE d.segments[b].token
      BY <1>14, <2>3 DEF b
    <2>6. QED
      BY <2>2, <2>4, <2>5 DEF b
  <1>24. e.index = a - 1 /\ e.id = e.segments[a].id /\ Len(e.segments) = (IF a > Len(s) THEN a ELSE Len(s))
    BY <1>6, <1>13, <1>14, <1>15 DEF n
  <1>25. QED
    BY <1>12, <1>18, <1>19, <1>20, <1>21, <1>22, <1>23, <1>24 DEF sv

-----------------------------------------------------------------------------
(* The steps of the call of a connection.                                  *)

LEMMA NumberedIds ==
    ASSUME NEW s \in Seq(Seg)
    PROVE  \A k \in 1 .. Len(s) : s[k] \in Seg /\ s[k].id \in Nat
  <1>1. \A k \in 1 .. Len(s) : s[k] \in Seg
    OBVIOUS
  <1>2. \A g \in Seg : g.id \in Nat
    BY DEF Seg
  <1>3. QED
    BY <1>1, <1>2

\* The path that the client has stays right while ids are generated.
LEMMA MineSame ==
    ASSUME PathsInv, MineInv, kind = "conn", UNCHANGED <<mine, last, creds>>, ids' \in {ids, ids + 1}
    PROVE  MineInv'
  <1>1. OldIds(mine.segments, ids) => OldIds(mine.segments, ids')
    <2>1. mine \in ConnPath /\ ids \in Nat
      BY DEF PathsInv, PathsType
    <2>2. mine.segments \in Seq(Seg)
      BY <2>1 DEF ConnPath
    <2>3. QED
      BY <2>1, <2>2, NumberedIds DEF OldIds
  <1>2. QED
    BY <1>1 DEF MineInv

LEMMA PathsInit == Path!PathsInit => PathsInv
  <1> SUFFICES ASSUME Path!PathsInit PROVE PathsInv
    OBVIOUS
  <1>1. mine = [id |-> None, index |-> 0, segments |-> <<>>, pathIds |-> <<>>] /\ mine = Path!NoPath
        /\ call = None /\ last = <<>> /\ ids = 0 /\ calls = 0 /\ known = [p \in Path!Process |-> {}] /\ ended = <<>>
        /\ kind \in PathKinds /\ creds \in BOOLEAN /\ route \in Routes
    BY DEF Path!PathsInit, Path!NoPath
  <1>2. mine \in ConnPath /\ mine \in RegPath
    <2>1. <<>> \in Seq(Seg) /\ <<>> \in Seq([token : Token \cup {None}]) /\ <<>> \in Seq(Path!Process \cup {None})
      OBVIOUS
    <2>2. QED
      BY <1>1, <2>1 DEF ConnPath, RegPath
  <1>3. PathsType
    BY <1>1, <1>2 DEF PathsType
  <1>4. Len(last) = 0 /\ \A k \in 2 .. 0 : FALSE
    BY <1>1
  <1>5. \A r \in Routes : r[1] \in Path!Process
    BY RouteFacts
  <1>6. ConnInv
    BY <1>1, <1>4, <1>5 
       DEF ConnInv, MineInv, AwareInv, IdsKnown, TakenInv, ClosedInv, EndedInv, SegmentsInv, NamesInv, IdsInv,
           PlaceInv, RestInv
  <1>7. WayInv /\ RegistrationInv
    BY <1>1 DEF WayInv, RegistrationInv
  <1>8. QED
    BY <1>3, <1>6, <1>7 DEF PathsInv

LEMMA RerouteStep ==
    ASSUME PathsInv, NEW r \in Routes, Path!Reroute(r)
    PROVE  PathsInv'
  <1>1. call = None /\ call' = None /\ route' = r /\ UNCHANGED <<kind, creds, mine, known, last, ended, ids, calls>>
    BY DEF Path!Reroute
  <1>2. PathsType'
    BY <1>1 DEF PathsInv, PathsType
  <1>3. WayInv'
    BY <1>1 DEF WayInv
  <1>4. ConnInv'
    <2> SUFFICES ASSUME kind = "conn" PROVE MineInv' /\ AwareInv' /\ SegmentsInv'
      BY <1>1 DEF ConnInv
    <2>1. MineInv'
      BY <1>1, MineSame DEF PathsInv, ConnInv
    <2>2. AwareInv'
      BY <1>1 DEF PathsInv, ConnInv, AwareInv, IdsKnown, TakenInv, ClosedInv, EndedInv
    <2>3. SegmentsInv'
      BY <1>1 DEF SegmentsInv, NamesInv, IdsInv, PlaceInv, RestInv
    <2>4. QED
      BY <2>1, <2>2, <2>3
  <1>5. RegistrationInv'
    BY <1>1 DEF PathsInv, RegistrationInv
  <1>6. QED
    BY <1>2, <1>3, <1>4, <1>5 DEF PathsInv

\* The client puts itself at the beginning of the path.
LEMMA FirstSegment ==
    ASSUME PathsInv, kind = "conn"
    PROVE  LET m == Path!updatePathClient_Request(mine, route[1])  s == m.segments IN
           /\ m \in ConnPath /\ m.index = 0 /\ m.id = s[1].id /\ Len(s) >= 1 /\ s[1].name = route[1]
           /\ DistinctIds(s) /\ \A k \in 1 .. Len(s) : s[k].id <= ids + 1
           /\ mine # Path!NoPath => s = mine.segments
           /\ mine = Path!NoPath => Len(s) = 1
  <1> DEFINE m == Path!updatePathClient_Request(mine, route[1])
             g == Path!Segment(route[1], ids + 1)
  <1>1. mine \in ConnPath /\ ids \in Nat /\ ids + 1 \in Nat /\ route[1] \in Path!Process
    BY PathFacts DEF PathsInv, PathsType
  <1>2. CASE mine = Path!NoPath
    <2>1. mine.id = None /\ mine.index = 0 /\ mine.segments = <<>> /\ mine.pathIds = <<>>
      BY <1>2 DEF Path!NoPath
    <2>2. m = [mine EXCEPT !.id = ids + 1, !.index = 0, !.segments = <<g>>]
      BY <2>1 DEF Path!updatePathClient_Request, Path!updatePath
    <2>3. g \in Seg /\ g.name = route[1] /\ g.id = ids + 1
      BY <1>1 DEF Path!Segment, Seg
    <2> HIDE DEF g
    <2>4. <<g>> \in Seq(Seg) /\ Len(<<g>>) = 1 /\ <<g>>[1] = g
      BY <2>3
    <2> HIDE DEF m
    <2>5. m \in ConnPath /\ m.id = ids + 1 /\ m.index = 0 /\ m.segments = <<g>>
      BY <1>1, <2>2, <2>4 DEF ConnPath
    <2>6. DistinctIds(<<g>>) /\ \A k \in 1 .. Len(<<g>>) : <<g>>[k].id <= ids + 1
      BY <1>1, <2>3, <2>4 DEF DistinctIds
    <2>7. QED
      BY <1>2, <2>3, <2>4, <2>5, <2>6 DEF m
  <1>3. CASE mine # Path!NoPath
    <2> DEFINE s == mine.segments
    <2>1. last # <<>> /\ Len(s) = Len(last) /\ mine.index = 0 /\ mine.id = s[1].id
          /\ (\A k \in 1 .. Len(last) : s[k].name = last[k]) /\ DistinctIds(s) /\ OldIds(s, ids)
      BY <1>3 DEF PathsInv, ConnInv, MineInv
    <2>2. Len(last) \in Nat /\ Len(last) > 0 /\ last[1] = route[1]
      BY <2>1, PathFacts
    <2>3. s[1].name = route[1] /\ Len(s) # 0 /\ mine.index < Len(s) /\ mine.index + 1 = 1
      BY <2>1, <2>2
    <2>4. m = [mine EXCEPT !.id = s[1].id]
      BY <2>3 DEF Path!updatePathClient_Request, Path!updatePath, Path!Current
    <2>5. m = mine
      BY <1>1, <2>1, <2>4 DEF ConnPath
    <2>6. \A k \in 1 .. Len(s) : s[k].id <= ids + 1
      <3>1. s \in Seq(Seg)
        BY <1>1 DEF ConnPath
      <3>2. \A k \in 1 .. Len(s) : s[k].id \in Nat
        BY <3>1, NumberedIds
      <3>3. QED
        BY <1>1, <2>1, <3>2 DEF OldIds
    <2> HIDE DEF m
    <2>7. QED
      BY <1>1, <1>3, <2>1, <2>2, <2>3, <2>5, <2>6 DEF m
  <1>4. QED
    BY <1>2, <1>3

LEMMA StartConn ==
    ASSUME PathsInv, kind = "conn", NEW o \in {"Request", "Close"}, Path!Start(o)
    PROVE  PathsInv'
  <1> DEFINE m == Path!updatePathClient_Request(mine, route[1])
             s == m.segments
             c == [op |-> o, at |-> 2, down |-> TRUE, saved |-> <<>>, expires |-> 0, msg |-> m]
  <1>1. call = None /\ calls' = calls + 1 /\ call' = c /\ ids' = ids + 1 /\ UNCHANGED <<kind, creds, route, mine, known, last>>
        /\ ended' = <<>>
        /\ (o = "Close" => mine # Path!NoPath /\ route = last)
    BY DEF Path!Start
  <1>2. /\ m \in ConnPath /\ m.index = 0 /\ m.id = s[1].id /\ Len(s) >= 1 /\ s[1].name = route[1]
        /\ DistinctIds(s) /\ (\A k \in 1 .. Len(s) : s[k].id <= ids + 1)
        /\ (mine # Path!NoPath => s = mine.segments)
        /\ (mine = Path!NoPath => Len(s) = 1)
    BY FirstSegment
  <1>3. ids \in Nat /\ calls \in Nat /\ Len(route) \in Nat /\ Len(route) > 0 /\ MineInv /\ AwareInv /\ Len(last) \in Nat
        /\ Len(s) \in Nat
    <2>1. s \in Seq(Seg)
      BY <1>2 DEF ConnPath
    <2>2. Len(s) \in Nat
      BY <2>1
    <2>3. QED
      BY <2>2, PathFacts DEF PathsInv, PathsType, ConnInv
  <1> HIDE DEF m
  <1>4. c \in PathCall(ConnPath)
    <2>1. <<>> \in Seq([server : Nat, client : Nat])
      OBVIOUS
    <2>2. QED
      BY <1>2, <2>1 DEF PathCall
  <1>5. PathsType'
    BY <1>1, <1>3, <1>4 DEF PathsInv, PathsType
  <1>6. WayInv'
    <2>1. Len(<<>>) = 0 /\ 2 - 2 = 0 /\ \A j \in 1 .. 0 : FALSE
      OBVIOUS
    <2>2. QED
      BY <1>1, <1>3, <2>1 DEF WayInv
  <1>7. MineInv'
    BY <1>1, <1>3, MineSame
  <1>8. AwareInv'
    <2>1. (\A r \in Routes : known[r[1]] = {})
          /\ (mine # Path!NoPath => \A k \in 2 .. Len(last) : mine.segments[k].id \in known[last[k]])
      BY <1>1, <1>3 DEF AwareInv, IdsKnown
    <2>2. call'.op = o /\ call'.down /\ call'.at = 2 /\ call' # None
      BY <1>1, <1>4, RoutesAssumption
    <2>3. IdsKnown' /\ TakenInv'
      BY <1>1, <2>1, <2>2 DEF IdsKnown, TakenInv
    <2>4. \A k \in 2 .. Len(last) : ~ (k < 2)
      BY <1>3
    <2>5. ClosedInv'
      BY <1>1, <2>2, <2>4 DEF ClosedInv
    <2>6. QED
      BY <1>1, <2>1, <2>2, <2>3, <2>5 DEF AwareInv
  <1>9. SegmentsInv'
    <2>1. Reached' = 1
      BY <1>1 DEF Reached
    <2>2. OldIds(s, ids')
      BY <1>1, <1>2 DEF OldIds
    <2>3. mine # Path!NoPath => Len(s) = Len(last) /\ s = mine.segments
      BY <1>2, <1>3 DEF MineInv
    <2>4. call'.msg.segments = s /\ call'.msg.index = 0 /\ call'.msg.id = s[1].id /\ call'.down /\ call'.at = 2
          /\ call' # None
      <3>1. c # None
        BY <1>4, RoutesAssumption
      <3>2. QED
        BY <1>1, <1>2, <3>1
    <2>5. Len(s) >= 1 /\ DistinctIds(s) /\ s[1].name = route[1] /\ \A k \in 1 .. 1 : k = 1
      BY <1>2
    <2> HIDE DEF s, c
    <2>6. \A k \in 1 .. Len(s) : k > 1 => mine # Path!NoPath /\ k <= Len(last) /\ s[k] = mine.segments[k]
      <3> SUFFICES ASSUME NEW k \in 1 .. Len(s), k > 1 PROVE mine # Path!NoPath /\ k <= Len(last) /\ s[k] = mine.segments[k]
        OBVIOUS
      <3>1. Len(s) \in Nat /\ (mine = Path!NoPath => Len(s) = 1)
        BY <1>2, <1>3 DEF s
      <3>2. k \in Int /\ k <= Len(s)
        BY <3>1
      <3>3. mine # Path!NoPath
        <4> DEFINE n == Len(s)
        <4>1. n \in Nat /\ k <= n /\ k \in Int /\ k > 1 /\ (mine = Path!NoPath => n = 1)
          BY <3>1, <3>2
        <4> HIDE DEF n
        <4>2. QED
          BY <4>1
      <3>4. QED
        BY <2>3, <3>2, <3>3
    <2>7. NamesInv'
      BY <1>1, <2>1, <2>4, <2>5 DEF NamesInv
    <2>8. IdsInv'
      BY <1>1, <2>1, <2>2, <2>3, <2>4, <2>5 DEF IdsInv
    <2>9. PlaceInv'
      BY <2>4 DEF PlaceInv
    <2>10. RestInv'
      BY <1>1, <1>3, <2>1, <2>3, <2>4, <2>6 DEF RestInv, s
    <2>11. QED
      BY <2>7, <2>8, <2>9, <2>10 DEF SegmentsInv
  <1>10. QED
    BY <1>1, <1>5, <1>6, <1>7, <1>8, <1>9 DEF PathsInv, ConnInv, RegistrationInv

\* A call gets to the next process.
LEMMA ArrivesConn ==
    ASSUME PathsInv, kind = "conn", Path!Arrives
    PROVE  PathsInv'
  <1> DEFINE c == Path!updatePathServer_Request(call)
             a == call.at
             s == call.msg.segments
             t == c.msg.segments
             x == [server |-> a - 2, client |-> a - 1]
             d == IF a = Len(route) THEN [c EXCEPT !.down = FALSE] ELSE [c EXCEPT !.at = a + 1]
  <1>1. call # None /\ call.down /\ a <= Len(route) /\ c # None /\ ids' = ids + 1
        /\ UNCHANGED <<kind, creds, route, mine, last, ended, calls>>
        /\ known' = (IF call.op = "Close" THEN [known EXCEPT ![route[a]] = @ \ {c.msg.id}] ELSE known)
        /\ Path!Arrived = c
    BY DEF Path!Arrives, Path!Arrived
  <1>2. /\ c \in PathCall(ConnPath) /\ c.op = call.op /\ c.at = a /\ c.down
        /\ c.saved = Append(call.saved, x)
        /\ c.msg.index = a - 1 /\ c.msg.id = t[a].id
        /\ Len(t) = (IF a > Len(s) THEN a ELSE Len(s))
        /\ (\A k \in 1 .. Len(s) : k # a => t[k].name = s[k].name /\ t[k].id = s[k].id)
        /\ (\A k \in 1 .. Len(s) : k < a - 1 \/ k > a => t[k] = s[k])
        /\ t[a].name = route[a] /\ t[a].token = calls
        /\ t[a - 1].token = (IF creds THEN calls ELSE s[a - 1].token)
        /\ t[a].id = IF a <= Len(s) /\ s[a].name = route[a] THEN s[a].id ELSE ids + 1
    BY <1>1, ArrivedConn
  <1>3. a \in Nat /\ a >= 2 /\ Len(route) \in Nat /\ ids \in Nat /\ Len(s) \in Nat /\ Len(last) \in Nat /\ s \in Seq(Seg)
        /\ call.op \in {"Request", "Close"} /\ c.msg \in ConnPath /\ c.saved \in Seq([server : Nat, client : Nat])
        /\ call.saved \in Seq([server : Nat, client : Nat]) /\ Len(call.saved) = a - 2 /\ Len(s) >= a - 1 /\ Reached = a - 1
    <2>1. c.msg \in ConnPath /\ c.saved \in Seq([server : Nat, client : Nat])
      BY <1>2 DEF PathCall
    <2>2. a >= 2 /\ Len(call.saved) = a - 2 /\ Reached = a - 1 /\ Len(s) >= Reached
      BY <1>1 DEF PathsInv, WayInv, ConnInv, SegmentsInv, NamesInv, Reached
    <2>3. QED
      BY <1>1, <2>1, <2>2, ConnCall, PathFacts DEF PathsInv, PathsType
  <1>4. call' = d
    <2>1. Path!Arrived.at = a /\ call' = (IF a = Len(route) THEN [c EXCEPT !.down = FALSE] ELSE [c EXCEPT !.at = c.at + 1])
      BY <1>1, <1>2 DEF Path!Arrives
    <2>2. QED
      BY <1>2, <2>1
  <1>5. MineInv /\ AwareInv /\ NamesInv /\ IdsInv /\ PlaceInv /\ RestInv
    BY DEF PathsInv, ConnInv, SegmentsInv
  <1> HIDE DEF c
  <1>6. d \in PathCall(ConnPath) /\ d.op = call.op /\ d.saved = c.saved /\ d.msg = c.msg
        /\ d.at = (IF a = Len(route) THEN a ELSE a + 1) /\ (d.down <=> a # Len(route))
    <2>1. CASE a = Len(route)
      BY <1>2, <2>1 DEF PathCall
    <2>2. CASE a # Len(route)
      <3>1. a + 1 \in Nat
        BY <1>3
      <3>2. QED
        BY <1>2, <2>2, <3>1 DEF PathCall
    <2>3. QED
      BY <2>1, <2>2
  <1> HIDE DEF d
  <1>7. d # None
    BY <1>6, RoutesAssumption
  <1>8. route[a] \in Path!Process /\ (\A k \in 1 .. Len(route) : k # a => route[k] # route[a]) /\ a \in 1 .. Len(route)
    BY <1>1, <1>3, PathFacts
  <1>9. PathsType'
    <2>1. known' \in [Path!Process -> SUBSET Nat]
      BY <1>1, <1>8 DEF PathsInv, PathsType
    <2>2. QED
      BY <1>1, <1>3, <1>4, <1>6, <2>1 DEF PathsInv, PathsType
  <1>10. WayInv'
    <2>1. x \in [server : Nat, client : Nat]
      <3>1. a - 2 \in Nat /\ a - 1 \in Nat
        BY <1>3
      <3>2. QED
        BY <3>1
    <2>2. Len(c.saved) = a - 1 /\ c.saved[a - 1] = x /\ \A j \in 1 .. a - 2 : c.saved[j] = call.saved[j]
      <3>1. (a - 2) + 1 = a - 1
        BY <1>3
      <3> HIDE DEF x
      <3>2. QED
        BY <1>2, <1>3, <2>1, <3>1, AppendedTo
    <2>3. \A j \in 1 .. a - 2 : call.saved[j] = [server |-> j - 1, client |-> j]
      BY <1>1, <1>3 DEF PathsInv, WayInv
    <2>4. \A j \in 1 .. Len(c.saved) : c.saved[j] = [server |-> j - 1, client |-> j]
      <3> SUFFICES ASSUME NEW j \in 1 .. a - 1 PROVE c.saved[j] = [server |-> j - 1, client |-> j]
        BY <2>2
      <3>1. CASE j \in 1 .. a - 2
        BY <2>2, <2>3, <3>1
      <3>2. CASE j = a - 1
        <4>1. j - 1 = a - 2
          BY <1>3, <3>2
        <4>2. QED
          BY <2>2, <3>2, <4>1
      <3>3. QED
        BY <1>3, <3>1, <3>2
    <2>5. (a + 1) - 2 = a - 1 /\ a + 1 >= 2 /\ (a # Len(route) => a + 1 <= Len(route) + 1) /\ (a = Len(route) => Len(route) >= 2)
      BY <1>1, <1>3
    <2>6. QED
      BY <1>1, <1>4, <1>6, <1>8, <2>2, <2>4, <2>5 DEF WayInv
  <1>11. MineInv'
    BY <1>1, <1>5, MineSame
  <1>12. Reached' = a /\ call'.msg.segments = t
    <2>1. (a + 1) - 1 = a
      BY <1>3
    <2>2. QED
      BY <1>1, <1>4, <1>6, <2>1 DEF Reached
  <1> HIDE DEF a, s, t
  <1>13. a <= Len(t) /\ Len(t) \in Nat /\ Len(s) <= Len(t) /\ \A k \in 1 .. Len(t) : k = a \/ k \in 1 .. Len(s)
    <2>1. a <= Len(t) /\ Len(t) \in Nat /\ Len(s) <= Len(t) /\ (Len(t) = Len(s) \/ (Len(t) = a /\ Len(s) = a - 1))
      BY <1>2, <1>3
    <2>2. QED
      BY <1>3, <2>1
  <1>14. NamesInv'
    <2>1. \A k \in 1 .. a - 1 : s[k].name = route[k] /\ (k > 1 \/ (creds /\ a - 1 > 1) => s[k].token = calls)
      BY <1>1, <1>3, <1>5 DEF NamesInv, s
    <2>2. \A k \in 1 .. a : t[k].name = route[k]
      <3> SUFFICES ASSUME NEW k \in 1 .. a, k # a PROVE t[k].name = route[k]
        BY <1>2
      <3>1. k \in 1 .. a - 1 /\ k \in 1 .. Len(s)
        BY <1>3
      <3>2. QED
        BY <1>2, <2>1, <3>1
    <2>3. \A k \in 1 .. a : k > 1 \/ (creds /\ a > 1) => t[k].token = calls
      <3> SUFFICES ASSUME NEW k \in 1 .. a, k # a, k > 1 \/ (creds /\ a > 1) PROVE t[k].token = calls
        BY <1>2
      <3>1. k \in 1 .. a - 1 /\ k \in 1 .. Len(s)
        BY <1>3
      <3>2. CASE k = a - 1
        BY <1>2, <2>1, <3>1, <3>2
      <3>3. CASE k # a - 1
        <4>1. k < a - 1 /\ a - 1 > 1
          BY <1>3, <3>1, <3>3
        <4>2. t[k] = s[k]
          BY <1>2, <3>1, <4>1
        <4>3. QED
          BY <2>1, <3>1, <4>1, <4>2
      <3>4. QED
        BY <3>2, <3>3
    <2>4. QED
      BY <1>1, <1>12, <1>13, <2>2, <2>3 DEF NamesInv
  <1>15. \A k \in 1 .. a : mine # Path!NoPath /\ k <= Len(last) /\ last[k] = route[k] => t[k].id = mine.segments[k].id
    <2> SUFFICES ASSUME NEW k \in 1 .. a, mine # Path!NoPath, k <= Len(last), last[k] = route[k]
                 PROVE  t[k].id = mine.segments[k].id
      OBVIOUS
    <2>1. CASE k # a
      <3>1. k \in 1 .. a - 1 /\ k \in 1 .. Len(s)
        BY <1>3, <2>1
      <3>2. s[k].id = mine.segments[k].id
        BY <1>1, <1>3, <1>5, <3>1 DEF IdsInv, s
      <3>3. QED
        BY <1>2, <2>1, <3>1, <3>2
    <2>2. CASE k = a
      <3>1. Len(s) >= Len(last)
        BY <1>1, <1>5 DEF RestInv, s
      <3>2. a \in 1 .. Len(s) /\ a > a - 1 /\ a \in 1 .. Len(last) /\ a <= Len(s)
        BY <1>3, <2>2, <3>1
      <3>3. s[a] = mine.segments[a]
        BY <1>1, <1>3, <1>5, <3>2 DEF RestInv, s
      <3>4. s[a].name = last[a]
        BY <1>5, <3>2, <3>3 DEF MineInv
      <3>5. QED
        BY <1>2, <2>2, <3>2, <3>3, <3>4
    <2>3. QED
      BY <2>1, <2>2
  <1>16. IdsInv'
    <2>1. DistinctIds(s) /\ OldIds(s, ids) /\ \A k \in 1 .. Len(s) : s[k].id \in Nat
      BY <1>1, <1>3, <1>5, NumberedIds DEF IdsInv, s
    <2>2. \A k \in 1 .. Len(s) : s[k].id # ids + 1 /\ s[k].id <= ids + 1
      BY <1>3, <2>1 DEF OldIds
    <2>3. OldIds(t, ids + 1)
      <3> SUFFICES ASSUME NEW k \in 1 .. Len(t) PROVE t[k].id <= ids + 1
        BY DEF OldIds
      <3>1. CASE k # a
        BY <1>2, <1>13, <2>2, <3>1
      <3>2. CASE k = a
        <4>1. a <= Len(s) => a \in 1 .. Len(s)
          BY <1>3
        <4>2. QED
          BY <1>2, <1>3, <2>2, <3>2, <4>1
      <3>3. QED
        BY <3>1, <3>2
    <2>4. DistinctIds(t)
      <3>1. ASSUME NEW k \in 1 .. Len(s), k # a PROVE t[k].id # t[a].id
        <4>1. t[k].id = s[k].id
          BY <1>2, <3>1
        <4>2. a <= Len(s) => a \in 1 .. Len(s)
          BY <1>3
        <4>3. QED
          BY <1>2, <2>1, <2>2, <3>1, <4>1, <4>2 DEF DistinctIds
      <3>2. ASSUME NEW k \in 1 .. Len(s), NEW l \in 1 .. Len(s), k # l, k # a, l # a PROVE t[k].id # t[l].id
        BY <1>2, <2>1, <3>2 DEF DistinctIds
      <3>3. QED
        BY <1>13, <3>1, <3>2 DEF DistinctIds
    <2>5. QED
      BY <1>1, <1>12, <1>15, <2>3, <2>4 DEF IdsInv
  <1>17. PlaceInv'
    <2>1. (a + 1) - 2 = a - 1 /\ (a + 1) - 1 = a
      BY <1>3
    <2>2. QED
      BY <1>1, <1>2, <1>4, <1>6, <1>12, <2>1 DEF PlaceInv
  <1>18. RestInv'
    <2>1. mine # Path!NoPath => Len(s) >= Len(last)
      BY <1>1, <1>5 DEF RestInv, s
    <2>2. mine # Path!NoPath => Len(t) >= Len(last)
      BY <1>3, <1>13, <2>1
    <2>3. \A k \in 1 .. Len(t) : k > a => mine # Path!NoPath /\ k <= Len(last) /\ t[k] = mine.segments[k]
      <3> SUFFICES ASSUME NEW k \in 1 .. Len(t), k > a PROVE mine # Path!NoPath /\ k <= Len(last) /\ t[k] = mine.segments[k]
        OBVIOUS
      <3>1. k \in 1 .. Len(s) /\ k > a - 1
        BY <1>3, <1>13
      <3>2. t[k] = s[k]
        BY <1>2, <3>1
      <3>3. QED
        BY <1>1, <1>3, <1>5, <3>1, <3>2 DEF RestInv, s
    <2>4. QED
      BY <1>1, <1>12, <2>2, <2>3 DEF RestInv
  <1>19. AwareInv'
    <2>1. (\A r \in Routes : known[r[1]] = {}) /\ known \in [Path!Process -> SUBSET Nat]
          /\ call' # None /\ call'.op = call.op /\ ended = <<>> /\ ended' = <<>>
      BY <1>1, <1>4, <1>5, <1>6, <1>7 DEF AwareInv, PathsInv, PathsType
    <2>2. \A r \in Routes : known'[r[1]] = {}
      <3>1. \A r \in Routes : r[1] \in Path!Process
        BY RouteFacts
      <3>2. QED
        BY <1>1, <2>1, <3>1 DEF a
    <2>3. CASE call.op = "Request"
      <3>1. known' = known /\ call'.op = "Request"
        BY <1>1, <1>4, <1>6, <2>3
      <3>3. ~ call'.down => \A k \in call'.at + 1 .. Len(route) : FALSE
        BY <1>3, <1>4, <1>6
      <3>4. mine # Path!NoPath => \A k \in 2 .. Len(last) : mine.segments[k].id \in known[last[k]]
        BY <1>5, <2>3 DEF AwareInv, IdsKnown
      <3>5. IdsKnown' /\ TakenInv' /\ ClosedInv'
        BY <1>1, <3>1, <3>3, <3>4 DEF IdsKnown, TakenInv, ClosedInv
      <3>6. QED
        BY <2>1, <2>2, <3>5 DEF AwareInv
    <2>4. CASE call.op = "Close"
      <3>1. route = last /\ mine # Path!NoPath
            /\ \A k \in 2 .. Len(last) : k < a => mine.segments[k].id \notin known[last[k]]
        BY <1>1, <1>5, <2>4 DEF AwareInv, ClosedInv, a
      <3>2. t[a].id = mine.segments[a].id /\ a \in 2 .. Len(last)
        BY <1>1, <1>3, <1>8, <1>15, <3>1
      <3>3. known' = [known EXCEPT ![route[a]] = @ \ {mine.segments[a].id}]
        <4>1. c.msg.id = mine.segments[a].id
          BY <1>2, <3>2
        <4>2. known' = [known EXCEPT ![route[a]] = @ \ {c.msg.id}]
          BY <1>1, <2>4 DEF a
        <4>3. QED
          BY <4>1, <4>2
      <3>4. \A k \in 2 .. Len(last) : known'[last[k]] = IF k = a THEN known[last[k]] \ {mine.segments[a].id} ELSE known[last[k]]
        <4> SUFFICES ASSUME NEW k \in 2 .. Len(last)
                     PROVE  known'[last[k]] = IF k = a THEN known[last[k]] \ {mine.segments[a].id} ELSE known[last[k]]
          OBVIOUS
        <4>1. k \in 1 .. Len(last)
          BY <1>3
        <4>2. last[k] \in Path!Process /\ last[k] = route[k] /\ (k # a => route[k] # route[a])
          BY <1>8, <3>1, <4>1, PathFacts
        <4>3. QED
          BY <2>1, <3>3, <4>2
      <3>5. \A k \in 2 .. Len(last) : ~ call'.down \/ k < call'.at => mine.segments[k].id \notin known'[last[k]]
        <4> SUFFICES ASSUME NEW k \in 2 .. Len(last), ~ call'.down \/ k < call'.at
                     PROVE  mine.segments[k].id \notin known'[last[k]]
          OBVIOUS
        <4>1. k < a \/ k = a
          BY <1>3, <1>4, <1>6, <3>1
        <4>2. QED
          BY <3>1, <3>4, <4>1
      <3>6. IdsKnown' /\ TakenInv' /\ ClosedInv'
        BY <1>1, <2>1, <2>4, <3>1, <3>5 DEF IdsKnown, TakenInv, ClosedInv
      <3>7. QED
        BY <2>1, <2>2, <3>6 DEF AwareInv
    <2>5. QED
      BY <1>3, <2>3, <2>4
  <1>20. QED
    BY <1>1, <1>9, <1>10, <1>11, <1>14, <1>16, <1>17, <1>18, <1>19 DEF PathsInv, ConnInv, SegmentsInv, RegistrationInv

LEMMA BeginningOf ==
    ASSUME NEW S, NEW s \in Seq(S), NEW n \in Nat, n <= Len(s)
    PROVE  SubSeq(s, 1, n) \in Seq(S) /\ Len(SubSeq(s, 1, n)) = n /\ \A k \in 1 .. n : SubSeq(s, 1, n)[k] = s[k]
  OBVIOUS

\* The last index to set back, and the ones before it.
LEMMA LastSaved ==
    ASSUME PathsInv, call # None, ~ call.down, call.at > 1, call.saved \in Seq([server : Nat, client : Nat])
    PROVE  /\ Path!Last(call.saved) = [server |-> call.at - 2, client |-> call.at - 1]
           /\ Path!Front(call.saved) \in Seq([server : Nat, client : Nat]) /\ Len(Path!Front(call.saved)) = call.at - 2
           /\ \A j \in 1 .. call.at - 2 : Path!Front(call.saved)[j] = [server |-> j - 1, client |-> j]
  <1> DEFINE a == call.at
             v == call.saved
             n == Len(v)
  <1>1. a \in 1 .. Len(route) /\ n = a - 1 /\ \A j \in 1 .. n : v[j] = [server |-> j - 1, client |-> j]
    BY DEF PathsInv, WayInv
  <1>2. Len(route) \in Nat
    BY PathFacts
  <1>3. a \in Nat /\ a > 1 /\ n \in 1 .. n /\ n \in Nat /\ n - 1 = a - 2 /\ n - 1 \in Nat
    BY <1>1, <1>2
  <1> HIDE DEF a
  <1>4. Path!Last(v) = [server |-> a - 2, client |-> a - 1]
    BY <1>1, <1>3 DEF Path!Last
  <1>5. Path!Front(v) = SubSeq(v, 1, n - 1)
    BY DEF Path!Front
  <1>6. Path!Front(v) \in Seq([server : Nat, client : Nat]) /\ Len(Path!Front(v)) = n - 1 /\ \A j \in 1 .. n - 1 : Path!Front(v)[j] = v[j]
    <2> DEFINE S == [server : Nat, client : Nat]
               b == n - 1
               f == Path!Front(v)
    <2>1. b \in Nat /\ b <= Len(v) /\ v \in Seq(S) /\ f = SubSeq(v, 1, b)
      BY <1>3, <1>5
    <2> HIDE DEF S, b, f, v
    <2>2. SubSeq(v, 1, b) \in Seq(S) /\ Len(SubSeq(v, 1, b)) = b /\ \A j \in 1 .. b : SubSeq(v, 1, b)[j] = v[j]
      BY <2>1, BeginningOf
    <2>3. f \in Seq(S) /\ Len(f) = b /\ \A j \in 1 .. b : f[j] = v[j]
      BY <2>1, <2>2
    <2>4. QED
      BY <2>3 DEF S, b, f
  <1>7. \A j \in 1 .. n - 1 : j \in 1 .. n
    BY <1>3
  <1>8. QED
    BY <1>1, <1>3, <1>4, <1>6, <1>7 DEF a

\* What a process makes of the answer to a Request.
LEMMA AnsweredConn ==
    ASSUME PathsInv, kind = "conn", call # None, ~ call.down, call.at > 1, call.op = "Request"
    PROVE  LET e == Path!updatePathServer_Returns(call)
               a == call.at  s == call.msg.segments IN
           /\ e \in ConnPath /\ e.index = a - 2 /\ e.id = e.segments[a - 1].id
           /\ Len(e.segments) = Len(route)
           /\ \A k \in 1 .. Len(route) : e.segments[k] = s[k]
           /\ Path!updatePathClient_Returns(call).id = s[a].id
  <1> DEFINE a == call.at
             s == call.msg.segments
             m == Path!updatePathClient_Returns(call)
             u == Path!trimpathServer(call, m)
             e == Path!updatePathServer_Returns(call)
  <1>1. a \in Nat /\ a > 1 /\ a \in 1 .. Len(route) /\ Len(route) \in Nat
    BY PathFacts DEF PathsInv, WayInv
  <1>2. call.msg \in ConnPath /\ s \in Seq(Seg) /\ Len(s) \in Nat /\ call.saved \in Seq([server : Nat, client : Nat])
    BY ConnCall
  <1>3. Len(s) >= Len(route) /\ (a < Len(route) => Len(s) = Len(route))
    <2>1. NamesInv /\ PlaceInv
      BY DEF PathsInv, ConnInv, SegmentsInv
    <2>2. QED
      BY <2>1 DEF NamesInv, PlaceInv, Reached
  <1>4. Path!Last(call.saved).server = a - 2 /\ Path!Last(call.saved).client = a - 1
    BY <1>2, LastSaved
  <1>5. a \in 1 .. Len(s) /\ a - 1 \in 1 .. Len(s) /\ (a - 1) + 1 = a /\ (a - 2) + 1 = a - 1 /\ a - 1 \in Nat /\ a - 2 \in Nat
    BY <1>1, <1>2, <1>3
  <1>6. s[a].id \in Nat /\ s[a - 1].id \in Nat
    BY <1>2, <1>5, NumberedIds
  <1>7. m = [call.msg EXCEPT !.id = s[a].id, !.index = a - 1]
    BY <1>4, <1>5 DEF Path!updatePathClient_Returns, Path!Set
  <1>8. m \in ConnPath /\ m.segments = s /\ m.id = s[a].id /\ m.index = a - 1
    <2> HIDE DEF m
    <2>1. QED
      BY <1>2, <1>5, <1>6, <1>7 DEF ConnPath
  <1>9. /\ u \in ConnPath /\ Len(u.segments) = Len(route)
        /\ \A k \in 1 .. Len(route) : u.segments[k] = s[k]
    <2>1. CASE a < Len(route)
      <3>1. u = m
        BY <2>1 DEF Path!trimpathServer, Path!shouldTrimPath, Path!trimpathClient
      <3>2. QED
        BY <1>3, <1>8, <2>1, <3>1
    <2>2. CASE ~(a < Len(route))
      <3> DEFINE t == SubSeq(s, 1, a)
      <3>1. u = [m EXCEPT !.segments = SubSeq(m.segments, 1, m.index + 1)]
        BY <2>2 DEF Path!trimpathServer, Path!shouldTrimPath, Path!trimpathClient
      <3>2. a = Len(route)
        BY <1>1, <2>2
      <3>3. t \in Seq(Seg) /\ Len(t) = a /\ \A k \in 1 .. a : t[k] = s[k]
        BY <1>2, <1>5
      <3> HIDE DEF t
      <3>4. u = [m EXCEPT !.segments = t]
        BY <1>5, <1>8, <3>1 DEF t
      <3> HIDE DEF u, m
      <3>5. u \in ConnPath /\ u.segments = t
        BY <1>8, <3>3, <3>4 DEF ConnPath
      <3>6. QED
        BY <3>2, <3>3, <3>5
    <2>3. QED
      BY <2>1, <2>2
  <1>10. u.segments[a - 1] = s[a - 1]
    BY <1>1, <1>9
  <1>11. e = [u EXCEPT !.id = s[a - 1].id, !.index = a - 2]
    BY <1>4, <1>5, <1>10 DEF Path!updatePathServer_Returns, Path!Set
  <1> HIDE DEF u
  <1>12. e \in ConnPath /\ e.segments = u.segments /\ e.id = s[a - 1].id /\ e.index = a - 2
    <2> HIDE DEF e
    <2>1. QED
      BY <1>5, <1>6, <1>9, <1>11 DEF ConnPath
  <1>13. QED
    BY <1>8, <1>9, <1>10, <1>12

LEMMA AnswersConn ==
    ASSUME PathsInv, kind = "conn", Path!Answers
    PROVE  PathsInv'
  <1> DEFINE a == call.at
             s == call.msg.segments
             e == Path!Answered
             t == e.segments
             w == Path!Front(call.saved)
             d == [call EXCEPT !.at = a - 1, !.saved = w, !.msg = e]
  <1>1. call # None /\ ~ call.down /\ a > 1 /\ call' = d
        /\ UNCHANGED <<kind, creds, route, mine, last, ended, ids, calls>>
        /\ known' = (IF call.op = "Request" THEN [known EXCEPT ![route[a]] = @ \union {Path!updatePathClient_Returns(call).id}] ELSE known)
    BY DEF Path!Answers
  <1>2. e = IF call.op = "Close" THEN call.msg ELSE Path!updatePathServer_Returns(call)
    BY DEF Path!Answered
  <1>3. a \in 2 .. Len(route) /\ Len(route) \in Nat /\ Len(route) >= 2 /\ Len(last) \in Nat /\ Reached = Len(route)
        /\ a \in Nat /\ a - 1 \in Nat /\ a - 1 \in 1 .. Len(route) /\ a \in 1 .. Len(route)
    <2>1. a \in 1 .. Len(route) /\ Len(route) >= 2 /\ Reached = Len(route)
      BY <1>1 DEF PathsInv, WayInv, Reached
    <2>2. Len(route) \in Nat /\ Len(last) \in Nat
      BY PathFacts
    <2>3. QED
      BY <1>1, <2>1, <2>2
  <1>4. call \in PathCall(ConnPath) /\ call.msg \in ConnPath /\ s \in Seq(Seg) /\ Len(s) \in Nat
        /\ call.op \in {"Request", "Close"} /\ call.saved \in Seq([server : Nat, client : Nat])
    BY <1>1, ConnCall
  <1>5. MineInv /\ AwareInv /\ NamesInv /\ IdsInv /\ PlaceInv /\ RestInv
    BY DEF PathsInv, ConnInv, SegmentsInv
  <1>6. Len(s) >= Len(route)
    BY <1>1, <1>3, <1>5 DEF NamesInv
  <1>7. call.op = "Request" =>
          /\ e.index = a - 2 /\ e.id = t[a - 1].id /\ Len(t) = Len(route)
          /\ Path!updatePathClient_Returns(call).id = s[a].id
    BY <1>1, <1>2, AnsweredConn
  <1>8. e \in ConnPath /\ (\A k \in 1 .. Len(route) : t[k] = s[k]) /\ Len(t) >= Len(route) /\ Len(t) <= Len(s)
        /\ (\A k \in 1 .. Len(t) : t[k] = s[k])
    <2>1. CASE call.op = "Close"
      BY <1>2, <1>4, <1>6, <2>1
    <2>2. CASE call.op = "Request"
      <3>1. e \in ConnPath /\ (\A k \in 1 .. Len(route) : t[k] = s[k]) /\ Len(t) = Len(route)
        BY <1>1, <1>2, <2>2, AnsweredConn
      <3>2. QED
        BY <1>3, <1>4, <1>6, <3>1
    <2>3. QED
      BY <1>4, <2>1, <2>2
  <1>9. Len(t) \in Nat
    <2>1. t \in Seq(Seg)
      BY <1>8 DEF ConnPath
    <2>2. QED
      BY <2>1
  <1>10. w \in Seq([server : Nat, client : Nat]) /\ Len(w) = a - 2
         /\ \A j \in 1 .. a - 2 : w[j] = [server |-> j - 1, client |-> j]
    BY <1>1, <1>4, LastSaved
  <1> HIDE DEF e, w
  <1>11. d \in PathCall(ConnPath) /\ d.op = call.op /\ d.at = a - 1 /\ ~ d.down /\ d.saved = w /\ d.msg = e
    BY <1>1, <1>3, <1>4, <1>8, <1>10 DEF PathCall
  <1> HIDE DEF d
  <1>12. d # None
    BY <1>11, RoutesAssumption
  <1>13. s[a].id \in Nat
    BY <1>3, <1>4, <1>6, NumberedIds
  <1>14. route[a] \in Path!Process /\ (\A k \in 1 .. Len(route) : k # a => route[k] # route[a])
    BY <1>3, PathFacts
  <1>15. known \in [Path!Process -> SUBSET Nat]
    BY DEF PathsInv, PathsType
  <1>16. PathsType'
    <2>1. known' \in [Path!Process -> SUBSET Nat]
      BY <1>1, <1>7, <1>13, <1>14, <1>15
    <2>2. QED
      BY <1>1, <1>11, <2>1 DEF PathsInv, PathsType
  <1>17. WayInv'
    <2>1. (a - 1) - 1 = a - 2
      BY <1>3
    <2>2. QED
      BY <1>1, <1>3, <1>10, <1>11, <2>1 DEF WayInv
  <1>18. MineInv'
    BY <1>1, <1>5, MineSame
  <1>19. Reached' = Len(route) /\ call'.msg.segments = t
    BY <1>1, <1>11 DEF Reached
  <1> HIDE DEF a, s, t
  <1>20. NamesInv'
    <2>1. \A k \in 1 .. Len(route) : s[k].name = route[k] /\ (k > 1 \/ (creds /\ Len(route) > 1) => s[k].token = calls)
      BY <1>1, <1>3, <1>5 DEF NamesInv, s
    <2>2. QED
      BY <1>1, <1>8, <1>19, <2>1 DEF NamesInv
  <1>21. IdsInv'
    <2>1. DistinctIds(s) /\ OldIds(s, ids)
          /\ (mine # Path!NoPath => \A k \in 1 .. Len(route) : k <= Len(last) /\ last[k] = route[k] => s[k].id = mine.segments[k].id)
      BY <1>1, <1>3, <1>5 DEF IdsInv, s
    <2>2. \A k \in 1 .. Len(t) : k \in 1 .. Len(s)
      BY <1>4, <1>8, <1>9
    <2>3. DistinctIds(t) /\ OldIds(t, ids)
      BY <1>8, <2>1, <2>2 DEF DistinctIds, OldIds
    <2>4. QED
      BY <1>1, <1>8, <1>19, <2>1, <2>3 DEF IdsInv
  <1>22. PlaceInv'
    <2>1. (a - 1) - 1 = a - 2
      BY <1>3
    <2>2. QED
      BY <1>1, <1>7, <1>11, <1>19, <2>1 DEF PlaceInv
  <1>23. RestInv'
    BY <1>1, <1>11 DEF RestInv
  <1>24. \A r \in Routes : known'[r[1]] = {}
    <2> SUFFICES ASSUME NEW r \in Routes PROVE known'[r[1]] = {}
      OBVIOUS
    <2>1. r[1] \in Path!Process /\ r[1] = route[1]
      <3>1. route \in Routes
        BY DEF PathsInv, PathsType
      <3>2. Len(r) \in Nat /\ Len(r) > 0
        BY RouteFacts
      <3>3. QED
        BY <3>1, <3>2, RouteFacts
    <2>2. route[1] # route[a]
      <3>1. 1 \in 1 .. Len(route) /\ 1 # a
        BY <1>3
      <3>2. QED
        BY <1>14, <3>1
    <2>3. known[r[1]] = {}
      BY <1>5 DEF AwareInv
    <2>4. QED
      BY <1>1, <1>15, <2>1, <2>2, <2>3 DEF a
  <1>25. AwareInv'
    <2>1. call' # None /\ call'.op = call.op /\ call'.at = a - 1 /\ ~ call'.down /\ ended = <<>> /\ ended' = <<>>
      BY <1>1, <1>5, <1>11, <1>12 DEF AwareInv
    <2>2. CASE call.op = "Request"
      <3>1. known' = [known EXCEPT ![route[a]] = @ \cup {s[a].id}]
        BY <1>1, <1>7, <2>2 DEF a
      <3>2. \A p \in Path!Process : known[p] \subseteq known'[p]
        BY <1>15, <3>1
      <3>3. \A k \in 1 .. Len(last) : last[k] \in Path!Process
        BY PathFacts
      <3>4. \A k \in 2 .. Len(last) : k \in 1 .. Len(last)
        BY <1>3
      <3>5. IdsKnown'
        BY <1>1, <1>5, <2>1, <2>2, <3>2, <3>3, <3>4 DEF AwareInv, IdsKnown
      <3>6. \A k \in (a - 1) + 1 .. Len(route) : t[k].id \in known'[route[k]]
        <4> SUFFICES ASSUME NEW k \in (a - 1) + 1 .. Len(route) PROVE t[k].id \in known'[route[k]]
          OBVIOUS
        <4>1. k \in 1 .. Len(route) /\ (k = a \/ k \in a + 1 .. Len(route))
          BY <1>3
        <4>2. CASE k = a
          BY <1>8, <1>14, <1>15, <3>1, <4>1, <4>2
        <4>3. CASE k \in a + 1 .. Len(route)
          <5>1. s[k].id \in known[route[k]]
            BY <1>1, <1>5, <2>2, <4>3 DEF AwareInv, TakenInv, a, s
          <5>2. route[k] \in Path!Process
            BY <4>1, PathFacts
          <5>3. QED
            BY <1>8, <3>2, <4>1, <5>1, <5>2
        <4>4. QED
          BY <4>1, <4>2, <4>3
      <3>7. TakenInv' /\ ClosedInv'
        BY <1>1, <1>19, <2>1, <2>2, <3>6 DEF TakenInv, ClosedInv
      <3>8. QED
        BY <1>24, <2>1, <3>5, <3>7 DEF AwareInv
    <2>3. CASE call.op = "Close"
      <3>1. known' = known
        BY <1>1, <2>3
      <3>2. route = last /\ mine # Path!NoPath /\ \A k \in 2 .. Len(last) : mine.segments[k].id \notin known[last[k]]
        BY <1>1, <1>5, <2>3 DEF AwareInv, ClosedInv
      <3>3. IdsKnown' /\ TakenInv' /\ ClosedInv'
        BY <1>1, <2>1, <2>3, <3>1, <3>2 DEF IdsKnown, TakenInv, ClosedInv
      <3>4. QED
        BY <1>24, <2>1, <3>3 DEF AwareInv
    <2>4. QED
      BY <1>4, <2>2, <2>3
  <1>26. QED
    BY <1>1, <1>16, <1>17, <1>18, <1>20, <1>21, <1>22, <1>23, <1>25
      DEF PathsInv, ConnInv, SegmentsInv, RegistrationInv

LEMMA FinishConn ==
    ASSUME PathsInv, kind = "conn", Path!Finish
    PROVE  PathsInv'
  <1> DEFINE s == call.msg.segments
  <1>1. call # None /\ ~ call.down /\ call.at = 1 /\ call' = None /\ last' = route
        /\ ended' = (IF call.op = "Close" THEN mine.segments ELSE <<>>)
        /\ mine' = (IF call.op = "Close" THEN Path!NoPath ELSE call.msg)
        /\ UNCHANGED <<kind, creds, route, known, ids, calls>>
    BY DEF Path!Finish
  <1>2. Len(route) \in Nat /\ Len(route) >= 2 /\ Reached = Len(route) /\ route \in Routes /\ route # <<>>
    <2>1. Len(route) >= 2 /\ Reached = Len(route) /\ route \in Routes
      BY <1>1 DEF PathsInv, PathsType, WayInv, Reached
    <2>2. Len(route) \in Nat /\ (route = <<>> => Len(route) = 0)
      BY PathFacts
    <2>3. QED
      BY <2>1, <2>2
  <1>3. call.msg \in ConnPath /\ s \in Seq(Seg) /\ Len(s) \in Nat /\ call.op \in {"Request", "Close"}
    BY <1>1, ConnCall
  <1>4. AwareInv /\ NamesInv /\ IdsInv /\ PlaceInv
    BY DEF PathsInv, ConnInv, SegmentsInv
  <1>5. WayInv' /\ SegmentsInv'
    BY <1>1 DEF WayInv, SegmentsInv, NamesInv, IdsInv, PlaceInv, RestInv
  <1>6. Path!NoPath \in ConnPath
    <2>1. <<>> \in Seq(Seg)
      OBVIOUS
    <2>2. QED
      BY <2>1 DEF ConnPath, Path!NoPath
  <1>7. PathsType'
    BY <1>1, <1>2, <1>3, <1>6 DEF PathsInv, PathsType
  <1>8. CASE call.op = "Request"
    <2>1. mine' = call.msg
      BY <1>1, <1>8
    <2>2. Len(s) = Len(route) /\ call.msg.index = 0 /\ call.msg.id = s[1].id
      BY <1>1, <1>2, <1>4, <1>8 DEF PlaceInv
    <2>3. DistinctIds(s) /\ OldIds(s, ids)
      BY <1>1, <1>4 DEF IdsInv
    <2>4. \A k \in 1 .. Len(route) : s[k].name = route[k] /\ (k > 1 \/ creds => s[k].token = calls)
      BY <1>1, <1>2, <1>4 DEF NamesInv
    <2>5. s[Len(route)].token = calls
      <3>1. Len(route) \in 1 .. Len(route) /\ Len(route) > 1
        BY <1>2
      <3>2. QED
        BY <2>4, <3>1
    <2>6. MineInv'
      BY <1>1, <1>2, <2>1, <2>2, <2>3, <2>4, <2>5 DEF MineInv
    <2>7. \A k \in 2 .. Len(route) : s[k].id \in known[route[k]]
      BY <1>1, <1>4, <1>8 DEF AwareInv, TakenInv
    <2>8. mine' # Path!NoPath
      <3>1. Path!NoPath.segments = <<>> /\ Len(<<>>) = 0
        BY DEF Path!NoPath
      <3>2. QED
        BY <1>2, <2>1, <2>2, <3>1
    <2>9. IdsKnown' /\ TakenInv' /\ ClosedInv'
      BY <1>1, <2>1, <2>7 DEF IdsKnown, TakenInv, ClosedInv
    <2>10. ended' \in Seq(Seg) /\ EndedInv'
      BY <1>1, <1>8 DEF EndedInv
    <2>11. AwareInv'
      BY <1>1, <1>4, <2>9, <2>10 DEF AwareInv
    <2>12. QED
      BY <1>1, <1>5, <1>7, <2>6, <2>11 DEF PathsInv, ConnInv, RegistrationInv
  <1>9. CASE call.op = "Close"
    <2>1. mine' = Path!NoPath
      BY <1>1, <1>9
    <2>2. route = last /\ mine # Path!NoPath /\ \A k \in 2 .. Len(last) : mine.segments[k].id \notin known[last[k]]
      BY <1>1, <1>4, <1>9 DEF AwareInv, ClosedInv
    <2>3. Len(mine.segments) = Len(last) /\ mine.segments \in Seq(Seg)
      BY <1>9, <2>2 DEF PathsInv, PathsType, ConnInv, MineInv, ConnPath
    <2>4. ended' \in Seq(Seg) /\ EndedInv'
      BY <1>1, <1>9, <2>2, <2>3 DEF EndedInv
    <2>5. IdsKnown' /\ TakenInv' /\ ClosedInv' /\ MineInv'
      BY <1>1, <2>1 DEF IdsKnown, TakenInv, ClosedInv, MineInv
    <2>6. AwareInv'
      BY <1>1, <1>4, <2>4, <2>5 DEF AwareInv
    <2>7. QED
      BY <1>1, <1>5, <1>7, <2>5, <2>6 DEF PathsInv, ConnInv, RegistrationInv
  <1>10. QED
    BY <1>3, <1>8, <1>9

LEMMA FailConn ==
    ASSUME PathsInv, kind = "conn", Path!Fail
    PROVE  PathsInv'
  <1>1. call # None /\ call' = None /\ UNCHANGED <<kind, creds, route, known, last, ended, ids, calls>>
        /\ mine' = IF call.op = "Close" THEN Path!NoPath ELSE mine
    BY DEF Path!Fail
  <1>2. MineInv /\ AwareInv /\ PathsType /\ call.op \in {"Request", "Close"}
    BY <1>1, ConnCall DEF PathsInv, ConnInv
  <1>3. WayInv' /\ SegmentsInv' /\ TakenInv' /\ ClosedInv'
    BY <1>1 DEF WayInv, SegmentsInv, NamesInv, IdsInv, PlaceInv, RestInv, TakenInv, ClosedInv
  <1>4. ended = <<>> /\ (\A r \in Routes : known[r[1]] = {})
    BY <1>1, <1>2 DEF AwareInv
  <1>5. ended' \in Seq(Seg) /\ EndedInv'
    BY <1>1, <1>4 DEF EndedInv
  <1>6. PathsType' /\ MineInv' /\ IdsKnown'
    <2>1. CASE call.op = "Request"
      <3>1. mine' = mine
        BY <1>1, <2>1
      <3>2. IdsKnown'
        BY <1>1, <1>2, <2>1, <3>1 DEF AwareInv, IdsKnown
      <3>3. QED
        BY <1>1, <1>2, <3>1, <3>2, MineSame DEF PathsType
    <2>2. CASE call.op = "Close"
      <3>1. mine' = Path!NoPath
        BY <1>1, <2>2
      <3>2. Path!NoPath \in ConnPath
        <4>1. <<>> \in Seq(Seg)
          OBVIOUS
        <4>2. QED
          BY <4>1 DEF ConnPath, Path!NoPath
      <3>3. QED
        BY <1>1, <1>2, <3>1, <3>2 DEF PathsType, MineInv, IdsKnown
    <2>3. QED
      BY <1>2, <2>1, <2>2
  <1>7. AwareInv'
    BY <1>1, <1>3, <1>4, <1>5, <1>6 DEF AwareInv
  <1>8. QED
    BY <1>1, <1>3, <1>6, <1>7 DEF PathsInv, ConnInv, RegistrationInv

-----------------------------------------------------------------------------
(* The steps of a registration.                                            *)

\* The call of a registration.
LEMMA RegistrationCall ==
    ASSUME PathsInv, kind # "conn", call # None
    PROVE  /\ call \in PathCall(RegPath) /\ call.op \in {"Request", "Close"} /\ call.at \in Nat /\ call.down \in BOOLEAN
           /\ call.expires \in Nat
           /\ call.saved \in Seq([server : Nat, client : Nat])
           /\ call.msg \in RegPath /\ call.msg.id = None /\ call.msg.index \in Nat
           /\ call.msg.segments \in Seq([token : Token \cup {None}]) /\ Len(call.msg.segments) \in Nat
           /\ call.msg.pathIds \in Seq(Path!Process \cup {None}) /\ Len(call.msg.pathIds) \in Nat
  <1>1. call \in PathCall(RegPath)
    BY DEF PathsInv, PathsType
  <1>2. call.saved \in Seq([server : Nat, client : Nat]) /\ call.msg \in RegPath /\ call.op \in {"Request", "Close"}
        /\ call.at \in Nat /\ call.down \in BOOLEAN /\ call.expires \in Nat
    BY <1>1 DEF PathCall
  <1>3. call.msg.segments \in Seq([token : Token \cup {None}]) /\ call.msg.index \in Nat
        /\ call.msg.pathIds \in Seq(Path!Process \cup {None}) /\ call.msg.id = None
    BY <1>2 DEF RegPath
  <1>4. Len(call.msg.segments) \in Nat /\ Len(call.msg.pathIds) \in Nat
    BY <1>3
  <1>5. QED
    BY <1>1, <1>2, <1>3, <1>4

\* An id of the list is replaced, or added at the end.
IdIsSet(ps, qs, i, v) ==
    /\ Len(qs) \in Nat /\ Len(qs) >= i + 1 /\ Len(qs) >= Len(ps) /\ qs[i + 1] = v
    /\ \A k \in 1 .. Len(ps) : k # i + 1 => qs[k] = ps[k]

LEMMA IdSet ==
    ASSUME NEW S, NEW ps \in Seq(S), NEW i \in Nat, i <= Len(ps) \/ i = 0, NEW v \in S
    PROVE  IdIsSet(ps, Path!updatePathIds(ps, i, v), i, v)
  <1> DEFINE n == Len(ps)
             qs == Path!updatePathIds(ps, i, v)
             b == i + 1
  <1>1. n \in Nat /\ i <= n /\ b \in Nat /\ b > i
    OBVIOUS
  <1>2. CASE i >= n
    <2>1. qs = Append(ps, v)
      BY <1>2 DEF Path!updatePathIds
    <2>2. i = n
      BY <1>1, <1>2
    <2> HIDE DEF qs
    <2>3. qs \in Seq(S) /\ Len(qs) = Len(ps) + 1 /\ qs[Len(ps) + 1] = v /\ \A k \in 1 .. Len(ps) : qs[k] = ps[k]
      BY <2>1, AppendedTo
    <2>4. QED
      BY <2>2, <2>3 DEF qs, IdIsSet
  <1>3. CASE ~(i >= n)
    <2>1. qs = [ps EXCEPT ![b] = v]
      BY <1>3 DEF Path!updatePathIds
    <2>2. b \in 1 .. n
      BY <1>1, <1>3
    <2> HIDE DEF b, qs
    <2>3. qs \in Seq(S) /\ Len(qs) = Len(ps) /\ \A k \in 1 .. Len(ps) : qs[k] = IF k = b THEN v ELSE ps[k]
      BY <2>1, <2>2, ReplacedIn
    <2>4. QED
      BY <1>1, <2>2, <2>3 DEF b, qs, IdIsSet
  <1>4. QED
    BY <1>2, <1>3

\* The tokens of the caller and of the process are added.
LEMMA TokensSet ==
    ASSUME NEW q \in RegPath, NEW u \in [token : Token \cup {None}], NEW v \in [token : Token \cup {None}],
           q.index \in Nat, q.segments = <<>> => q.index = 0, Path!updatePathRegistry(q, u, v) # None
    PROVE  LET r == Path!updatePathRegistry(q, u, v) IN
           /\ r \in RegPath /\ r.index = q.index + 1 /\ r.pathIds = q.pathIds /\ r.segments # <<>>
  <1> DEFINE T == [token : Token \cup {None}]
             s == q.segments
             n == Len(s)
             i == q.index
             r == Path!updatePathRegistry(q, u, v)
             p == [q EXCEPT !.segments[i + 1] = u, !.index = i + 1]
  <1>1. s \in Seq(T) /\ n \in Nat /\ i \in Nat /\ i + 1 \in Nat
    <2>1. s \in Seq(T)
      BY DEF RegPath
    <2>2. QED
      BY <2>1
  <1>2. CASE s = <<>>
    <2>1. r = [q EXCEPT !.segments = <<u, v>>, !.index = 1] /\ i = 0
      BY <1>2 DEF Path!updatePathRegistry
    <2>2. <<u, v>> \in Seq(T) /\ <<u, v>> # <<>>
      OBVIOUS
    <2> HIDE DEF r
    <2>3. r \in RegPath /\ r.index = 1 /\ r.pathIds = q.pathIds /\ r.segments = <<u, v>>
      BY <2>1, <2>2 DEF RegPath
    <2>4. QED
      BY <2>1, <2>2, <2>3 DEF r
  <1>3. CASE s # <<>>
    <2>1. Path!GetCurrentPathSegment(q) # None
      BY <1>3 DEF Path!updatePathRegistry
    <2>2. i < n
      BY <2>1 DEF Path!GetCurrentPathSegment
    <2>3. r = IF Path!GetCurrentPathSegment(p) = None THEN [p EXCEPT !.segments = Append(p.segments, v)]
              ELSE [p EXCEPT !.segments[i + 2] = v]
      BY <1>3, <2>1 DEF Path!updatePathRegistry
    <2> DEFINE t == [s EXCEPT ![i + 1] = u]
    <2>4. t \in Seq(T) /\ Len(t) = n
      <3> DEFINE b == i + 1
      <3>1. b \in 1 .. n
        BY <1>1, <2>2
      <3> HIDE DEF b
      <3>2. QED
        BY <1>1, <3>1, ReplacedIn DEF b
    <2>5. p = [q EXCEPT !.segments = t, !.index = i + 1]
      BY DEF RegPath
    <2> HIDE DEF t
    <2>6. p \in RegPath /\ p.index = i + 1 /\ p.pathIds = q.pathIds /\ p.segments = t
      <3> HIDE DEF p
      <3>1. QED
        BY <1>1, <2>4, <2>5 DEF RegPath
    <2> HIDE DEF p
    <2>7. CASE Path!GetCurrentPathSegment(p) = None
      <3> DEFINE x == Append(t, v)
      <3>1. x \in Seq(T) /\ Len(x) = n + 1 /\ x # <<>>
        BY <1>1, <2>4, AppendedTo
      <3>2. r = [p EXCEPT !.segments = x]
        BY <2>3, <2>6, <2>7
      <3> HIDE DEF r, x
      <3>3. r \in RegPath /\ r.index = p.index /\ r.pathIds = p.pathIds /\ r.segments = x
        BY <2>6, <3>1, <3>2 DEF RegPath
      <3>4. QED
        BY <2>6, <3>1, <3>3 DEF r
    <2>8. CASE Path!GetCurrentPathSegment(p) # None
      <3> DEFINE b == i + 2
                 x == [t EXCEPT ![b] = v]
      <3>1. b \in 1 .. n
        <4>1. p.index < Len(p.segments)
          BY <2>8 DEF Path!GetCurrentPathSegment
        <4>2. QED
          BY <1>1, <2>4, <2>6, <4>1
      <3>2. x \in Seq(T) /\ Len(x) = n
        <4> HIDE DEF b
        <4>1. QED
          BY <2>4, <3>1, ReplacedIn
      <3>3. x # <<>>
        BY <3>1, <3>2
      <3>4. r = [p EXCEPT !.segments = x]
        <4>1. r = [p EXCEPT !.segments[b] = v]
          BY <2>3, <2>8
        <4>2. QED
          BY <2>6, <4>1
      <3> HIDE DEF r, x
      <3>5. r \in RegPath /\ r.index = p.index /\ r.pathIds = p.pathIds /\ r.segments = x
        BY <2>6, <3>2, <3>4 DEF RegPath
      <3>6. QED
        BY <2>6, <3>3, <3>5 DEF r
    <2>9. QED
      BY <2>7, <2>8
  <1>4. QED
    BY <1>2, <1>3

\* What a process makes of a registration that gets to it.
LEMMA ArrivedRegistration ==
    ASSUME PathsInv, kind # "conn", call # None, call.down, call.at <= Len(route), Path!Registered(call) # None
    PROVE  LET c == Path!Registered(call)  a == call.at  ps == c.msg.pathIds IN
           /\ c \in PathCall(RegPath) /\ c.op = call.op /\ c.at = a /\ c.down
           /\ c.saved = Append(call.saved, [server |-> a - 2, client |-> a - 1])
           /\ c.msg.index = a - 1 /\ c.msg.segments # <<>>
           /\ creds => Len(ps) >= a /\ \A k \in 1 .. a : ps[k] = route[k]
  <1> DEFINE a == call.at
             q == call.msg
             peerTok == Path!FromContext(call)
             tok == Path!generateToken(route[a])
             u == [token |-> peerTok]
             v == [token |-> tok]
             r == Path!updatePathRegistry(q, u, v)
             from == Path!getIDFromToken(peerTok)
             to == Path!getIDFromToken(tok)
             first == Path!updatePathIds(q.pathIds, r.index - 1, from)
             ps == Path!updatePathIds(first, r.index, to)
             m == [r EXCEPT !.pathIds = ps]
             sv == [server |-> r.index - 1, client |-> r.index]
             c == [call EXCEPT !.msg = m, !.saved = Append(call.saved, sv)]
             S == Path!Process \cup {None}
  <1>1. a \in Nat /\ a >= 2 /\ a \in 1 .. Len(route) /\ a - 1 \in 1 .. Len(route) /\ a - 2 \in Nat /\ a - 1 \in Nat
        /\ (a - 2) + 1 = a - 1 /\ Len(route) \in Nat
    <2>1. a \in Nat /\ Len(route) \in Nat
      BY RegistrationCall, PathFacts
    <2>2. a >= 2 /\ a <= Len(route)
      BY DEF PathsInv, WayInv
    <2>3. QED
      BY <2>1, <2>2
  <1>2. call \in PathCall(RegPath) /\ q \in RegPath /\ q.pathIds \in Seq(S) /\ Len(q.pathIds) \in Nat /\ calls \in Nat
    BY RegistrationCall DEF PathsInv, PathsType
  <1>3. /\ q.index = a - 2
        /\ q.segments = <<>> => a = 2
        /\ creds /\ a - 1 > 1 => Len(q.pathIds) >= a - 1 /\ \A k \in 1 .. a - 1 : q.pathIds[k] = route[k]
    <2>1. Reached = a - 1
      BY DEF Reached
    <2>2. QED
      BY <2>1 DEF PathsInv, RegistrationInv
  <1>4. route[a] \in Path!Process /\ route[a - 1] \in Path!Process
    BY <1>1, PathFacts
  <1>5. peerTok = (IF creds THEN [of |-> route[a - 1], token |-> calls] ELSE None)
    BY DEF Path!FromContext, Path!GetRequestMetadata, Path!generateToken
  <1>6. tok = [of |-> route[a], token |-> calls]
    BY DEF Path!generateToken
  <1>7. tok \in Token /\ tok # None /\ (creds => peerTok \in Token /\ peerTok # None) /\ (~ creds => peerTok = None)
    BY <1>2, <1>4, <1>5, <1>6, RoutesAssumption DEF Token
  <1>8. u \in [token : Token \cup {None}] /\ v \in [token : Token \cup {None}]
    BY <1>7
  <1>9. from \in S /\ to \in S /\ to = route[a] /\ (creds => from = route[a - 1])
    BY <1>4, <1>5, <1>6, <1>7 DEF Path!getIDFromToken
  <1>10. r # None /\ Path!Registered(call) = c
    BY DEF Path!Registered
  <1>11. r \in RegPath /\ r.index = a - 1 /\ r.segments # <<>>
    <2>1. q.index \in Nat /\ (q.segments = <<>> => q.index = 0)
      BY <1>1, <1>3
    <2> HIDE DEF u, v
    <2>2. r \in RegPath /\ r.index = q.index + 1 /\ r.segments # <<>>
      BY <1>2, <1>8, <1>10, <2>1, TokensSet
    <2>3. QED
      BY <1>1, <1>3, <2>2
  <1> HIDE DEF peerTok, tok, u, v, r, from, to
  <1>12. a - 2 <= Len(q.pathIds) \/ a - 2 = 0 \/ ~ creds
    BY <1>1, <1>2, <1>3
  <1>13. (a - 1) - 1 = a - 2
    BY <1>1
  <1>14. q.pathIds \in Seq(S) => first \in Seq(S) /\ Len(first) \in Nat
    <2> DEFINE i == a - 2
               ids0 == q.pathIds
    <2>1. first = IF i >= Len(ids0) THEN Append(ids0, from) ELSE [ids0 EXCEPT ![i + 1] = from]
      BY <1>11, <1>13 DEF Path!updatePathIds
    <2>2. CASE i >= Len(ids0)
      <3>1. first = Append(ids0, from)
        BY <2>1, <2>2
      <3> HIDE DEF first, ids0, S
      <3>2. first \in Seq(S) /\ Len(first) = Len(ids0) + 1
        BY <1>2, <1>9, <3>1, AppendedTo DEF ids0
      <3>3. QED
        BY <1>2, <3>2 DEF ids0
    <2>3. CASE ~(i >= Len(ids0))
      <3> DEFINE b == i + 1
      <3>1. b \in 1 .. Len(ids0)
        BY <1>1, <1>2, <2>3
      <3>2. first = [ids0 EXCEPT ![b] = from]
        BY <2>1, <2>3
      <3> HIDE DEF b, first, ids0, S
      <3>3. first \in Seq(S) /\ Len(first) = Len(ids0)
        BY <1>2, <1>9, <3>1, <3>2, ReplacedIn DEF ids0
      <3>4. QED
        BY <1>2, <3>3 DEF ids0
    <2>4. QED
      BY <2>2, <2>3
  <1>15. creds => /\ Len(first) >= a - 1
                  /\ \A k \in 1 .. a - 1 : first[k] = route[k]
    <2> SUFFICES ASSUME creds PROVE Len(first) >= a - 1 /\ \A k \in 1 .. a - 1 : first[k] = route[k]
      OBVIOUS
    <2> DEFINE i == a - 2
               p0 == q.pathIds
    <2>1. i \in Nat /\ (i <= Len(p0) \/ i = 0) /\ i + 1 = a - 1
      BY <1>1, <1>2, <1>12
    <2>2. first = Path!updatePathIds(p0, i, from)
      BY <1>11, <1>13
    <2>3. p0 \in Seq(S) /\ from \in S
      BY <1>2, <1>9
    <2> DEFINE qs == Path!updatePathIds(p0, i, from)
    <2> HIDE DEF i, p0, first, S
    <2>9. Len(qs) >= i + 1 /\ qs[i + 1] = from /\ (\A k \in 1 .. Len(p0) : k # i + 1 => qs[k] = p0[k])
      <3>1. IdIsSet(p0, qs, i, from)
        BY <2>1, <2>3, IdSet
      <3>2. QED
        BY <3>1 DEF IdIsSet
    <2>4. Len(first) >= i + 1 /\ first[i + 1] = from /\ (\A k \in 1 .. Len(p0) : k # i + 1 => first[k] = p0[k])
      BY <2>2, <2>9
    <2>5. \A k \in 1 .. a - 1 : first[k] = route[k]
      <3> SUFFICES ASSUME NEW k \in 1 .. a - 1, k # a - 1 PROVE first[k] = route[k]
        BY <1>9, <2>1, <2>4
      <3>1. a - 1 > 1
        BY <1>1
      <3>2. k \in 1 .. Len(p0) /\ p0[k] = route[k]
        BY <1>1, <1>2, <1>3, <3>1 DEF p0
      <3>3. QED
        BY <2>1, <2>4, <3>2
    <2>6. QED
      BY <2>1, <2>4, <2>5
  <1>16. ps \in Seq(S)
    <2> DEFINE i == a - 1
    <2>1. ps = IF i >= Len(first) THEN Append(first, to) ELSE [first EXCEPT ![i + 1] = to]
      BY <1>11 DEF Path!updatePathIds
    <2>2. first \in Seq(S) /\ Len(first) \in Nat
      BY <1>2, <1>14
    <2> HIDE DEF first
    <2>3. CASE i >= Len(first)
      BY <1>9, <2>1, <2>2, <2>3, AppendedTo
    <2>4. CASE ~(i >= Len(first))
      <3> DEFINE b == i + 1
      <3>1. b \in 1 .. Len(first)
        BY <1>1, <2>2, <2>4
      <3>2. ps = [first EXCEPT ![b] = to]
        BY <2>1, <2>4
      <3> HIDE DEF b, ps, S
      <3>3. QED
        BY <1>9, <2>2, <3>1, <3>2, ReplacedIn
    <2>5. QED
      BY <2>3, <2>4
  <1>17. creds => Len(ps) >= a /\ \A k \in 1 .. a : ps[k] = route[k]
    <2> SUFFICES ASSUME creds PROVE Len(ps) >= a /\ \A k \in 1 .. a : ps[k] = route[k]
      OBVIOUS
    <2> DEFINE i == a - 1
    <2>1. i \in Nat /\ i <= Len(first) /\ i + 1 = a
      BY <1>1, <1>2, <1>14, <1>15
    <2>2. ps = Path!updatePathIds(first, i, to) /\ first \in Seq(S) /\ to \in S
      BY <1>2, <1>9, <1>11, <1>14
    <2> DEFINE qs == Path!updatePathIds(first, i, to)
    <2> HIDE DEF i, first, ps, S
    <2>9. Len(qs) >= i + 1 /\ qs[i + 1] = to /\ (\A k \in 1 .. Len(first) : k # i + 1 => qs[k] = first[k])
      <3>1. IdIsSet(first, qs, i, to)
        BY <2>1, <2>2, IdSet
      <3>2. QED
        BY <3>1 DEF IdIsSet
    <2>3. Len(ps) >= i + 1 /\ ps[i + 1] = to /\ (\A k \in 1 .. Len(first) : k # i + 1 => ps[k] = first[k])
      BY <2>2, <2>9
    <2>4. \A k \in 1 .. a : ps[k] = route[k]
      <3> SUFFICES ASSUME NEW k \in 1 .. a, k # a PROVE ps[k] = route[k]
        BY <1>9, <2>1, <2>3
      <3>1. k \in 1 .. a - 1 /\ k \in 1 .. Len(first)
        <4>1. k \in 1 .. a - 1
          BY <1>1
        <4>2. Len(first) \in Nat
          BY <1>2, <1>14
        <4>3. QED
          BY <1>1, <1>15, <4>1, <4>2
      <3>2. QED
        BY <1>15, <2>1, <2>3, <3>1
    <2>5. QED
      BY <2>1, <2>3, <2>4
  <1> HIDE DEF first, ps
  <1>18. m \in RegPath /\ m.index = a - 1 /\ m.segments # <<>> /\ m.pathIds = ps
    BY <1>11, <1>16 DEF RegPath
  <1> HIDE DEF m
  <1>19. sv = [server |-> a - 2, client |-> a - 1]
    BY <1>11, <1>13
  <1>20. Append(call.saved, sv) \in Seq([server : Nat, client : Nat])
    <2>1. sv \in [server : Nat, client : Nat] /\ call.saved \in Seq([server : Nat, client : Nat])
      BY <1>1, <1>19, RegistrationCall
    <2> HIDE DEF sv
    <2>2. QED
      BY <2>1, AppendedTo
  <1>21. c \in PathCall(RegPath) /\ c.op = call.op /\ c.at = a /\ c.down /\ c.saved = Append(call.saved, sv) /\ c.msg = m
    <2> HIDE DEF sv
    <2>1. QED
      BY <1>2, <1>18, <1>20 DEF PathCall
  <1> HIDE DEF c
  <1>22. QED
    BY <1>10, <1>17, <1>18, <1>19, <1>21

LEMMA StartRegistration ==
    ASSUME PathsInv, kind # "conn", NEW o \in {"Request", "Close"}, Path!Start(o)
    PROVE  PathsInv'
  <1>1. PICK keep \in BOOLEAN :
          call' = [op |-> o, at |-> 2, down |-> TRUE, saved |-> <<>>, expires |-> 0, msg |-> Path!PathFromContext(keep)]
    BY DEF Path!Start
  <1>2. call = None /\ calls' = calls + 1 /\ ids' = ids + 1 /\ UNCHANGED <<kind, creds, route, mine, known, last>>
    BY DEF Path!Start
  <1> DEFINE m == Path!PathFromContext(keep)
  <1>3. mine \in RegPath /\ mine.index = 0 /\ ids \in Nat /\ calls \in Nat /\ Len(route) \in Nat /\ Len(route) > 0
    BY PathFacts DEF PathsInv, PathsType, RegistrationInv
  <1>4. m \in RegPath /\ m.index = 0
    <2>1. CASE keep
      BY <1>3, <2>1 DEF Path!PathFromContext
    <2>2. CASE ~ keep
      <3>1. m = [mine EXCEPT !.index = 0, !.segments = <<>>]
        BY <2>2 DEF Path!PathFromContext
      <3>2. <<>> \in Seq([token : Token \cup {None}])
        OBVIOUS
      <3> HIDE DEF m
      <3>3. QED
        BY <1>3, <3>1, <3>2 DEF RegPath
    <2>3. QED
      BY <2>1, <2>2
  <1> HIDE DEF m
  <1>5. call' \in PathCall(RegPath) /\ call'.down /\ call'.at = 2 /\ call'.saved = <<>> /\ call'.msg = m
    <2>1. <<>> \in Seq([server : Nat, client : Nat])
      OBVIOUS
    <2>2. QED
      BY <1>1, <1>4, <2>1 DEF PathCall, m
  <1>6. PathsType'
    BY <1>2, <1>3, <1>5 DEF PathsInv, PathsType
  <1>7. WayInv'
    <2>1. Len(<<>>) = 0 /\ 2 - 2 = 0 /\ \A j \in 1 .. 0 : FALSE
      OBVIOUS
    <2>2. QED
      BY <1>2, <1>3, <1>5, <2>1 DEF WayInv
  <1>8. RegistrationInv'
    <2>1. Reached' = 1
      BY <1>5 DEF Reached
    <2>2. QED
      BY <1>2, <1>4, <1>5, <2>1 DEF PathsInv, RegistrationInv
  <1>9. QED
    BY <1>2, <1>6, <1>7, <1>8 DEF PathsInv, ConnInv

LEMMA ArrivesRegistration ==
    ASSUME PathsInv, kind # "conn", Path!Arrives
    PROVE  PathsInv'
  <1> DEFINE g == Path!Registered(call)
             c == Path!Arrived
             a == call.at
             x == [server |-> a - 2, client |-> a - 1]
             d == IF a = Len(route) THEN [c EXCEPT !.down = FALSE] ELSE [c EXCEPT !.at = a + 1]
  <1>1. call # None /\ call.down /\ a <= Len(route) /\ c # None /\ ids' = ids + 1
        /\ UNCHANGED <<kind, creds, route, mine, last, calls, known>>
    BY DEF Path!Arrives
  <1>2. kind \in {"ns", "nse"}
    BY RoutesAssumption DEF PathsInv, PathsType
  <1>3. c = IF kind = "ns" THEN g ELSE IF g = None THEN None ELSE [g EXCEPT !.expires = calls]
    BY <1>2
      DEF Path!Arrived, Path!updatePathNSServer_Register, Path!updatePathNSEServer_Register,
          Path!withExpirationTime,
                Path!generateToken
  <1>4. g # None
    BY <1>1, <1>3
  <1>5. /\ g \in PathCall(RegPath) /\ g.op = call.op /\ g.at = a /\ g.down
        /\ g.saved = Append(call.saved, x)
        /\ g.msg.index = a - 1 /\ g.msg.segments # <<>>
        /\ creds => Len(g.msg.pathIds) >= a /\ \A k \in 1 .. a : g.msg.pathIds[k] = route[k]
    BY <1>1, <1>4, ArrivedRegistration
  <1>6. a \in Nat /\ a >= 2 /\ Len(route) \in Nat /\ ids \in Nat /\ calls \in Nat
        /\ call.saved \in Seq([server : Nat, client : Nat]) /\ Len(call.saved) = a - 2
    BY <1>1, RegistrationCall, PathFacts DEF PathsInv, PathsType, WayInv
  <1> HIDE DEF g, c
  <1>7. c \in PathCall(RegPath) /\ c.op = g.op /\ c.at = a /\ c.down /\ c.saved = g.saved /\ c.msg = g.msg
    <2>1. CASE kind = "ns"
      BY <1>3, <1>5, <2>1
    <2>2. CASE kind # "ns"
      <3>1. c = [g EXCEPT !.expires = calls]
        BY <1>3, <1>4, <2>2
      <3>2. QED
        BY <1>5, <1>6, <3>1 DEF PathCall
    <2>3. QED
      BY <2>1, <2>2
  <1>8. d \in PathCall(RegPath) /\ d.saved = g.saved /\ d.msg = g.msg
        /\ d.at = (IF a = Len(route) THEN a ELSE a + 1) /\ (d.down <=> a # Len(route))
    <2>1. CASE a = Len(route)
      BY <1>7, <2>1 DEF PathCall
    <2>2. CASE a # Len(route)
      <3>1. a + 1 \in Nat
        BY <1>6
      <3>2. QED
        BY <1>7, <2>2, <3>1 DEF PathCall
    <2>3. QED
      BY <2>1, <2>2
  <1>9. call' = d
    <2>1. call' = IF a = Len(route) THEN [c EXCEPT !.down = FALSE] ELSE [c EXCEPT !.at = c.at + 1]
      BY DEF Path!Arrives, c
    <2>2. QED
      BY <1>7, <2>1
  <1> HIDE DEF d, a
  <1>10. PathsType'
    BY <1>1, <1>6, <1>8, <1>9 DEF PathsInv, PathsType
  <1>11. WayInv'
    <2>1. x \in [server : Nat, client : Nat]
      <3>1. a - 2 \in Nat /\ a - 1 \in Nat
        BY <1>6
      <3>2. QED
        BY <3>1
    <2>2. Len(g.saved) = a - 1 /\ g.saved[a - 1] = x /\ \A j \in 1 .. a - 2 : g.saved[j] = call.saved[j]
      <3>1. (a - 2) + 1 = a - 1
        BY <1>6
      <3> HIDE DEF x
      <3>2. QED
        BY <1>5, <1>6, <2>1, <3>1, AppendedTo
    <2>3. \A j \in 1 .. a - 2 : call.saved[j] = [server |-> j - 1, client |-> j]
      BY <1>1, <1>6 DEF PathsInv, WayInv
    <2>4. \A j \in 1 .. Len(g.saved) : g.saved[j] = [server |-> j - 1, client |-> j]
      <3> SUFFICES ASSUME NEW j \in 1 .. a - 1 PROVE g.saved[j] = [server |-> j - 1, client |-> j]
        BY <2>2
      <3>1. CASE j \in 1 .. a - 2
        BY <2>2, <2>3, <3>1
      <3>2. CASE j = a - 1
        <4>1. j - 1 = a - 2
          BY <1>6, <3>2
        <4>2. QED
          BY <2>2, <3>2, <4>1
      <3>3. QED
        BY <1>6, <3>1, <3>2
    <2>5. (a + 1) - 2 = a - 1 /\ a + 1 >= 2 /\ (a # Len(route) => a + 1 <= Len(route) + 1) /\ (a = Len(route) => Len(route) >= 2)
          /\ a \in 1 .. Len(route)
      BY <1>1, <1>6 DEF a
    <2>6. QED
      BY <1>1, <1>8, <1>9, <2>2, <2>4, <2>5 DEF WayInv
  <1>12. RegistrationInv'
    <2>1. Reached' = a /\ (a + 1) - 2 = a - 1
      <3>1. (a + 1) - 1 = a /\ (a + 1) - 2 = a - 1
        BY <1>6
      <3>2. QED
        BY <1>1, <1>8, <1>9, <3>1 DEF Reached
    <2>2. QED
      BY <1>1, <1>5, <1>8, <1>9, <2>1 DEF PathsInv, RegistrationInv
  <1>13. QED
    BY <1>1, <1>10, <1>11, <1>12 DEF PathsInv, ConnInv

LEMMA AnswersRegistration ==
    ASSUME PathsInv, kind # "conn", Path!Answers
    PROVE  PathsInv'
  <1> DEFINE a == call.at
             q == call.msg
             e == Path!Answered
             w == Path!Front(call.saved)
             d == [call EXCEPT !.at = a - 1, !.saved = w, !.msg = e]
  <1>1. call # None /\ ~ call.down /\ a > 1 /\ call' = d
        /\ UNCHANGED <<kind, creds, route, mine, last, ids, calls, known>>
    BY DEF Path!Answers
  <1>2. kind \in {"ns", "nse"}
    BY RoutesAssumption DEF PathsInv, PathsType
  <1>3. call \in PathCall(RegPath) /\ q \in RegPath /\ call.saved \in Seq([server : Nat, client : Nat])
    BY <1>1, RegistrationCall
  <1>4. a \in 1 .. Len(route) /\ Len(route) >= 2 /\ Len(route) \in Nat /\ Reached = Len(route)
    BY <1>1, PathFacts DEF PathsInv, WayInv, Reached
  <1>5. a \in Nat /\ a - 1 \in Nat /\ a - 2 \in Nat /\ a - 1 \in 1 .. Len(route) /\ (a - 1) - 1 = a - 2
    BY <1>1, <1>4
  <1>6. /\ Path!Last(call.saved) = [server |-> a - 2, client |-> a - 1]
        /\ w \in Seq([server : Nat, client : Nat]) /\ Len(w) = a - 2
        /\ \A j \in 1 .. a - 2 : w[j] = [server |-> j - 1, client |-> j]
    BY <1>1, <1>3, LastSaved
  <1>7. e = [q EXCEPT !.index = a - 2]
    <2> DEFINE h == Path!sendPath(call)
    <2>1. h = [q EXCEPT !.index = a - 2]
      BY <1>6 DEF Path!sendPath
    <2>2. h.index = a - 2 /\ h.segments = q.segments
      BY <1>3, <2>1 DEF RegPath
    <2>3. e = [q EXCEPT !.index = h.index, !.segments = h.segments]
      BY <1>2
        DEF Path!Answered, Path!grpcMetadataNSServer, Path!grpcMetadataNSEServer, Path!grpcMetadataNSClient,
            Path!grpcMetadataNSEClient
    <2> HIDE DEF h, e
    <2>4. e = [q EXCEPT !.index = a - 2, !.segments = q.segments]
      BY <2>2, <2>3
    <2>5. QED
      BY <1>3, <2>4 DEF RegPath
  <1> HIDE DEF e, w
  <1>8. e \in RegPath /\ e.index = a - 2 /\ e.segments = q.segments /\ e.pathIds = q.pathIds
    BY <1>3, <1>5, <1>7 DEF RegPath
  <1>9. d \in PathCall(RegPath) /\ d.at = a - 1 /\ ~ d.down /\ d.saved = w /\ d.msg = e
    BY <1>1, <1>3, <1>5, <1>6, <1>8 DEF PathCall
  <1> HIDE DEF d
  <1>10. PathsType'
    BY <1>1, <1>9 DEF PathsInv, PathsType
  <1>11. WayInv'
    BY <1>1, <1>4, <1>5, <1>6, <1>9 DEF WayInv
  <1>12. RegistrationInv'
    <2>1. Reached' = Len(route)
      BY <1>1, <1>9 DEF Reached
    <2>2. q.segments # <<>>
      BY <1>1 DEF PathsInv, RegistrationInv
    <2>3. creds /\ Len(route) > 1 => Len(q.pathIds) >= Len(route) /\ \A k \in 1 .. Len(route) : q.pathIds[k] = route[k]
      BY <1>1, <1>4 DEF PathsInv, RegistrationInv
    <2>4. QED
      BY <1>1, <1>5, <1>8, <1>9, <2>1, <2>2, <2>3 DEF PathsInv, RegistrationInv
  <1>13. QED
    BY <1>1, <1>10, <1>11, <1>12 DEF PathsInv, ConnInv

\* The call ends.
LEMMA EndsRegistration ==
    ASSUME PathsInv, kind # "conn", Path!Finish \/ Path!Fail
    PROVE  PathsInv'
  <1>1. call # None /\ call' = None /\ UNCHANGED <<kind, creds, route, ids, calls>>
    BY DEF Path!Finish, Path!Fail
  <1>2. Path!NoPath \in RegPath /\ Path!NoPath.index = 0
    <2>1. <<>> \in Seq([token : Token \cup {None}]) /\ <<>> \in Seq(Path!Process \cup {None})
      OBVIOUS
    <2>2. QED
      BY <2>1 DEF RegPath, Path!NoPath
  <1>4. known' \in [Path!Process -> SUBSET Nat]
    BY DEF Path!Finish, Path!Fail, PathsInv, PathsType
  <1>5. mine' \in RegPath /\ mine'.index = 0 /\ last' \in Routes \cup {<<>>}
        /\ (creds /\ mine' # Path!NoPath => Len(mine'.pathIds) >= Len(last') /\ \A k \in 1 .. Len(last') : mine'.pathIds[k] = last'[k])
    <2>1. mine \in RegPath /\ mine.index = 0 /\ last \in Routes \cup {<<>>} /\ route \in Routes
          /\ (creds /\ mine # Path!NoPath => Len(mine.pathIds) >= Len(last) /\ \A k \in 1 .. Len(last) : mine.pathIds[k] = last[k])
      BY DEF PathsInv, PathsType, RegistrationInv
    <2>2. CASE Path!Fail
      BY <1>2, <2>1, <2>2 DEF Path!Fail
    <2>3. CASE Path!Finish
      <3>1. ~ call.down /\ call.at = 1 /\ last' = route /\ mine' = IF call.op = "Close" THEN Path!NoPath ELSE call.msg
        BY <2>3 DEF Path!Finish
      <3>2. call.msg \in RegPath /\ call.msg.index = 0
        BY <1>1, <3>1, RegistrationCall DEF PathsInv, RegistrationInv
      <3>3. Len(route) >= 2 /\ Reached = Len(route) /\ Len(route) \in Nat
        BY <1>1, <3>1, PathFacts DEF PathsInv, WayInv, Reached
      <3>4. creds => Len(call.msg.pathIds) >= Len(route) /\ \A k \in 1 .. Len(route) : call.msg.pathIds[k] = route[k]
        BY <1>1, <3>3 DEF PathsInv, RegistrationInv
      <3>5. QED
        BY <1>2, <2>1, <3>1, <3>2, <3>4
    <2>4. QED
      BY <2>2, <2>3
  <1>6. PathsType'
    BY <1>1, <1>4, <1>5 DEF PathsInv, PathsType
  <1>7. WayInv' /\ RegistrationInv'
    BY <1>1, <1>5 DEF WayInv, RegistrationInv
  <1>8. QED
    BY <1>1, <1>6, <1>7 DEF PathsInv, ConnInv

-----------------------------------------------------------------------------
(* What holds of the paths.                                                *)

LEMMA PathsStep ==
    ASSUME PathsInv, Path!PathsNext
    PROVE  PathsInv'
  <1>1. CASE \E r \in Routes : Path!Reroute(r)
    BY <1>1, RerouteStep
  <1>2. CASE \E o \in {"Request", "Close"} : Path!Start(o)
    BY <1>2, StartConn, StartRegistration
  <1>3. CASE Path!Arrives
    BY <1>3, ArrivesConn, ArrivesRegistration
  <1>4. CASE Path!Answers
    BY <1>4, AnswersConn, AnswersRegistration
  <1>5. CASE Path!Finish
    BY <1>5, FinishConn, EndsRegistration
  <1>6. CASE Path!Fail
    BY <1>6, FailConn, EndsRegistration
  <1>7. QED
    BY <1>1, <1>2, <1>3, <1>4, <1>5, <1>6 DEF Path!PathsNext

LEMMA PathsSame ==
    ASSUME PathsInv, UNCHANGED <<kind, creds, route, mine, call, known, last, ended, ids, calls>>
    PROVE  PathsInv'
  <1>1. PathsType' /\ WayInv' /\ RegistrationInv'
    BY DEF PathsInv, PathsType, WayInv, RegistrationInv, Reached
  <1>2. MineInv => MineInv'
    BY DEF MineInv
  <1>3. AwareInv => AwareInv'
    BY DEF AwareInv, IdsKnown, TakenInv, ClosedInv, EndedInv
  <1>4. SegmentsInv => SegmentsInv'
    BY DEF SegmentsInv, NamesInv, IdsInv, PlaceInv, RestInv, Reached
  <1>5. QED
    BY <1>1, <1>2, <1>3, <1>4 DEF PathsInv, ConnInv

LEMMA PathFits == PathsInv => Path!PathIsRoute
  <1> SUFFICES ASSUME PathsInv, call = None
               PROVE  IF mine = Path!NoPath THEN kind = "conn" => \A k \in DOMAIN ended : ended[k].id \notin known[last[k]]
                      ELSE /\ mine.index = 0
                           /\ kind = "conn" =>
                                 /\ Len(mine.segments) = Len(last)
                                 /\ mine.id = mine.segments[1].id
                                 /\ \A k \in DOMAIN last :
                                       /\ mine.segments[k].name = last[k]
                                       /\ \A l \in 1 .. k - 1 : mine.segments[k].id # mine.segments[l].id
                                       /\ k > 1 => mine.segments[k].id \in known[last[k]]
                                       /\ k > 1 \/ creds => mine.segments[k].token = Path!Last(mine.segments).token
                           /\ kind # "conn" /\ creds => Path!IsPrefix(last, mine.pathIds)
    BY DEF Path!PathIsRoute
  <1>1. Len(last) \in Nat /\ DOMAIN last = 1 .. Len(last) /\ \A i \in 1 .. Len(last) : last[i] \in Path!Process
    BY PathFacts
  <1>2. CASE mine = Path!NoPath
    <2> SUFFICES ASSUME kind = "conn", NEW k \in DOMAIN ended PROVE ended[k].id \notin known[last[k]]
      BY <1>2
    <2>1. AwareInv /\ ended \in Seq(Seg) /\ EndedInv
      BY DEF PathsInv, ConnInv, AwareInv
    <2>2. ended # <<>> /\ DOMAIN ended = 1 .. Len(ended)
      BY <2>1
    <2>3. Len(ended) = Len(last) /\ \A j \in 2 .. Len(last) : ended[j].id \notin known[last[j]]
      BY <2>1, <2>2 DEF EndedInv
    <2>4. CASE k # 1
      BY <1>1, <2>2, <2>3, <2>4
    <2>5. CASE k = 1
      <3>1. last \in Routes
        <4>1. last # <<>>
          BY <1>1, <2>2, <2>3
        <4>2. QED
          BY <4>1, PathFacts
      <3>2. QED
        BY <2>1, <2>5, <3>1 DEF AwareInv
    <2>6. QED
      BY <2>4, <2>5
  <1>3. CASE mine # Path!NoPath /\ kind = "conn"
    <2> DEFINE s == mine.segments
    <2>1. Len(s) = Len(last) /\ mine.index = 0 /\ mine.id = s[1].id
          /\ (\A k \in 1 .. Len(last) : s[k].name = last[k]) /\ DistinctIds(s)
          /\ (\A k \in 1 .. Len(last) : k > 1 \/ creds => s[k].token = s[Len(last)].token)
      BY <1>3 DEF PathsInv, ConnInv, MineInv
    <2>2. \A k \in 2 .. Len(last) : s[k].id \in known[last[k]]
      BY <1>3 DEF PathsInv, ConnInv, AwareInv, IdsKnown
    <2>3. Path!Last(s) = s[Len(last)]
      BY <2>1 DEF Path!Last
    <2>4. \A k \in 1 .. Len(last) : \A l \in 1 .. k - 1 : l \in 1 .. Len(s) /\ k \in 1 .. Len(s) /\ l # k
      BY <1>1, <2>1
    <2>5. \A k \in 1 .. Len(last) : \A l \in 1 .. k - 1 : s[k].id # s[l].id
      BY <2>1, <2>4 DEF DistinctIds
    <2>6. \A k \in 1 .. Len(last) : k > 1 => k \in 2 .. Len(last)
      BY <1>1
    <2> HIDE DEF s
    <2>7. /\ Len(s) = Len(last) /\ mine.index = 0 /\ mine.id = s[1].id
          /\ \A k \in DOMAIN last :
                /\ s[k].name = last[k]
                /\ \A l \in 1 .. k - 1 : s[k].id # s[l].id
                /\ k > 1 => s[k].id \in known[last[k]]
                /\ k > 1 \/ creds => s[k].token = Path!Last(s).token
      BY <1>1, <2>1, <2>2, <2>3, <2>5, <2>6
    <2>8. QED
      BY <1>3, <2>7 DEF s
  <1>4. CASE mine # Path!NoPath /\ kind # "conn"
    <2>1. mine.index = 0
      BY <1>4 DEF PathsInv, RegistrationInv
    <2>2. creds => Path!IsPrefix(last, mine.pathIds)
      <3> SUFFICES ASSUME creds PROVE Path!IsPrefix(last, mine.pathIds)
        OBVIOUS
      <3> DEFINE ps == mine.pathIds
                 n == Len(last)
      <3>1. Len(ps) >= n /\ \A k \in 1 .. n : ps[k] = last[k]
        BY <1>4 DEF PathsInv, RegistrationInv
      <3>2. ps \in Seq(Path!Process \cup {None})
        BY <1>4 DEF PathsInv, PathsType, RegPath
      <3>3. last \in Seq(Path!Process \cup {None})
        <4>1. last \in Routes \/ last = <<>>
          BY DEF PathsInv, PathsType
        <4>2. CASE last = <<>>
          BY <4>2
        <4>3. CASE last \in Routes
          <5>1. last \in Seq(Path!Process)
            BY <4>3, RouteFacts
          <5>2. QED
            BY <5>1
        <4>4. QED
          BY <4>1, <4>2, <4>3
      <3> HIDE DEF ps
      <3>4. SubSeq(ps, 1, n) \in Seq(Path!Process \cup {None}) /\ Len(SubSeq(ps, 1, n)) = n
            /\ \A k \in 1 .. n : SubSeq(ps, 1, n)[k] = ps[k]
        BY <1>1, <3>1, <3>2, BeginningOf
      <3>5. last = SubSeq(ps, 1, n)
        BY <1>1, <3>1, <3>3, <3>4
      <3>6. QED
        BY <3>1, <3>5 DEF Path!IsPrefix, ps
    <2>3. QED
      BY <1>4, <2>1, <2>2
  <1>5. QED
    BY <1>2, <1>3, <1>4

\* Only an answer lets a process know a connection, under the id in the client's path.
LEMMA IdsStep ==
    ASSUME PathsInv, Path!PathsNext
    PROVE  Path!IdsAreKeptStep
  <1> SUFFICES ASSUME NEW k \in DOMAIN last, kind = "conn", mine # Path!NoPath, k \in DOMAIN route, route[k] = last[k]
               PROVE  known'[last[k]] \subseteq known[last[k]] \cup {mine.segments[k].id}
    BY DEF Path!IdsAreKeptStep
  <1> DEFINE p == last[k]
             a == call.at
  <1>1. k \in 1 .. Len(last) /\ k \in 1 .. Len(route) /\ p \in Path!Process /\ Len(route) \in Nat /\ Len(last) \in Nat
    BY PathFacts
  <1>2. known \in [Path!Process -> SUBSET Nat] /\ IdsInv
    BY DEF PathsInv, PathsType, ConnInv, SegmentsInv
  <1>3. CASE Path!Answers /\ call.op = "Request" /\ route[a] = p
    <2>1. call # None /\ ~ call.down /\ a > 1
          /\ known' = [known EXCEPT ![route[a]] = @ \cup {Path!updatePathClient_Returns(call).id}]
      BY <1>3 DEF Path!Answers
    <2>2. a \in 1 .. Len(route) /\ Reached = Len(route)
      BY <2>1 DEF PathsInv, WayInv, Reached
    <2>3. a = k
      BY <1>1, <1>3, <2>2, PathFacts
    <2>4. Path!updatePathClient_Returns(call).id = call.msg.segments[k].id
      BY <1>3, <2>1, <2>3, AnsweredConn
    <2>5. call.msg.segments[k].id = mine.segments[k].id
      BY <1>1, <1>2, <2>1, <2>2 DEF IdsInv
    <2>6. QED
      BY <1>1, <1>2, <1>3, <2>1, <2>4, <2>5
  <1>4. CASE Path!Answers /\ ~(call.op = "Request" /\ route[a] = p)
    <2>1. known' = known
          \/ (route[a] # p /\ known' = [known EXCEPT ![route[a]] = @ \cup {Path!updatePathClient_Returns(call).id}])
      BY <1>4 DEF Path!Answers
    <2>2. QED
      BY <1>1, <1>2, <2>1
  <1>5. CASE Path!Arrives
    <2>1. known' = known \/ known' = [known EXCEPT ![route[a]] = @ \ {Path!Arrived.msg.id}]
      BY <1>5 DEF Path!Arrives
    <2>2. QED
      BY <1>1, <1>2, <2>1
  <1>6. CASE Path!Fail \/ Path!Finish \/ (\E r \in Routes : Path!Reroute(r)) \/ \E o \in {"Request", "Close"} : Path!Start(o)
    BY <1>6 DEF Path!Fail, Path!Finish, Path!Reroute, Path!Start
  <1>7. QED
    BY <1>3, <1>4, <1>5, <1>6 DEF Path!PathsNext

LEMMA PathsAlways == MCSpec => [](part = "path" => PathsInv)
  <1>1. MCInit => (part = "path" => PathsInv)
    BY PathsInit DEF MCInit
  <1>2. (part = "path" => PathsInv) /\ [MCNext \/ Done]_allVars => (part = "path" => PathsInv)'
    <2> SUFFICES ASSUME part = "path" => PathsInv, [MCNext \/ Done]_allVars, part' = "path"
                 PROVE  PathsInv'
      OBVIOUS
    <2>1. part = "path" /\ PathsInv
      BY DEF MCNext, Done, allVars
    <2>2. CASE MCNext
      BY <2>1, <2>2, PathsStep DEF MCNext
    <2>3. CASE Done \/ UNCHANGED allVars
      <3>1. UNCHANGED <<kind, creds, route, mine, call, known, last, ended, ids, calls>>
        BY <2>3 DEF Done, allVars, shared, pathOnly
      <3>2. QED
        BY <2>1, <3>1, PathsSame
    <2>4. QED
      BY <2>2, <2>3
  <1>3. QED
    BY <1>1, <1>2, PTL DEF MCSpec

\* updatepath, updatetoken, trimpath, grpcmetadata: the path of the last good Request has
\* one segment for each process of its route, with the id under which that process knows
\* the connection, until a good Close has ended them all, whatever routes there are and
\* wherever calls fail, down or on the way back.
THEOREM PathsFit == MCSpec => []PathIsRoute
  <1>1. (part = "path" => PathsInv) => PathIsRoute
    BY PathFits DEF PathIsRoute
  <1>2. QED
    BY <1>1, PathsAlways, PTL

\* updatepath: a process that is where it was on the last route gets no other id for the
\* connection that the client has.
THEOREM IdsStay == MCSpec => IdsAreKept
  <1>1. (part = "path" => PathsInv) /\ [MCNext \/ Done]_allVars => [part = "path" => Path!IdsAreKeptStep]_allVars
    <2> SUFFICES ASSUME part = "path", PathsInv, MCNext \/ Done, ~ UNCHANGED allVars
                 PROVE  Path!IdsAreKeptStep
      OBVIOUS
    <2>1. CASE MCNext
      BY <2>1, IdsStep DEF MCNext
    <2>2. CASE Done
      BY <2>2 DEF Done
    <2>3. QED
      BY <2>1, <2>2
  <1>2. QED
    BY <1>1, PathsAlways, PTL DEF MCSpec, IdsAreKept
=============================================================================
