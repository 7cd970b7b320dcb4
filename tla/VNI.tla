--------------------------------- MODULE VNI --------------------------------
(***************************************************************************)
(* Numbers that tell the traffic of connections apart: vniServer and       *)
(* vniClient (mechanisms/vxlan/vni) give a connection a VNI that is its    *)
(* own among those from the same tunnel, vlanServer                        *)
(* (mechanisms/kernel/vlan) one of the VLANs of the forwarder.             *)
(***************************************************************************)
EXTENDS Integers, FiniteSets, FiniteSetsExt

CONSTANTS
    Conn,
    SrcIP,     \* tunnel addresses that vniClients set
    Number     \* VNIs or VLANs

VARIABLES
    element,   \* "vni" or "vlan" (never changes)
    recovers,  \* may a connection bring a number from before? (never changes)
    keys,      \* vniServer: the map of source and VNI in use
    meta,      \* vniServer: the VNI in the metadata of the connection, or 0
    freeVLANs, \* vlanServer
    call,      \* the Request in the rest of the chain: its source, number and loaded
    held       \* source and number of established connections

vniVars == <<element, recovers, keys, meta, freeVLANs, call, held>>

Idle == [pc |-> "idle", src |-> 0, n |-> 0, loaded |-> FALSE]
NoNumber == [src |-> 0, n |-> 0]

Init ==
    /\ element \in {"vni", "vlan"}
    /\ recovers \in BOOLEAN
    /\ keys = {}
    /\ meta = [c \in Conn |-> 0]
    /\ freeVLANs = Number
    /\ call = [c \in Conn |-> Idle]
    /\ held = [c \in Conn |-> NoNumber]

Calling(c, src, n, loaded) ==
    call' = [call EXCEPT ![c] = [pc |-> "next", src |-> src, n |-> n, loaded |-> loaded]]

\* The vniClient of the previous hop sets the source, the same for every Request of
\* a connection.
SrcOf(c) == IF held[c] = NoNumber THEN SrcIP ELSE {held[c].src}

\* The VNI in the metadata of the connection, which a delete leaves 0.
store(c, n) == meta' = [meta EXCEPT ![c] = n]
loadOrStore(c, n) == IF meta[c] = 0 THEN store(c, n) ELSE UNCHANGED meta

\* vniServer.Request with the VNI n of the mechanism, 0 if there is none.  One that
\* is given is remembered, whoever else uses it.
VNIRequest(c, src, n) ==
    /\ element = "vni"
    /\ \/ /\ n # 0
          /\ keys' = keys \cup {<<src, n>>}
          /\ loadOrStore(c, n)
          /\ Calling(c, src, n, meta[c] # 0)
       \/ /\ n = 0 /\ meta[c] # 0
          /\ Calling(c, src, meta[c], TRUE)
          /\ UNCHANGED <<keys, meta>>
       \/ \E v \in Number :
             /\ n = 0 /\ meta[c] = 0 /\ <<src, v>> \notin keys
             /\ keys' = keys \cup {<<src, v>>}
             /\ store(c, v)
             /\ Calling(c, src, v, FALSE)
    /\ UNCHANGED freeVLANs

\* vlanServer.Request: the smallest free VLAN, for a mechanism without one.
VLANRequest(c, src, n) ==
    /\ element = "vlan"
    /\ \/ n # 0 /\ Calling(c, src, n, TRUE) /\ UNCHANGED freeVLANs
       \/ /\ n = 0 /\ freeVLANs # {}
          /\ Calling(c, src, Min(freeVLANs), FALSE)
          /\ freeVLANs' = freeVLANs \ {Min(freeVLANs)}
    /\ UNCHANGED <<keys, meta>>

Request(c, src, n) ==
    /\ call[c].pc = "idle"
    /\ recovers \/ n = held[c].n
    /\ VNIRequest(c, src, n) \/ VLANRequest(c, src, n)
    /\ UNCHANGED <<element, recovers, held>>

RequestSuccess(c) ==
    /\ call[c].pc = "next"
    /\ held' = [held EXCEPT ![c] = [src |-> call[c].src, n |-> call[c].n]]
    /\ call' = [call EXCEPT ![c] = Idle]
    /\ UNCHANGED <<element, recovers, keys, meta, freeVLANs>>

\* releaseVLANID
releaseVLANID(n) == freeVLANs' = freeVLANs \cup {n}

\* A number that is new is released.
RequestFailure(c) ==
    /\ call[c].pc = "next"
    /\ call' = [call EXCEPT ![c] = Idle]
    /\ IF call[c].loaded THEN UNCHANGED <<keys, meta, freeVLANs>>
       ELSE IF element = "vni"
       THEN /\ keys' = keys \ {<<call[c].src, call[c].n>>}
            /\ store(c, 0)
            /\ UNCHANGED freeVLANs
       ELSE releaseVLANID(call[c].n) /\ UNCHANGED <<keys, meta>>
    /\ UNCHANGED <<element, recovers, held>>

Close(c) ==
    /\ call[c].pc = "idle" /\ held[c] # NoNumber
    /\ IF element = "vni"
       THEN /\ keys' = keys \ {<<held[c].src, held[c].n>>}
            /\ store(c, 0)
            /\ UNCHANGED freeVLANs
       ELSE releaseVLANID(held[c].n) /\ UNCHANGED <<keys, meta>>
    /\ held' = [held EXCEPT ![c] = NoNumber]
    /\ UNCHANGED <<element, recovers, call>>

Next ==
    \E c \in Conn :
        \/ \E src \in SrcOf(c), n \in Number \cup {0} : Request(c, src, n)
        \/ RequestSuccess(c) \/ RequestFailure(c) \/ Close(c)

-----------------------------------------------------------------------------
\* Connections from the same source never have the same number, unless some bring
\* their own.
NoSharedNumber ==
    ~ recovers =>
        \A c, d \in Conn :
            c # d /\ held[c] # NoNumber /\ held[d] # NoNumber =>
                \/ held[c].n # held[d].n
                \/ element = "vni" /\ held[c].src # held[d].src
=============================================================================
