------------------------------ MODULE MCBegin ------------------------------
(***************************************************************************)
(* The begin elements of network services and of the registry, one at a    *)
(* time: the initial state chooses the element.  Midchain elements cancel  *)
(* their late Close events here; module BeginTimeout looks at one that     *)
(* may not.                                                                *)
(***************************************************************************)
EXTENDS BeginServer, TLC

VARIABLES element, response

NetworkServiceClient == INSTANCE BeginClient
Registry             == INSTANCE BeginRegistry

Symmetry == Permutations(Calls) \cup Permutations(Events)

MCInit ==
    /\ Init
    /\ MidchainOrderly
    /\ element \in {"server", "client"} \cup Registry!Elements
    /\ response = [f \in Factories |-> None]

MCNext ==
    \/ element = "server" /\ Next /\ UNCHANGED <<element, response>>
    \/ element = "client" /\ NetworkServiceClient!Next /\ UNCHANGED <<element, response>>
    \/ element \in Registry!Elements /\ Registry!Next

MCSpec == MCInit /\ [][MCNext]_<<vars, element, response>>

\* begin/doc.go, "Close Correctness", for beginClient: it gives the chain clones
\* of its request, so a Close always has the last Connection that was returned; and
\* for Unregister calls of the registry clients (module BeginRegistry).
ClientCloseCorrectness ==
    /\ element = "client" => CloseCorrectness
    /\ element \in Registry!Elements => Registry!UnregisterCorrectness

\* Unregister of an endpoint returns only once the registration that it found
\* has left the map (registry/common/begin/nse_server.go, nse_client.go).
UnregisterTakesEffect == Registry!UnregisterTakesEffect
=============================================================================
