------------------------------- MODULE Discover -------------------------------
(***************************************************************************)
(* The way of a connection through a manager, which chooses a forwarder,   *)
(* and the forwarder, which chooses an endpoint (discoverforwarder;        *)
(* discover and roundrobin; matchutils), while forwarders and endpoints    *)
(* come and go and the manager restarts.  Other connections share the      *)
(* registry and the counter of the round robin of each forwarder.          *)
(***************************************************************************)
EXTENDS Integers, Sequences, FiniteSets, SequencesExt, FiniteSetsExt

CONSTANTS
    Forwarder, Endpoint,
    NsLabels,       \* labels of the requests
    Matches,        \* lists of matches of the network service, to choose from
    LabelsOf,       \* labels of each forwarder and endpoint, or None
    Template,       \* the key to which each value that is a template refers
    None,
    MaxCalls,       \* bound: calls
    MaxChanges      \* bound: changes of the registry and restarts

VARIABLES
    matches,        \* of the network service (never changes)
    registered,     \* state of each forwarder and endpoint in the registry
    roundRobin,     \* counter of each forwarder
    forwarderName,  \* metadata of the manager, or None
    path,           \* what the client has: next segment after the manager, or None
    nseName,        \* and the name of the endpoint, or None
    has,            \* forwarders and endpoints that have the connection
    lost,           \* history: where a Close could not get to
    call,           \* the call, or None
    calls, changes

discoverVars == <<matches, registered, roundRobin, forwarderName, path, nseName, has, lost, call, calls, changes>>

Host == Forwarder \cup Endpoint

DiscoverInit ==
    /\ matches \in Matches
    /\ registered = [h \in Host |-> "live"] /\ has = {}
    /\ roundRobin = [f \in Forwarder |-> 0]
    /\ forwarderName = None /\ path = None /\ nseName = None /\ lost = {} /\ call = None
    /\ calls = 0 /\ changes = 0

-----------------------------------------------------------------------------
(* matchutils.  Labels are functions from keys.                            *)

processLabels(value, values) ==
    IF value \notin DOMAIN Template THEN value
    ELSE IF Template[value] \in DOMAIN values THEN values[Template[value]] ELSE "<no value>"

IsSubset(a, b, values) ==
    /\ Cardinality(DOMAIN a) >= Cardinality(DOMAIN b)
    /\ \A k \in DOMAIN b :
          LET have == IF k \in DOMAIN a THEN a[k] ELSE ""
          IN  have = b[k] \/ have = processLabels(b[k], values)

Labels(h) == IF LabelsOf[h] = None THEN <<>> ELSE LabelsOf[h]

\* One of these with k of them up to it.
Nth(s, k) == CHOOSE x \in s : Cardinality({y \in s : y <= x}) = k

\* For each route those that fit it, in their order.  One that fits two comes twice.
Candidates(match, nses) ==
    LET Nse(x) == nses[((x - 1) % Len(nses)) + 1]
        fit == {x \in 1 .. Len(match.routes) * Len(nses) :
                  IsSubset(Labels(Nse(x)), match.routes[((x - 1) \div Len(nses)) + 1], NsLabels)}
    IN  [k \in 1 .. Cardinality(fit) |-> Nse(Nth(fit, k))]

\* The matches that decide, the first of them is taken.
DecideEndpoint(nses) ==
    {i \in DOMAIN matches : /\ IsSubset(NsLabels, matches[i].source, NsLabels)
                            /\ ~ (matches[i].fallthrough /\ Candidates(matches[i], nses) = <<>>)}

MatchEndpoint(nses) ==
    LET ms == DecideEndpoint(nses)  m == matches[Min(ms)] IN
    IF matches = <<>> THEN nses
    ELSE IF ms = {} THEN <<>>
    ELSE IF m.metadata # None /\ m.routes = <<>> THEN nses ELSE Candidates(m, nses)

\* A Find: the registered ones of these, in any order.
MatchNetworkServiceEndpoints(name, hosts) ==
    {h \in hosts : registered[h] # "none" /\ (name = None \/ h = name)}

-----------------------------------------------------------------------------
(* discoverforwarder.                                                      *)

Forwarders(match, hosts) ==
    LET labels == IF match.metadata = None THEN [p2p |-> "true"] ELSE match.metadata
    IN  {h \in hosts : LabelsOf[h] # None /\ IsSubset(LabelsOf[h], labels, NsLabels)}

DecideForwarder(hosts) ==
    {i \in DOMAIN matches : /\ IsSubset(NsLabels, matches[i].source, NsLabels)
                            /\ ~ (matches[i].fallthrough /\ Forwarders(matches[i], hosts) = {})}

matchForwarders(hosts) ==
    LET ms == DecideForwarder(hosts) IN
    IF matches = <<>> THEN hosts ELSE IF ms = {} THEN {} ELSE Forwarders(matches[Min(ms)], hosts)

\* A bug: the forwarder of the path has no priority.
preferred_None(nses) == nses

\* The forwarder that the connection had goes first.
preferred(nses) ==
    LET is == {i \in DOMAIN nses : nses[i] = path}
    IN  IF is = {} \/ call.name # None \/ call.reselect THEN nses
        ELSE [nses EXCEPT ![1] = nses[Min(is)], ![Min(is)] = nses[1]]

loadForwarderName == forwarderName

Call(o, reselect) ==
    [op |-> o, at |-> "manager", reselect |-> reselect, ok |-> FALSE, was |-> path,
     name |-> IF o = "Request" /\ reselect THEN None ELSE loadForwarderName,
     nse |-> IF o = "Request" /\ reselect THEN None ELSE nseName,
     nses |-> <<>>, found |-> {}, tried |-> {},
     endpoints |-> <<>>, selected |-> None, left |-> 0, failed |-> {}, others |-> 0]

\* A Request of the client comes to the manager: the first one, or a refresh.
Request ==
    /\ call = None /\ calls < MaxCalls /\ calls' = calls + 1
    /\ call' = Call("Request", FALSE)
    /\ UNCHANGED <<matches, registered, roundRobin, forwarderName, path, nseName, has, lost, changes>>

Left(at) == [call EXCEPT !.at = at, !.endpoints = <<>>, !.selected = None, !.left = 0, !.failed = {}, !.others = 0]
Returns(ok) == [Left("done") EXCEPT !.nses = <<>>, !.ok = ok]

\* It looks for the forwarders and matches them.
FindForwarders ==
    /\ call # None /\ call.at = "manager" /\ call.op = "Request" /\ call.found = {}
    /\ \E nses \in SetToSeqs(matchForwarders(MatchNetworkServiceEndpoints(call.name, Forwarder))) :
          call' = IF nses = <<>> THEN Returns(FALSE)
                  ELSE [call EXCEPT !.nses = preferred(nses), !.found = Range(nses)]
    /\ UNCHANGED <<matches, registered, roundRobin, forwarderName, path, nseName, has, lost, calls, changes>>

\* The registry does not answer, or does not know the network service.
FindFails ==
    /\ call # None /\ call.at = "manager" /\ call.op = "Request" /\ call.found = {}
    /\ call' = Returns(FALSE)
    /\ UNCHANGED <<matches, registered, roundRobin, forwarderName, path, nseName, has, lost, calls, changes>>

\* The forwarder has failed: the next one, if there is one.
NextForwarder ==
    IF Len(call.nses) = 1 THEN Returns(FALSE)
    ELSE [Left("manager") EXCEPT !.nses = Tail(@), !.tried = @ \cup {Head(call.nses)}]

-----------------------------------------------------------------------------
(* discover and roundrobin, in the forwarder Head(call.nses).           *)

validateExpirationTime(nses) == {nse \in nses : registered[nse] # "expired"}

\* The endpoint that the Request names, registered or not.
discoverNetworkServiceEndpoint ==
    /\ call.nse # None
    /\ call' = IF MatchNetworkServiceEndpoints(call.nse, Endpoint) = {} THEN NextForwarder
               ELSE [call EXCEPT !.at = "endpoint", !.selected = call.nse, !.left = 0]

WithCandidates(nses) ==
    [call EXCEPT !.at = "roundrobin", !.endpoints = nses, !.left = Len(nses), !.failed = {}, !.others = 0]

discoverNetworkServiceEndpoints ==
    /\ call.nse = None
    /\ \E list \in SetToSeqs(validateExpirationTime(MatchNetworkServiceEndpoints(None, Endpoint))) :
          LET nses == MatchEndpoint(list)
          IN  call' = IF nses = <<>> THEN NextForwarder ELSE WithCandidates(nses)

\* The connection goes to the forwarder, which looks for endpoints.
Discover ==
    /\ call # None /\ call.at = "manager" /\ call.op = "Request" /\ call.found # {}
    /\ discoverNetworkServiceEndpoint \/ discoverNetworkServiceEndpoints
    /\ UNCHANGED <<matches, registered, roundRobin, forwarderName, path, nseName, has, lost, calls, changes>>

\* A forwarder cannot be reached, or its registry does not answer.
DiscoverFails ==
    /\ call # None /\ call.at = "manager" /\ call.op = "Request" /\ call.found # {}
    /\ call' = NextForwarder
    /\ UNCHANGED <<matches, registered, roundRobin, forwarderName, path, nseName, has, lost, calls, changes>>

\* A bug: the counter moves two on.
selectEndpoint_Twice(f, nses) ==
    [endpoint |-> nses[(roundRobin[f] % Len(nses)) + 1], counter |-> roundRobin[f] + 2]

selectEndpoint(f, nses) ==
    [endpoint |-> nses[(roundRobin[f] % Len(nses)) + 1], counter |-> roundRobin[f] + 1]

\* The next endpoint.
Select ==
    /\ call # None /\ call.at = "roundrobin" /\ call.left > 0
    /\ LET f == Head(call.nses)  chosen == selectEndpoint(f, call.endpoints) IN
       /\ roundRobin' = [roundRobin EXCEPT ![f] = chosen.counter]
       /\ call' = [call EXCEPT !.at = "endpoint", !.selected = chosen.endpoint, !.left = @ - 1]
    /\ UNCHANGED <<matches, registered, forwarderName, path, nseName, has, lost, calls, changes>>

\* A Request of another connection turns the counter, which all of them share, and gets
\* the endpoint that would be next.
OtherSelects(f) ==
    /\ changes < MaxChanges /\ changes' = changes + 1
    /\ roundRobin' = [roundRobin EXCEPT ![f] = selectEndpoint(f, <<None>>).counter]
    /\ call' = IF call = None \/ call.nses = <<>> \/ call.nses[1] # f THEN call ELSE [call EXCEPT !.others = @ + 1]
    /\ UNCHANGED <<matches, registered, forwarderName, path, nseName, has, lost, calls>>

\* The endpoint fails.  One that was named in the Request is the only one.
EndpointFails ==
    /\ call # None /\ call.at = "endpoint" /\ call.op = "Request"
    /\ call' = IF call.nse # None THEN NextForwarder
               ELSE [call EXCEPT !.at = "roundrobin", !.failed = @ \cup {call.selected}]
    /\ UNCHANGED <<matches, registered, roundRobin, forwarderName, path, nseName, has, lost, calls, changes>>

\* All candidates have failed.
GiveUp ==
    /\ call # None /\ call.at = "roundrobin" /\ call.left = 0
    /\ call' = NextForwarder
    /\ UNCHANGED <<matches, registered, roundRobin, forwarderName, path, nseName, has, lost, calls, changes>>

storeForwarderName(f) == IF call.name = None THEN f ELSE forwarderName

\* The endpoint accepts, and the answer gets to the client.  A forwarder that is given
\* up keeps what it has.
Accepts ==
    /\ call # None /\ call.at = "endpoint" /\ call.op = "Request"
    /\ LET f == Head(call.nses)  e == call.selected IN
       /\ has' = has \cup {f, e}
       /\ forwarderName' = storeForwarderName(f)
       /\ path' = f /\ nseName' = e
       /\ lost' = (lost \cup call.tried \cup ({call.was} \ (call.found \cup {None}))) \ {f, e}
    /\ call' = Returns(TRUE)
    /\ UNCHANGED <<matches, registered, roundRobin, calls, changes>>

-----------------------------------------------------------------------------
(* Close.                                                                  *)

\* The client closes, for good or to reselect.
Close(reselect) ==
    /\ call = None /\ nseName # None /\ calls < MaxCalls /\ calls' = calls + 1
    /\ call' = Call("Close", reselect)
    /\ UNCHANGED <<matches, registered, roundRobin, forwarderName, path, nseName, has, lost, changes>>

\* After a restart of the manager the path tells the forwarder.
CloseName == IF loadForwarderName # None THEN loadForwarderName ELSE path

\* The manager forgets the connection, whether or not it finds the forwarder.
CloseAtManager ==
    /\ call # None /\ call.at = "manager" /\ call.op = "Close"
    /\ forwarderName' = None
    /\ LET found == IF CloseName = None THEN {} ELSE MatchNetworkServiceEndpoints(CloseName, Forwarder)
           missing == path # None /\ registered[path] = "none" IN
       IF found = {} THEN call' = Returns(FALSE) /\ lost' = lost \cup (IF missing THEN has ELSE {})
       ELSE call' = [call EXCEPT !.at = "forwarder", !.nses = SetToSeq(found)] /\ UNCHANGED lost
    /\ UNCHANGED <<matches, registered, roundRobin, path, nseName, has, calls, changes>>

\* The forwarder forgets it, too, and so does the endpoint if the registry still has it.
CloseAtForwarder ==
    /\ call # None /\ call.at = "forwarder"
    /\ LET e == call.nse  closed == {Head(call.nses)} \cup MatchNetworkServiceEndpoints(e, Endpoint) IN
       /\ has' = has \ closed
       /\ lost' = lost \cup ({e} \ closed)
    /\ call' = Returns(TRUE)
    /\ UNCHANGED <<matches, registered, roundRobin, forwarderName, path, nseName, calls, changes>>

\* A Close gets lost on the way to the manager, or from there to the forwarder.
CloseFails ==
    /\ call # None /\ call.op = "Close" /\ call.at \in {"manager", "forwarder"}
    /\ lost' = lost \cup has
    /\ call' = Returns(FALSE)
    /\ UNCHANGED <<matches, registered, roundRobin, forwarderName, path, nseName, has, calls, changes>>

\* The client has the result.  The Request of a reselect follows its Close, whatever
\* came of that.
Finish ==
    /\ call # None /\ call.at = "done"
    /\ LET closes == call.op = "Close" IN
       IF closes /\ call.reselect
       THEN call' = Call("Request", TRUE) /\ UNCHANGED <<path, nseName>>
       ELSE /\ call' = None
            /\ path' = IF closes THEN None ELSE path
            /\ nseName' = IF closes THEN None ELSE nseName
    /\ UNCHANGED <<matches, registered, roundRobin, forwarderName, has, lost, calls, changes>>

-----------------------------------------------------------------------------
(* The surroundings.                                                       *)

Register(h, state) ==
    /\ changes < MaxChanges /\ changes' = changes + 1
    /\ registered[h] # state /\ (state = "expired" => h \in Endpoint)
    /\ registered' = [registered EXCEPT ![h] = state]
    /\ UNCHANGED <<matches, roundRobin, forwarderName, path, nseName, has, lost, call, calls>>

\* The manager loses its metadata, and the calls that it is in fail.
Restart ==
    /\ changes < MaxChanges /\ changes' = changes + 1
    /\ forwarderName' = None
    /\ call' = IF call = None \/ call.at = "done" THEN call ELSE Returns(FALSE)
    /\ lost' = IF call # None /\ call.op = "Close" /\ call.at # "done" THEN lost \cup has ELSE lost
    /\ UNCHANGED <<matches, registered, roundRobin, path, nseName, has, calls>>

DiscoverNext ==
    \/ Request \/ FindForwarders \/ FindFails \/ Discover \/ DiscoverFails
    \/ Select \/ EndpointFails \/ GiveUp \/ Accepts
    \/ \E reselect \in BOOLEAN : Close(reselect)
    \/ CloseAtManager \/ CloseAtForwarder \/ CloseFails \/ Finish
    \/ \E f \in Forwarder : OtherSelects(f)
    \/ \E h \in Host, state \in {"none", "live", "expired"} : Register(h, state)
    \/ Restart

-----------------------------------------------------------------------------
\* A connection stays on its forwarder, across restarts of the manager as well: it
\* moves only if reselected, or if the forwarder has failed or was not there.
ForwarderIsKept ==
    call # None /\ call.ok /\ call.op = "Request" /\ ~ call.reselect /\ call.was \in call.found
        => path = call.was \/ call.was \in call.tried

\* A forwarder gives a Request up, with "all candidates have failed", after as many tries
\* as there are candidates.  It has tried all of them if no other Request has turned the
\* counter in between, and otherwise has missed at most one for each turn of the others.
AllCandidatesAreTried ==
    call # None /\ call.at = "roundrobin" /\ call.left = 0
        => Cardinality(Range(call.endpoints) \ call.failed) <= call.others

\* When the client has closed a connection, nobody has it but those that the Close,
\* or an earlier one, could not get to.
ClosedEverywhere == call = None /\ nseName = None => has \subseteq lost

\* If all matches fall through, an endpoint that fits one of them is found.
FallthroughFinds ==
    LET nses == SetToSeq(validateExpirationTime(MatchNetworkServiceEndpoints(None, Endpoint))) IN
    (\A i \in DOMAIN matches : matches[i].fallthrough) =>
        \A i \in DOMAIN matches :
            IsSubset(NsLabels, matches[i].source, NsLabels) /\ Candidates(matches[i], nses) # <<>>
                => MatchEndpoint(nses) # <<>>
===============================================================================
