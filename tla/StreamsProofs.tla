---------------------------- MODULE StreamsProofs ---------------------------
(***************************************************************************)
(* Theorems about the parts that move answers and events through channels  *)
(* and streams, and those that try again when they break, as MCStreams     *)
(* composes them, for any number of callers, servers, answers, events,     *)
(* entries, crashes and calls and for channels of any capacity.            *)
(***************************************************************************)
EXTENDS MCStreams, TLAPS

-----------------------------------------------------------------------------
(* A Find through the adapters.                                            *)

\* Answers that are past the first channel: received by the caller, in the second
\* channel or in the hands of the adapter.
Past == Len(got) + Len(ch["adapter"]) + (IF msg = 0 THEN 0 ELSE 1)

FindTypes ==
    /\ api \in {"ns", "nse", "monitor"} /\ watch \in BOOLEAN /\ (api = "monitor" => watch)
    /\ answers \in Nat /\ done \in BOOLEAN
    /\ ch \in [{"server", "adapter"} -> Seq(Nat)]
    /\ closed \in [{"server", "adapter"} -> BOOLEAN]
    /\ pc \in [server : {"find", "ok", "error"}, adapter : {"find", "check", "recv", "send", "ok", "error"}]
    /\ sent \in 0 .. answers /\ msg \in Nat /\ got \in Seq(Nat)
    /\ result \in {"none", "stream", "eof", "error"}

\* What is on its way is the answers in order, from the caller back to the registry.
InOrder ==
    /\ \A i \in 1 .. Len(got) : got[i] = i
    /\ \A i \in 1 .. Len(ch["adapter"]) : ch["adapter"][i] = Len(got) + i
    /\ msg # 0 => msg = Past
    /\ pc.adapter = "send" <=> msg # 0
    /\ pc.adapter # "error" => \A i \in 1 .. Len(ch["server"]) : ch["server"][i] = Past + i
    /\ pc.adapter # "error" /\ pc.server # "error" => sent = Past + Len(ch["server"])

\* Who has ended has nothing left to do, unless the caller has cancelled.
EndsInOrder ==
    /\ closed["server"] => pc.server # "find"
    /\ closed["adapter"] => pc.adapter \in {"ok", "error"}
    /\ pc.server = "ok" => sent = answers
    /\ pc.adapter = "ok" /\ ~ done => ch["server"] = <<>> /\ closed["server"]
    /\ ~ watch /\ pc.adapter \notin {"find", "error"} => pc.server = "ok"
    /\ ~ watch /\ result \in {"stream", "eof"} => pc.adapter = "ok"
    /\ ~ watch /\ result = "eof" => ch["adapter"] = <<>>

FindInv == FindTypes /\ InOrder /\ EndsInOrder

USE DEF Stream!frozen, Stream!Stage, Stream!channelSize

LEMMA OneOver == \A a, b \in Nat : a + b = (a + 1) + (b - 1)
OBVIOUS

LEMMA PastIs ==
    ASSUME ch["adapter"] \in Seq(Nat), got \in Seq(Nat)
    PROVE  /\ msg = 0 => Past = Len(got) + Len(ch["adapter"])
           /\ msg # 0 => Past = Len(got) + Len(ch["adapter"]) + 1
           /\ Past \in Nat
<1>1. msg = 0 => Past = Len(got) + Len(ch["adapter"])
  BY DEF Past
<1>2. msg # 0 => Past = Len(got) + Len(ch["adapter"]) + 1
  BY DEF Past
<1> QED
  BY <1>1, <1>2

LEMMA FindInit == Stream!StreamInit => FindInv
<1> USE DEF Stream!StreamInit
<1> SUFFICES ASSUME Stream!StreamInit PROVE FindInv
  OBVIOUS
<1>1. FindTypes
  <2>1. answers \in Nat /\ sent \in 0 .. answers
    BY StreamsAssumption
  <2>2. ch \in [{"server", "adapter"} -> Seq(Nat)] /\ got \in Seq(Nat)
    OBVIOUS
  <2> QED
    BY <2>1, <2>2 DEF FindTypes
<1>2. InOrder
  BY DEF InOrder, Past
<1>3. EndsInOrder
  BY DEF EndsInOrder
<1> QED
  BY <1>1, <1>2, <1>3 DEF FindInv

\* The registry sends an answer.
LEMMA RegistryKeepsOrder == FindInv /\ Stream!RegistryFind => FindInv'
<1> SUFFICES ASSUME FindInv, Stream!RegistryFind PROVE FindInv'
  OBVIOUS
<1> USE DEF FindInv
<1>0. /\ pc.server = "find"
      /\ UNCHANGED <<api, watch, answers, done, msg, got, result>>
  BY DEF Stream!RegistryFind
<1>1. CASE /\ sent < answers /\ sent' = sent + 1
           /\ ch' = [ch EXCEPT !["server"] = Append(@, sent + 1)]
           /\ pc' = [pc EXCEPT !["server"] = "find"] /\ UNCHANGED closed
  <2>0. /\ ch'["adapter"] = ch["adapter"] /\ ch["adapter"] \in Seq(Nat)
        /\ ch'["server"] = Append(ch["server"], sent + 1) /\ ch["server"] \in Seq(Nat)
        /\ ch' \in [{"server", "adapter"} -> Seq(Nat)]
        /\ pc' = pc /\ sent \in Nat
    BY <1>0, <1>1 DEF FindTypes
  <2>1. FindTypes'
    <3>1. sent' \in 0 .. answers
      BY <1>1 DEF FindTypes
    <3> QED
      BY <1>0, <1>1, <2>0, <3>1 DEF FindTypes
  <2>2. InOrder'
    BY <1>0, <1>1, <2>0 DEF FindTypes, InOrder, Past
  <2>3. EndsInOrder'
    BY <1>0, <1>1, <2>0 DEF FindTypes, EndsInOrder
  <2> QED
    BY <2>1, <2>2, <2>3
<1>2. CASE /\ done /\ sent < answers /\ sent' = sent + 1 /\ pc' = [pc EXCEPT !["server"] = "error"]
           /\ closed' = Stream!Close("server") /\ UNCHANGED ch
  <2>1. FindTypes'
    BY <1>0, <1>2 DEF FindTypes, Stream!Close
  <2>2. InOrder'
    BY <1>0, <1>2 DEF FindTypes, InOrder, Past
  <2>3. EndsInOrder'
    BY <1>0, <1>2 DEF FindTypes, EndsInOrder, Stream!Close
  <2> QED
    BY <2>1, <2>2, <2>3
<1>3. CASE /\ sent = answers /\ pc' = [pc EXCEPT !["server"] = "ok"]
           /\ closed' = Stream!Close("server") /\ UNCHANGED <<ch, sent>>
  <2>1. FindTypes'
    BY <1>0, <1>3 DEF FindTypes, Stream!Close
  <2>2. InOrder'
    BY <1>0, <1>3 DEF FindTypes, InOrder, Past
  <2>3. EndsInOrder'
    BY <1>0, <1>3 DEF FindTypes, EndsInOrder, Stream!Close
  <2> QED
    BY <2>1, <2>2, <2>3
<1> QED
  BY <1>1, <1>2, <1>3 
  DEF Stream!RegistryFind, Stream!SendOn, Stream!Send, Stream!Returns,
            Stream!networkServiceRegistryFindServer_Send,
            Stream!networkServiceEndpointRegistryFindServer_Send,
            Stream!monitorConnectionMonitorConnectionsServer_Send

LEMMA RegistryFailsInOrder == FindInv /\ Stream!RegistryFails => FindInv'
<1> SUFFICES ASSUME FindInv, Stream!RegistryFails PROVE FindInv'
  OBVIOUS
<1> USE DEF FindInv, Stream!RegistryFails, Stream!Returns, Stream!Close
<1>1. FindTypes'
  BY DEF FindTypes
<1>2. InOrder'
  BY DEF FindTypes, InOrder, Past
<1>3. EndsInOrder'
  BY DEF FindTypes, EndsInOrder
<1> QED
  BY <1>1, <1>2, <1>3

\* The Find of the inner client returns to the adapter.
LEMMA AdapterStarts == FindInv /\ Stream!FindServerToClient => FindInv'
<1> SUFFICES ASSUME FindInv, Stream!FindServerToClient PROVE FindInv'
  OBVIOUS
<1> USE DEF FindInv, Stream!FindServerToClient, Stream!Returns, Stream!Close
<1>1. FindTypes'
  BY DEF FindTypes
<1>2. InOrder'
  BY DEF FindTypes, InOrder, Past
<1>3. EndsInOrder'
  BY DEF FindTypes, EndsInOrder
<1> QED
  BY <1>1, <1>2, <1>3

\* The adapter receives and sends on.
LEMMA AdapterKeepsOrder ==
    FindInv /\ Stream!FindClientToServer /\ UNCHANGED <<api, watch, answers, done, sent, got, result>> => FindInv'
<1> SUFFICES ASSUME FindInv, Stream!FindClientToServer,
                    UNCHANGED <<api, watch, answers, done, sent, got, result>>
             PROVE  FindInv'
  OBVIOUS
<1> USE DEF FindInv
<1>0. /\ ch["adapter"] \in Seq(Nat) /\ ch["server"] \in Seq(Nat)
      /\ got \in Seq(Nat) /\ sent \in Nat /\ msg \in Nat /\ answers \in Nat
  BY DEF FindTypes
<1>1. CASE /\ pc.adapter = "check" /\ UNCHANGED <<ch, closed, msg>>
           /\ pc' = [pc EXCEPT !["adapter"] = "recv"]
  <2>1. FindTypes'
    BY <1>1 DEF FindTypes
  <2>2. InOrder'
    BY <1>1 DEF FindTypes, InOrder, Past
  <2>3. EndsInOrder'
    BY <1>1 DEF FindTypes, EndsInOrder
  <2> QED
    BY <2>1, <2>2, <2>3
<1>2. CASE /\ \/ pc.adapter = "check" /\ done
              \/ pc.adapter = "recv" /\ ch["server"] = <<>> /\ closed["server"]
           /\ pc' = [pc EXCEPT !["adapter"] = "ok"]
           /\ closed' = Stream!Close("adapter") /\ UNCHANGED <<ch, msg>>
  <2>1. FindTypes'
    BY <1>2 DEF FindTypes, Stream!Close
  <2>2. InOrder'
    BY <1>2 DEF FindTypes, InOrder, Past
  <2>3. EndsInOrder'
    BY <1>2 DEF FindTypes, EndsInOrder, Stream!Close
  <2> QED
    BY <2>1, <2>2, <2>3
<1>3. CASE /\ pc.adapter \in {"recv", "send"} /\ done
           /\ pc' = [pc EXCEPT !["adapter"] = "error"]
           /\ msg' = 0 /\ (pc.adapter = "recv" => msg = 0)
           /\ closed' = Stream!Close("adapter") /\ UNCHANGED ch
  <2>1. FindTypes'
    BY <1>3 DEF FindTypes, Stream!Close
  <2>2. InOrder'
    BY <1>3 DEF FindTypes, InOrder, Past
  <2>3. EndsInOrder'
    BY <1>3 DEF FindTypes, EndsInOrder, Stream!Close
  <2> QED
    BY <2>1, <2>2, <2>3
<1>4. CASE /\ pc.adapter = "recv" /\ ch["server"] # <<>>
           /\ msg' = Head(ch["server"])
           /\ ch' = [ch EXCEPT !["server"] = Tail(@)]
           /\ pc' = [pc EXCEPT !["adapter"] = "send"] /\ UNCHANGED closed
  <2>0. /\ ch'["adapter"] = ch["adapter"]
        /\ ch'["server"] = Tail(ch["server"]) /\ ch' \in [{"server", "adapter"} -> Seq(Nat)]
        /\ pc'.adapter = "send" /\ pc'.server = pc.server
    BY <1>0, <1>4 DEF FindTypes
  <2>a. msg = 0 /\ msg' = Past + 1 /\ Past' = Past + 1 /\ Past \in Nat
    <3>1. msg = 0 /\ Past \in Nat
      BY <1>0, <1>4, PastIs DEF InOrder
    <3>2. msg' = Past + 1
      BY <1>0, <1>4 DEF InOrder
    <3>3. msg' # 0
      BY <3>1, <3>2
    <3> QED
      BY <1>0, <2>0, <3>1, <3>2, <3>3 DEF Past
  <2>1. FindTypes'
    <3>1. msg' \in Nat
      BY <2>a
    <3> QED
      BY <1>4, <2>0, <3>1 DEF FindTypes
  <2>2. InOrder'
    <3>1. /\ ch["server"] \in Seq(Nat) /\ Len(ch'["server"]) = Len(ch["server"]) - 1
          /\ \A i \in 1 .. Len(ch'["server"]) : ch'["server"][i] = Past' + i
      <4>1. \A i \in 1 .. Len(ch["server"]) : ch["server"][i] = Past + i
        BY <1>4 DEF InOrder
      <4>2. /\ Len(ch'["server"]) = Len(ch["server"]) - 1
            /\ \A i \in 1 .. Len(ch'["server"]) : ch'["server"][i] = ch["server"][i + 1] /\ i + 1 \in 1 .. Len(ch["server"])
        BY <1>0, <1>4, <2>0
      <4> QED
        BY <1>0, <2>a, <4>1, <4>2
    <3>2. pc.server # "error" => sent = Past' + Len(ch'["server"])
      <4>1. pc.server # "error" => sent = Past + Len(ch["server"])
        BY <1>4 DEF InOrder
      <4>2. Len(ch["server"]) \in Nat
        BY <3>1
      <4>3. Past + Len(ch["server"]) = (Past + 1) + (Len(ch["server"]) - 1)
        BY <2>a, <4>2, OneOver
      <4>4. Past + Len(ch["server"]) = Past' + Len(ch'["server"])
        BY ONLY <2>a, <3>1, <4>3, Zenon
      <4> QED
        BY ONLY <4>1, <4>4, Zenon
    <3> QED
      BY <1>0, <1>4, <2>0, <2>a, <3>1, <3>2 DEF InOrder
  <2>3. EndsInOrder'
    BY <1>4, <2>0 DEF FindTypes, EndsInOrder
  <2> QED
    BY <2>1, <2>2, <2>3
<1>5. CASE /\ pc.adapter = "send"
           /\ ch' = [ch EXCEPT !["adapter"] = Append(@, msg)] /\ msg' = 0
           /\ \E p \in {"recv", "check"} : pc' = [pc EXCEPT !["adapter"] = p]
           /\ UNCHANGED closed
  <2>0. /\ ch'["adapter"] = Append(ch["adapter"], msg)
        /\ ch'["server"] = ch["server"] /\ ch' \in [{"server", "adapter"} -> Seq(Nat)]
        /\ pc'.adapter \in {"recv", "check"} /\ pc'.server = pc.server
    BY <1>0, <1>5 DEF FindTypes
  <2>a. msg # 0 /\ msg = Past /\ Past' = Past /\ Past = Len(got) + Len(ch["adapter"]) + 1
    BY <1>0, <1>5, <2>0 DEF InOrder, Past
  <2>1. FindTypes'
    BY <1>5, <2>0, <2>a DEF FindTypes
  <2>2. InOrder'
    BY <1>0, <1>5, <2>0, <2>a DEF InOrder
  <2>3. EndsInOrder'
    BY <1>5, <2>0 DEF FindTypes, EndsInOrder
  <2> QED
    BY <2>1, <2>2, <2>3
<1>6. pc.adapter = "recv" => msg = 0
  BY DEF InOrder
<1> QED
  BY <1>1, <1>2, <1>3, <1>4, <1>5, <1>6
     DEF Stream!FindClientToServer, Stream!SendOn, Stream!Send, Stream!Returns, Stream!Recv, Stream!EOF,
         Stream!networkServiceRegistryFindClient_Recv,
         Stream!networkServiceEndpointRegistryFindClient_Recv,
         Stream!monitorConnectionMonitorConnectionsClient_Recv,
         Stream!networkServiceRegistryFindServer_Send,
         Stream!networkServiceEndpointRegistryFindServer_Send,
         Stream!monitorConnectionMonitorConnectionsServer_Send

\* The caller gets its stream and reads it, or cancels.
LEMMA CallerKeepsOrder ==
    FindInv /\ (\/ Stream!nsFindServerToClient \/ Stream!nseFindServerToClient
               \/ Stream!monitorServerToClient \/ Stream!CallerRecv \/ Stream!Cancel) => FindInv'
<1> USE DEF FindInv
<1>1. ASSUME FindInv,
             Stream!nsFindServerToClient \/ Stream!nseFindServerToClient \/ Stream!monitorServerToClient \/ Stream!Cancel
      PROVE  FindInv'
  <2> USE <1>1 DEF Stream!nsFindServerToClient, Stream!nseFindServerToClient, Stream!monitorServerToClient,
                   Stream!Cancel
  <2>1. FindTypes'
    BY DEF FindTypes
  <2>2. InOrder'
    BY DEF FindTypes, InOrder, Past
  <2>3. EndsInOrder'
    BY DEF FindTypes, EndsInOrder
  <2> QED
    BY <2>1, <2>2, <2>3
<1>2. ASSUME FindInv, Stream!CallerRecv PROVE FindInv'
  <2>0. /\ ch["adapter"] \in Seq(Nat) /\ ch["server"] \in Seq(Nat)
        /\ got \in Seq(Nat) /\ sent \in Nat /\ msg \in Nat /\ answers \in Nat
        /\ UNCHANGED <<api, watch, answers, done, closed, pc, sent, msg>>
    BY <1>2 DEF FindTypes, Stream!CallerRecv
  <2>1. CASE ch["adapter"] # <<>> /\ got' = Append(got, Head(ch["adapter"]))
             /\ ch' = [ch EXCEPT !["adapter"] = Tail(@)] /\ UNCHANGED result
    <3>0. /\ ch'["adapter"] = Tail(ch["adapter"]) /\ Len(ch'["adapter"]) = Len(ch["adapter"]) - 1
          /\ ch'["server"] = ch["server"] /\ ch' \in [{"server", "adapter"} -> Seq(Nat)]
          /\ got' \in Seq(Nat) /\ Len(got') = Len(got) + 1 /\ Head(ch["adapter"]) = Len(got) + 1
      BY <1>2, <2>0, <2>1 DEF FindTypes, InOrder
    <3>a. Past' = Past
      BY <2>0, <2>1, <3>0 DEF Past
    <3>1. FindTypes'
      BY <1>2, <2>0, <2>1, <3>0 DEF FindTypes
    <3>2. InOrder'
      BY <1>2, <2>0, <2>1, <3>0, <3>a DEF InOrder
    <3>3. EndsInOrder'
      BY <1>2, <2>0, <2>1, <3>0 DEF FindTypes, EndsInOrder
    <3> QED
      BY <3>1, <3>2, <3>3
  <2>2. CASE /\ result = "stream" /\ result' = "eof" /\ UNCHANGED <<got, ch>>
             /\ \/ ch["adapter"] = <<>> /\ closed["adapter"]
                \/ api = "monitor" /\ done
    <3>1. FindTypes'
      BY <1>2, <2>0, <2>2 DEF FindTypes
    <3>2. InOrder'
      BY <1>2, <2>0, <2>2 DEF InOrder, Past
    <3>3. EndsInOrder'
      BY <1>2, <2>0, <2>2 DEF FindTypes, EndsInOrder
    <3> QED
      BY <3>1, <3>2, <3>3
  <2> QED
    BY <1>2, <2>1, <2>2 DEF Stream!CallerRecv, Stream!Recv, Stream!EOF
<1> QED
  BY <1>1, <1>2

LEMMA FindStep == FindInv /\ Stream!StreamNext => FindInv'
BY RegistryKeepsOrder, RegistryFailsInOrder, AdapterStarts, AdapterKeepsOrder, CallerKeepsOrder
   DEF Stream!StreamNext, Stream!nsFindClientToServer, Stream!nseFindClientToServer, Stream!monitorClientToServer

LEMMA FindFrame == FindInv /\ UNCHANGED streamVars => FindInv'
BY DEF FindInv, FindTypes, InOrder, EndsInOrder, Past, streamVars

LEMMA FindAnswers == FindInv => Stream!FindIsComplete
<1> SUFFICES ASSUME FindInv PROVE Stream!FindIsComplete
  OBVIOUS
<1>1. got = [i \in 1 .. Len(got) |-> i]
  BY DEF FindInv, FindTypes, InOrder
<1>2. ASSUME result = "eof", ~ watch, ~ done PROVE Len(got) = answers
  BY <1>2 DEF FindInv, FindTypes, InOrder, EndsInOrder, Past
<1> QED
  BY <1>1, <1>2 DEF Stream!FindIsComplete

-----------------------------------------------------------------------------
(* combineMonitorServer, as long as nobody has ended the stream.           *)

Told == [type : {"initial", "update"}, conns : UNION {[S -> Nat] : S \in SUBSET Events!Server}]

CombineTypes ==
    /\ monitors \in [Events!Server -> {"start", "initializing", "running", "silent"}]
    /\ version \in [Events!Server -> Nat]
    /\ initCh \in [Events!Server -> {<<>>, <<1>>}]
    /\ merged \in Seq({1}) /\ Len(merged) <= Servers
    /\ main \in {"init", "wait"}
    /\ out \in Seq(Told)
    /\ unsent \subseteq 0 .. Servers

\* Past its initial event.
Initial(s) == monitors[s] \in {"start", "initializing"}

\* Nothing is sent before the merged event, and errCh lets no server past it before.
Initializing ==
    /\ \A s \in Events!Server :
          /\ Initial(s) => version[s] = 1
          /\ ~ Initial(s) => main = "wait"
    /\ main = "init" => out = <<>> /\ unsent = {} /\ errCh.errors = 0 /\ ~ errCh.closed
    /\ main = "wait" /\ 0 \notin unsent => out # <<>>
    /\ 0 \in unsent => Events!Server \subseteq unsent

\* The last event about a server tells its version.
LastTold(s) ==
    \E i \in 1 .. Len(out) :
        /\ s \in DOMAIN out[i].conns
        /\ out[i].conns[s] = version[s]
        /\ \A j \in i + 1 .. Len(out) : s \notin DOMAIN out[j].conns

OutIsCurrent ==
    /\ \A i \in 1 .. Len(out) : out[i].type = "initial" => i = 1
    /\ out # <<>> /\ 0 \notin unsent => out[1].type = "initial" /\ DOMAIN out[1].conns = Events!Server
    /\ out # <<>> => \A s \in Events!Server \ unsent : LastTold(s)

CombineInv == ~ over => CombineTypes /\ Initializing /\ OutIsCurrent

LEMMA AppendFacts ==
    ASSUME NEW S, NEW q \in Seq(S), NEW e \in S
    PROVE  /\ Append(q, e) \in Seq(S) /\ Len(q) \in Nat /\ Len(Append(q, e)) = Len(q) + 1
           /\ \A i \in 1 .. Len(q) : Append(q, e)[i] = q[i]
           /\ Append(q, e)[Len(q) + 1] = e
           /\ Append(q, e) # <<>>
           /\ q = <<>> <=> Len(q) = 0
OBVIOUS

LEMMA TailFacts ==
    ASSUME NEW S, NEW q \in Seq(S), q # <<>>
    PROVE  /\ Tail(q) \in Seq(S) /\ Len(q) \in Nat \ {0} /\ Len(Tail(q)) = Len(q) - 1
           /\ \A i \in 1 .. Len(Tail(q)) : Tail(q)[i] = q[i + 1] /\ i + 1 \in 2 .. Len(q)
           /\ Head(q) = q[1]
           /\ Tail(q) # <<>> => Tail(q)[Len(Tail(q))] = q[Len(q)]
           /\ Tail(q) = <<>> => Head(q) = q[Len(q)]
OBVIOUS

LEMMA CombineInit == Events!CombineInit => CombineInv
<1> SUFFICES ASSUME Events!CombineInit PROVE CombineTypes /\ Initializing /\ OutIsCurrent
  BY DEF CombineInv
<1> USE StreamsAssumption DEF Events!CombineInit
<1>1. CombineTypes
  BY DEF CombineTypes
<1>2. Initializing
  BY DEF Initializing, Initial
<1>3. OutIsCurrent
  BY DEF OutIsCurrent
<1> QED
  BY <1>1, <1>2, <1>3

\* A server goes on to its next step without an event.
LEMMA ServerSteps ==
    ASSUME CombineTypes, Initializing, OutIsCurrent,
           NEW s \in Events!Server,
           Events!SendInitial(s) \/ Events!Initialized(s), ~ over'
    PROVE  CombineTypes' /\ Initializing' /\ OutIsCurrent'
<1> USE DEF Events!SendInitial, Events!Initialized
<1>0. UNCHANGED <<version, merged, main, out, unsent>>
  OBVIOUS
<1>1. \/ /\ monitors[s] = "start" /\ monitors' = [monitors EXCEPT ![s] = "initializing"]
         /\ initCh' = [initCh EXCEPT ![s] = <<version[s]>>] /\ UNCHANGED errCh
      \/ /\ errCh.errors > 0 \/ errCh.closed
         /\ monitors[s] \in {"initializing", "leaving"} /\ main = "wait"
         /\ monitors' = [monitors EXCEPT ![s] = "running"] /\ UNCHANGED initCh
  BY DEF CombineTypes, Initializing
<1>2. version[s] = 1 \/ monitors[s] # "start"
  BY DEF Initializing, Initial
<1>5. CombineTypes'
  BY <1>0, <1>1, <1>2 DEF CombineTypes
<1>6. Initializing'
  BY <1>0, <1>1 DEF CombineTypes, Initializing, Initial
<1>7. OutIsCurrent'
  BY <1>0 DEF OutIsCurrent, LastTold
<1> QED
  BY <1>5, <1>6, <1>7

LEMMA UpdateIsLast ==
    ASSUME CombineTypes, Initializing, OutIsCurrent,
           NEW s \in Events!Server, Events!SendUpdate(s), UNCHANGED <<monitors, unsent>>,
           out' = Append(out, Events!Event("update", [t \in {s} |-> version[s] + 1]))
    PROVE  CombineTypes' /\ Initializing' /\ OutIsCurrent'
<1> USE DEF Events!SendUpdate
<1> DEFINE e == Events!Event("update", [t \in {s} |-> version[s] + 1])
<1>0. /\ UNCHANGED <<monitors, initCh, merged, errCh, main, unsent>> /\ monitors[s] = "running"
      /\ version' = [version EXCEPT ![s] = version[s] + 1] /\ out' = Append(out, e)
      /\ version[s] + 1 \in Nat
  BY DEF CombineTypes
<1>a. main = "wait"
  BY <1>0 DEF Initializing, Initial
<1>1. e \in Told /\ e.type = "update" /\ DOMAIN e.conns = {s} /\ e.conns[s] = version[s] + 1
  <2>1. [t \in {s} |-> version[s] + 1] \in [{s} -> Nat]
    BY <1>0
  <2>2. [t \in {s} |-> version[s] + 1] \in UNION {[S -> Nat] : S \in SUBSET Events!Server}
    BY <2>1
  <2> QED
    BY <2>2 DEF Told, Events!Event
<1> HIDE DEF e
<1>2. /\ out' \in Seq(Told) /\ Len(out) \in Nat /\ Len(out') = Len(out) + 1
      /\ \A i \in 1 .. Len(out) : out'[i] = out[i]
      /\ out'[Len(out) + 1] = e
      /\ out' # <<>> /\ (0 \notin unsent => Len(out) # 0) /\ (out # <<>> <=> Len(out) # 0)
  <2>1. (0 \notin unsent => out # <<>>) /\ out \in Seq(Told)
    BY <1>a DEF Initializing, CombineTypes
  <2> QED
    BY <1>0, <1>1, <2>1, AppendFacts
<1>3. CombineTypes'
  BY <1>0, <1>2 DEF CombineTypes
<1>4. Initializing'
  BY <1>0, <1>2, <1>a DEF CombineTypes, Initializing, Initial
<1>5. OutIsCurrent'
  <2>1. \A i \in 1 .. Len(out') : out'[i].type = "initial" => i = 1
    BY <1>1, <1>2 DEF OutIsCurrent
  <2>2. 0 \notin unsent => out'[1].type = "initial" /\ DOMAIN out'[1].conns = Events!Server
    BY <1>2 DEF OutIsCurrent
  <2>3. ASSUME NEW t \in Events!Server \ unsent PROVE LastTold(t)'
    <3>1. CASE t = s
      <4>1. version'[t] = version[s] + 1
        BY <1>0, <3>1 DEF CombineTypes
      <4>2. Len(out') \in 1 .. Len(out') /\ out'[Len(out')] = e
        BY <1>2
      <4>3. (Len(out') + 1) .. Len(out') = {}
        BY <1>2
      <4> QED
        BY <1>1, <3>1, <4>1, <4>2, <4>3 DEF LastTold
    <3>2. CASE t # s
      <4>0. out # <<>>
        BY <1>a DEF Initializing
      <4>1. PICK i \in 1 .. Len(out) :
              /\ t \in DOMAIN out[i].conns
              /\ out[i].conns[t] = version[t]
              /\ \A j \in i + 1 .. Len(out) : t \notin DOMAIN out[j].conns
        BY <1>2, <4>0 DEF OutIsCurrent, LastTold
      <4>2. version'[t] = version[t]
        BY <1>0, <3>2 DEF CombineTypes
      <4>3. i \in 1 .. Len(out') /\ out'[i] = out[i]
        BY <1>2
      <4>4. ASSUME NEW j \in i + 1 .. Len(out') PROVE t \notin DOMAIN out'[j].conns
        <5>1. CASE j = Len(out) + 1
          BY <1>1, <1>2, <3>2, <5>1
        <5>2. CASE j # Len(out) + 1
          <6>1. j \in 1 .. Len(out) /\ j \in i + 1 .. Len(out)
            <7>1. i \in 1 .. Len(out) /\ Len(out) \in Nat /\ j \in i + 1 .. Len(out) + 1
              BY <1>2, <4>1
            <7> QED
              BY <5>2, <7>1
          <6>2. out'[j] = out[j]
            BY <1>2, <6>1
          <6> QED
            BY <4>1, <6>1, <6>2
        <5> QED
          BY <5>1, <5>2
      <4> QED
        BY <4>1, <4>2, <4>3, <4>4 DEF LastTold
    <3> QED
      BY <3>1, <3>2
  <2> QED
    BY <2>1, <2>2, <2>3 DEF OutIsCurrent
<1> QED
  BY <1>3, <1>4, <1>5

\* The Send of an update fails.
LEMMA UpdateFails ==
    ASSUME CombineTypes, Initializing, OutIsCurrent,
           NEW s \in Events!Server, Events!SendUpdate(s),
           unsent' = unsent \cup {s}, UNCHANGED out,
           \E p \in {"running", "silent"} : monitors' = [monitors EXCEPT ![s] = p]
    PROVE  CombineTypes' /\ Initializing' /\ OutIsCurrent'
<1>0. /\ UNCHANGED <<initCh, merged, errCh, main, out>> /\ monitors[s] = "running"
      /\ version' = [version EXCEPT ![s] = version[s] + 1] /\ version[s] + 1 \in Nat
  BY DEF CombineTypes, Events!SendUpdate
<1>a. main = "wait"
  BY <1>0 DEF Initializing, Initial
<1>b. s \in 0 .. Servers /\ s # 0
  BY StreamsAssumption DEF Events!Server
<1>1. CombineTypes'
  BY <1>0, <1>b DEF CombineTypes
<1>2. Initializing'
  BY <1>0, <1>a, <1>b DEF CombineTypes, Initializing, Initial
<1>3. OutIsCurrent'
  <2>1. \A t \in Events!Server \ unsent' : t \in Events!Server \ unsent /\ version'[t] = version[t]
    BY <1>0 DEF CombineTypes
  <2> QED
    BY <1>0, <2>1 DEF OutIsCurrent, LastTold
<1> QED
  BY <1>1, <1>2, <1>3

\* processInitEvent reads another initial event.
LEMMA InitialIsRead ==
    ASSUME CombineTypes, Initializing, OutIsCurrent, Events!ReadInitial, ~ over
    PROVE  CombineTypes' /\ Initializing' /\ OutIsCurrent'
<1> USE DEF Events!ReadInitial, Events!Reads
<1>0. /\ UNCHANGED <<monitors, version, out, main, errCh, unsent>>
      /\ Len(merged) + 1 <= Servers
      /\ merged' = Append(merged, initCh[Len(merged) + 1][1])
      /\ initCh' = [initCh EXCEPT ![Len(merged) + 1] = <<>>]
      /\ initCh[Len(merged) + 1] # <<>>
  OBVIOUS
<1>1. Len(merged) \in Nat /\ Len(merged) + 1 \in Events!Server
  BY <1>0, StreamsAssumption DEF CombineTypes, Events!Server
<1>2. initCh[Len(merged) + 1] = <<1>>
  BY <1>0, <1>1 DEF CombineTypes
<1>3. merged' \in Seq({1}) /\ Len(merged') = Len(merged) + 1
  BY <1>0, <1>2 DEF CombineTypes
<1>4. CombineTypes'
  BY <1>0, <1>1, <1>3 DEF CombineTypes
<1>5. Initializing'
  BY <1>0 DEF Initializing, Initial
<1>6. OutIsCurrent'
  BY <1>0 DEF OutIsCurrent, LastTold
<1> QED
  BY <1>4, <1>5, <1>6

\* It sends their union, or hands the error to every server.
LEMMA InitialIsSent ==
    ASSUME CombineTypes, Initializing, OutIsCurrent, Events!processInitEvent
    PROVE  CombineTypes' /\ Initializing' /\ OutIsCurrent'
<1> USE DEF Events!processInitEvent, Events!Reads
<1> DEFINE e == Events!Event("initial", merged)
<1>0. /\ UNCHANGED <<monitors, version, initCh, merged>> /\ main' = "wait" /\ main = "init" /\ out = <<>>
      /\ Len(merged) + 1 > Servers /\ Len(out) = 0 /\ unsent = {}
      /\ \A s \in Events!Server : version[s] = 1
  BY DEF CombineTypes, Initializing, Initial
<1>1. Len(merged) = Servers /\ DOMAIN merged = Events!Server /\ \A s \in Events!Server : merged[s] = 1
  <2>1. Len(merged) \in Nat /\ Servers \in Nat /\ Len(merged) <= Servers
    BY StreamsAssumption DEF CombineTypes
  <2>2. Len(merged) = Servers
    BY <1>0, <2>1
  <2> QED
    BY <2>2 DEF CombineTypes, Events!Server
<1>2. CASE out' = Append(out, e) /\ UNCHANGED unsent
  <2>1. e \in Told /\ e.type = "initial" /\ e.conns = merged
    <3>1. merged \in [Events!Server -> Nat]
      BY <1>1 DEF CombineTypes
    <3>2. merged \in UNION {[S -> Nat] : S \in SUBSET Events!Server}
      BY <3>1
    <3> QED
      BY <3>2 DEF Told, Events!Event
  <2> HIDE DEF e
  <2>2. out' \in Seq(Told) /\ Len(out') = 1 /\ out'[1] = e /\ out' # <<>>
    BY <1>0, <1>2, <2>1, AppendFacts DEF CombineTypes
  <2>3. CombineTypes'
    BY <1>0, <2>2 DEF CombineTypes
  <2>5. Initializing'
    BY <1>0, <1>2, <2>2 DEF Initializing, Initial
  <2>6. OutIsCurrent'
    <3>1. \A s \in Events!Server : LastTold(s)'
      <4>1. 1 \in 1 .. Len(out') /\ (1 + 1) .. Len(out') = {}
        BY <2>2
      <4> QED
        BY <1>0, <1>1, <2>1, <2>2, <4>1 DEF LastTold
    <3> QED
      BY <1>1, <2>1, <2>2, <3>1 DEF OutIsCurrent
  <2> QED
    BY <2>3, <2>5, <2>6
<1>3. CASE unsent' = 0 .. Servers /\ UNCHANGED out
  <2>0. Events!Server \subseteq unsent' /\ 0 \in unsent'
    BY <1>3, StreamsAssumption DEF Events!Server
  <2>1. CombineTypes'
    BY <1>0, <1>3 DEF CombineTypes
  <2>2. Initializing'
    BY <1>0, <1>3, <2>0 DEF Initializing, Initial
  <2>3. OutIsCurrent'
    BY <1>0, <1>3 DEF OutIsCurrent, LastTold
  <2> QED
    BY <2>1, <2>2, <2>3
<1> QED
  BY <1>2, <1>3

LEMMA CombineStep == CombineInv /\ Events!CombineNext => CombineInv'
<1> SUFFICES ASSUME CombineInv, Events!CombineNext, ~ over'
             PROVE  CombineTypes' /\ Initializing' /\ OutIsCurrent'
  BY DEF CombineInv
<1>1. ~ over
  BY DEF Events!CombineNext, Events!SendInitial, Events!Initialized, Events!SendUpdate,
         Events!startMonitorConnectionsServer, Events!ReadInitial, Events!processInitEvent,
         Events!CombineReturns, Events!CallerEnds
<1>2. CombineTypes /\ Initializing /\ OutIsCurrent
  BY <1>1 DEF CombineInv
<1>3. ~ Events!CombineReturns /\ ~ Events!CallerEnds
  BY <1>1 DEF Events!CombineReturns, Events!CallerEnds
<1>4. ASSUME NEW s \in Events!Server PROVE ~ Events!startMonitorConnectionsServer(s)
  BY DEF Events!startMonitorConnectionsServer
<1>5. ASSUME NEW s \in Events!Server, Events!SendUpdate(s) PROVE CombineTypes' /\ Initializing' /\ OutIsCurrent'
  BY <1>2, <1>5, UpdateIsLast, UpdateFails DEF Events!SendUpdate
<1> QED
  BY <1>1, <1>2, <1>3, <1>4, <1>5, ServerSteps, InitialIsRead, InitialIsSent DEF Events!CombineNext

LEMMA CombineFrame == CombineInv /\ UNCHANGED combineVars => CombineInv'
BY DEF CombineInv, CombineTypes, Initializing, Initial, OutIsCurrent, LastTold, combineVars

\* Known is what LastTold finds.
LEMMA CombineTells == CombineInv => Events!CombinedViewIsCurrent
<1> SUFFICES ASSUME CombineInv, ~ over
             PROVE  /\ (\E s \in Events!Server : monitors[s] \in {"running", "silent"}) =>
                            \A s \in Events!Server \ unsent : Events!Known(s) = version[s]
                    /\ \A i \in DOMAIN out : out[i].type = "initial" => i = 1
                    /\ out # <<>> /\ 0 \notin unsent =>
                            out[1].type = "initial" /\ DOMAIN out[1].conns = Events!Server
  BY DEF Events!CombinedViewIsCurrent
<1>0. CombineTypes /\ Initializing /\ OutIsCurrent /\ out \in Seq(Told) /\ DOMAIN out = 1 .. Len(out) /\ Len(out) \in Nat
  BY DEF CombineInv, CombineTypes
<1>1. ASSUME NEW s \in Events!Server, LastTold(s) PROVE Events!Known(s) = version[s]
  <2> DEFINE told == {i \in DOMAIN out : s \in DOMAIN out[i].conns}
  <2>1. PICK i \in 1 .. Len(out) :
              /\ s \in DOMAIN out[i].conns
              /\ out[i].conns[s] = version[s]
              /\ \A j \in i + 1 .. Len(out) : s \notin DOMAIN out[j].conns
    BY <1>1 DEF LastTold
  <2>2. i \in told /\ \A j \in told : j <= i /\ j \in Nat
    <3>1. ASSUME NEW j \in told, j > i PROVE FALSE
      BY <1>0, <2>1, <3>1
    <3> QED
      BY <1>0, <2>1, <3>1
  <2>3. Events!Max(told) = i
    <3>1. \A x \in told : (\A y \in told : x >= y) => x = i
      BY <1>0, <2>2
    <3>2. \E x \in told : \A y \in told : x >= y
      BY <1>0, <2>2
    <3> HIDE DEF told
    <3> QED
      BY <3>1, <3>2 DEF Events!Max
  <2>4. told # {}
    BY <2>2
  <2> QED
    BY <2>1, <2>3, <2>4 DEF Events!Known
<1> QED
  BY <1>0, <1>1 DEF Initializing, Initial, OutIsCurrent

-----------------------------------------------------------------------------
(* querycache.                                                             *)

CacheTypes ==
    /\ registry \in Nat /\ changes \in Nat
    /\ stored \in 0 .. MaxEntries /\ entries \in 0 .. stored
    /\ nse \in [Cache!Entry -> Nat]
    /\ cleaned \in [Cache!Entry -> BOOLEAN] /\ cancelled = cleaned
    /\ watcher \in [Cache!Entry -> {"none", "start", "watch", "end", "gone"}]
    /\ events \in [Cache!Entry -> Seq(Nat)]
    /\ missed \in [Cache!Entry -> BOOLEAN]
    /\ answer \in [Client -> Nat]

\* An entry leaves the cache exactly when it is cleaned up, which its goroutine does
\* before it is gone.
EntriesAreKept ==
    \A e \in Cache!Entry :
        /\ watcher[e] = "none" <=> e > stored
        /\ e > stored => ~ cleaned[e]
        /\ e <= stored => (entries = e <=> ~ cleaned[e])
        /\ watcher[e] = "gone" => cleaned[e]

\* The last event of a watch, or the entry when there is none left, is the registry's.
WatchIsCurrent ==
    \A e \in Cache!Entry : watcher[e] = "watch" =>
        /\ events[e] # <<>> => events[e][Len(events[e])] = registry
        /\ events[e] = <<>> /\ ~ missed[e] => nse[e] = registry

CacheInv == CacheTypes /\ EntriesAreKept /\ WatchIsCurrent

LEMMA CacheInit == Cache!CacheInit => CacheInv
<1> SUFFICES ASSUME Cache!CacheInit PROVE CacheInv
  OBVIOUS
<1> USE StreamsAssumption DEF Cache!CacheInit
<1>1. CacheTypes
  BY DEF CacheTypes
<1>2. EntriesAreKept
  BY DEF EntriesAreKept, Cache!Entry
<1>3. WatchIsCurrent
  BY DEF WatchIsCurrent
<1> QED
  BY <1>1, <1>2, <1>3 DEF CacheInv

\* The first call of cleanup takes the entry out of the cache, another has no effect.
LEMMA CleanedUp ==
    ASSUME CacheTypes, EntriesAreKept, NEW e \in Cache!Entry, e <= stored, Cache!cleanup(e)
    PROVE  /\ entries' \in 0 .. stored
           /\ cleaned' \in [Cache!Entry -> BOOLEAN] /\ cancelled' = cleaned' /\ cleaned'[e]
           /\ \A x \in Cache!Entry :
                 /\ cleaned[x] => cleaned'[x]
                 /\ x > stored => ~ cleaned'[x]
                 /\ x <= stored => (entries' = x <=> ~ cleaned'[x])
<1>0. stored \in Nat /\ MaxEntries \in Nat /\ Cache!Entry = 1 .. MaxEntries
  BY StreamsAssumption DEF CacheTypes, Cache!Entry
<1>1. CASE cleaned[e]
  BY <1>1 DEF Cache!cleanup, CacheTypes, EntriesAreKept
<1>2. CASE ~ cleaned[e]
  <2>1. /\ entries' = 0 /\ entries = e
        /\ cleaned' = [cleaned EXCEPT ![e] = TRUE] /\ cancelled' = cleaned'
    BY <1>2 DEF Cache!cleanup, CacheTypes, EntriesAreKept
  <2>2. cleaned' \in [Cache!Entry -> BOOLEAN] /\ cleaned'[e]
    BY <2>1 DEF CacheTypes
  <2>3. ASSUME NEW x \in Cache!Entry
        PROVE  /\ cleaned[x] => cleaned'[x]
               /\ x > stored => ~ cleaned'[x]
               /\ x <= stored => (entries' = x <=> ~ cleaned'[x])
    <3>1. CASE x = e
      BY <1>0, <2>1, <2>2, <3>1
    <3>2. CASE x # e
      BY <1>0, <2>1, <3>2 DEF CacheTypes, EntriesAreKept
    <3> QED
      BY <3>1, <3>2
  <2> QED
    BY <1>0, <2>1, <2>2, <2>3
<1> QED
  BY <1>1, <1>2

\* A change of the registry is appended to what every watch has to give.
LEMMA ChangesAreTold == CacheInv /\ Cache!RegistryChanges => CacheInv'
<1> SUFFICES ASSUME CacheInv, Cache!RegistryChanges PROVE CacheInv'
  OBVIOUS
<1>0. CacheTypes /\ EntriesAreKept /\ WatchIsCurrent
  BY DEF CacheInv
<1>1. /\ UNCHANGED <<entries, stored, nse, cleaned, cancelled, watcher, missed, answer>>
      /\ registry' \in Nat /\ changes' \in Nat
      /\ events' = [e \in Cache!Entry |-> IF watcher[e] = "watch" THEN Append(events[e], registry') ELSE events[e]]
  BY <1>0 DEF Cache!RegistryChanges, CacheTypes
<1>2. \A e \in Cache!Entry : events'[e] \in Seq(Nat) /\ events'[e] = IF watcher[e] = "watch" THEN Append(events[e], registry') ELSE events[e]
  BY <1>0, <1>1 DEF CacheTypes
<1>3. CacheTypes'
  <2>1. events' \in [Cache!Entry -> Seq(Nat)]
    BY <1>1, <1>2
  <2> QED
    BY <1>0, <1>1, <2>1 DEF CacheTypes
<1>4. EntriesAreKept'
  BY <1>0, <1>1 DEF EntriesAreKept
<1>5. WatchIsCurrent'
  <2> SUFFICES ASSUME NEW e \in Cache!Entry, watcher[e] = "watch"
               PROVE  events'[e] # <<>> /\ events'[e][Len(events'[e])] = registry'
    BY <1>1 DEF WatchIsCurrent
  <2>1. events'[e] = Append(events[e], registry') /\ events[e] \in Seq(Nat)
    BY <1>0, <1>2 DEF CacheTypes
  <2>2. events'[e] # <<>> /\ Len(events'[e]) = Len(events[e]) + 1
        /\ events'[e][Len(events[e]) + 1] = registry'
    <3>1. registry' \in Nat
      BY <1>1
    <3> QED
      BY <2>1, <3>1, AppendFacts
  <2>3. Len(events[e]) \in Nat
    BY <2>1
  <2> QED
    BY <2>2, <2>3
<1> QED
  BY <1>3, <1>4, <1>5 DEF CacheInv

\* A Find loads, asks and stores.
LEMMA FindsAreCached ==
    ASSUME CacheInv, NEW c \in Client, Cache!Load(c) \/ Cache!Find(c) \/ Cache!storeInCache(c)
    PROVE  CacheInv'
<1>0. /\ CacheTypes /\ EntriesAreKept /\ WatchIsCurrent
      /\ stored \in Nat /\ entries \in Nat /\ MaxEntries \in Nat /\ Cache!Entry = 1 .. MaxEntries
  BY StreamsAssumption DEF CacheInv, CacheTypes, Cache!Entry
<1>1. ASSUME Cache!Load(c) \/ Cache!Find(c), UNCHANGED <<entries, cleaned, cancelled>> PROVE CacheInv'
  <2>0. UNCHANGED <<registry, changes, entries, stored, nse, cleaned, cancelled, watcher, events, missed>>
        /\ answer' \in [Client -> Nat]
    BY <1>0, <1>1 DEF Cache!Load, Cache!Find, CacheTypes
  <2>1. CacheTypes'
    BY <1>0, <2>0 DEF CacheTypes
  <2>2. EntriesAreKept' /\ WatchIsCurrent'
    BY <1>0, <2>0 DEF EntriesAreKept, WatchIsCurrent
  <2> QED
    BY <2>1, <2>2 DEF CacheInv
<1>2. ASSUME Cache!Load(c), entries # 0, Cache!cleanup(entries) PROVE CacheInv'
  <2>0. UNCHANGED <<registry, changes, stored, nse, watcher, events, missed, answer>>
    BY <1>2 DEF Cache!Load
  <2>1. entries \in Cache!Entry /\ entries <= stored
    BY <1>0, <1>2 DEF CacheTypes
  <2>2. /\ entries' \in 0 .. stored
        /\ cleaned' \in [Cache!Entry -> BOOLEAN] /\ cancelled' = cleaned'
        /\ \A x \in Cache!Entry :
              /\ cleaned[x] => cleaned'[x]
              /\ x > stored => ~ cleaned'[x]
              /\ x <= stored => (entries' = x <=> ~ cleaned'[x])
    BY <1>0, <1>2, <2>1, CleanedUp
  <2>3. CacheTypes'
    BY <1>0, <2>0, <2>2 DEF CacheTypes
  <2>4. EntriesAreKept' /\ WatchIsCurrent'
    BY <1>0, <2>0, <2>2 DEF EntriesAreKept, WatchIsCurrent
  <2> QED
    BY <2>3, <2>4 DEF CacheInv
<1>3. ASSUME Cache!storeInCache(c) PROVE CacheInv'
  <2>0. /\ UNCHANGED <<registry, changes, cleaned, cancelled, events, missed>>
        /\ answer' \in [Client -> Nat] /\ answer[c] \in Nat
    BY <1>0, <1>3 DEF Cache!storeInCache, CacheTypes
  <2>1. CASE UNCHANGED <<entries, stored, nse, watcher>>
    <3>1. CacheTypes'
      BY <1>0, <2>0, <2>1 DEF CacheTypes
    <3>2. EntriesAreKept' /\ WatchIsCurrent'
      BY <1>0, <2>0, <2>1 DEF EntriesAreKept, WatchIsCurrent
    <3> QED
      BY <3>1, <3>2 DEF CacheInv
  <2>2. CASE /\ entries = 0 /\ stored < MaxEntries
             /\ stored' = stored + 1 /\ entries' = stored + 1
             /\ nse' = [nse EXCEPT ![stored + 1] = answer[c]]
             /\ watcher' = [watcher EXCEPT ![stored + 1] = "start"]
    <3>0. stored + 1 \in Cache!Entry /\ stored' \in 0 .. MaxEntries /\ entries' \in 0 .. stored'
      BY <1>0, <2>2
    <3>1. CacheTypes'
      BY <1>0, <2>0, <2>2, <3>0 DEF CacheTypes
    <3>2. \A e \in Cache!Entry :
              /\ e = stored + 1 => watcher'[e] = "start"
              /\ e # stored + 1 => watcher'[e] = watcher[e] /\ nse'[e] = nse[e]
      BY <1>0, <2>2, <3>0 DEF CacheTypes
    <3>3. ASSUME NEW e \in Cache!Entry
          PROVE  /\ watcher'[e] = "none" <=> e > stored'
                 /\ e > stored' => ~ cleaned'[e]
                 /\ e <= stored' => (entries' = e <=> ~ cleaned'[e])
                 /\ watcher'[e] = "gone" => cleaned'[e]
      <4>1. CASE e = stored + 1
        BY <1>0, <2>0, <2>2, <3>2, <4>1 DEF EntriesAreKept
      <4>2. CASE e # stored + 1
        <5>1. (e > stored <=> e > stored') /\ (e <= stored <=> e <= stored') /\ entries # e /\ entries' # e
          BY <1>0, <2>2, <4>2
        <5> QED
          BY <1>0, <2>0, <3>2, <4>2, <5>1 DEF EntriesAreKept
      <4> QED
        BY <4>1, <4>2
    <3>4. EntriesAreKept'
      BY <3>3 DEF EntriesAreKept
    <3>5. WatchIsCurrent'
      BY <1>0, <2>0, <3>2 DEF WatchIsCurrent
    <3> QED
      BY <3>1, <3>4, <3>5 DEF CacheInv
  <2> QED
    BY <1>3, <2>1, <2>2 DEF Cache!storeInCache
<1>4. Cache!Find(c) => UNCHANGED <<entries, cleaned, cancelled>>
  BY DEF Cache!Find
<1>5. Cache!Load(c) => UNCHANGED <<entries, cleaned, cancelled>> \/ (entries # 0 /\ Cache!cleanup(entries))
  BY DEF Cache!Load
<1> QED
  BY <1>1, <1>2, <1>3, <1>4, <1>5

\* The expiration of an entry, and its watch up to its end.
LEMMA WatchKeepsCurrent ==
    ASSUME CacheInv, NEW e \in Cache!Entry,
           Cache!Expire(e) \/ Cache!WatchStarts(e) \/ Cache!Update(e) \/ Cache!WatchFails(e)
    PROVE  CacheInv'
<1>0. /\ CacheTypes /\ EntriesAreKept /\ WatchIsCurrent
      /\ UNCHANGED <<registry, changes, entries, stored, cleaned, cancelled, answer>>
      /\ events[e] \in Seq(Nat) /\ registry \in Nat
  BY DEF CacheInv, CacheTypes, Cache!Expire, Cache!WatchStarts, Cache!Update, Cache!WatchFails
<1>1. ASSUME UNCHANGED nse,
             \/ UNCHANGED <<watcher, events, missed>>
             \/ watcher[e] \in {"start", "watch"} /\ watcher' = [watcher EXCEPT ![e] = "end"]
                /\ events' \in [Cache!Entry -> Seq(Nat)] /\ UNCHANGED missed
                /\ \A x \in Cache!Entry : x # e => events'[x] = events[x]
      PROVE  CacheInv'
  <2>1. CacheTypes'
    BY <1>0, <1>1 DEF CacheTypes
  <2>2. EntriesAreKept'
    BY <1>0, <1>1 DEF EntriesAreKept, CacheTypes
  <2>3. WatchIsCurrent'
    BY <1>0, <1>1 DEF WatchIsCurrent, CacheTypes
  <2> QED
    BY <2>1, <2>2, <2>3 DEF CacheInv
<1>2. ASSUME Cache!WatchStarts(e), watcher' = [watcher EXCEPT ![e] = "watch"],
             events' = [events EXCEPT ![e] = IF registry = 0 THEN <<>> ELSE <<registry>>],
             missed' = [missed EXCEPT ![e] = registry = 0]
      PROVE  CacheInv'
  <2>0. UNCHANGED nse /\ watcher[e] = "start"
    BY <1>2 DEF Cache!WatchStarts
  <2>1. CacheTypes'
    BY <1>0, <1>2, <2>0 DEF CacheTypes
  <2>2. EntriesAreKept'
    BY <1>0, <1>2, <2>0 DEF EntriesAreKept, CacheTypes
  <2>3. /\ registry = 0 => missed'[e]
        /\ registry # 0 => events'[e] = <<registry>>
        /\ registry = 0 => events'[e] = <<>>
        /\ \A x \in Cache!Entry : x # e => events'[x] = events[x] /\ missed'[x] = missed[x] /\ watcher'[x] = watcher[x]
    BY <1>0, <1>2 DEF CacheTypes
  <2>4. <<registry>> # <<>> /\ <<registry>>[Len(<<registry>>)] = registry
    BY <1>0
  <2>5. WatchIsCurrent'
    BY <1>0, <2>0, <2>3, <2>4 DEF WatchIsCurrent
  <2> QED
    BY <2>1, <2>2, <2>5 DEF CacheInv
<1>3. ASSUME Cache!Update(e), nse' = [nse EXCEPT ![e] = Head(events[e])], UNCHANGED watcher
      PROVE  CacheInv'
  <2>0. /\ UNCHANGED missed /\ watcher[e] = "watch" /\ events[e] # <<>>
        /\ events' = [events EXCEPT ![e] = Tail(events[e])]
    BY <1>3 DEF Cache!Update
  <2>1. CacheTypes'
    BY <1>0, <1>3, <2>0 DEF CacheTypes
  <2>2. EntriesAreKept'
    BY <1>0, <1>3 DEF EntriesAreKept
  <2>3. \A x \in Cache!Entry : x # e => events'[x] = events[x] /\ nse'[x] = nse[x]
    BY <1>0, <1>3, <2>0 DEF CacheTypes
  <2>4. events'[e] = Tail(events[e]) /\ nse'[e] = Head(events[e])
    BY <1>0, <1>3, <2>0 DEF CacheTypes
  <2>5. events[e][Len(events[e])] = registry
    BY <1>0, <2>0 DEF WatchIsCurrent
  <2>6. /\ events'[e] # <<>> => events'[e][Len(events'[e])] = registry
        /\ events'[e] = <<>> => nse'[e] = registry
    BY <1>0, <2>0, <2>4, <2>5, TailFacts
  <2>7. WatchIsCurrent'
    BY <1>0, <1>3, <2>0, <2>3, <2>6 DEF WatchIsCurrent
  <2> QED
    BY <2>1, <2>2, <2>7 DEF CacheInv
<1>4. Cache!Update(e) /\ ~ (nse' = [nse EXCEPT ![e] = Head(events[e])] /\ UNCHANGED watcher) =>
          /\ UNCHANGED <<nse, missed>> /\ watcher[e] = "watch" /\ watcher' = [watcher EXCEPT ![e] = "end"]
          /\ events' \in [Cache!Entry -> Seq(Nat)]
          /\ \A x \in Cache!Entry : x # e => events'[x] = events[x]
  BY <1>0 DEF Cache!Update, CacheTypes
<1> QED
  BY <1>0, <1>1, <1>2, <1>3, <1>4 DEF Cache!Expire, Cache!WatchStarts, Cache!WatchFails, CacheTypes

\* An entry whose time has passed is removed, or one whose goroutine ends.
LEMMA EntryIsRemoved ==
    ASSUME CacheInv, NEW e \in Cache!Entry, Cache!newCache(e) \/ Cache!Cleanup(e)
    PROVE  CacheInv'
<1>0. /\ CacheTypes /\ EntriesAreKept /\ WatchIsCurrent /\ Cache!cleanup(e)
      /\ UNCHANGED <<registry, changes, stored, nse, missed, answer>>
      /\ stored \in Nat /\ e \in Nat
  BY StreamsAssumption DEF CacheInv, CacheTypes, Cache!newCache, Cache!Cleanup, Cache!Entry
<1>1. e <= stored
  BY <1>0 DEF CacheTypes, EntriesAreKept, Cache!newCache, Cache!Cleanup
<1>2. /\ entries' \in 0 .. stored
      /\ cleaned' \in [Cache!Entry -> BOOLEAN] /\ cancelled' = cleaned' /\ cleaned'[e]
      /\ \A x \in Cache!Entry :
            /\ cleaned[x] => cleaned'[x]
            /\ x > stored => ~ cleaned'[x]
            /\ x <= stored => (entries' = x <=> ~ cleaned'[x])
  BY <1>0, <1>1, CleanedUp
<1>3. /\ watcher' \in [Cache!Entry -> {"none", "start", "watch", "end", "gone"}]
      /\ events' \in [Cache!Entry -> Seq(Nat)]
      /\ \A x \in Cache!Entry :
            \/ watcher'[x] = watcher[x] /\ events'[x] = events[x]
            \/ x = e /\ watcher[x] = "end" /\ watcher'[x] = "gone"
  <2>1. CASE UNCHANGED <<watcher, events>>
    BY <1>0, <2>1 DEF CacheTypes
  <2>2. CASE /\ watcher[e] = "end" /\ watcher' = [watcher EXCEPT ![e] = "gone"]
             /\ events' = [events EXCEPT ![e] = <<>>]
    BY <1>0, <2>2 DEF CacheTypes
  <2> QED
    BY <2>1, <2>2 DEF Cache!newCache, Cache!Cleanup
<1>4. CacheTypes'
  BY <1>0, <1>2, <1>3 DEF CacheTypes
<1>5. EntriesAreKept'
  BY <1>0, <1>1, <1>2, <1>3 DEF EntriesAreKept
<1>6. WatchIsCurrent'
  BY <1>0, <1>3 DEF WatchIsCurrent
<1> QED
  BY <1>4, <1>5, <1>6 DEF CacheInv

LEMMA CacheStep == CacheInv /\ Cache!CacheNext => CacheInv'
BY ChangesAreTold, FindsAreCached, WatchKeepsCurrent, EntryIsRemoved DEF Cache!CacheNext

LEMMA CacheFrame == CacheInv /\ UNCHANGED cacheVars => CacheInv'
BY DEF CacheInv, CacheTypes, EntriesAreKept, WatchIsCurrent, cacheVars

LEMMA CacheWatches == CacheInv => Cache!CacheIsWatched
<1> SUFFICES ASSUME CacheInv, NEW e \in Cache!Entry
             PROVE  /\ entries = e => watcher[e] \in {"start", "watch", "end"} /\ ~ cancelled[e]
                    /\ watcher[e] \in {"start", "watch"} /\ ~ cancelled[e] => entries = e
                    /\ entries = e /\ watcher[e] = "watch" /\ events[e] = <<>> /\ ~ missed[e] => nse[e] = registry
  BY DEF Cache!CacheIsWatched
<1>1. /\ CacheTypes /\ EntriesAreKept /\ WatchIsCurrent
      /\ e \in Nat /\ stored \in Nat /\ (entries = e => e <= stored) /\ (e <= stored \/ e > stored)
  BY StreamsAssumption DEF CacheInv, CacheTypes, Cache!Entry
<1>2. ~ (e > stored) => e <= stored
  BY <1>1
<1> QED
  BY <1>1, <1>2 DEF CacheTypes, EntriesAreKept, WatchIsCurrent

-----------------------------------------------------------------------------
(* retry.                                                                  *)

RetryInv == element \in {"ns", "nsRegistry", "nseRegistry"} /\ Registrar!RetryPersists

LEMMA RetryInit == Registrar!RetryInit => RetryInv
BY DEF Registrar!RetryInit, RetryInv, Registrar!RetryPersists

LEMMA RetryStep == RetryInv /\ Registrar!RetryNext => RetryInv'
<1> SUFFICES ASSUME RetryInv, Registrar!RetryNext PROVE RetryInv'
  OBVIOUS
<1> USE DEF RetryInv, Registrar!RetryPersists, Registrar!Return
<1>1. CASE Registrar!Loop
  BY <1>1 DEF Registrar!Loop, Registrar!Continues, Registrar!retryClient_Continues,
              Registrar!retryNSClient_Continues, Registrar!retryNSEClient_Continues
<1>2. CASE Registrar!Wait
  BY <1>2 DEF Registrar!Wait, Registrar!Wakes
<1>3. CASE Registrar!Succeeds
  BY <1>3 DEF Registrar!Succeeds
<1>4. CASE Registrar!Fails \/ Registrar!TryTimeout
  BY <1>4 DEF Registrar!Fails, Registrar!TryTimeout
<1>5. CASE Registrar!ContextDone
  BY <1>5 DEF Registrar!ContextDone
<1> QED
  BY <1>1, <1>2, <1>3, <1>4, <1>5
     DEF Registrar!RetryNext, Registrar!retryClient, Registrar!retryNSClient, Registrar!retryNSEClient

LEMMA RetryFrame == RetryInv /\ UNCHANGED retryVars => RetryInv'
BY DEF RetryInv, Registrar!RetryPersists, retryVars

-----------------------------------------------------------------------------
(* The registry client.                                                    *)

Ops == {"Register", "Unregister", "heal", "refresh"}
Calls == [op : Ops, gen : Nat]

ClientTypes ==
    /\ queue \in Seq(Calls)
    /\ run = Registrar!NoCall \/ run \in Calls
    /\ step = "idle" <=> run = Registrar!NoCall
    /\ healers \in [Registrar!Gen -> {"none", "recv", "broken", "gone"}]
    /\ gens \in 0 .. Registrar!MaxGens /\ current \in 0 .. gens
    /\ timers \in Nat

\* The goroutine in the map is never one whose context is done.
HealersInOrder ==
    /\ \A g \in Registrar!Gen : healers[g] # "none" => g <= gens
    /\ dropped \subseteq 1 .. gens /\ current \notin dropped

ClientInv == ClientTypes /\ HealersInOrder /\ Registrar!Watched

LEMMA GensAreNat == Registrar!MaxGens \in Nat /\ Registrar!Gen = 1 .. Registrar!MaxGens
BY StreamsAssumption DEF Registrar!MaxGens, Registrar!Gen

LEMMA NoCallIsNone == Registrar!NoCall \notin Calls
BY DEF Registrar!NoCall, Calls, Ops

LEMMA ClientInit == Registrar!ClientInit => ClientInv
<1> SUFFICES ASSUME Registrar!ClientInit PROVE ClientInv
  OBVIOUS
<1> USE GensAreNat DEF Registrar!ClientInit
<1>1. ClientTypes
  BY DEF ClientTypes
<1>2. HealersInOrder
  BY DEF HealersInOrder
<1>3. Registrar!Watched
  BY DEF Registrar!Watched
<1> QED
  BY <1>1, <1>2, <1>3 DEF ClientInv

\* What waits in the queue when a call is added to it, or taken.
LEMMA QueueGrows ==
    ASSUME queue \in Seq(Calls), NEW c \in Calls, queue' = Append(queue, c)
    PROVE  /\ queue' \in Seq(Calls)
           /\ c \in Registrar!ToSet(queue)'
           /\ \A x \in Registrar!ToSet(queue) : x \in Registrar!ToSet(queue)'
<1>1. /\ queue' \in Seq(Calls) /\ Len(queue) \in Nat /\ Len(queue') = Len(queue) + 1
      /\ \A i \in 1 .. Len(queue) : queue'[i] = queue[i]
      /\ queue'[Len(queue) + 1] = c
  BY AppendFacts
<1>2. DOMAIN queue = 1 .. Len(queue) /\ DOMAIN queue' = 1 .. Len(queue')
  BY <1>1
<1>3. Len(queue) + 1 \in DOMAIN queue' /\ \A i \in DOMAIN queue : i \in DOMAIN queue' /\ queue'[i] = queue[i]
  BY <1>1, <1>2
<1> QED
  BY <1>1, <1>3 DEF Registrar!ToSet

LEMMA QueueShrinks ==
    ASSUME queue \in Seq(Calls), queue # <<>>, queue' = Tail(queue)
    PROVE  /\ queue' \in Seq(Calls) /\ Head(queue) \in Calls
           /\ \A x \in Registrar!ToSet(queue) : x = Head(queue) \/ x \in Registrar!ToSet(queue)'
<1>1. /\ queue' \in Seq(Calls) /\ Len(queue) \in Nat \ {0} /\ Len(queue') = Len(queue) - 1
      /\ \A i \in 1 .. Len(queue') : queue'[i] = queue[i + 1]
      /\ Head(queue) = queue[1] /\ Head(queue) \in Calls
  BY TailFacts
<1>2. DOMAIN queue = 1 .. Len(queue) /\ DOMAIN queue' = 1 .. Len(queue')
  BY <1>1
<1>3. ASSUME NEW i \in DOMAIN queue, i # 1 PROVE i - 1 \in DOMAIN queue' /\ queue'[i - 1] = queue[i]
  BY <1>1, <1>2, <1>3
<1> QED
  BY <1>1, <1>3 DEF Registrar!ToSet

\* Steps that leave calls and goroutines alone, and those that break streams.
LEMMA StreamsBreak ==
    ASSUME ClientInv,
           UNCHANGED <<wanted, queue, run, step, current, dropped, gens, timers, gaveUp>>,
           healers' \in [Registrar!Gen -> {"none", "recv", "broken", "gone"}],
           \A g \in Registrar!Gen : healers'[g] = healers[g] \/ (healers[g] = "recv" /\ healers'[g] = "broken")
    PROVE  ClientInv'
<1>0. ClientTypes /\ HealersInOrder /\ Registrar!Watched
  BY DEF ClientInv
<1>1. ClientTypes'
  BY <1>0 DEF ClientTypes
<1>2. HealersInOrder'
  BY <1>0 DEF HealersInOrder
<1>3. Registrar!Watched'
  <2>1. current # 0 => current \in Registrar!Gen
    BY <1>0, GensAreNat DEF ClientTypes
  <2> QED
    BY <1>0, <2>1 DEF Registrar!Watched, Registrar!ToSet
<1> QED
  BY <1>1, <1>2, <1>3 DEF ClientInv

\* A call or an event is put into the queue; a goroutine of heal ends with its event.
LEMMA CallsAreQueued ==
    ASSUME ClientInv, NEW c \in Calls, queue' = Append(queue, c),
           UNCHANGED <<wanted, run, step, current, dropped, gens, gaveUp>>, timers' \in Nat,
           \/ UNCHANGED healers
           \/ \E g \in Registrar!Gen : /\ healers[g] = "broken" /\ c = Registrar!Call("heal", g)
                                       /\ healers' = [healers EXCEPT ![g] = "gone"]
    PROVE  ClientInv'
<1>0. ClientTypes /\ HealersInOrder /\ Registrar!Watched /\ queue \in Seq(Calls)
  BY DEF ClientInv, ClientTypes
<1>1. /\ queue' \in Seq(Calls)
      /\ c \in Registrar!ToSet(queue)'
      /\ \A x \in Registrar!ToSet(queue) : x \in Registrar!ToSet(queue)'
  BY <1>0, QueueGrows
<1>2. /\ healers' \in [Registrar!Gen -> {"none", "recv", "broken", "gone"}]
      /\ \A g \in Registrar!Gen : \/ healers'[g] = healers[g]
                                  \/ healers[g] = "broken" /\ healers'[g] = "gone" /\ c = Registrar!Call("heal", g)
  BY <1>0 DEF ClientTypes
<1>3. ClientTypes'
  BY <1>0, <1>1, <1>2 DEF ClientTypes
<1>4. HealersInOrder'
  BY <1>0, <1>2 DEF HealersInOrder
<1>5. Registrar!Watched'
  <2>1. current # 0 => current \in Registrar!Gen
    BY <1>0, GensAreNat DEF ClientTypes
  <2>2. \A g \in Registrar!Gen : healers'[g] = "recv" => g = current'
    BY <1>0, <1>2 DEF Registrar!Watched
  <2>3. ASSUME wanted, run = Registrar!NoCall, ~ gaveUp
        PROVE  current # 0 /\ (healers'[current] \in {"recv", "broken"} \/ Registrar!Call("heal", current) \in Registrar!ToSet(queue)')
    BY <1>0, <1>1, <1>2, <2>1, <2>3 DEF Registrar!Watched
  <2> QED
    BY <2>2, <2>3 DEF Registrar!Watched
<1> QED
  BY <1>3, <1>4, <1>5 DEF ClientInv

\* begin does not drop the event of the goroutine in the map while the name is wanted.
LEMMA EventsAreRun == ClientInv /\ Registrar!Begin => ClientInv'
<1> SUFFICES ASSUME ClientInv, Registrar!Begin PROVE ClientInv'
  OBVIOUS
<1>0. /\ ClientTypes /\ HealersInOrder /\ Registrar!Watched /\ queue \in Seq(Calls)
      /\ UNCHANGED <<wanted, healers, current, dropped, gens, timers, gaveUp>>
      /\ run = Registrar!NoCall /\ queue # <<>> /\ queue' = Tail(queue)
  BY DEF ClientInv, ClientTypes, Registrar!Begin
<1>1. /\ queue' \in Seq(Calls) /\ Head(queue) \in Calls
      /\ \A x \in Registrar!ToSet(queue) : x = Head(queue) \/ x \in Registrar!ToSet(queue)'
  BY <1>0, QueueShrinks
<1>2. \/ Registrar!Preclude(Head(queue)) /\ UNCHANGED <<run, step>>
      \/ run' = Head(queue) /\ step' \in {"heal", "next"}
  BY DEF Registrar!Begin
<1>3. run' # run => run' # Registrar!NoCall
  BY <1>0, <1>1, <1>2, NoCallIsNone
<1>4. ClientTypes'
  BY <1>0, <1>1, <1>2, NoCallIsNone DEF ClientTypes
<1>5. HealersInOrder'
  BY <1>0 DEF HealersInOrder
<1>6. Registrar!Watched'
  <2>1. \A g \in Registrar!Gen : healers'[g] = "recv" => g = current'
    BY <1>0 DEF Registrar!Watched
  <2>2. ASSUME wanted, run' = Registrar!NoCall, ~ gaveUp
        PROVE  current # 0 /\ (healers[current] \in {"recv", "broken"} \/ Registrar!Call("heal", current) \in Registrar!ToSet(queue)')
    <3>1. Registrar!Preclude(Head(queue))
      BY <1>1, <1>2, <2>2, NoCallIsNone
    <3>2. Head(queue) # Registrar!Call("heal", current)
      BY <1>0, <2>2, <3>1 DEF Registrar!Preclude, Registrar!Call, HealersInOrder
    <3>3. current # 0 /\ (healers[current] \in {"recv", "broken"} \/ Registrar!Call("heal", current) \in Registrar!ToSet(queue))
      BY <1>0, <2>2 DEF Registrar!Watched
    <3> QED
      BY <1>1, <3>2, <3>3
  <2> QED
    BY <1>0, <2>1, <2>2 DEF Registrar!Watched
<1> QED
  BY <1>4, <1>5, <1>6 DEF ClientInv

\* A call that goes on, and one that ends without a registration.
LEMMA CallsGoOn ==
    ASSUME ClientInv, UNCHANGED <<queue, healers, current, dropped, gens, timers>>,
           run # Registrar!NoCall,
           \/ UNCHANGED run /\ step' # "idle"
           \/ run' = Registrar!NoCall /\ step' = "idle" /\ (gaveUp' \/ ~ wanted')
    PROVE  ClientInv'
<1>0. ClientTypes /\ HealersInOrder /\ Registrar!Watched
  BY DEF ClientInv
<1>1. ClientTypes'
  BY <1>0 DEF ClientTypes
<1>2. HealersInOrder'
  BY <1>0 DEF HealersInOrder
<1>3. Registrar!Watched'
  BY <1>0 DEF Registrar!Watched
<1> QED
  BY <1>1, <1>2, <1>3 DEF ClientInv

\* heal cancels the goroutine of the last Register, and may start another.
LEMMA HealKeepsOne ==
    ASSUME ClientInv, UNCHANGED <<queue, timers>>, run # Registrar!NoCall,
           dropped' = IF current = 0 THEN dropped ELSE dropped \cup {current},
           \/ /\ gens < Registrar!MaxGens /\ gens' = gens + 1 /\ current' = gens + 1
              /\ healers' = [g \in Registrar!Gen |-> IF g = gens + 1 THEN "recv"
                                                     ELSE IF g = current /\ healers[g] = "recv" THEN "broken"
                                                     ELSE healers[g]]
              /\ run' = Registrar!NoCall /\ step' = "idle"
           \/ /\ current' = 0 /\ UNCHANGED gens
              /\ \/ UNCHANGED run /\ step' # "idle"
                 \/ run' = Registrar!NoCall /\ step' = "idle" /\ gaveUp'
              /\ healers' = [g \in Registrar!Gen |-> IF g = current /\ healers[g] = "recv" THEN "broken" ELSE healers[g]]
    PROVE  ClientInv'
<1>0. /\ ClientTypes /\ HealersInOrder /\ Registrar!Watched
      /\ gens \in Nat /\ current \in 0 .. gens /\ dropped \subseteq 1 .. gens
  BY GensAreNat DEF ClientInv, ClientTypes, HealersInOrder
<1>1. dropped' \subseteq 1 .. gens
  BY <1>0
<1>2. \A g \in Registrar!Gen : healers[g] = "recv" => g = current
  BY <1>0 DEF Registrar!Watched
<1>3. CASE /\ gens < Registrar!MaxGens /\ gens' = gens + 1 /\ current' = gens + 1
           /\ healers' = [g \in Registrar!Gen |-> IF g = gens + 1 THEN "recv"
                                                  ELSE IF g = current /\ healers[g] = "recv" THEN "broken"
                                                  ELSE healers[g]]
           /\ run' = Registrar!NoCall /\ step' = "idle"
  <2>0. /\ gens' \in 0 .. Registrar!MaxGens /\ current' \in 0 .. gens' /\ gens + 1 \in Registrar!Gen
        /\ gens + 1 \notin 1 .. gens /\ 1 .. gens \subseteq 1 .. gens'
    BY <1>0, <1>3, GensAreNat
  <2>1. ClientTypes'
    BY <1>0, <1>3, <2>0 DEF ClientTypes
  <2>2. HealersInOrder'
    <3>1. \A g \in Registrar!Gen : healers'[g] # "none" => g <= gens'
      BY <1>0, <1>3, GensAreNat DEF HealersInOrder
    <3> QED
      BY <1>1, <1>3, <2>0, <3>1 DEF HealersInOrder
  <2>3. Registrar!Watched'
    <3>1. healers'[gens + 1] = "recv" /\ gens + 1 # 0
      BY <1>0, <1>3, <2>0
    <3>2. \A g \in Registrar!Gen : healers'[g] = "recv" => g = gens + 1
      BY <1>2, <1>3
    <3> QED
      BY <1>3, <3>1, <3>2 DEF Registrar!Watched
  <2> QED
    BY <2>1, <2>2, <2>3 DEF ClientInv
<1>4. CASE /\ current' = 0 /\ UNCHANGED gens
           /\ \/ UNCHANGED run /\ step' # "idle"
              \/ run' = Registrar!NoCall /\ step' = "idle" /\ gaveUp'
           /\ healers' = [g \in Registrar!Gen |-> IF g = current /\ healers[g] = "recv" THEN "broken" ELSE healers[g]]
  <2>1. ClientTypes'
    BY <1>0, <1>4 DEF ClientTypes
  <2>2. HealersInOrder'
    BY <1>0, <1>1, <1>4 DEF HealersInOrder
  <2>3. Registrar!Watched'
    BY <1>2, <1>4 DEF Registrar!Watched
  <2> QED
    BY <2>1, <2>2, <2>3 DEF ClientInv
<1> QED
  BY <1>3, <1>4

LEMMA ClientStep == ClientInv /\ Registrar!ClientNext => ClientInv'
<1> SUFFICES ASSUME ClientInv, Registrar!ClientNext PROVE ClientInv'
  OBVIOUS
<1>0. /\ healers \in [Registrar!Gen -> {"none", "recv", "broken", "gone"}] /\ timers \in Nat
      /\ step = "idle" <=> run = Registrar!NoCall
  BY DEF ClientInv, ClientTypes
<1>1. ASSUME \/ Registrar!Restart \/ Registrar!Expire \/ Registrar!HealFind \/ Registrar!Leave
             \/ Registrar!FindClient_Recv
      PROVE  ClientInv'
  <2>1. UNCHANGED <<wanted, queue, run, step, current, dropped, gens, timers, gaveUp, healers>>
    BY <1>1 DEF Registrar!Restart, Registrar!Expire, Registrar!HealFind, Registrar!Leave, Registrar!FindClient_Recv
  <2> QED
    BY <1>0, <2>1, StreamsBreak
<1>2. ASSUME Registrar!Crash PROVE ClientInv'
  BY <1>0, <1>2, StreamsBreak DEF Registrar!Crash
<1>3. ASSUME NEW g \in Registrar!Gen, Registrar!StreamBreaks(g) PROVE ClientInv'
  BY <1>0, <1>3, StreamsBreak DEF Registrar!StreamBreaks
<1>4. ASSUME NEW o \in {"Register", "Unregister"}, Registrar!Application(o) PROVE ClientInv'
  <2>1. Registrar!Call(o, 0) \in Calls
    BY DEF Registrar!Call, Calls, Ops
  <2> QED
    BY <1>0, <1>4, <2>1, CallsAreQueued DEF Registrar!Application
<1>5. ASSUME Registrar!refreshLoop PROVE ClientInv'
  <2>1. Registrar!Call("refresh", timers + 1) \in Calls /\ timers + 1 \in Nat
    BY <1>0 DEF Registrar!Call, Calls, Ops
  <2> QED
    BY <1>0, <1>5, <2>1, CallsAreQueued DEF Registrar!refreshLoop
<1>6. ASSUME NEW g \in Registrar!Gen, Registrar!healLoop(g) PROVE ClientInv'
  <2>1. Registrar!Call("heal", g) \in Calls
    BY GensAreNat DEF Registrar!Call, Calls, Ops
  <2> QED
    BY <1>0, <1>6, <2>1, CallsAreQueued DEF Registrar!healLoop
<1>7. ASSUME Registrar!NextRegister \/ Registrar!RegisterFails \/ Registrar!NextUnregister PROVE ClientInv'
  BY <1>0, <1>7, CallsGoOn DEF Registrar!NextRegister, Registrar!RegisterFails, Registrar!TriesAgain,
                               Registrar!RetryGivesUp, Registrar!NextUnregister, Registrar!Ends
<1>8. ASSUME Registrar!HealRegister, UNCHANGED <<queue, timers>> PROVE ClientInv'
  <2>1. run # Registrar!NoCall
    BY <1>0, <1>8 DEF Registrar!HealRegister
  <2> QED
    BY <1>0, <1>8, <2>1, HealKeepsOne
       DEF Registrar!HealRegister, Registrar!TriesAgain, Registrar!RetryGivesUp, Registrar!Ends
<1>9. ASSUME Registrar!HealUnregister, UNCHANGED <<queue, timers, run, gens>> PROVE ClientInv'
  BY <1>0, <1>9, HealKeepsOne DEF Registrar!HealUnregister
<1> QED
  BY <1>1, <1>2, <1>3, <1>4, <1>5, <1>6, <1>7, <1>8, <1>9, EventsAreRun
     DEF Registrar!ClientNext, Registrar!healNSEClient_Register, Registrar!healNSClient_Register,
         Registrar!healNSEClient_Unregister, Registrar!healNSClient_Unregister,
         Registrar!healNSEClient_Find, Registrar!healNSClient_Find,
         Registrar!healNSEFindClient_Recv, Registrar!healNSFindClient_Recv

LEMMA ClientFrame == ClientInv /\ UNCHANGED clientVars => ClientInv'
<1> SUFFICES ASSUME ClientInv, UNCHANGED clientVars PROVE ClientInv'
  OBVIOUS
<1> QED
  BY StreamsBreak DEF ClientInv, ClientTypes, clientVars

-----------------------------------------------------------------------------
(* eventchannel.                                                           *)

Funs == {Events!AddSub(c) : c \in Client} \cup {Events!RemoveSub(c) : c \in Client}
            \cup {Events!Distribute(e) : e \in Nat} \cup {Events!End}

FanoutTypes ==
    /\ produced \in Nat /\ ran \in 0 .. produced
    /\ executor \in Seq(Funs)
    /\ subs \subseteq Client /\ left \subseteq subs
    /\ state \in [Client -> {"new", "live", "ended", "done"}]
    /\ fanout \in [Client -> Seq(Nat)]
    /\ closes \in [Client -> {0, 1}]
    /\ seen \in [Client -> Nat]

Pending(c) == \E i \in 1 .. Len(executor) : executor[i] = Events!AddSub(c)

\* The executor holds the events that have not been distributed, each once and in
\* order, and a subscriber at most once; while somebody is to be served its head is
\* the next event.
EventsInLine ==
    /\ \A i \in 1 .. Len(executor), e \in Nat : executor[i] = Events!Distribute(e) => e \in ran + 1 .. produced
    /\ \A i, j \in 1 .. Len(executor), d, e \in Nat :
          i < j /\ executor[i] = Events!Distribute(d) /\ executor[j] = Events!Distribute(e) => d < e
    /\ \A e \in ran + 1 .. produced : \E i \in 1 .. Len(executor) : executor[i] = Events!Distribute(e)
    /\ \A i, j \in 1 .. Len(executor), c \in Client :
          executor[i] = Events!AddSub(c) /\ executor[j] = Events!AddSub(c) => i = j
    /\ left # {} => executor # <<>> /\ Head(executor) = Events!Distribute(ran + 1)

\* Who has not been added has no events and an open channel, as all subscribers have.
SubsAreFresh ==
    \A c \in Client :
        /\ state[c] = "new" \/ Pending(c) => c \notin subs /\ closes[c] = 0 /\ fanout[c] = <<>>
        /\ Pending(c) => state[c] # "new"
        /\ c \in subs => closes[c] = 0

\* The last event that the subscriber c has been given.
Served(c) == IF left # {} /\ c \notin left THEN ran + 1 ELSE ran

SubsAreServed ==
    \A c \in Client : state[c] = "live" =>
        /\ \A i \in 1 .. Len(fanout[c]) : fanout[c][i] = seen[c] + i
        /\ c \in subs => seen[c] + Len(fanout[c]) = Served(c)

FanoutInv == FanoutTypes /\ EventsInLine /\ SubsAreFresh /\ SubsAreServed

LEMMA Kinds ==
    /\ \A c, d : /\ Events!AddSub(c) # Events!RemoveSub(d) /\ Events!AddSub(c) # Events!Distribute(d)
                 /\ Events!RemoveSub(c) # Events!Distribute(d)
    /\ \A c : Events!AddSub(c) # Events!End /\ Events!Distribute(c) # Events!End
    /\ \A c, d : Events!AddSub(c) = Events!AddSub(d) => c = d
    /\ \A d, e : Events!Distribute(d) = Events!Distribute(e) => d = e
<1> USE DEF Events!AddSub, Events!RemoveSub, Events!Distribute, Events!End
<1>1. \A c : Events!AddSub(c).op = "add" /\ Events!AddSub(c).sub = c
  OBVIOUS
<1>2. \A c : Events!RemoveSub(c).op = "remove"
  OBVIOUS
<1>3. \A c : Events!Distribute(c).op = "event" /\ Events!Distribute(c).event = c
  OBVIOUS
<1>4. Events!End.op = "end"
  OBVIOUS
<1> HIDE DEF Events!AddSub, Events!RemoveSub, Events!Distribute, Events!End
<1>5. ASSUME NEW c, NEW d
      PROVE  /\ Events!AddSub(c) # Events!RemoveSub(d) /\ Events!AddSub(c) # Events!Distribute(d)
             /\ Events!RemoveSub(c) # Events!Distribute(d)
             /\ Events!AddSub(c) # Events!End /\ Events!Distribute(c) # Events!End
             /\ Events!AddSub(c) = Events!AddSub(d) => c = d
             /\ Events!Distribute(c) = Events!Distribute(d) => c = d
  BY <1>1, <1>2, <1>3, <1>4
<1> QED
  BY <1>5

LEMMA FanoutInit == Events!EventInit => FanoutInv
<1> SUFFICES ASSUME Events!EventInit PROVE FanoutInv
  OBVIOUS
<1> USE DEF Events!EventInit
<1>1. FanoutTypes
  BY DEF FanoutTypes
<1>2. EventsInLine
  BY DEF EventsInLine
<1>3. SubsAreFresh
  <2>1. \A c \in Client : ~ Pending(c)
    <3>1. 1 .. Len(executor) = {}
      OBVIOUS
    <3> QED
      BY <3>1 DEF Pending
  <2>2. \A c \in Client : closes[c] = 0 /\ fanout[c] = <<>> /\ c \notin subs
    OBVIOUS
  <2> QED
    BY <2>1, <2>2 DEF SubsAreFresh
<1>4. SubsAreServed
  BY DEF SubsAreServed
<1> QED
  BY <1>1, <1>2, <1>3, <1>4 DEF FanoutInv

\* The event at the head of the executor is the next one.
LEMMA NextEvent ==
    ASSUME FanoutTypes, EventsInLine, executor # <<>>, NEW e \in Nat, Head(executor) = Events!Distribute(e)
    PROVE  e = ran + 1
<1>1. /\ Len(executor) \in Nat \ {0} /\ executor[1] = Events!Distribute(e) /\ ran \in Nat /\ produced \in Nat
      /\ 1 \in 1 .. Len(executor)
  BY DEF FanoutTypes
<1>2. e \in ran + 1 .. produced
  BY <1>1 DEF EventsInLine
<1>3. ran + 1 \in ran + 1 .. produced /\ ran + 1 \in Nat
  BY <1>1, <1>2
<1>4. PICK i \in 1 .. Len(executor) : executor[i] = Events!Distribute(ran + 1)
  BY <1>3 DEF EventsInLine
<1>5. CASE i = 1
  BY <1>1, <1>4, <1>5, Kinds
<1>6. CASE i # 1
  <2>1. 1 < i
    BY <1>1, <1>6
  <2>2. e < ran + 1
    BY <1>1, <1>3, <1>4, <2>1 DEF EventsInLine
  <2> QED
    BY <1>1, <1>2, <2>2
<1> QED
  BY <1>5, <1>6

\* A function is given to the executor: one about subscribers, or the next event.
LEMMA LineGrows ==
    ASSUME FanoutTypes, EventsInLine, NEW f \in Funs, Events!AsyncExec(f), UNCHANGED <<ran, left>>,
           \/ UNCHANGED produced /\ \A e \in Nat : f # Events!Distribute(e)
           \/ produced' = produced + 1 /\ f = Events!Distribute(produced + 1),
           \A c \in Client : f = Events!AddSub(c) => ~ Pending(c)
    PROVE  /\ executor' \in Seq(Funs) /\ EventsInLine'
           /\ \A c \in Client : Pending(c)' <=> Pending(c) \/ f = Events!AddSub(c)
<1>1. /\ executor' \in Seq(Funs) /\ Len(executor) \in Nat /\ Len(executor') = Len(executor) + 1
      /\ \A i \in 1 .. Len(executor) : executor'[i] = executor[i]
      /\ executor'[Len(executor) + 1] = f
      /\ executor' # <<>>
  <2>1. executor \in Seq(Funs) /\ executor' = Append(executor, f)
    BY DEF Events!AsyncExec, FanoutTypes
  <2> QED
    BY <2>1, AppendFacts
<1>2. /\ \A i \in 1 .. Len(executor) : i \in 1 .. Len(executor') /\ i < Len(executor')
      /\ \A i \in 1 .. Len(executor') : i \in 1 .. Len(executor) \/ i = Len(executor')
      /\ Len(executor') \in 1 .. Len(executor') /\ executor'[Len(executor')] = f
  BY <1>1
<1>3. ran \in Nat /\ produced \in Nat /\ produced' \in Nat /\ ran <= produced /\ produced <= produced'
  BY DEF FanoutTypes
<1>4. \A c \in Client : Pending(c)' <=> Pending(c) \/ f = Events!AddSub(c)
  BY <1>1, <1>2 DEF Pending
<1>5. ASSUME NEW i \in 1 .. Len(executor'), NEW e \in Nat, executor'[i] = Events!Distribute(e)
      PROVE  e \in ran + 1 .. produced'
  <2>1. CASE i = Len(executor')
    <3>1. e = produced + 1 /\ produced' = produced + 1
      BY <1>2, <1>5, <2>1, Kinds
    <3> QED
      BY <1>3, <3>1
  <2>2. CASE i \in 1 .. Len(executor)
    <3>1. e \in ran + 1 .. produced
      BY <1>1, <1>5, <2>2 DEF EventsInLine
    <3> QED
      BY <1>3, <3>1
  <2> QED
    BY <1>2, <2>1, <2>2
<1>6. ASSUME NEW i \in 1 .. Len(executor'), NEW j \in 1 .. Len(executor'), NEW d \in Nat, NEW e \in Nat,
             i < j, executor'[i] = Events!Distribute(d), executor'[j] = Events!Distribute(e)
      PROVE  d < e
  <2>0. i \in 1 .. Len(executor)
    BY <1>1, <1>6
  <2>1. CASE j = Len(executor')
    <3>1. e = produced + 1
      BY <1>2, <1>6, <2>1, Kinds
    <3>2. d \in ran + 1 .. produced
      BY <1>1, <1>6, <2>0 DEF EventsInLine
    <3> QED
      BY <1>3, <3>1, <3>2
  <2>2. CASE j \in 1 .. Len(executor)
    BY <1>1, <1>6, <2>0, <2>2 DEF EventsInLine
  <2> QED
    BY <1>2, <2>1, <2>2
<1>7. ASSUME NEW e \in ran + 1 .. produced'
      PROVE  \E i \in 1 .. Len(executor') : executor'[i] = Events!Distribute(e)
  <2>1. CASE e \in ran + 1 .. produced
    BY <1>1, <1>2, <2>1 DEF EventsInLine
  <2>2. CASE e = produced + 1 /\ f = Events!Distribute(produced + 1)
    BY <1>2, <2>2
  <2>3. \/ e \in ran + 1 .. produced
        \/ e = produced + 1 /\ produced' = produced + 1
    BY <1>3, <1>7
  <2>4. produced' = produced + 1 => f = Events!Distribute(produced + 1)
    BY <1>3
  <2> QED
    BY <2>1, <2>2, <2>3, <2>4
<1>8. ASSUME NEW i \in 1 .. Len(executor'), NEW j \in 1 .. Len(executor'), NEW c \in Client,
             executor'[i] = Events!AddSub(c), executor'[j] = Events!AddSub(c)
      PROVE  i = j
  <2>1. CASE i \in 1 .. Len(executor) /\ j \in 1 .. Len(executor)
    BY <1>1, <1>8, <2>1 DEF EventsInLine
  <2>2. CASE f = Events!AddSub(c)
    <3>1. i \notin 1 .. Len(executor) /\ j \notin 1 .. Len(executor)
      BY <1>1, <1>8, <2>2 DEF Pending
    <3> QED
      BY <1>2, <3>1
  <2> QED
    BY <1>2, <1>8, <2>1, <2>2
<1>9. left' # {} => executor' # <<>> /\ Head(executor') = Events!Distribute(ran' + 1)
  <2>1. executor # <<>> /\ executor \in Seq(Funs) => Head(executor') = Head(executor)
    <3>1. executor # <<>> /\ executor \in Seq(Funs) => 1 \in 1 .. Len(executor) /\ Head(executor) = executor[1]
      OBVIOUS
    <3>2. Head(executor') = executor'[1]
      BY <1>1
    <3> QED
      BY <1>1, <3>1, <3>2
  <2> QED
    BY <1>1, <2>1 DEF EventsInLine, FanoutTypes
<1>10. EventsInLine'
  BY <1>5, <1>6, <1>7, <1>8, <1>9 DEF EventsInLine
<1> QED
  BY <1>1, <1>4, <1>10

\* The function at its head has run.
LEMMA LineShrinks ==
    ASSUME FanoutTypes, EventsInLine, executor # <<>>, Events!Pops, UNCHANGED produced, left' = {},
           \/ UNCHANGED ran /\ \A e \in Nat : Head(executor) # Events!Distribute(e)
           \/ ran' = ran + 1 /\ Head(executor) = Events!Distribute(ran + 1)
    PROVE  /\ executor' \in Seq(Funs) /\ ran' \in 0 .. produced /\ EventsInLine'
           /\ \A c \in Client : /\ Pending(c)' => Pending(c)
                                /\ Head(executor) = Events!AddSub(c) => ~ Pending(c)' /\ Pending(c)
<1>1. /\ executor' \in Seq(Funs) /\ Len(executor) \in Nat \ {0} /\ Len(executor') = Len(executor) - 1
      /\ \A i \in 1 .. Len(executor') : executor'[i] = executor[i + 1]
      /\ Head(executor) = executor[1]
  BY TailFacts DEF Events!Pops, FanoutTypes
<1>2. /\ \A i \in 1 .. Len(executor') : i + 1 \in 1 .. Len(executor) /\ i + 1 # 1
      /\ \A i \in 1 .. Len(executor) : i # 1 => i - 1 \in 1 .. Len(executor') /\ executor'[i - 1] = executor[i]
      /\ 1 \in 1 .. Len(executor)
  BY <1>1
<1>3. ran \in Nat /\ produced \in Nat /\ ran <= produced
  BY DEF FanoutTypes
<1>4. ran' \in 0 .. produced /\ ran' \in Nat /\ ran <= ran'
  <2>1. CASE UNCHANGED ran
    BY <1>3, <2>1
  <2>2. CASE ran' = ran + 1 /\ Head(executor) = Events!Distribute(ran + 1)
    <3>1. ran + 1 \in Nat
      BY <1>3
    <3>2. ran + 1 \in ran + 1 .. produced
      BY <1>1, <1>2, <2>2, <3>1 DEF EventsInLine
    <3> QED
      BY <1>3, <2>2, <3>2
  <2> QED
    BY <2>1, <2>2
<1>5. ASSUME NEW i \in 1 .. Len(executor'), NEW e \in Nat, executor'[i] = Events!Distribute(e)
      PROVE  e \in ran' + 1 .. produced
  <2>1. e \in ran + 1 .. produced
    BY <1>1, <1>2, <1>5 DEF EventsInLine
  <2>2. CASE UNCHANGED ran
    BY <2>1, <2>2
  <2>3. CASE ran' = ran + 1 /\ Head(executor) = Events!Distribute(ran + 1)
    <3>1. ran + 1 \in Nat /\ 1 < i + 1 /\ i + 1 \in 1 .. Len(executor) /\ executor[i + 1] = Events!Distribute(e)
      BY <1>1, <1>2, <1>3, <1>5
    <3>2. ran + 1 < e
      BY <1>1, <1>2, <2>3, <3>1 DEF EventsInLine
    <3> QED
      BY <1>3, <2>1, <2>3, <3>2
  <2> QED
    BY <2>2, <2>3
<1>6. ASSUME NEW i \in 1 .. Len(executor'), NEW j \in 1 .. Len(executor'), NEW d \in Nat, NEW e \in Nat,
             i < j, executor'[i] = Events!Distribute(d), executor'[j] = Events!Distribute(e)
      PROVE  d < e
  <2>1. i + 1 < j + 1
    BY <1>6
  <2> QED
    BY <1>1, <1>2, <1>6, <2>1 DEF EventsInLine
<1>7. ASSUME NEW e \in ran' + 1 .. produced
      PROVE  \E i \in 1 .. Len(executor') : executor'[i] = Events!Distribute(e)
  <2>1. e \in ran + 1 .. produced /\ e \in Nat
    <3>1. \A a, b, p \in Nat : \A x \in b + 1 .. p : a <= b => x \in a + 1 .. p /\ x \in Nat
      OBVIOUS
    <3> QED
      BY <1>3, <1>4, <1>7, <3>1
  <2>2. PICK i \in 1 .. Len(executor) : executor[i] = Events!Distribute(e)
    BY <2>1 DEF EventsInLine
  <2>3. e # ran + 1 \/ UNCHANGED ran
    BY <1>3, <1>7
  <2>4. i # 1
    BY <1>1, <2>1, <2>2, <2>3, <1>3, <1>4, Kinds
  <2> QED
    BY <1>2, <2>2, <2>4
<1>8. ASSUME NEW i \in 1 .. Len(executor'), NEW j \in 1 .. Len(executor'), NEW c \in Client,
             executor'[i] = Events!AddSub(c), executor'[j] = Events!AddSub(c)
      PROVE  i = j
  <2>1. i + 1 = j + 1
    BY <1>1, <1>2, <1>8 DEF EventsInLine
  <2> QED
    BY <2>1
<1>9. EventsInLine'
  BY <1>5, <1>6, <1>7, <1>8 DEF EventsInLine
<1>10. ASSUME NEW c \in Client, Pending(c)' PROVE Pending(c) /\ Head(executor) # Events!AddSub(c)
  <2>1. PICK i \in 1 .. Len(executor') : executor'[i] = Events!AddSub(c)
    BY <1>10 DEF Pending
  <2>2. i + 1 \in 1 .. Len(executor) /\ executor[i + 1] = Events!AddSub(c) /\ i + 1 # 1
    BY <1>1, <1>2, <2>1
  <2>3. executor[1] # Events!AddSub(c)
    BY <1>2, <2>2 DEF EventsInLine
  <2> QED
    BY <1>1, <2>2, <2>3 DEF Pending
<1>11. ASSUME NEW c \in Client, Head(executor) = Events!AddSub(c) PROVE Pending(c)
  BY <1>1, <1>2, <1>11 DEF Pending
<1> QED
  BY <1>1, <1>4, <1>9, <1>10, <1>11

\* A subscriber comes or leaves, or eventLoop takes an event.
LEMMA CallsAreInLine ==
    ASSUME FanoutInv,
           \/ Events!eventLoop
           \/ \E c \in Client : Events!MonitorConnections(c) \/ Events!Leave(c) \/ Events!ServerStopped(c)
    PROVE  FanoutInv'
<1>0. /\ FanoutTypes /\ EventsInLine /\ SubsAreFresh /\ SubsAreServed
      /\ UNCHANGED <<subs, left, ran, fanout, closes, seen>>
      /\ produced \in Nat /\ ran \in 0 .. produced /\ state \in [Client -> {"new", "live", "ended", "done"}]
  BY DEF FanoutInv, FanoutTypes, Events!eventLoop, Events!MonitorConnections, Events!Leave, Events!ServerStopped
<1>1. ASSUME NEW f \in Funs, Events!AsyncExec(f),
             \/ UNCHANGED produced /\ \A e \in Nat : f # Events!Distribute(e)
             \/ produced' = produced + 1 /\ f = Events!Distribute(produced + 1),
             state' \in [Client -> {"new", "live", "ended", "done"}],
             \A c \in Client : f = Events!AddSub(c) => state[c] = "new" /\ state'[c] # "new",
             \A c \in Client : \/ state'[c] = state[c] \/ state'[c] = "done"
                               \/ state[c] = "new" /\ state'[c] = "live"
      PROVE  FanoutInv'
  <2>1. \A c \in Client : f = Events!AddSub(c) => ~ Pending(c)
    BY <1>0, <1>1 DEF SubsAreFresh
  <2>2. /\ executor' \in Seq(Funs) /\ EventsInLine'
        /\ \A c \in Client : Pending(c)' <=> Pending(c) \/ f = Events!AddSub(c)
    BY <1>0, <1>1, <2>1, LineGrows
  <2>3. FanoutTypes'
    <3>1. produced' \in Nat /\ ran' \in 0 .. produced'
      BY <1>0, <1>1
    <3> QED
      BY <1>0, <1>1, <2>2, <3>1 DEF FanoutTypes
  <2>4. SubsAreFresh'
    BY <1>0, <1>1, <2>2 DEF SubsAreFresh
  <2>5. SubsAreServed'
    <3> SUFFICES ASSUME NEW c \in Client, state'[c] = "live"
                 PROVE  /\ \A i \in 1 .. Len(fanout'[c]) : fanout'[c][i] = seen'[c] + i
                        /\ c \in subs' => seen'[c] + Len(fanout'[c]) = Served(c)'
      BY DEF SubsAreServed
    <3>1. CASE state[c] = "live"
      BY <1>0, <3>1 DEF SubsAreServed, Served
    <3>2. CASE state[c] = "new"
      <4>1. c \notin subs' /\ fanout'[c] = <<>> /\ 1 .. Len(<<>>) = {}
        BY <1>0, <3>2 DEF SubsAreFresh
      <4> QED
        BY <4>1
    <3> QED
      BY <1>1, <3>1, <3>2
  <2> QED
    BY <2>2, <2>3, <2>4, <2>5 DEF FanoutInv
<1>2. CASE Events!eventLoop
  <2>0. UNCHANGED state
    BY <1>2 DEF Events!eventLoop
  <2>1. Events!End \in Funs /\ Events!Distribute(produced + 1) \in Funs
    BY <1>0 DEF Funs
  <2>2. CASE produced' = produced + 1 /\ Events!AsyncExec(Events!Distribute(produced + 1))
    <3>1. \A c \in Client : Events!Distribute(produced + 1) # Events!AddSub(c)
      BY Kinds
    <3> QED
      BY <1>0, <1>1, <2>0, <2>1, <2>2, <3>1
  <2>3. CASE UNCHANGED produced /\ Events!AsyncExec(Events!End)
    <3>1. \A c \in Client : Events!End # Events!AddSub(c)
      BY Kinds
    <3>2. \A e \in Nat : Events!End # Events!Distribute(e)
      BY Kinds
    <3> QED
      BY <1>0, <1>1, <2>0, <2>1, <2>3, <3>1, <3>2
  <2> QED
    BY <1>2, <2>2, <2>3 DEF Events!eventLoop
<1>3. ASSUME NEW c \in Client, Events!MonitorConnections(c) PROVE FanoutInv'
  <2>1. Events!AddSub(c) \in Funs /\ \A e \in Nat : Events!AddSub(c) # Events!Distribute(e)
    BY Kinds DEF Funs
  <2>2. /\ Events!AsyncExec(Events!AddSub(c)) /\ UNCHANGED produced
        /\ state[c] = "new" /\ state' = [state EXCEPT ![c] = "live"]
    BY <1>3 DEF Events!MonitorConnections
  <2>3. \A d \in Client : Events!AddSub(c) = Events!AddSub(d) => d = c
    BY Kinds
  <2>4. /\ state' \in [Client -> {"new", "live", "ended", "done"}] /\ state'[c] = "live"
        /\ \A d \in Client : d # c => state'[d] = state[d]
    BY <1>0, <2>2
  <2> QED
    BY <1>1, <2>1, <2>2, <2>3, <2>4
<1>4. ASSUME NEW c \in Client, Events!Leave(c) \/ Events!ServerStopped(c) PROVE FanoutInv'
  <2>1. /\ Events!RemoveSub(c) \in Funs /\ \A e \in Nat : Events!RemoveSub(c) # Events!Distribute(e)
        /\ \A d \in Client : Events!RemoveSub(c) # Events!AddSub(d)
    BY Kinds DEF Funs
  <2>2. /\ Events!AsyncExec(Events!RemoveSub(c)) /\ UNCHANGED produced
        /\ state' = [state EXCEPT ![c] = "done"]
    BY <1>4 DEF Events!Leave, Events!ServerStopped
  <2>3. /\ state' \in [Client -> {"new", "live", "ended", "done"}] /\ state'[c] = "done"
        /\ \A d \in Client : d # c => state'[d] = state[d]
    BY <1>0, <2>2
  <2> QED
    BY <1>1, <2>1, <2>2, <2>3
<1> QED
  BY <1>2, <1>3, <1>4

\* A subscriber reads its channel.
LEMMA ReadsInOrder ==
    ASSUME FanoutInv, NEW c \in Client, Events!Recv(c)
    PROVE  FanoutInv'
<1>0. /\ FanoutTypes /\ EventsInLine /\ SubsAreFresh /\ SubsAreServed
      /\ UNCHANGED <<produced, executor, subs, left, ran, closes>> /\ state[c] = "live"
      /\ fanout[c] \in Seq(Nat) /\ seen[c] \in Nat /\ ran \in Nat
  BY DEF FanoutInv, FanoutTypes, Events!Recv
<1>1. EventsInLine' /\ \A d \in Client : (Pending(d)' <=> Pending(d)) /\ Served(d)' = Served(d)
  BY <1>0 DEF EventsInLine, Pending, Served
<1>2. CASE /\ fanout[c] # <<>> /\ seen' = [seen EXCEPT ![c] = Head(fanout[c])]
           /\ fanout' = [fanout EXCEPT ![c] = Tail(fanout[c])] /\ UNCHANGED state
  <2>0. /\ fanout'[c] = Tail(fanout[c]) /\ fanout'[c] \in Seq(Nat) /\ Len(fanout[c]) \in Nat \ {0}
        /\ Len(fanout'[c]) = Len(fanout[c]) - 1
        /\ \A i \in 1 .. Len(fanout'[c]) : fanout'[c][i] = fanout[c][i + 1] /\ i + 1 \in 1 .. Len(fanout[c])
        /\ seen'[c] = fanout[c][1] /\ 1 \in 1 .. Len(fanout[c])
    <3>1. fanout'[c] = Tail(fanout[c]) /\ seen'[c] = Head(fanout[c])
      BY <1>0, <1>2 DEF FanoutTypes
    <3>2. /\ Tail(fanout[c]) \in Seq(Nat) /\ Len(fanout[c]) \in Nat \ {0}
          /\ Len(Tail(fanout[c])) = Len(fanout[c]) - 1 /\ Head(fanout[c]) = fanout[c][1]
          /\ \A i \in 1 .. Len(Tail(fanout[c])) : Tail(fanout[c])[i] = fanout[c][i + 1] /\ i + 1 \in 2 .. Len(fanout[c])
      BY <1>0, <1>2, TailFacts
    <3> QED
      BY <3>1, <3>2
  <2>1. /\ \A i \in 1 .. Len(fanout[c]) : fanout[c][i] = seen[c] + i
        /\ c \in subs => seen[c] + Len(fanout[c]) = Served(c)
    BY <1>0 DEF SubsAreServed
  <2>2. seen'[c] = seen[c] + 1
    BY <2>0, <2>1
  <2>3. \A d \in Client : d # c => fanout'[d] = fanout[d] /\ seen'[d] = seen[d]
    BY <1>0, <1>2 DEF FanoutTypes
  <2>4. FanoutTypes'
    <3>1. seen'[c] \in Nat
      BY <1>0, <2>2
    <3>2. seen' \in [Client -> Nat] /\ fanout' \in [Client -> Seq(Nat)]
      BY <1>0, <1>2, <2>0, <3>1 DEF FanoutTypes
    <3> QED
      BY <1>0, <1>2, <3>2 DEF FanoutTypes
  <2>5. SubsAreFresh'
    <3>1. state[c] # "new" /\ ~ Pending(c)
      BY <1>0, <1>2 DEF SubsAreFresh
    <3> QED
      BY <1>0, <1>1, <1>2, <2>3, <3>1 DEF SubsAreFresh
  <2>6. SubsAreServed'
    <3> SUFFICES ASSUME NEW d \in Client, state'[d] = "live"
                 PROVE  /\ \A i \in 1 .. Len(fanout'[d]) : fanout'[d][i] = seen'[d] + i
                        /\ d \in subs' => seen'[d] + Len(fanout'[d]) = Served(d)'
      BY DEF SubsAreServed
    <3>1. CASE d # c
      BY <1>0, <1>1, <1>2, <2>3, <3>1 DEF SubsAreServed
    <3>2. ASSUME NEW i \in 1 .. Len(fanout'[c]) PROVE fanout'[c][i] = seen'[c] + i
      <4>1. fanout'[c][i] = seen[c] + (i + 1)
        BY <2>0, <2>1
      <4> QED
        BY <1>0, <2>2, <4>1
    <3>3. seen'[c] + Len(fanout'[c]) = seen[c] + Len(fanout[c])
      BY <1>0, <2>0, <2>2
    <3> QED
      BY <1>0, <1>1, <2>1, <3>1, <3>2, <3>3
  <2> QED
    BY <1>1, <2>4, <2>5, <2>6 DEF FanoutInv
<1>3. CASE state' = [state EXCEPT ![c] = "ended"] /\ UNCHANGED <<seen, fanout>>
  <2>0. state' \in [Client -> {"new", "live", "ended", "done"}] /\ state'[c] = "ended"
        /\ \A d \in Client : d # c => state'[d] = state[d]
    BY <1>0, <1>3 DEF FanoutTypes
  <2>1. FanoutTypes'
    BY <1>0, <1>3, <2>0 DEF FanoutTypes
  <2>2. SubsAreFresh'
    BY <1>0, <1>1, <1>3, <2>0 DEF SubsAreFresh
  <2>3. SubsAreServed'
    BY <1>0, <1>1, <1>3, <2>0 DEF SubsAreServed
  <2> QED
    BY <1>1, <2>1, <2>2, <2>3 DEF FanoutInv
<1> QED
  BY <1>2, <1>3 DEF Events!Recv

\* The executor adds or removes a subscriber, or ends the distribution.
LEMMA SubsChange ==
    ASSUME FanoutInv,
           Events!RunEnd \/ \E c \in Client : Events!RunAdd(c) \/ Events!RunRemove(c)
    PROVE  FanoutInv'
<1>0. /\ FanoutTypes /\ EventsInLine /\ SubsAreFresh /\ SubsAreServed
      /\ UNCHANGED <<produced, left, ran, state, fanout>>
      /\ left = {} /\ executor # <<>> /\ Events!Pops
      /\ ran \in Nat /\ seen \in [Client -> Nat] /\ closes \in [Client -> {0, 1}] /\ subs \subseteq Client
  BY DEF FanoutInv, FanoutTypes, Events!RunEnd, Events!RunAdd, Events!RunRemove, Events!Runs
<1>1. \A e \in Nat : Head(executor) # Events!Distribute(e)
  BY Kinds DEF Events!RunEnd, Events!RunAdd, Events!RunRemove, Events!Runs
<1>2. /\ executor' \in Seq(Funs) /\ EventsInLine'
      /\ \A c \in Client : /\ Pending(c)' => Pending(c)
                           /\ Head(executor) = Events!AddSub(c) => ~ Pending(c)' /\ Pending(c)
  BY <1>0, <1>1, LineShrinks
<1>3. \A c \in Client : Served(c) = ran /\ Served(c)' = ran
  BY <1>0 DEF Served
<1>4. ASSUME NEW c \in Client, Events!RunAdd(c) PROVE FanoutInv'
  <2>0. /\ subs' = subs \cup {c} /\ seen' = [seen EXCEPT ![c] = ran] /\ UNCHANGED closes
        /\ Head(executor) = Events!AddSub(c)
    BY <1>4 DEF Events!RunAdd, Events!Runs
  <2>1. seen' \in [Client -> Nat] /\ seen'[c] = ran /\ \A d \in Client : d # c => seen'[d] = seen[d]
    BY <1>0, <2>0
  <2>2. ~ Pending(c)' /\ closes[c] = 0 /\ fanout[c] = <<>> /\ state[c] # "new"
    BY <1>0, <1>2, <2>0 DEF SubsAreFresh
  <2>3. FanoutTypes'
    BY <1>0, <1>2, <2>0, <2>1 DEF FanoutTypes
  <2>4. SubsAreFresh'
    BY <1>0, <1>2, <2>0, <2>2 DEF SubsAreFresh
  <2>5. SubsAreServed'
    <3>1. ran + Len(fanout[c]) = ran /\ 1 .. Len(fanout[c]) = {}
      BY <1>0, <2>2
    <3>2. ASSUME NEW d \in Client, state[d] = "live"
          PROVE  /\ \A i \in 1 .. Len(fanout[d]) : fanout[d][i] = seen'[d] + i
                 /\ d \in subs' => seen'[d] + Len(fanout[d]) = ran
      <4>1. CASE d = c
        BY <2>1, <3>1, <4>1
      <4>2. CASE d # c
        BY <1>0, <1>3, <2>0, <2>1, <3>2, <4>2 DEF SubsAreServed
      <4> QED
        BY <4>1, <4>2
    <3> QED
      BY <1>0, <1>3, <3>2 DEF SubsAreServed
  <2> QED
    BY <1>2, <2>3, <2>4, <2>5 DEF FanoutInv
<1>5. ASSUME subs' \subseteq subs, UNCHANGED seen, closes' \in [Client -> {0, 1}],
             \A c \in Client : closes'[c] # closes[c] => c \in subs /\ c \notin subs'
      PROVE  FanoutInv'
  <2>1. FanoutTypes'
    BY <1>0, <1>2, <1>5 DEF FanoutTypes
  <2>2. SubsAreFresh'
    BY <1>0, <1>2, <1>5 DEF SubsAreFresh
  <2>3. SubsAreServed'
    BY <1>0, <1>3, <1>5 DEF SubsAreServed
  <2> QED
    BY <1>2, <2>1, <2>2, <2>3 DEF FanoutInv
<1>6. ASSUME NEW c \in Client, Events!RunRemove(c) PROVE FanoutInv'
  <2>1. /\ subs' = subs \ {c} /\ UNCHANGED seen
        /\ closes' = IF side = "client" /\ c \in subs THEN [closes EXCEPT ![c] = closes[c] + 1] ELSE closes
    BY <1>6 DEF Events!RunRemove
  <2>2. c \in subs => closes[c] = 0
    BY <1>0 DEF SubsAreFresh
  <2>3. /\ closes' \in [Client -> {0, 1}]
        /\ \A d \in Client : closes'[d] # closes[d] => d = c /\ c \in subs
    BY <1>0, <2>1, <2>2
  <2> QED
    BY <1>5, <2>1, <2>3
<1>7. ASSUME Events!RunEnd PROVE FanoutInv'
  <2>1. CASE /\ closes' = [c \in Client |-> IF c \in subs THEN closes[c] + 1 ELSE closes[c]]
             /\ subs' = {}
    <3>1. \A c \in Client : c \in subs => closes[c] = 0
      BY <1>0 DEF SubsAreFresh
    <3>2. /\ closes' \in [Client -> {0, 1}]
          /\ \A d \in Client : closes'[d] # closes[d] => d \in subs
      BY <1>0, <2>1, <3>1
    <3>3. UNCHANGED seen
      BY <1>7 DEF Events!RunEnd
    <3> QED
      BY <1>5, <2>1, <3>2, <3>3
  <2>2. CASE UNCHANGED <<closes, subs>>
    <3>1. UNCHANGED seen
      BY <1>7 DEF Events!RunEnd
    <3> QED
      BY <1>0, <1>5, <2>2, <3>1
  <2> QED
    BY <1>7, <2>1, <2>2 DEF Events!RunEnd
<1> QED
  BY <1>4, <1>6, <1>7

\* The executor serves the subscribers with the next event, one after the other.
LEMMA LineIsServed ==
    ASSUME FanoutTypes, EventsInLine, NEW S, S \subseteq subs, Events!Serves(ran + 1, S),
           executor # <<>>, Head(executor) = Events!Distribute(ran + 1), UNCHANGED <<produced, subs>>
    PROVE  /\ executor' \in Seq(Funs) /\ ran' \in 0 .. produced' /\ EventsInLine'
           /\ left' = S /\ ran' = IF S = {} THEN ran + 1 ELSE ran
           /\ \A c \in Client : Pending(c)' => Pending(c)
<1>1. CASE S = {}
  <2>1. left' = {} /\ Events!Pops /\ ran' = ran + 1
    BY <1>1 DEF Events!Serves
  <2> QED
    BY <1>1, <2>1, LineShrinks
<1>2. CASE S # {}
  <2>1. left' = S /\ UNCHANGED <<executor, ran>>
    BY <1>2 DEF Events!Serves
  <2>2. EventsInLine'
    BY <2>1 DEF EventsInLine
  <2> QED
    BY <1>2, <2>1, <2>2 DEF FanoutTypes, Pending
<1> QED
  BY <1>1, <1>2

LEMMA EventStarts ==
    ASSUME FanoutInv, NEW e \in 1 .. produced, Events!RunEvent(e)
    PROVE  FanoutInv'
<1>0. /\ FanoutTypes /\ EventsInLine /\ SubsAreFresh /\ SubsAreServed
      /\ UNCHANGED <<produced, subs, state, fanout, closes, seen>>
      /\ left = {} /\ executor # <<>> /\ Head(executor) = Events!Distribute(e) /\ Events!Serves(e, subs)
      /\ e \in Nat /\ ran \in Nat
  BY DEF FanoutInv, FanoutTypes, Events!RunEvent, Events!Runs
<1>1. e = ran + 1
  BY <1>0, NextEvent
<1>2. /\ executor' \in Seq(Funs) /\ ran' \in 0 .. produced' /\ EventsInLine'
      /\ left' = subs /\ ran' = IF subs = {} THEN ran + 1 ELSE ran
      /\ \A c \in Client : Pending(c)' => Pending(c)
  BY <1>0, <1>1, LineIsServed
<1>3. FanoutTypes'
  BY <1>0, <1>2 DEF FanoutTypes
<1>4. SubsAreFresh'
  BY <1>0, <1>2 DEF SubsAreFresh
<1>5. \A c \in Client : c \in subs => Served(c)' = Served(c)
  BY <1>0, <1>2 DEF Served
<1>6. SubsAreServed'
  BY <1>0, <1>5 DEF SubsAreServed
<1> QED
  BY <1>2, <1>3, <1>4, <1>6 DEF FanoutInv

LEMMA EventIsGiven ==
    ASSUME FanoutInv, NEW c \in Client, Events!Deliver(c)
    PROVE  FanoutInv'
<1>0. /\ FanoutTypes /\ EventsInLine /\ SubsAreFresh /\ SubsAreServed
      /\ UNCHANGED <<produced, subs, state, closes, seen>>
      /\ c \in left /\ c \in subs /\ left \subseteq subs /\ subs \subseteq Client
      /\ ran \in Nat /\ fanout[c] \in Seq(Nat) /\ seen[c] \in Nat
      /\ executor # <<>> /\ Head(executor) = Events!Distribute(ran + 1)
  BY DEF FanoutInv, FanoutTypes, Events!Deliver, EventsInLine
<1>1. Head(executor).event = ran + 1
  BY <1>0 DEF Events!Distribute
<1>2. Events!Serves(ran + 1, left \ {c})
  BY <1>1 DEF Events!Deliver
<1>3. /\ executor' \in Seq(Funs) /\ ran' \in 0 .. produced' /\ EventsInLine'
      /\ left' = left \ {c} /\ ran' = IF left \ {c} = {} THEN ran + 1 ELSE ran
      /\ \A d \in Client : Pending(d)' => Pending(d)
  BY <1>0, <1>2, LineIsServed
<1>4. /\ Served(c) = ran /\ Served(c)' = ran + 1
      /\ \A d \in Client : d # c => Served(d)' = Served(d)
  <2>1. CASE left \ {c} = {}
    BY <1>0, <1>3, <2>1 DEF Served
  <2>2. CASE left \ {c} # {}
    BY <1>0, <1>3, <2>2 DEF Served
  <2> QED
    BY <2>1, <2>2
<1>5. ~ Pending(c) /\ state[c] # "new"
  BY <1>0 DEF SubsAreFresh
<1>6. /\ fanout' \in [Client -> Seq(Nat)]
      /\ \A d \in Client : d # c => fanout'[d] = fanout[d]
      /\ fanout'[c] = Append(fanout[c], ran + 1) \/ (state[c] = "done" /\ fanout'[c] = fanout[c])
  <2>1. CASE fanout' = [fanout EXCEPT ![c] = Append(fanout[c], Head(executor).event)]
    BY <1>0, <1>1, <2>1 DEF FanoutTypes
  <2>2. CASE state[c] = "done" /\ UNCHANGED fanout
    BY <1>0, <2>2 DEF FanoutTypes
  <2> QED
    BY <2>1, <2>2 DEF Events!Deliver
<1>7. FanoutTypes'
  <2>1. left' \subseteq subs'
    BY <1>0, <1>3
  <2> QED
    BY <1>0, <1>3, <1>6, <2>1 DEF FanoutTypes
<1>8. SubsAreFresh'
  BY <1>0, <1>3, <1>5, <1>6 DEF SubsAreFresh
<1>9. SubsAreServed'
  <2> SUFFICES ASSUME NEW d \in Client, state[d] = "live"
               PROVE  /\ \A i \in 1 .. Len(fanout'[d]) : fanout'[d][i] = seen[d] + i
                      /\ d \in subs => seen[d] + Len(fanout'[d]) = Served(d)'
    BY <1>0 DEF SubsAreServed
  <2>1. CASE d # c
    BY <1>0, <1>4, <1>6, <2>1 DEF SubsAreServed
  <2>2. CASE d = c
    <3>1. fanout'[c] = Append(fanout[c], ran + 1) /\ ran + 1 \in Nat
      BY <1>0, <1>6, <2>2
    <3>2. /\ Len(fanout[c]) \in Nat /\ Len(fanout'[c]) = Len(fanout[c]) + 1
          /\ \A i \in 1 .. Len(fanout[c]) : fanout'[c][i] = fanout[c][i]
          /\ fanout'[c][Len(fanout[c]) + 1] = ran + 1
      BY <1>0, <3>1, AppendFacts
    <3>3. /\ \A i \in 1 .. Len(fanout[c]) : fanout[c][i] = seen[c] + i
          /\ seen[c] + Len(fanout[c]) = ran
      BY <1>0, <1>4, <2>2 DEF SubsAreServed
    <3>4. seen[c] + (Len(fanout[c]) + 1) = ran + 1
      BY <1>0, <3>2, <3>3
    <3>5. ASSUME NEW i \in 1 .. Len(fanout'[c]) PROVE fanout'[c][i] = seen[c] + i
      <4>1. CASE i = Len(fanout[c]) + 1
        BY <3>2, <3>4, <4>1
      <4>2. CASE i # Len(fanout[c]) + 1
        <5>1. i \in 1 .. Len(fanout[c])
          BY <3>2, <4>2
        <5> QED
          BY <3>2, <3>3, <5>1
      <4> QED
        BY <4>1, <4>2
    <3> QED
      BY <1>4, <2>2, <3>2, <3>4, <3>5
  <2> QED
    BY <2>1, <2>2
<1> QED
  BY <1>3, <1>7, <1>8, <1>9 DEF FanoutInv

LEMMA FanoutStep == FanoutInv /\ Events!EventNext => FanoutInv'
BY CallsAreInLine, ReadsInOrder, SubsChange, EventStarts, EventIsGiven DEF Events!EventNext

LEMMA FanoutFrame == FanoutInv /\ UNCHANGED fanoutVars => FanoutInv'
BY DEF FanoutInv, FanoutTypes, EventsInLine, SubsAreFresh, SubsAreServed, Pending, Served, fanoutVars

LEMMA FanoutDelivers == FanoutInv => Events!FanoutIsSound
<1> SUFFICES ASSUME FanoutInv PROVE Events!FanoutIsSound
  OBVIOUS
<1>1. ASSUME NEW c \in Client PROVE closes[c] <= 1 /\ DOMAIN fanout[c] = 1 .. Len(fanout[c])
  <2>1. closes[c] \in {0, 1} /\ fanout[c] \in Seq(Nat)
    BY DEF FanoutInv, FanoutTypes
  <2> QED
    BY <2>1
<1>2. \A c \in left : closes[c] = 0
  BY DEF FanoutInv, FanoutTypes, SubsAreFresh
<1>3. \A c \in Client : \A i \in 1 .. Len(fanout[c]) : state[c] = "live" => fanout[c][i] = seen[c] + i
  BY DEF FanoutInv, SubsAreServed
<1> QED
  BY <1>1, <1>2, <1>3 DEF Events!FanoutIsSound

-----------------------------------------------------------------------------
StreamsInv == FindInv /\ CombineInv /\ FanoutInv /\ CacheInv /\ RetryInv /\ ClientInv

\* Whatever the number of callers, servers, subscribers, entries, events, answers and
\* crashes: the adapters of Find and eventchannel lose, repeat and reorder nothing and
\* no channel is closed twice or written after it is closed; a client of
\* combineMonitorServer knows the latest state of every server of which no Send has
\* failed; retry gives up only when a context is done; every entry of querycache is
\* watched by one goroutine, and so is every name of registry heal whose last
\* Register was not given up.
THEOREM NoStreamLoses == MCSpec => []NothingIsLost
<1>1. MCInit => StreamsInv
  BY FindInit, CombineInit, FanoutInit, CacheInit, RetryInit, ClientInit DEF MCInit, StreamsInv
<1>2. StreamsInv /\ [MCNext]_vars => StreamsInv'
  <2> SUFFICES ASSUME StreamsInv, [MCNext]_vars PROVE StreamsInv'
    OBVIOUS
  <2>0. FindInv /\ CombineInv /\ FanoutInv /\ CacheInv /\ RetryInv /\ ClientInv
    BY DEF StreamsInv
  <2>1. FindInv'
    BY <2>0, FindStep, FindFrame DEF MCNext, vars
  <2>2. CombineInv'
    BY <2>0, CombineStep, CombineFrame DEF MCNext, vars
  <2>3. FanoutInv'
    BY <2>0, FanoutStep, FanoutFrame DEF MCNext, vars
  <2>4. CacheInv'
    BY <2>0, CacheStep, CacheFrame DEF MCNext, vars
  <2>5. RetryInv'
    BY <2>0, RetryStep, RetryFrame DEF MCNext, vars
  <2>6. ClientInv'
    BY <2>0, ClientStep, ClientFrame DEF MCNext, vars
  <2> QED
    BY <2>1, <2>2, <2>3, <2>4, <2>5, <2>6 DEF StreamsInv
<1>3. StreamsInv => NothingIsLost
  BY FindAnswers, CombineTells, FanoutDelivers, CacheWatches DEF StreamsInv, NothingIsLost, RetryInv, ClientInv
<1> QED
  BY <1>1, <1>2, <1>3, PTL DEF MCSpec
=============================================================================
