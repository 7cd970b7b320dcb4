--------------------------- MODULE RegistryMemory ---------------------------
(***************************************************************************)
(* The registries of registry/common/memory: Register and Unregister       *)
(* change a map and hand an event to an executor, which writes it to the   *)
(* bounded channel of every Find that watches; a Find that starts has the  *)
(* executor add its channel and write what the map holds.                  *)
(*                                                                         *)
(* memoryNSEServer reports what is unregistered (SendsDeleted);            *)
(* memoryNSServer does not.  begin runs one call per name at a time.       *)
(***************************************************************************)
EXTENDS Naturals, Sequences, SequencesExt

CONSTANTS
    Name,         \* names of endpoints or services
    Watcher,      \* calls of Find that watch
    ChannelSize,  \* eventChannelSize
    MaxCalls      \* bound on the calls of Register and Unregister

Missing == 0   \* the value of a name that is not registered

VARIABLES
    kind,     \* "endpoints" or "services"; never changes
    store,    \* networkServiceEndpoints; the nth call registers value n
    unsent,   \* the events of calls that have changed the map
    queue,    \* the queue of the executor
    out,      \* what the running function has still to write, in order
    channels, \* the watchers in eventChannels
    channel,  \* the content of the channel of each watcher
    find,     \* where the Find of each watcher is
    view,     \* what each watcher was sent last about each name
    calls     \* number of calls so far

vars == <<kind, store, unsent, queue, out, channels, channel, find, view, calls>>

Init ==
    /\ kind \in {"endpoints", "services"}
    /\ store = [n \in Name |-> Missing]
    /\ unsent = {}
    /\ queue = <<>>
    /\ out = <<>>
    /\ channels = {}
    /\ channel = [w \in Watcher |-> <<>>]
    /\ find = [w \in Watcher |-> "new"]
    /\ view = [w \in Watcher |-> [n \in Name |-> Missing]]
    /\ calls = 0

SendsDeleted == kind = "endpoints"

Event(n, v) == [name |-> n, value |-> v]

-----------------------------------------------------------------------------
(* Register and Unregister.                                                *)

\* No call for n is on its way, and there may be another.
MayCall(n) ==
    /\ \A e \in unsent : e.name # n
    /\ calls < MaxCalls
    /\ calls' = calls + 1

Register(n) ==
    /\ MayCall(n)
    /\ store' = [store EXCEPT ![n] = calls + 1]
    /\ unsent' = unsent \cup {Event(n, calls + 1)}
    /\ UNCHANGED <<queue, out, channels, channel, find, view>>

Unregister(n) ==
    /\ MayCall(n)
    /\ store[n] # Missing
    /\ store' = [store EXCEPT ![n] = Missing]
    /\ unsent' = IF SendsDeleted THEN unsent \cup {Event(n, Missing)} ELSE unsent
    /\ UNCHANGED <<queue, out, channels, channel, find, view>>

\* The call hands its event to the executor.
SendEvent(e) ==
    /\ e \in unsent
    /\ unsent' = unsent \ {e}
    /\ queue' = Append(queue, [op |-> "event", event |-> e])
    /\ UNCHANGED <<store, out, channels, channel, find, view, calls>>

-----------------------------------------------------------------------------
(* The executor.  A function runs until it has written all it has to.      *)

Running(op) ==
    /\ out = <<>>
    /\ queue # <<>>
    /\ Head(queue).op = op
    /\ queue' = Tail(queue)

Write(w, e) == [to |-> w, event |-> e]

\* An event goes to all channels, in the order of an iteration over a map.
RunEvent ==
    /\ Running("event")
    /\ out' \in SetToSeqs({Write(w, Head(queue).event) : w \in channels})
    /\ UNCHANGED <<store, unsent, channels, channel, find, view, calls>>

\* A Find that watches misses what is registered already.
Matches_None(w) == {}

\* What the map holds when the channel of w is added.
Matches(w) == {Write(w, Event(n, store[n])) : n \in {m \in Name : store[m] # Missing}}

RunFind ==
    /\ Running("find")
    /\ channels' = channels \cup {Head(queue).watcher}
    /\ out' \in SetToSeqs(Matches(Head(queue).watcher))
    /\ UNCHANGED <<store, unsent, channel, find, view, calls>>

RunClose ==
    /\ Running("close")
    /\ channels' = channels \ {Head(queue).watcher}
    /\ find' = [find EXCEPT ![Head(queue).watcher] = "returned"]
    /\ UNCHANGED <<store, unsent, out, channel, view, calls>>

\* The function writes to a channel, and waits while it is full.
WriteNext ==
    /\ out # <<>>
    /\ Len(channel[Head(out).to]) < ChannelSize
    /\ channel' = [channel EXCEPT ![Head(out).to] = Append(@, Head(out).event)]
    /\ out' = Tail(out)
    /\ UNCHANGED <<store, unsent, queue, channels, find, view, calls>>

-----------------------------------------------------------------------------
(* Find with Watch.                                                        *)

Find(w) ==
    /\ find[w] = "new"
    /\ find' = [find EXCEPT ![w] = "watching"]
    /\ queue' = Append(queue, [op |-> "find", watcher |-> w])
    /\ UNCHANGED <<store, unsent, out, channels, channel, view, calls>>

\* receiveEvent takes an event and sends it on the stream.
ReceiveEvent(w) ==
    /\ find[w] = "watching"
    /\ channel[w] # <<>>
    /\ view' = [view EXCEPT ![w][Head(channel[w]).name] = Head(channel[w]).value]
    /\ channel' = [channel EXCEPT ![w] = Tail(@)]
    /\ UNCHANGED <<store, unsent, queue, out, channels, find, calls>>

\* The context of the stream is done, or Send fails: closeEventChannel.
FindEnds(w) ==
    /\ find[w] = "watching"
    /\ find' = [find EXCEPT ![w] = "draining"]
    /\ queue' = Append(queue, [op |-> "close", watcher |-> w])
    /\ UNCHANGED <<store, unsent, out, channels, channel, view, calls>>

\* closeEventChannel waits for the executor and does not read the channel.
Drain_Waits(w) ==
    /\ find[w] = "draining"
    /\ channel[w] # <<>>
    /\ UNCHANGED vars

\* closeEventChannel reads the channel until it is out of eventChannels.
Drain(w) ==
    /\ find[w] = "draining"
    /\ channel[w] # <<>>
    /\ channel' = [channel EXCEPT ![w] = Tail(@)]
    /\ UNCHANGED <<store, unsent, queue, out, channels, find, view, calls>>

-----------------------------------------------------------------------------
ExecutorStep == RunEvent \/ RunFind \/ RunClose \/ WriteNext

FindStep(w) == ReceiveEvent(w) \/ Drain(w)

CallStep(n) == Register(n) \/ Unregister(n)

Next ==
    /\ UNCHANGED kind
    /\ \/ \E n \in Name : CallStep(n)
       \/ \E e \in unsent : SendEvent(e)
       \/ ExecutorStep
       \/ \E w \in Watcher : Find(w) \/ FindEnds(w) \/ FindStep(w)

\* Calls that have changed the map go on, the executor runs what it is given and
\* Finds read their channels.
Fairness ==
    /\ \A n \in Name : WF_vars(UNCHANGED kind /\ \E e \in unsent : e.name = n /\ SendEvent(e))
    /\ WF_vars(UNCHANGED kind /\ ExecutorStep)
    /\ \A w \in Watcher : WF_vars(UNCHANGED kind /\ FindStep(w))

-----------------------------------------------------------------------------
\* Where values about n are on their way to watcher w: in functions that wait, in
\* the function that runs and in the channel.
Waiting(n) == {i \in DOMAIN queue : queue[i].op = "event" /\ queue[i].event.name = n}
Writing(w, n) == {i \in DOMAIN out : out[i].to = w /\ out[i].event.name = n}
Written(w, n) == {i \in DOMAIN channel[w] : channel[w][i].name = n}

\* The last value that w is sent about n, when all that is on its way has come.
LastSent(w, n) ==
    CASE Waiting(n) # {} -> queue[Max(Waiting(n))].event.value
      [] Waiting(n) = {} /\ Writing(w, n) # {} -> out[Max(Writing(w, n))].event.value
      [] Waiting(n) = {} /\ Writing(w, n) = {} /\ Written(w, n) # {} -> channel[w][Max(Written(w, n))].value
      [] OTHER -> view[w][n]

\* Register and Unregister do not change the map in the executor, so a watcher
\* may be sent values that are older than what it was sent before, but the last
\* one that is on its way to it is what the map holds: it misses no endpoint and
\* no service that is registered, and no endpoint that is gone.
WatchersLearn ==
    \A w \in channels, n \in Name :
        (/\ find[w] = "watching"
         /\ \A e \in unsent : e.name # n
         /\ SendsDeleted \/ store[n] # Missing) =>
             store[n] = LastSent(w, n)

\* The executor is never stuck on the channel of a Find that has ended: whatever
\* it has to do is done.
ExecutorGoesOn == []<>(queue = <<>> /\ out = <<>>)
=============================================================================
