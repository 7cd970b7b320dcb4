------------------------------ MODULE QueryCache ----------------------------
(***************************************************************************)
(* queryCacheNSEClient (registry/common/querycache) and its cache, for one *)
(* name: a Find that is not in the cache asks the registry and stores the  *)
(* answer; a goroutine then watches the endpoint and keeps the entry up to *)
(* date until it is deleted, expires or the stream breaks.                 *)
(***************************************************************************)
EXTENDS Integers, Sequences

CONSTANTS
    Caller,      \* concurrent Finds
    MaxEntries,  \* bound: entries ever stored
    MaxChanges   \* bound: changes of the registry

Entry == 1 .. MaxEntries

VARIABLES
    registry,   \* the version of the endpoint in the registry, 0 if there is none
    changes,    \* changes of the registry so far
    entries,    \* the entry of the name in the cache, or 0
    stored,     \* entries stored so far
    nse,        \* the version that each entry holds
    expired,    \* has the expiration time of the entry passed?
    cleaned,    \* once of its cleanup
    cancelled,  \* is its findCtx done?
    watcher,    \* its goroutine: "none", "start", "watch", "end" or "gone"
    events,     \* what the watching Find has still to give it
    missed,     \* was there no endpoint when that Find started?
    find,       \* what each Find does
    answer      \* what it has got from the registry

cacheVars == <<registry, changes, entries, stored, nse, expired, cleaned, cancelled, watcher, events, missed, find, answer>>

CacheInit ==
    /\ registry = 1 /\ changes = 0
    /\ entries = 0 /\ stored = 0
    /\ nse = [e \in Entry |-> 0]
    /\ expired = [e \in Entry |-> FALSE]
    /\ cleaned = [e \in Entry |-> FALSE]
    /\ cancelled = [e \in Entry |-> FALSE]
    /\ watcher = [e \in Entry |-> "none"]
    /\ events = [e \in Entry |-> <<>>]
    /\ missed = [e \in Entry |-> FALSE]
    /\ find = [c \in Caller |-> "idle"]
    /\ answer = [c \in Caller |-> 0]

\* External: the endpoint is registered anew, changed or unregistered, and every
\* watching Find is told.
RegistryChanges ==
    /\ changes < MaxChanges
    /\ changes' = changes + 1
    /\ \E v \in {0, changes + 2} :
          /\ v # registry
          /\ registry' = v
          /\ events' = [e \in Entry |-> IF watcher[e] = "watch" THEN Append(events[e], v) ELSE events[e]]
    /\ UNCHANGED <<entries, stored, nse, expired, cleaned, cancelled, watcher, missed, find, answer>>

\* cleanup of an entry: only the first call has an effect.
cleanup(e) ==
    IF cleaned[e] THEN UNCHANGED <<entries, cleaned, cancelled>>
    ELSE /\ entries' = 0
         /\ cleaned' = [cleaned EXCEPT ![e] = TRUE]
         /\ cancelled' = [cancelled EXCEPT ![e] = TRUE]

\* Load extends the life of an entry, or removes it when its time has passed.
Load(c) ==
    /\ find[c] = "idle"
    /\ \/ /\ entries = 0
          /\ find' = [find EXCEPT ![c] = "ask"]
          /\ UNCHANGED <<entries, cleaned, cancelled>>
       \/ /\ entries # 0 /\ ~ expired[entries]
          /\ UNCHANGED <<find, entries, cleaned, cancelled>>
       \/ /\ entries # 0 /\ expired[entries]
          /\ cleanup(entries)
          /\ find' = [find EXCEPT ![c] = "ask"]
    /\ UNCHANGED <<registry, changes, stored, nse, expired, watcher, events, missed, answer>>

\* The expiration time of an entry that nobody loads passes.
Expire(e) ==
    /\ entries = e /\ ~ expired[e]
    /\ expired' = [expired EXCEPT ![e] = TRUE]
    /\ UNCHANGED <<registry, changes, entries, stored, nse, cleaned, cancelled, watcher, events, missed, find, answer>>

\* The goroutine of newCache removes what has expired.
newCache(e) ==
    /\ entries = e /\ expired[e]
    /\ cleanup(e)
    /\ UNCHANGED <<registry, changes, stored, nse, expired, watcher, events, missed, find, answer>>

\* The next Find returns what the registry has.
Find(c) ==
    /\ find[c] = "ask"
    /\ IF registry = 0 THEN find' = [find EXCEPT ![c] = "idle"] /\ UNCHANGED answer
       ELSE /\ find' = [find EXCEPT ![c] = "store"]
            /\ answer' = [answer EXCEPT ![c] = registry]
    /\ UNCHANGED <<registry, changes, entries, stored, nse, expired, cleaned, cancelled, watcher, events, missed>>

\* LoadOrStore and the start of the goroutine, unless the name has an entry.
storeInCache(c) ==
    /\ find[c] = "store"
    /\ find' = [find EXCEPT ![c] = "idle"]
    /\ answer' = [answer EXCEPT ![c] = 0]
    /\ IF entries # 0 THEN UNCHANGED <<entries, stored, nse, watcher>>
       ELSE /\ stored < MaxEntries
            /\ stored' = stored + 1
            /\ entries' = stored + 1
            /\ nse' = [nse EXCEPT ![stored + 1] = answer[c]]
            /\ watcher' = [watcher EXCEPT ![stored + 1] = "start"]
    /\ UNCHANGED <<registry, changes, expired, cleaned, cancelled, events, missed>>

\* The watching Find starts: it tells what there is, and every change after that.
WatchStarts(e) ==
    /\ watcher[e] = "start"
    /\ \/ /\ cancelled[e]
          /\ watcher' = [watcher EXCEPT ![e] = "end"]
          /\ UNCHANGED <<events, missed>>
       \/ /\ watcher' = [watcher EXCEPT ![e] = "watch"]
          /\ events' = [events EXCEPT ![e] = IF registry = 0 THEN <<>> ELSE <<registry>>]
          /\ missed' = [missed EXCEPT ![e] = registry = 0]
    /\ UNCHANGED <<registry, changes, entries, stored, nse, expired, cleaned, cancelled, find, answer>>

\* One turn of the loop: Update, or the end when the endpoint is deleted.
Update(e) ==
    /\ watcher[e] = "watch" /\ events[e] # <<>>
    /\ events' = [events EXCEPT ![e] = Tail(@)]
    /\ IF Head(events[e]) = 0
       THEN watcher' = [watcher EXCEPT ![e] = "end"] /\ UNCHANGED nse
       ELSE nse' = [nse EXCEPT ![e] = Head(events[e])] /\ UNCHANGED watcher
    /\ UNCHANGED <<registry, changes, entries, stored, expired, cleaned, cancelled, missed, find, answer>>

\* The stream of the watching Find ends: cancelled, or broken.
WatchFails(e) ==
    /\ watcher[e] \in {"start", "watch"}
    /\ watcher' = [watcher EXCEPT ![e] = "end"]
    /\ UNCHANGED <<registry, changes, entries, stored, nse, expired, cleaned, cancelled, events, missed, find, answer>>

\* The deferred Cleanup of the goroutine.
Cleanup(e) ==
    /\ watcher[e] = "end"
    /\ watcher' = [watcher EXCEPT ![e] = "gone"]
    /\ cleanup(e)
    /\ events' = [events EXCEPT ![e] = <<>>]
    /\ UNCHANGED <<registry, changes, stored, nse, expired, missed, find, answer>>

CacheNext ==
    \/ RegistryChanges
    \/ \E c \in Caller : Load(c) \/ Find(c) \/ storeInCache(c)
    \/ \E e \in Entry : Expire(e) \/ newCache(e) \/ WatchStarts(e) \/ Update(e) \/ WatchFails(e) \/ Cleanup(e)

-----------------------------------------------------------------------------
\* Every entry of the cache has a goroutine that watches it, every goroutine that
\* still watches has its entry in the cache, and once it has taken all events the
\* entry is what the registry holds, unless the endpoint was unregistered before the
\* watch began.
CacheIsWatched ==
    \A e \in Entry :
        /\ entries = e => watcher[e] \in {"start", "watch", "end"} /\ ~ cancelled[e]
        /\ watcher[e] \in {"start", "watch"} /\ ~ cancelled[e] => entries = e
        /\ entries = e /\ watcher[e] = "watch" /\ events[e] = <<>> /\ ~ missed[e] => nse[e] = registry
=============================================================================
