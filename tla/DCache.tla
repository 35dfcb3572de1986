------------------------------- MODULE DCache -------------------------------
(***************************************************************************)
(* The replicated cache of dcache/replicated.go for one cache key: every   *)
(* instance has a store of its own and mirrors its sets and deletes to the *)
(* stores of its peers as events on a topic.                               *)
(*                                                                         *)
(* An event is the write it announces, so a store holds the number of the  *)
(* write whose value it has.  Delivery is what the package promises of it: *)
(* the pool sends events in any order, drops them when it is full, a       *)
(* produce may fail, and a delivered event may come late, out of order or  *)
(* again.  A clock reading is any of Readings[i], so clocks may differ,    *)
(* stand still and go back.  The other keys of the cache appear only as    *)
(* the pressure that evicts this key's watermark from the LRU table and    *)
(* its entry from the store.  A local write whose store fails returns      *)
(* before it changes anything, as does a call refused for its ttl or key.  *)
(***************************************************************************)
EXTENDS Naturals, FiniteSets

CONSTANTS
    Instance,   \* the replicated caches, one per process and value type
    Type,       \* the value types sharing the topic
    TypeOf,     \* the type of each cache
    Readings,   \* what each instance's clock may read
    PoolSize,   \* the capacity of the publishing pool
    MaxWrites,  \* the modelling bound of the writes
    MaxFaults   \* the modelling bound of what goes wrong or is forgotten

ASSUME InstanceAssumption ==
    /\ TypeOf \in [Instance -> Type]
    /\ Readings \in [Instance -> SUBSET (Nat \ {0})]
    /\ PoolSize \in Nat
    /\ MaxWrites \in Nat
    /\ MaxFaults \in Nat

VARIABLES
    status,     \* the life of the cache and its event listener
    store,      \* the write whose value the store holds, or Absent
    mark,       \* the key's entry in appliedTS, or NoMark
    events,     \* the writes made
    pool,       \* the events the pool is publishing
    inbox,      \* the events the topic holds for the instance's consumer
    faults,     \* how often something went wrong or was forgotten
    heard       \* the writes made or received since mark was last evicted

vars == <<status, store, mark, events, pool, inbox, faults, heard>>

-----------------------------------------------------------------------------
Absent == 0
NoMark == 0

\* A cache is built "starting", serves "deaf" when the wait for its consumer
\* ran out, and stays "listening" until its listener ends.
Status  == {"starting", "deaf", "listening", "ended"}
Serving == {"deaf", "listening", "ended"}

\* saw names the writes its instance had heard of when it made this one.
Event == [id : Nat \ {0}, by : Instance, op : {"set", "del"},
          ts : Nat \ {0}, saw : SUBSET Nat]

\* What a store holds once the event is applied to it.
Content(e) == IF e.op = "set" THEN e.id ELSE Absent

Writes == Cardinality(events)

Init ==
    /\ status = [i \in Instance |-> "starting"]
    /\ store  = [i \in Instance |-> Absent]
    /\ mark   = [i \in Instance |-> NoMark]
    /\ events = {}
    /\ pool   = [i \in Instance |-> {}]
    /\ inbox  = [i \in Instance |-> {}]
    /\ faults = 0
    /\ heard  = [i \in Instance |-> {}]

-----------------------------------------------------------------------------
\* One of the MaxFaults things that go wrong or are forgotten.
Fault ==
    /\ faults < MaxFaults
    /\ faults' = faults + 1

-----------------------------------------------------------------------------
(* Construction and the listener.                                          *)

\* The group hands the consumer its partitions: it reads from the end of the
\* topic on, whether the construction still waits for it or not.
Assigned(i) ==
    /\ status[i] \in {"starting", "deaf"}
    /\ status' = [status EXCEPT ![i] = "listening"]
    /\ UNCHANGED <<store, mark, events, pool, inbox, faults, heard>>

\* awaitAssignment gives up: the cache is handed out deaf to its peers.
WaitOut(i) ==
    /\ Fault
    /\ status[i] = "starting"
    /\ status' = [status EXCEPT ![i] = "deaf"]
    /\ UNCHANGED <<store, mark, events, pool, inbox, heard>>

\* The listener panicked or its client was closed; nothing restarts it.
ListenerEnds(i) ==
    /\ Fault
    /\ status[i] = "listening"
    /\ status' = [status EXCEPT ![i] = "ended"]
    /\ inbox'  = [inbox EXCEPT ![i] = {}]
    /\ UNCHANGED <<store, mark, events, pool, heard>>

-----------------------------------------------------------------------------
(* Local writes: the critical section of Set and Delete, then sendEvent.   *)

\* The mutants of stampLocked: the bare clock, and a stamp one short.
StampClock(i, reading) == reading
StampShort(i, reading) == IF reading <= mark[i] THEN mark[i] ELSE reading - 1

\* stampLocked: the clock's reading, or one past the watermark.
Stamp(i, reading) ==
    IF reading <= mark[i] THEN mark[i] + 1 ELSE reading

\* advanceWatermarkLocked.
Advanced(i, ts) == IF ts <= mark[i] THEN mark[i] ELSE ts

\* sendEvent hands the event to the pool, or ends without it: the pool is
\* full, or the value does not marshal, which the caller is told.
SendEvent(i, e) ==
    \/ /\ Cardinality(pool[i]) < PoolSize
       /\ pool' = [pool EXCEPT ![i] = @ \cup {e}]
       /\ UNCHANGED faults
    \/ /\ Cardinality(pool[i]) >= PoolSize
       /\ UNCHANGED <<pool, faults>>
    \/ /\ Fault
       /\ UNCHANGED pool

Write(i, op, reading) ==
    /\ status[i] \in Serving
    /\ Writes < MaxWrites
    /\ LET e == [id |-> Writes + 1, by |-> i, op |-> op,
                 ts |-> Stamp(i, reading), saw |-> {h.id : h \in heard[i]}]
       IN  /\ store'  = [store EXCEPT ![i] = Content(e)]
           /\ mark'   = [mark EXCEPT ![i] = Advanced(i, e.ts)]
           /\ events' = events \cup {e}
           /\ heard'  = [heard EXCEPT ![i] = @ \cup {e}]
           /\ SendEvent(i, e)
    /\ UNCHANGED <<status, inbox>>

Set(i, reading)    == Write(i, "set", reading)
Delete(i, reading) == Write(i, "del", reading)

\* A mutant of the filter: the type is not looked at.
ConcernsAnyType(i, e) == e.by # i

\* The events a listener applies: not the instance's own, and not those of
\* the other types.  The filter looks at nothing that changes, so it is taken
\* as the event enters the inbox.
Concerns(i, e) == e.by # i /\ TypeOf[e.by] = TypeOf[i]

\* ProduceSync: the event reaches every consumer that has its partitions.
Produce(i, e) ==
    /\ pool'  = [pool EXCEPT ![i] = @ \ {e}]
    /\ inbox' = [j \in Instance |-> IF status[j] = "listening" /\ Concerns(j, e)
                                    THEN inbox[j] \cup {e} ELSE inbox[j]]
    /\ UNCHANGED <<status, store, mark, events, faults, heard>>

\* The produce ran out of retries.
ProduceFails(i, e) ==
    /\ Fault
    /\ pool' = [pool EXCEPT ![i] = @ \ {e}]
    /\ UNCHANGED <<status, store, mark, events, inbox, heard>>

-----------------------------------------------------------------------------
(* Peer events: one record of listenEvents.                                *)

\* The record leaves the inbox, or is there to be delivered again (a replay,
\* or the duplicate a cancelled idempotent batch may leave).
Taken(i, e) ==
    \/ /\ inbox' = [inbox EXCEPT ![i] = @ \ {e}]
       /\ UNCHANGED faults
    \/ /\ Fault
       /\ UNCHANGED inbox

\* A mutant of the staleness check: it lets every event through.
StaleNever(i, e) == FALSE

\* applyPeerSet, applyPeerDelete: the staleness check ...
Stale(i, e) == e.ts <= mark[i]

\* ... which passes over an event the key's watermark has reached,
SkipStale(i, e) ==
    /\ Stale(i, e)
    /\ Taken(i, e)
    /\ heard' = [heard EXCEPT ![i] = @ \cup {e}]
    /\ UNCHANGED <<status, store, mark, events, pool>>

\* A mutant of what follows: the watermark is left where it is.
ApplyPeerUnmarked(i, e) ==
    /\ ~ Stale(i, e)
    /\ Taken(i, e)
    /\ store' = [store EXCEPT ![i] = Content(e)]
    /\ heard' = [heard EXCEPT ![i] = @ \cup {e}]
    /\ UNCHANGED <<status, mark, events, pool>>

\* ... and the store write with its watermark entry.
ApplyPeer(i, e) ==
    /\ ~ Stale(i, e)
    /\ Taken(i, e)
    /\ store' = [store EXCEPT ![i] = Content(e)]
    /\ mark'  = [mark EXCEPT ![i] = e.ts]
    /\ heard' = [heard EXCEPT ![i] = @ \cup {e}]
    /\ UNCHANGED <<status, events, pool>>

\* The value does not unmarshal or the store fails: the stamp is not claimed.
ApplyFails(i, e) ==
    /\ Fault
    /\ inbox' = [inbox EXCEPT ![i] = @ \ {e}]
    /\ UNCHANGED <<status, store, mark, events, pool, heard>>

-----------------------------------------------------------------------------
(* The bounded tables.                                                     *)

\* The entry's ttl ran out, or the store evicted it.
Expire(i) ==
    /\ Fault
    /\ store[i] # Absent
    /\ store' = [store EXCEPT ![i] = Absent]
    /\ UNCHANGED <<status, mark, events, pool, inbox, heard>>

\* The LRU table evicts the key's watermark.
Evict(i) ==
    /\ Fault
    /\ mark[i] # NoMark
    /\ mark'  = [mark EXCEPT ![i] = NoMark]
    /\ heard' = [heard EXCEPT ![i] = {}]
    /\ UNCHANGED <<status, store, events, pool, inbox>>

Next ==
    \E i \in Instance :
        \/ Assigned(i) \/ WaitOut(i) \/ ListenerEnds(i)
        \/ \E r \in Readings[i] : Set(i, r) \/ Delete(i, r)
        \/ \E e \in pool[i] : Produce(i, e) \/ ProduceFails(i, e)
        \/ \E e \in inbox[i] : SkipStale(i, e) \/ ApplyPeer(i, e) \/ ApplyFails(i, e)
        \/ Expire(i) \/ Evict(i)

Spec == Init /\ [][Next]_vars

-----------------------------------------------------------------------------
(* Properties.                                                             *)

\* The state of the caches is well formed.
TypeOK ==
    /\ status \in [Instance -> Status]
    /\ store \in [Instance -> Nat]
    /\ mark \in [Instance -> Nat]
    /\ events \subseteq Event
    /\ pool \in [Instance -> SUBSET events]
    /\ inbox \in [Instance -> SUBSET events]
    /\ faults \in 0..MaxFaults
    /\ heard \in [Instance -> SUBSET events]

\* Whatever the order events arrive in, an instance holds the newest write it
\* has heard of since its watermark was last evicted (applyPeerSet,
\* applyPeerDelete and the critical section of Set and Delete): nothing it
\* heard is newer than its watermark, and its store holds the value of a write
\* of that stamp, or nothing.  In particular an older set never brings back a
\* key that was deleted.
HoldsNewestHeard ==
    \A i \in Instance : mark[i] # NoMark =>
        /\ \A e \in heard[i] : e.ts <= mark[i]
        /\ \E e \in heard[i] : e.ts = mark[i] /\ store[i] \in {Absent, Content(e)}

\* A write is stamped past every write its instance knew of (stampLocked), so
\* no peer drops it in favour of a write it was made to replace, however far
\* ahead the clocks of the others run.
LaterWritesNewer ==
    \A e, f \in events : f.id \in e.saw => f.ts < e.ts

Tied(S) == \E e, f \in S : e # f /\ e.ts = f.ts

\* Two instances that heard of the same writes hold the same value, or one of
\* them has let it expire: the order of arrival, duplicates and the stale
\* events passed over do not matter, provided no two of the writes are
\* stamped alike.
SameWritesSameValue ==
    \A i, j \in Instance :
        (heard[i] # {} /\ heard[i] = heard[j] /\ ~ Tied(heard[i])) =>
            /\ mark[i] = mark[j]
            /\ store[i] = store[j] \/ Absent \in {store[i], store[j]}

\* The types share a topic and their keys may have the same name: neither the
\* store nor the watermark of a cache ever comes from a write of another type
\* (the filter in listenEvents).
TypesApart ==
    \A i \in Instance :
        /\ mark[i] # NoMark =>
              \E e \in events : TypeOf[e.by] = TypeOf[i] /\ e.ts = mark[i]
        /\ store[i] # Absent =>
              \E e \in events : TypeOf[e.by] = TypeOf[i] /\ e.id = store[i]

\* What the package documentation says of two instances writing a key before
\* either has seen the other's event: clocks that never read alike separate
\* them, so two instances that have heard of every write agree.  Here every
\* instance writes at most once, so no clock is blamed for standing still.
ClocksSeparateWrites ==
    \A i, j \in Instance :
        /\ heard[i] = events /\ heard[j] = events
        /\ \A e, f \in events : e.by = f.by => e = f
        => store[i] = store[j] \/ Absent \in {store[i], store[j]}
=============================================================================
