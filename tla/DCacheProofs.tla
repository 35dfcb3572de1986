---------------------------- MODULE DCacheProofs ----------------------------
(***************************************************************************)
(* The properties of DCache for any set of instances and types, any clocks *)
(* and any number of writes and faults.                                    *)
(***************************************************************************)
EXTENDS DCache, FiniteSetTheorems, TLAPS

\* The writes are numbered as they are made, and know only earlier ones.
Numbered ==
    /\ IsFiniteSet(events)
    /\ \A e \in events : e.id <= Writes /\ \A x \in e.saw : x <= Writes
    /\ \A e, f \in events : e.id = f.id => e = f

\* An instance queues its own events, its listener keeps those of its type,
\* and it has heard of nothing while it has no watermark.
Routed ==
    \A i \in Instance :
        /\ \A e \in pool[i] : e.by = i
        /\ \A e \in inbox[i] \cup heard[i] : TypeOf[e.by] = TypeOf[i]
        /\ mark[i] = NoMark => heard[i] = {}

CacheInv ==
    /\ TypeOK
    /\ Numbered
    /\ Routed
    /\ HoldsNewestHeard
    /\ LaterWritesNewer
    /\ TypesApart

-----------------------------------------------------------------------------
(* What one write does.                                                    *)

\* A write of instance i made with a clock reading.
Made(i, op, reading) ==
    [id |-> Writes + 1, by |-> i, op |-> op,
     ts |-> Stamp(i, reading), saw |-> {h.id : h \in heard[i]}]

\* The new event is well formed, the next in number, stamped past the
\* watermark, and moves it to its own stamp.
LEMMA NewEvent ==
    ASSUME CacheInv, NEW i \in Instance, NEW op \in {"set", "del"},
           NEW r \in Readings[i]
    PROVE  /\ Made(i, op, r) \in Event
           /\ Made(i, op, r) \notin events
           /\ Made(i, op, r).ts > mark[i]
           /\ Advanced(i, Made(i, op, r).ts) = Made(i, op, r).ts
           /\ Writes \in Nat
           /\ IsFiniteSet(events \cup {Made(i, op, r)})
           /\ Cardinality(events \cup {Made(i, op, r)}) = Writes + 1
<1> DEFINE e == Made(i, op, r)
<1>1. Writes \in Nat
  BY FS_CardinalityType DEF CacheInv, Numbered, Writes
<1>2. r \in Nat \ {0} /\ mark[i] \in Nat
  BY InstanceAssumption DEF CacheInv, TypeOK
<1>3. Stamp(i, r) \in Nat \ {0} /\ Stamp(i, r) > mark[i]
  BY <1>2 DEF Stamp
<1>4. {h.id : h \in heard[i]} \in SUBSET Nat
  BY DEF CacheInv, TypeOK, Event
<1>5. e \in Event
  BY <1>1, <1>3, <1>4 DEF Made, Event
<1>6. e \notin events
  BY <1>1 DEF Made, CacheInv, Numbered
<1>7. e.ts > mark[i] /\ Advanced(i, e.ts) = e.ts
  BY <1>2, <1>3 DEF Made, Advanced
<1>8. IsFiniteSet(events \cup {e}) /\ Cardinality(events \cup {e}) = Writes + 1
  BY <1>6, FS_AddElement DEF CacheInv, Numbered, Writes
<1> QED
  BY <1>1, <1>5, <1>6, <1>7, <1>8

\* What Write does to the state, with the event named.
LEMMA WriteStep ==
    ASSUME CacheInv, NEW i \in Instance, NEW op \in {"set", "del"},
           NEW r \in Readings[i], Write(i, op, r)
    PROVE  \E e \in Event :
              /\ e.id = Writes + 1 /\ e.by = i /\ e.ts > mark[i]
              /\ e.saw = {h.id : h \in heard[i]}
              /\ e \notin events /\ Writes \in Nat
              /\ IsFiniteSet(events') /\ Writes' = Writes + 1
              /\ events' = events \cup {e}
              /\ store' = [store EXCEPT ![i] = Content(e)]
              /\ mark' = [mark EXCEPT ![i] = e.ts]
              /\ heard' = [heard EXCEPT ![i] = @ \cup {e}]
              /\ pool' \in {pool, [pool EXCEPT ![i] = @ \cup {e}]}
              /\ faults' \in {faults, faults + 1} /\ faults' \in 0..MaxFaults
              /\ status' = status /\ inbox' = inbox
<1> DEFINE e == Made(i, op, r)
<1>1. /\ e \in Event /\ e \notin events
      /\ e.ts > mark[i] /\ Advanced(i, e.ts) = e.ts
      /\ Writes \in Nat
      /\ IsFiniteSet(events \cup {e}) /\ Cardinality(events \cup {e}) = Writes + 1
  BY NewEvent
<1>2. e.id = Writes + 1 /\ e.by = i /\ e.saw = {h.id : h \in heard[i]}
  BY DEF Made
<1>3. /\ store' = [store EXCEPT ![i] = Content(e)]
      /\ mark' = [mark EXCEPT ![i] = Advanced(i, e.ts)]
      /\ events' = events \cup {e}
      /\ heard' = [heard EXCEPT ![i] = @ \cup {e}]
      /\ SendEvent(i, e)
      /\ status' = status /\ inbox' = inbox
  BY DEF Write, Made
<1>4. /\ pool' \in {pool, [pool EXCEPT ![i] = @ \cup {e}]}
      /\ faults' \in {faults, faults + 1} /\ faults' \in 0..MaxFaults
  BY <1>3, InstanceAssumption DEF SendEvent, Fault, CacheInv, TypeOK
<1>5. Writes' = Writes + 1
  BY <1>1, <1>3 DEF Writes
<1> HIDE DEF e
<1> QED
  BY <1>1, <1>2, <1>3, <1>4, <1>5

-----------------------------------------------------------------------------
(* The inductive invariant.                                                *)

\* It holds initially.
LEMMA InitInv == Init => CacheInv
<1> SUFFICES ASSUME Init PROVE CacheInv
  OBVIOUS
<1>1. TypeOK
  BY InstanceAssumption DEF Init, TypeOK, Status, Absent, NoMark
<1>2. IsFiniteSet(events) /\ events = {}
  BY FS_EmptySet DEF Init
<1>3. Numbered /\ LaterWritesNewer
  BY <1>2 DEF Numbered, LaterWritesNewer
<1>4. Routed /\ HoldsNewestHeard /\ TypesApart
  BY DEF Init, Routed, HoldsNewestHeard, TypesApart, Absent, NoMark
<1> QED
  BY <1>1, <1>3, <1>4 DEF CacheInv

\* Set and Delete.
LEMMA WriteInv ==
    ASSUME CacheInv, NEW i \in Instance, NEW op \in {"set", "del"},
           NEW r \in Readings[i], Write(i, op, r)
    PROVE  CacheInv'
<1>1. PICK e \in Event :
         /\ e.id = Writes + 1 /\ e.by = i /\ e.ts > mark[i]
         /\ e.saw = {h.id : h \in heard[i]}
         /\ e \notin events /\ Writes \in Nat
         /\ IsFiniteSet(events') /\ Writes' = Writes + 1
         /\ events' = events \cup {e}
         /\ store' = [store EXCEPT ![i] = Content(e)]
         /\ mark' = [mark EXCEPT ![i] = e.ts]
         /\ heard' = [heard EXCEPT ![i] = @ \cup {e}]
         /\ pool' \in {pool, [pool EXCEPT ![i] = @ \cup {e}]}
         /\ faults' \in {faults, faults + 1} /\ faults' \in 0..MaxFaults
         /\ status' = status /\ inbox' = inbox
  BY WriteStep
<1>2. /\ store \in [Instance -> Nat] /\ mark \in [Instance -> Nat]
      /\ events \subseteq Event
      /\ pool \in [Instance -> SUBSET events]
      /\ inbox \in [Instance -> SUBSET events]
      /\ heard \in [Instance -> SUBSET events]
      /\ status \in [Instance -> Status]
  BY DEF CacheInv, TypeOK
<1>3. e.id \in Nat \ {0} /\ e.ts \in Nat \ {0} /\ Content(e) \in {Absent, e.id}
      /\ Content(e) \in Nat
  BY DEF Event, Content, Absent
<1>4. TypeOK'
  BY <1>1, <1>2, <1>3 DEF TypeOK
<1>5. \A f \in events : f.id \in Nat /\ f.id <= Writes /\ f.ts \in Nat \ {0}
                         /\ f.saw \in SUBSET Nat /\ \A x \in f.saw : x <= Writes
  BY <1>2 DEF CacheInv, Numbered, Event
<1>6. \A x \in e.saw : x \in Nat /\ x <= Writes
  BY <1>1, <1>2, <1>5
<1>7. \A f, g \in events : f.id = g.id => f = g
  BY DEF CacheInv, Numbered
<1>8. Numbered'
  <2>1. \A f \in events' : f.id <= Writes' /\ \A x \in f.saw : x <= Writes'
    BY <1>1, <1>5, <1>6
  <2>2. \A f, g \in events' : f.id = g.id => f = g
    BY <1>1, <1>5, <1>7
  <2> QED
    BY <1>1, <2>1, <2>2 DEF Numbered
<1>9. Routed'
  BY <1>1, <1>2, <1>3 DEF CacheInv, Routed, NoMark
<1>10. \A f \in heard[i] : f.ts <= mark[i]
  BY DEF CacheInv, Routed, HoldsNewestHeard
<1>11. HoldsNewestHeard'
  <2> SUFFICES ASSUME NEW j \in Instance, mark'[j] # NoMark
               PROVE  /\ \A f \in heard'[j] : f.ts <= mark'[j]
                      /\ \E f \in heard'[j] :
                            f.ts = mark'[j] /\ store'[j] \in {Absent, Content(f)}
    BY DEF HoldsNewestHeard, Content
  <2>1. CASE j = i
    <3>1. mark'[i] = e.ts /\ heard'[i] = heard[i] \cup {e} /\ store'[i] = Content(e)
      BY <1>1, <1>2
    <3>2. \A f \in heard[i] : f.ts \in Nat
      BY <1>2, <1>5
    <3>3. \A f \in heard'[i] : f.ts <= mark'[i]
      BY <3>1, <3>2, <1>1, <1>2, <1>3, <1>10
    <3> QED
      BY <2>1, <3>1, <3>3
  <2>2. CASE j # i
    <3>1. mark'[j] = mark[j] /\ heard'[j] = heard[j] /\ store'[j] = store[j]
      BY <2>2, <1>1, <1>2
    <3> QED
      BY <3>1 DEF CacheInv, HoldsNewestHeard
  <2> QED
    BY <2>1, <2>2
<1>12. LaterWritesNewer'
  <2> SUFFICES ASSUME NEW f \in events', NEW g \in events', g.id \in f.saw
               PROVE  g.ts < f.ts
    BY DEF LaterWritesNewer
  <2>1. g \in events
    BY <1>1, <1>5, <1>6
  <2>2. CASE f \in events
    BY <2>1, <2>2 DEF CacheInv, LaterWritesNewer
  <2>3. CASE f = e
    <3>1. PICK h \in heard[i] : g.id = h.id
      BY <1>1, <2>3
    <3>2. g = h
      BY <3>1, <1>2, <1>7, <2>1
    <3> QED
      BY <3>2, <1>10, <1>1, <1>2, <1>3, <1>5, <2>1, <2>3
  <2> QED
    BY <2>2, <2>3, <1>1
<1>13. TypesApart'
  <2> SUFFICES ASSUME NEW j \in Instance
               PROVE  /\ mark'[j] # NoMark =>
                           \E f \in events' : TypeOf[f.by] = TypeOf[j] /\ f.ts = mark'[j]
                      /\ store'[j] # Absent =>
                           \E f \in events' : TypeOf[f.by] = TypeOf[j] /\ f.id = store'[j]
    BY DEF TypesApart
  <2>1. CASE j = i
    BY <2>1, <1>1, <1>2, <1>3
  <2>2. CASE j # i
    <3>1. mark'[j] = mark[j] /\ store'[j] = store[j]
      BY <2>2, <1>1, <1>2
    <3> QED
      BY <3>1, <1>1 DEF CacheInv, TypesApart
  <2> QED
    BY <2>1, <2>2
<1> QED
  BY <1>4, <1>8, <1>9, <1>11, <1>12, <1>13 DEF CacheInv

\* The steps that leave what the caches hold alone: construction, the pool,
\* and events that are not applied.
LEMMA QuietInv ==
    ASSUME CacheInv,
           UNCHANGED <<store, mark, events>>,
           status' \in [Instance -> Status], faults' \in 0..MaxFaults,
           pool' \in [Instance -> SUBSET events],
           inbox' \in [Instance -> SUBSET events],
           heard' \in [Instance -> SUBSET events],
           \A i \in Instance :
               /\ \A e \in pool'[i] : e.by = i
               /\ \A e \in inbox'[i] : TypeOf[e.by] = TypeOf[i]
               /\ heard[i] \subseteq heard'[i]
               /\ \A e \in heard'[i] \ heard[i] :
                      TypeOf[e.by] = TypeOf[i] /\ mark[i] # NoMark /\ e.ts <= mark[i]
    PROVE  CacheInv'
<1>1. TypeOK'
  BY DEF CacheInv, TypeOK
<1>2. Numbered' /\ LaterWritesNewer'
  BY DEF CacheInv, Numbered, LaterWritesNewer, Writes
<1>3. Routed'
  BY DEF CacheInv, Routed
<1>4. HoldsNewestHeard'
  <2> SUFFICES ASSUME NEW j \in Instance, mark[j] # NoMark
               PROVE  /\ \A f \in heard'[j] : f.ts <= mark[j]
                      /\ \E f \in heard'[j] :
                            f.ts = mark[j] /\ store[j] \in {Absent, Content(f)}
    BY DEF HoldsNewestHeard, Content
  <2> QED
    BY DEF CacheInv, HoldsNewestHeard
<1>5. TypesApart'
  BY DEF CacheInv, TypesApart
<1> QED
  BY <1>1, <1>2, <1>3, <1>4, <1>5 DEF CacheInv

\* applyPeerSet and applyPeerDelete.
LEMMA ApplyInv ==
    ASSUME CacheInv, NEW i \in Instance, NEW e \in inbox[i], ApplyPeer(i, e)
    PROVE  CacheInv'
<1>1. /\ store \in [Instance -> Nat] /\ mark \in [Instance -> Nat]
      /\ events \subseteq Event
      /\ inbox \in [Instance -> SUBSET events]
      /\ heard \in [Instance -> SUBSET events]
      /\ faults \in 0..MaxFaults
      /\ e \in events /\ TypeOf[e.by] = TypeOf[i]
  BY DEF CacheInv, TypeOK, Routed
<1>2. e.id \in Nat \ {0} /\ e.ts \in Nat \ {0} /\ e.ts > mark[i]
      /\ Content(e) \in {Absent, e.id} /\ Content(e) \in Nat
  BY <1>1 DEF Event, Content, Absent, ApplyPeer, Stale
<1>3. /\ store' = [store EXCEPT ![i] = Content(e)]
      /\ mark' = [mark EXCEPT ![i] = e.ts]
      /\ heard' = [heard EXCEPT ![i] = @ \cup {e}]
      /\ events' = events /\ status' = status /\ pool' = pool
      /\ inbox' \in {inbox, [inbox EXCEPT ![i] = @ \ {e}]}
      /\ faults' \in 0..MaxFaults
  BY <1>1, InstanceAssumption DEF ApplyPeer, Taken, Fault
<1>4. TypeOK'
  BY <1>1, <1>2, <1>3 DEF CacheInv, TypeOK
<1>5. Numbered' /\ LaterWritesNewer'
  BY <1>3 DEF CacheInv, Numbered, LaterWritesNewer, Writes
<1>6. Routed'
  BY <1>1, <1>2, <1>3 DEF CacheInv, Routed, NoMark
<1>7. HoldsNewestHeard'
  <2> SUFFICES ASSUME NEW j \in Instance, mark'[j] # NoMark
               PROVE  /\ \A f \in heard'[j] : f.ts <= mark'[j]
                      /\ \E f \in heard'[j] :
                            f.ts = mark'[j] /\ store'[j] \in {Absent, Content(f)}
    BY DEF HoldsNewestHeard, Content
  <2>1. CASE j = i
    <3>1. \A f \in heard[i] : f.ts <= mark[i] /\ f.ts \in Nat
      BY <1>1 DEF CacheInv, Routed, HoldsNewestHeard, Event
    <3>2. mark'[i] = e.ts /\ heard'[i] = heard[i] \cup {e} /\ store'[i] = Content(e)
      BY <1>1, <1>3
    <3>3. \A f \in heard'[i] : f.ts <= mark'[i]
      BY <3>1, <3>2, <1>1, <1>2
    <3> QED
      BY <2>1, <3>2, <3>3
  <2>2. CASE j # i
    <3>1. mark'[j] = mark[j] /\ heard'[j] = heard[j] /\ store'[j] = store[j]
      BY <2>2, <1>1, <1>3
    <3> QED
      BY <3>1 DEF CacheInv, HoldsNewestHeard
  <2> QED
    BY <2>1, <2>2
<1>8. TypesApart'
  BY <1>1, <1>2, <1>3 DEF CacheInv, TypesApart
<1> QED
  BY <1>4, <1>5, <1>6, <1>7, <1>8 DEF CacheInv

\* The entry expires, or the watermark is evicted.
LEMMA ForgetInv ==
    ASSUME CacheInv, NEW i \in Instance, Expire(i) \/ Evict(i)
    PROVE  CacheInv'
<1>1. /\ store \in [Instance -> Nat] /\ mark \in [Instance -> Nat]
      /\ heard \in [Instance -> SUBSET events]
  BY DEF CacheInv, TypeOK
<1>2. UNCHANGED <<status, events, pool, inbox>> /\ faults' \in 0..MaxFaults
  BY InstanceAssumption DEF Expire, Evict, Fault, CacheInv, TypeOK
<1>3. \A j \in Instance :
         /\ mark'[j] \in {mark[j], NoMark} /\ store'[j] \in {store[j], Absent}
         /\ heard'[j] \subseteq heard[j]
         /\ mark'[j] = NoMark => heard'[j] = {}
         /\ mark'[j] # NoMark => heard'[j] = heard[j]
  BY <1>1 DEF Expire, Evict, CacheInv, Routed
<1>4. /\ store' \in [Instance -> Nat] /\ mark' \in [Instance -> Nat]
      /\ heard' \in [Instance -> SUBSET events]
  BY <1>1 DEF Expire, Evict, Absent, NoMark
<1>5. TypeOK'
  BY <1>2, <1>4 DEF CacheInv, TypeOK
<1>6. Numbered' /\ LaterWritesNewer'
  BY <1>2 DEF CacheInv, Numbered, LaterWritesNewer, Writes
<1>7. Routed'
  BY <1>2, <1>3 DEF CacheInv, Routed
<1>8. HoldsNewestHeard'
  <2> SUFFICES ASSUME NEW j \in Instance, mark'[j] # NoMark
               PROVE  /\ \A f \in heard'[j] : f.ts <= mark'[j]
                      /\ \E f \in heard'[j] :
                            f.ts = mark'[j] /\ store'[j] \in {Absent, Content(f)}
    BY DEF HoldsNewestHeard, Content
  <2> QED
    BY <1>3 DEF CacheInv, HoldsNewestHeard
<1>9. TypesApart'
  BY <1>2, <1>3 DEF CacheInv, TypesApart
<1> QED
  BY <1>5, <1>6, <1>7, <1>8, <1>9 DEF CacheInv

\* Every step preserves the invariant.
LEMMA StepInv == CacheInv /\ [Next]_vars => CacheInv'
<1> SUFFICES ASSUME CacheInv, [Next]_vars PROVE CacheInv'
  OBVIOUS
<1> USE InstanceAssumption
<1>1. /\ status \in [Instance -> Status] /\ faults \in 0..MaxFaults
      /\ pool \in [Instance -> SUBSET events]
      /\ inbox \in [Instance -> SUBSET events]
      /\ heard \in [Instance -> SUBSET events]
      /\ mark \in [Instance -> Nat] /\ events \subseteq Event
  BY DEF CacheInv, TypeOK
<1>2. \A j \in Instance : /\ \A f \in pool[j] : f.by = j
                          /\ \A f \in inbox[j] : TypeOf[f.by] = TypeOf[j]
  BY DEF CacheInv, Routed
<1>3. CASE UNCHANGED vars
  BY <1>1, <1>2, <1>3, QuietInv DEF vars
<1>4. ASSUME NEW i \in Instance, Assigned(i) \/ WaitOut(i) \/ ListenerEnds(i)
      PROVE  CacheInv'
  <2>1. /\ status' \in [Instance -> Status] /\ faults' \in 0..MaxFaults
        /\ inbox' \in [Instance -> SUBSET events]
        /\ UNCHANGED <<store, mark, events, pool, heard>>
        /\ \A j \in Instance : inbox'[j] \subseteq inbox[j]
    BY <1>1, <1>4 DEF Assigned, WaitOut, ListenerEnds, Fault, Status
  <2> QED
    BY <1>1, <1>2, <2>1, QuietInv
<1>5. ASSUME NEW i \in Instance, NEW r \in Readings[i], Set(i, r) \/ Delete(i, r)
      PROVE  CacheInv'
  BY <1>5, WriteInv DEF Set, Delete
<1>6. ASSUME NEW i \in Instance, NEW e \in pool[i], Produce(i, e) \/ ProduceFails(i, e)
      PROVE  CacheInv'
  <2>1. /\ faults' \in 0..MaxFaults
        /\ pool' \in [Instance -> SUBSET events]
        /\ inbox' \in [Instance -> SUBSET events]
        /\ UNCHANGED <<status, store, mark, events, heard>>
    BY <1>1, <1>6 DEF Produce, ProduceFails, Fault
  <2>2. \A j \in Instance : /\ pool'[j] \subseteq pool[j]
                            /\ \A f \in inbox'[j] : TypeOf[f.by] = TypeOf[j]
    BY <1>1, <1>2, <1>6 DEF Produce, ProduceFails, Concerns
  <2> QED
    BY <1>1, <1>2, <2>1, <2>2, QuietInv
<1>7. ASSUME NEW i \in Instance, NEW e \in inbox[i], SkipStale(i, e) \/ ApplyFails(i, e)
      PROVE  CacheInv'
  <2>1. /\ faults' \in 0..MaxFaults
        /\ inbox' \in [Instance -> SUBSET events]
        /\ heard' \in [Instance -> SUBSET events]
        /\ UNCHANGED <<status, store, mark, events, pool>>
        /\ \A j \in Instance : inbox'[j] \subseteq inbox[j]
    BY <1>1, <1>7 DEF SkipStale, ApplyFails, Taken, Fault
  <2>2. \A j \in Instance :
           /\ heard[j] \subseteq heard'[j]
           /\ \A f \in heard'[j] \ heard[j] :
                  TypeOf[f.by] = TypeOf[j] /\ mark[j] # NoMark /\ f.ts <= mark[j]
    BY <1>1, <1>2, <1>7 DEF SkipStale, ApplyFails, Stale, Event, NoMark
  <2> QED
    BY <1>1, <1>2, <2>1, <2>2, QuietInv
<1>8. ASSUME NEW i \in Instance, NEW e \in inbox[i], ApplyPeer(i, e)
      PROVE  CacheInv'
  BY <1>8, ApplyInv
<1>9. ASSUME NEW i \in Instance, Expire(i) \/ Evict(i)
      PROVE  CacheInv'
  BY <1>9, ForgetInv
<1> QED
  BY <1>3, <1>4, <1>5, <1>6, <1>7, <1>8, <1>9 DEF Next

\* CacheInv holds in every reachable state, for any number of instances,
\* types, writes and faults and whatever the clocks read.
THEOREM CacheInvariance == Spec => []CacheInv
<1> QED
  BY InitInv, StepInv, PTL DEF Spec

-----------------------------------------------------------------------------
(* What it gives.                                                          *)

\* TypeOK: the state of the caches stays well formed.
THEOREM CacheTypeCorrectness == Spec => []TypeOK
<1>1. CacheInv => TypeOK
  BY DEF CacheInv
<1> QED
  BY <1>1, CacheInvariance, PTL

\* HoldsNewestHeard: whatever the order events arrive in (applyPeerSet,
\* applyPeerDelete, Set, Delete), an instance holds the newest write it heard
\* of since its watermark was last evicted.
THEOREM NewestHeardHeld == Spec => []HoldsNewestHeard
<1>1. CacheInv => HoldsNewestHeard
  BY DEF CacheInv
<1> QED
  BY <1>1, CacheInvariance, PTL

\* LaterWritesNewer: stampLocked stamps a write past all the writes its
\* instance knew of, whatever the clocks read.
THEOREM CausalStamps == Spec => []LaterWritesNewer
<1>1. CacheInv => LaterWritesNewer
  BY DEF CacheInv
<1> QED
  BY <1>1, CacheInvariance, PTL

\* TypesApart: caches of different types sharing the topic never take each
\* other's writes (the filter of listenEvents).
THEOREM TypeSeparation == Spec => []TypesApart
<1>1. CacheInv => TypesApart
  BY DEF CacheInv
<1> QED
  BY <1>1, CacheInvariance, PTL

\* SameWritesSameValue: instances that heard of the same writes, no two of
\* them stamped alike, hold the same value unless one let it expire, whatever
\* the order of arrival.
THEOREM Agreement == Spec => []SameWritesSameValue
<1>1. CacheInv => SameWritesSameValue
  <2> SUFFICES ASSUME CacheInv, NEW i \in Instance, NEW j \in Instance,
                      heard[i] # {}, heard[i] = heard[j], ~ Tied(heard[i])
               PROVE  /\ mark[i] = mark[j]
                      /\ store[i] = store[j] \/ Absent \in {store[i], store[j]}
    BY DEF SameWritesSameValue
  <2>1. mark[i] \in Nat /\ mark[j] \in Nat /\ mark[i] # NoMark /\ mark[j] # NoMark
    BY DEF CacheInv, TypeOK, Routed
  <2>2. PICK e \in heard[i] : e.ts = mark[i] /\ store[i] \in {Absent, Content(e)}
    BY <2>1 DEF CacheInv, HoldsNewestHeard
  <2>3. PICK f \in heard[j] : f.ts = mark[j] /\ store[j] \in {Absent, Content(f)}
    BY <2>1 DEF CacheInv, HoldsNewestHeard
  <2>4. e.ts <= mark[j] /\ f.ts <= mark[i]
    BY <2>1, <2>2, <2>3 DEF CacheInv, HoldsNewestHeard
  <2>5. mark[i] = mark[j]
    BY <2>1, <2>2, <2>3, <2>4
  <2>6. e = f
    BY <2>2, <2>3, <2>5 DEF Tied
  <2> QED
    BY <2>2, <2>3, <2>5, <2>6
<1> QED
  BY <1>1, CacheInvariance, PTL
=============================================================================
