--------------------------- MODULE PoliciesProofs ---------------------------
(***************************************************************************)
(* The safety of Policies for any rules, any number of calls of any shape  *)
(* and any number of faults.  InStep holds on a backend whose statements   *)
(* hold what they name; liveness stays with TLC.                           *)
(***************************************************************************)
EXTENDS Policies, FiniteSetTheorems, TLAPS

\* The rules the first k mutations name, and those they leave stored: nothing
\* is removed once something was added.
Named(ms, k) == {r \in Rule : \E i \in 1 .. k : r \in ms[i].rules}
Added(ms, k) == {r \in Rule : \E i \in 1 .. k : ms[i].op = "add" /\ r \in ms[i].rules}

Names(b) == Named(batch[b].ms, Len(batch[b].ms))
Adds(b)  == Added(batch[b].ms, Len(batch[b].ms))

\* How many of b's statements have run.
Ran(b) == IF batch[b].pc = "write" THEN batch[b].at - 1 ELSE Len(batch[b].ms)

InFlight(b) == batch[b].pc \in {"replay", "replaying"}

\* Somebody has read the set and not installed it.
Loading == mu # NoOne /\ \A b \in Batch : batch[b].pc # "replaying"

\* A rebuild is still owed.
Owed ==
    \/ diverged
    \/ \E b \in Batch : \/ batch[b].pc \in {"recover", "publish"}
                        \/ batch[b].pc = "replay" /\ batch[b].seq < applied

Settled(r) == \A b \in Batch : InFlight(b) => r \notin Names(b)

-----------------------------------------------------------------------------
\* What every call carries at its stage.
Carried == \A b \in Batch :
    /\ batch[b].pc \in Open \cup {"replay", "replaying"} =>
          batch[b].ms \in Changes /\ batch[b].at \in 1 .. Len(batch[b].ms)
    /\ batch[b].pc \in {"commit", "replay", "replaying"} => batch[b].seq <= sequence
    /\ batch[b].pc \in {"idle", "number", "commit", "replay"} => batch[b].at = 1
    /\ batch[b].pc = "replaying" => batch[b].seq = applied

\* An open transaction holds what its statements named, and finds those rules
\* as its statements left them.
Locks == \A b \in Batch :
    /\ batch[b].pc = "idle" => batch[b].held = {} /\ batch[b].ins = {} /\ batch[b].del = {}
    /\ batch[b].pc \in Open =>
          /\ batch[b].held = Named(batch[b].ms, Ran(b))
          /\ batch[b].ins \subseteq batch[b].held
          /\ batch[b].del \subseteq batch[b].held
          /\ \A r \in batch[b].held : r \in View(b) <=> r \in Added(batch[b].ms, Ran(b))

\* Two transactions share only rules that are not there.
Shared == \A b, c \in Batch :
    b # c /\ batch[b].pc \in Open /\ batch[c].pc \in Open =>
        \A r \in batch[b].held \cap batch[c].held :
            r \notin store /\ r \notin batch[b].ins /\ r \notin batch[c].ins

\* A transaction that overlaps a committed one is numbered after it, or both
\* only remove.
Numbered == \A b, c \in Batch :
    batch[b].pc = "commit" /\ InFlight(c) =>
        \A r \in Names(b) \cap Names(c) :
            batch[c].seq < batch[b].seq \/ (r \notin Adds(b) /\ r \notin Adds(c))

\* The newest batch on its way has the last word on what it names.
LastWord == \A b \in Batch : ~blind /\ InFlight(b) /\ batch[b].seq >= applied =>
    \A r \in Names(b) :
        (\A c \in Batch : InFlight(c) /\ r \in Names(c) => batch[c].seq <= batch[b].seq)
            => (r \in store <=> r \in Adds(b))

\* What a replay has done so far.
Halfway == \A b \in Batch : batch[b].pc = "replaying" =>
    \A r \in Named(batch[b].ms, batch[b].at - 1) :
        r \in rules <=> r \in Added(batch[b].ms, batch[b].at - 1)

\* The set agrees with storage on every rule no batch is on its way for, ...
RulesAgree ==
    ~blind /\ ~Loading /\ ~Owed =>
        \A r \in Rule : Settled(r) => (r \in rules <=> r \in store)

\* ... as does the one that was read, ...
SnapAgrees ==
    ~blind /\ Loading => \A r \in Rule : Settled(r) => (r \in snap <=> r \in store)

\* ... and the decisions follow the set.
IndexFollows ==
    ~Loading /\ ~Owed /\ (\A b \in Batch : batch[b].pc # "replaying") => index = rules

\* The inductive invariant of InStep.
StepInv ==
    /\ Locks /\ Shared /\ Numbered /\ LastWord /\ Halfway
    /\ RulesAgree /\ SnapAgrees /\ IndexFollows

-----------------------------------------------------------------------------
(* Types *)

Flags == diverged \in BOOLEAN /\ blind \in BOOLEAN

Sets ==
    /\ store \in SUBSET Rule /\ rules \in SUBSET Rule /\ index \in SUBSET Rule
    /\ snap \in SUBSET Rule /\ ever \in SUBSET Rule /\ always \in SUBSET Rule

Counters ==
    /\ sequence \in Nat /\ applied \in 0 .. sequence
    /\ faults \in 0 .. MaxFaults
    /\ retry \in {"off", "asleep", "awake", "loading", "ending"}

Calls == batch \in [Batch -> Call]

Owners ==
    /\ mu \in Owner
    /\ \A b \in Batch : mu = b <=> batch[b].pc \in {"replaying", "loading"}
    /\ mu = Retry <=> retry = "loading"

TypeInv == Sets /\ Counters /\ Calls /\ Owners /\ Carried

\* TypeOK is the parts together.
LEMMA TypeParts == TypeOK <=> Flags /\ Sets /\ Counters /\ Calls /\ Owners
  BY DEF TypeOK, Flags, Sets, Counters, Calls, Owners

\* The mutation a call is at.
LEMMA CurrentType ==
  ASSUME Carried, NEW b \in Batch, batch[b].pc \in Open \cup {"replay", "replaying"}
  PROVE  /\ Current(b) \in Mutation
         /\ IsFiniteSet(Current(b).rules)
         /\ batch[b].ms \in Seq(Mutation)
         /\ Len(batch[b].ms) \in Nat /\ Len(batch[b].ms) > 0
         /\ batch[b].at \in 1 .. Len(batch[b].ms)
  BY PoliciesAssumption DEF Carried, Current

\* What a delete reports is a number.
LEMMA CountType ==
  ASSUME NEW S, IsFiniteSet(S), NEW T PROVE Cardinality(S \cap T) \in Int
<1>1. IsFiniteSet(S \cap T)
  BY FS_Subset
<1> QED
  BY <1>1, FS_CardinalityType

\* Every step keeps the flags Boolean.
LEMMA FlagsStep == ASSUME Flags, Next PROVE Flags'
<1> USE DEF Flags, flags, memory, storage
<1>1. ASSUME NEW b \in Batch, Mutate(b) \/ CallStep(b) PROVE Flags'
  BY <1>1, ZenonT(60)
  DEF Mutate, CallStep, AddPolicies, RemovePolicies, Wrote, Number, Commit,
      CommitUnheard, Rollback, TakeLock, Replay, RecoverLoad, Recovered,
      RecoverFails, PublishDivergence, ScheduleRetry, Load, Install, LoadFails
<1>2. CASE RetryStep
  BY <1>2, ZenonT(60)
  DEF RetryStep, RetryWakes, RetryLoad, RetryDone, RetryFails, RetryEnds, Load,
      Install, LoadFails
<1>3. CASE PeriodicStep \/ Foreign
  BY <1>3, ZenonT(60)
  DEF PeriodicStep, PeriodicLoad, PeriodicDone, Foreign, Load, Install
<1> QED
  BY <1>1, <1>2, <1>3 DEF Next

\* The new value of a call that ran a statement.
LEMMA WroteType ==
  ASSUME Calls, Carried, NEW b \in Batch, At(b, "write"),
         NEW ins \in SUBSET Rule, NEW del \in SUBSET Rule, NEW held \in SUBSET Rule,
         NEW count \in Int, Wrote(b, ins, del, held, count)
  PROVE  Calls' /\ Carried'
<1>1. batch[b] \in Call /\ batch[b].ms \in Seq(Mutation) /\ Len(batch[b].ms) \in Nat
      /\ batch[b].at \in 1 .. Len(batch[b].ms) /\ batch[b].ms \in Changes
  BY CurrentType DEF Calls, At, Open, Carried
<1>2. Append(batch[b].counts, count) \in Seq(Int)
  BY <1>1 DEF Call
<1>3. Calls'
  BY <1>1, <1>2 DEF Calls, Wrote, Call, Stage
<1>4. Carried'
  BY <1>1 DEF Carried, Calls, Wrote, At, Open, Call, memory
<1> QED
  BY <1>3, <1>4

\* A call whose batch is of no more use.
LEMMA LeftType == ASSUME NEW stage \in Stage PROVE Bare(stage) \in Call
<1>1. <<>> \in Seq(Mutation) /\ <<>> \in Seq(Int)
  OBVIOUS
<1> QED
  BY <1>1 DEF Call, Bare

\* A call that runs no statement keeps its type.
LEMMA GotoType ==
  ASSUME Calls, NEW b \in Batch, NEW stage \in Stage, Goto(b, stage) \/ Leave(b, stage)
  PROVE  Calls'
<1>1. CASE Goto(b, stage)
  BY <1>1 DEF Goto, Calls, Call
<1>2. CASE Leave(b, stage)
  BY <1>2, LeftType DEF Leave, Calls
<1> QED
  BY <1>1, <1>2

\* Nor does a call that goes on to its next mutation, or drops its locks.
LEMMA AtType ==
  ASSUME Calls, NEW b \in Batch, NEW k \in Nat, batch' = [batch EXCEPT ![b].at = k]
  PROVE  Calls'
  BY DEF Calls, Call

LEMMA CommitType ==
  ASSUME Calls, NEW b \in Batch, NEW stage \in Stage,
         batch' = [batch EXCEPT ![b].pc = stage, ![b].ins = {}, ![b].del = {}, ![b].held = {}]
  PROVE  Calls'
<1>1. batch[b] \in Call
  BY DEF Calls
<1>2. batch'[b] = [pc |-> stage, ms |-> batch[b].ms, at |-> batch[b].at,
                   counts |-> batch[b].counts, seq |-> batch[b].seq,
                   ins |-> {}, del |-> {}, held |-> {}]
  BY <1>1 DEF Calls, Call
<1>3. /\ batch[b].ms \in Seq(Mutation) /\ batch[b].at \in Nat
      /\ batch[b].counts \in Seq(Int) /\ batch[b].seq \in Nat
  BY <1>1 DEF Call
<1>4. \A ms \in Seq(Mutation), at \in Nat, counts \in Seq(Int), seq \in Nat :
        [pc |-> stage, ms |-> ms, at |-> at, counts |-> counts, seq |-> seq,
         ins |-> {}, del |-> {}, held |-> {}] \in Call
  BY DEF Call
<1>5. batch'[b] \in Call
  BY <1>2, <1>3, <1>4
<1> QED
  BY <1>5 DEF Calls

\* The statements of a call, as WroteType wants them.
LEMMA StatementStep ==
  ASSUME TypeInv, NEW b \in Batch, AddPolicies(b) \/ RemovePolicies(b)
  PROVE  Calls' /\ Carried'
<1> USE DEF TypeInv
<1>1. /\ Current(b) \in Mutation /\ IsFiniteSet(Current(b).rules)
      /\ At(b, "write") /\ batch[b] \in Call
  BY CurrentType DEF AddPolicies, RemovePolicies, At, Open, Calls
<1>2. /\ Current(b).rules \in SUBSET Rule /\ View(b) \in SUBSET Rule
      /\ batch[b].ins \in SUBSET Rule /\ batch[b].del \in SUBSET Rule
  BY <1>1 DEF Mutation, Call, View, Sets
<1>3. Cardinality(Current(b).rules \cap View(b)) \in Int
  BY <1>1, CountType
<1>4. CASE AddPolicies(b)
  <2> DEFINE rs == Current(b).rules
             fresh == rs \ View(b)
             ins == batch[b].ins \cup fresh
             held == IF LocksNamed THEN rs ELSE fresh
  <2>1. Wrote(b, ins, batch[b].del, held, storedCountUnknown)
    BY <1>4 DEF AddPolicies
  <2>2. ins \in SUBSET Rule /\ held \in SUBSET Rule /\ storedCountUnknown \in Int
    BY <1>2 DEF storedCountUnknown
  <2> HIDE DEF ins, held
  <2> QED
    BY <1>1, <1>2, <2>1, <2>2, WroteType
<1>5. CASE RemovePolicies(b)
  <2> DEFINE rs == Current(b).rules
             gone == rs \cap View(b)
             ins == batch[b].ins \ gone
             del == batch[b].del \cup gone
             held == IF LocksNamed THEN rs ELSE gone
             count == Cardinality(gone)
  <2>1. Wrote(b, ins, del, held, count)
    BY <1>5 DEF RemovePolicies
  <2>2. ins \in SUBSET Rule /\ del \in SUBSET Rule /\ held \in SUBSET Rule /\ count \in Int
    BY <1>2, <1>3
  <2> HIDE DEF ins, del, held, count
  <2> QED
    BY <1>1, <2>1, <2>2, WroteType
<1> QED
  BY <1>4, <1>5

\* Every step keeps the calls well formed.
LEMMA CallsStep == ASSUME TypeInv, Next PROVE Calls'
<1> USE DEF TypeInv, Stage
<1>1. ASSUME NEW b \in Batch, AddPolicies(b) \/ RemovePolicies(b) PROVE Calls'
  BY <1>1, StatementStep
<1>2. ASSUME NEW b \in Batch, Mutate(b) PROVE Calls'
  <2>1. PICK ms \in Changes : batch' = [batch EXCEPT ![b].pc = "write", ![b].ms = ms]
    BY <1>2 DEF Mutate
  <2>2. ms \in Seq(Mutation)
    BY PoliciesAssumption
  <2> QED
    BY <2>1, <2>2 DEF Calls, Call
<1>3. ASSUME NEW b \in Batch, Number(b) PROVE Calls'
  <2>1. batch' = [batch EXCEPT ![b].seq = sequence + 1, ![b].pc = "commit"] /\ sequence + 1 \in Nat
    BY <1>3 DEF Number, Counters
  <2> QED
    BY <2>1 DEF Calls, Call
<1>4. ASSUME NEW b \in Batch, Commit(b) PROVE Calls'
  <2>1. batch' = [batch EXCEPT ![b].pc = "replay", ![b].ins = {}, ![b].del = {}, ![b].held = {}]
    BY <1>4 DEF Commit
  <2> QED
    BY <2>1, CommitType
<1>5. ASSUME NEW b \in Batch, CommitUnheard(b) \/ Rollback(b) \/ Recovered(b) \/ ScheduleRetry(b)
      PROVE  Calls'
  BY <1>5, GotoType DEF CommitUnheard, Rollback, Recovered, ScheduleRetry
<1>6. ASSUME NEW b \in Batch, TakeLock(b) PROVE Calls'
  BY <1>6, GotoType DEF TakeLock
<1>7. ASSUME NEW b \in Batch, Replay(b) PROVE Calls'
  <2>1. CASE batch' = [batch EXCEPT ![b].at = @ + 1]
    <3>1. batch[b].at + 1 \in Nat
      BY DEF Calls, Call
    <3> QED
      BY <2>1, <3>1, AtType
  <2> QED
    BY <1>7, <2>1, GotoType DEF Replay
<1>8. ASSUME NEW b \in Batch, RecoverLoad(b) \/ RecoverFails(b) \/ PublishDivergence(b) PROVE Calls'
  BY <1>8, GotoType DEF RecoverLoad, RecoverFails, PublishDivergence
<1>9. CASE RetryStep \/ PeriodicStep \/ Foreign
  BY <1>9 DEF RetryStep, RetryWakes, RetryLoad, RetryDone, RetryFails, RetryEnds, PeriodicStep,
              PeriodicLoad, PeriodicDone, Foreign, Calls
<1> QED
  BY <1>1, <1>2, <1>3, <1>4, <1>5, <1>6, <1>7, <1>8, <1>9 DEF Next, CallStep

\* Every step keeps what the calls carry.
LEMMA CarriedStep == ASSUME TypeInv, Next PROVE Carried'
<1> USE PoliciesAssumption DEF TypeInv
<1>0. ASSUME NEW c \in Batch PROVE batch[c] \in Call /\ batch[c].seq \in Nat /\ batch[c].at \in Nat
  BY DEF Calls, Call
<1>1. ASSUME NEW b \in Batch, AddPolicies(b) \/ RemovePolicies(b) PROVE Carried'
  BY <1>1, StatementStep
<1>2. ASSUME NEW b \in Batch, Mutate(b) PROVE Carried'
  <2>1. PICK ms \in Changes : batch' = [batch EXCEPT ![b].pc = "write", ![b].ms = ms]
    BY <1>2 DEF Mutate
  <2>2. batch[b].pc = "idle" /\ sequence' = sequence /\ applied' = applied
    BY <1>2 DEF Mutate, At, memory
  <2>3. batch[b].at = 1
    BY <2>2 DEF Carried
  <2> QED
    BY <1>0, <2>1, <2>2, <2>3 DEF Carried, Open, Calls, Call
<1>3. ASSUME NEW b \in Batch, Number(b) PROVE Carried'
  <2>1. /\ At(b, "number") /\ sequence' = sequence + 1 /\ applied' = applied
        /\ batch' = [batch EXCEPT ![b].seq = sequence + 1, ![b].pc = "commit"]
    BY <1>3 DEF Number, memory
  <2> QED
    BY <1>0, <2>1 DEF At, Carried, Open, Calls, Call, Counters
<1>4. ASSUME NEW b \in Batch, Commit(b) PROVE Carried'
  <2>1. /\ At(b, "commit") /\ sequence' = sequence /\ applied' = applied
        /\ batch' = [batch EXCEPT ![b].pc = "replay", ![b].ins = {}, ![b].del = {}, ![b].held = {}]
    BY <1>4 DEF Commit, memory
  <2> QED
    BY <1>0, <2>1 DEF At, Carried, Open, Calls, Call
<1>5. ASSUME NEW b \in Batch, NEW stage \in {"recover", "done"}, Leave(b, stage),
             sequence' = sequence, applied' = applied
      PROVE  Carried'
  BY <1>0, <1>5 DEF Leave, Bare, Carried, Open, Calls, Call
<1>6. ASSUME NEW b \in Batch, TakeLock(b) PROVE Carried'
  <2>1. CASE Overtaken(b)
    BY <1>5, <1>6, <2>1 DEF TakeLock
  <2>2. CASE ~Overtaken(b)
    <3>1. /\ At(b, "replay") /\ mu = NoOne /\ applied' = batch[b].seq /\ sequence' = sequence
          /\ batch' = [batch EXCEPT ![b].pc = "replaying"]
      BY <1>6, <2>2 DEF TakeLock, Goto
    <3>2. \A c \in Batch : batch[c].pc # "replaying"
      BY <3>1 DEF Owners
    <3> QED
      BY <1>0, <3>1, <3>2 DEF At, Carried, Open, Calls, Call
  <2> QED
    BY <2>1, <2>2
<1>7. ASSUME NEW b \in Batch, Replay(b) PROVE Carried'
  <2>1. CASE batch' = [batch EXCEPT ![b].at = @ + 1] /\ batch[b].at # Len(batch[b].ms)
    <3>1. batch[b].pc = "replaying" /\ sequence' = sequence /\ applied' = applied
      BY <1>7 DEF Replay, At
    <3>2. Len(batch[b].ms) \in Nat
      BY <3>1, CurrentType
    <3> QED
      BY <1>0, <2>1, <3>1, <3>2 DEF Carried, Open, Calls, Call
  <2> QED
    BY <1>5, <1>7, <2>1 DEF Replay
<1>8. ASSUME NEW b \in Batch, NEW stage \in {"loading", "publish", "schedule"}, Goto(b, stage),
             sequence' = sequence, applied' = applied
      PROVE  Carried'
  BY <1>0, <1>8 DEF Goto, Carried, Open, Calls, Call
<1>9. ASSUME NEW b \in Batch, RecoverLoad(b) \/ RecoverFails(b) \/ PublishDivergence(b) PROVE Carried'
  BY <1>8, <1>9 DEF RecoverLoad, RecoverFails, PublishDivergence, Load, LoadFails, memory
<1>10. ASSUME NEW b \in Batch, CommitUnheard(b) \/ Rollback(b) \/ Recovered(b) \/ ScheduleRetry(b)
      PROVE  Carried'
  BY <1>5, <1>10 DEF CommitUnheard, Rollback, Recovered, ScheduleRetry, Install, memory
<1>11. CASE RetryStep \/ PeriodicStep \/ Foreign
  BY <1>11 DEF RetryStep, RetryWakes, RetryLoad, RetryDone, RetryFails, RetryEnds, PeriodicStep,
               PeriodicLoad, PeriodicDone, Foreign, Load, Install, LoadFails, memory, Carried
<1> QED
  BY <1>1, <1>2, <1>3, <1>4, <1>6, <1>7, <1>9, <1>10, <1>11 DEF Next, CallStep

\* Every step keeps the sets of rules.
LEMMA SetsStep == ASSUME TypeInv, Next PROVE Sets'
<1> USE DEF TypeInv, Sets, memory, storage, flags
<1>1. ASSUME NEW b \in Batch, Commit(b) \/ CommitUnheard(b) PROVE Sets'
  <2>1. batch[b].ins \in SUBSET Rule
    BY DEF Calls, Call
  <2> QED
    BY <1>1, <2>1 DEF Commit, CommitUnheard, Stored, View
<1>2. ASSUME NEW b \in Batch, Replay(b) PROVE Sets'
  <2>1. Current(b) \in Mutation
    BY <1>2, CurrentType DEF Replay, At
  <2>2. Current(b).rules \in SUBSET Rule
    BY <2>1 DEF Mutation
  <2> QED
    BY <1>2, <2>2 DEF Replay, Replayed
<1>3. CASE Foreign
  BY <1>3 DEF Foreign, Stored
<1>4. ASSUME NEW b \in Batch, \/ Mutate(b) \/ AddPolicies(b) \/ RemovePolicies(b) \/ Number(b)
                              \/ Rollback(b) \/ TakeLock(b) \/ RecoverLoad(b) \/ Recovered(b)
                              \/ RecoverFails(b) \/ PublishDivergence(b) \/ ScheduleRetry(b)
      PROVE  Sets'
  BY <1>4 DEF Mutate, AddPolicies, RemovePolicies, Wrote, Number, Rollback, TakeLock, RecoverLoad,
              Recovered, RecoverFails, PublishDivergence, ScheduleRetry, Load, Install, LoadFails
<1>5. CASE RetryStep \/ PeriodicStep
  BY <1>5 DEF RetryStep, RetryWakes, RetryLoad, RetryDone, RetryFails, RetryEnds, PeriodicStep,
              PeriodicLoad, PeriodicDone, Load, Install, LoadFails
<1> QED
  BY <1>1, <1>2, <1>3, <1>4, <1>5 DEF Next, CallStep

\* Every step keeps the counters, and the retry goroutine at one of its places.
LEMMA CountersStep == ASSUME TypeInv, Next PROVE Counters'
<1> USE PoliciesAssumption DEF TypeInv, Counters, memory, storage, flags, Fault
<1>1. ASSUME NEW b \in Batch, TakeLock(b) PROVE Counters'
  <2>1. batch[b].seq \in Nat /\ batch[b].seq <= sequence
    BY <1>1 DEF TakeLock, At, Carried, Calls, Call
  <2> QED
    BY <1>1, <2>1 DEF TakeLock
<1>2. ASSUME NEW b \in Batch, \/ Mutate(b) \/ AddPolicies(b) \/ RemovePolicies(b)
                              \/ Commit(b) \/ Rollback(b) \/ Replay(b)
      PROVE  Counters'
  <2>1. UNCHANGED <<sequence, applied, faults, retry>>
    BY <1>2 DEF Mutate, AddPolicies, RemovePolicies, Wrote, Commit, Rollback, Replay
  <2> QED
    BY <2>1
<1>6. ASSUME NEW b \in Batch, Number(b) \/ CommitUnheard(b) PROVE Counters'
  BY <1>6 DEF Number, CommitUnheard
<1>3. ASSUME NEW b \in Batch, \/ RecoverLoad(b) \/ Recovered(b) \/ RecoverFails(b)
                              \/ PublishDivergence(b) \/ ScheduleRetry(b)
      PROVE  Counters'
  BY <1>3 DEF RecoverLoad, Recovered, RecoverFails, PublishDivergence, ScheduleRetry, Load, Install,
              LoadFails
<1>4. CASE RetryStep
  BY <1>4 DEF RetryStep, RetryWakes, RetryLoad, RetryDone, RetryFails, RetryEnds, Load, Install,
              LoadFails
<1>5. CASE PeriodicStep \/ Foreign
  BY <1>5 DEF PeriodicStep, PeriodicLoad, PeriodicDone, Foreign, Load, Install
<1> QED
  BY <1>1, <1>2, <1>3, <1>4, <1>5, <1>6 DEF Next, CallStep

\* What a statement changes of the calls.
LEMMA WroteEffect ==
  ASSUME Calls, Carried, NEW b \in Batch, At(b, "write"), NEW ins, NEW del, NEW held, NEW count,
         Wrote(b, ins, del, held, count)
  PROVE  /\ \A c \in Batch \ {b} : batch'[c] = batch[c]
         /\ batch'[b].pc \in {"write", "number"}
         /\ batch'[b].ms = batch[b].ms
         /\ batch'[b].ins = ins /\ batch'[b].del = del
         /\ batch'[b].held = batch[b].held \cup held
         /\ Ran(b) = batch[b].at - 1 /\ Ran(b)' = batch[b].at
<1>1. batch[b] \in Call /\ Len(batch[b].ms) \in Nat /\ batch[b].at \in 1 .. Len(batch[b].ms)
  BY CurrentType DEF Calls, At, Open
<1>2. batch[b].pc = "write"
  BY DEF At
<1>3. batch' = [batch EXCEPT
            ![b].ins = ins, ![b].del = del, ![b].held = @ \cup held,
            ![b].counts = Append(@, count),
            ![b].at = IF batch[b].at = Len(batch[b].ms) THEN 1 ELSE @ + 1,
            ![b].pc = IF batch[b].at = Len(batch[b].ms) THEN "number" ELSE @]
  BY DEF Wrote
<1>4. \A c \in Batch \ {b} : batch'[c] = batch[c]
  BY <1>3 DEF Calls
<1>5. /\ batch'[b].ins = ins /\ batch'[b].del = del
      /\ batch'[b].held = batch[b].held \cup held
      /\ batch'[b].ms = batch[b].ms
  BY <1>1, <1>3 DEF Calls, Call
<1>6. /\ batch'[b].at = (IF batch[b].at = Len(batch[b].ms) THEN 1 ELSE batch[b].at + 1)
      /\ batch'[b].pc = (IF batch[b].at = Len(batch[b].ms) THEN "number" ELSE "write")
  BY <1>1, <1>2, <1>3 DEF Calls, Call
<1> QED
  BY <1>1, <1>2, <1>4, <1>5, <1>6 DEF Ran

\* What the other steps of a call change of the calls.
LEMMA Moved ==
  ASSUME Calls, NEW b \in Batch, NEW stage \in Stage, Goto(b, stage) \/ Leave(b, stage)
  PROVE  batch'[b].pc = stage /\ \A c \in Batch \ {b} : batch'[c] = batch[c]
<1>1. CASE Goto(b, stage)
  BY <1>1 DEF Goto, Calls, Call
<1>2. CASE Leave(b, stage)
  BY <1>2 DEF Leave, Bare, Calls
<1> QED
  BY <1>1, <1>2

LEMMA Went ==
  ASSUME Calls, NEW b \in Batch, NEW stage \in Stage, Goto(b, stage)
  PROVE  /\ batch'[b].ms = batch[b].ms /\ batch'[b].at = batch[b].at /\ batch'[b].seq = batch[b].seq
         /\ batch'[b].ins = batch[b].ins /\ batch'[b].del = batch[b].del
         /\ batch'[b].held = batch[b].held
  BY DEF Goto, Calls, Call

LEMMA MutateEffect ==
  ASSUME Calls, NEW b \in Batch, Mutate(b)
  PROVE  /\ \A c \in Batch \ {b} : batch'[c] = batch[c]
         /\ batch[b].pc = "idle" /\ batch'[b].pc = "write" /\ batch'[b].ms \in Changes
         /\ batch'[b].at = batch[b].at /\ batch'[b].held = batch[b].held
         /\ batch'[b].ins = batch[b].ins /\ batch'[b].del = batch[b].del
<1>1. PICK ms \in Changes : batch' = [batch EXCEPT ![b].pc = "write", ![b].ms = ms]
  BY DEF Mutate
<1>2. batch[b].pc = "idle"
  BY DEF Mutate, At
<1> QED
  BY <1>1, <1>2 DEF Calls, Call

LEMMA NumberEffect ==
  ASSUME Calls, NEW b \in Batch, Number(b)
  PROVE  /\ \A c \in Batch \ {b} : batch'[c] = batch[c]
         /\ batch[b].pc = "number" /\ batch'[b].pc = "commit"
         /\ batch'[b].seq = sequence + 1 /\ batch'[b].ms = batch[b].ms
         /\ batch'[b].held = batch[b].held
         /\ batch'[b].ins = batch[b].ins /\ batch'[b].del = batch[b].del
<1>1. batch' = [batch EXCEPT ![b].seq = sequence + 1, ![b].pc = "commit"] /\ batch[b].pc = "number"
  BY DEF Number, At
<1> QED
  BY <1>1 DEF Calls, Call

LEMMA CommitEffect ==
  ASSUME Calls, NEW b \in Batch, Commit(b)
  PROVE  /\ \A c \in Batch \ {b} : batch'[c] = batch[c]
         /\ batch[b].pc = "commit" /\ batch'[b].pc = "replay"
         /\ batch'[b].seq = batch[b].seq /\ batch'[b].ms = batch[b].ms
<1>1. /\ batch' = [batch EXCEPT ![b].pc = "replay", ![b].ins = {}, ![b].del = {}, ![b].held = {}]
      /\ batch[b].pc = "commit"
  BY DEF Commit, At
<1> QED
  BY <1>1 DEF Calls, Call

\* A replay goes on, or ends in one of two ways.
LEMMA ReplayEffect ==
  ASSUME Calls, NEW b \in Batch, Replay(b)
  PROVE  /\ \A c \in Batch \ {b} : batch'[c] = batch[c]
         /\ batch[b].pc = "replaying"
         /\ \/ batch'[b].pc = "recover" /\ mu' = NoOne /\ index' = index
            \/ /\ batch[b].at = Len(batch[b].ms)
               /\ batch'[b].pc = "done" /\ mu' = NoOne /\ index' = rules'
            \/ /\ batch[b].at # Len(batch[b].ms)
               /\ batch'[b].pc = "replaying" /\ batch'[b].ms = batch[b].ms
               /\ batch'[b].seq = batch[b].seq
               /\ batch'[b].at = batch[b].at + 1 /\ mu' = mu /\ index' = index
<1>0. batch[b].pc = "replaying"
  BY DEF Replay, At
<1>1. CASE Leave(b, "recover") /\ mu' = NoOne /\ UNCHANGED index
  BY <1>0, <1>1, Moved DEF Stage
<1>2. CASE /\ Leave(b, "done") /\ mu' = NoOne /\ index' = rules'
           /\ batch[b].at = Len(batch[b].ms)
  BY <1>0, <1>2, Moved DEF Stage
<1>3. CASE /\ batch' = [batch EXCEPT ![b].at = @ + 1] /\ UNCHANGED <<mu, index>>
           /\ batch[b].at # Len(batch[b].ms)
  BY <1>0, <1>3 DEF Calls, Call
<1> QED
  BY <1>1, <1>2, <1>3 DEF Replay

\* Every step hands the lock on properly.
LEMMA OwnersStep == ASSUME TypeInv, Next PROVE Owners'
<1> USE PoliciesAssumption DEF TypeInv, Owners, Owner, memory, storage, flags
<1>1. ASSUME NEW b \in Batch, AddPolicies(b) PROVE Owners'
  <2>1. PICK ins, del, held, count : Wrote(b, ins, del, held, count) /\ At(b, "write")
    BY <1>1 DEF AddPolicies
  <2>2. /\ \A c \in Batch \ {b} : batch'[c] = batch[c]
        /\ batch'[b].pc \in {"write", "number"}
    BY <2>1, WroteEffect
  <2> QED
    BY <2>1, <2>2 DEF Wrote, At
<1>2. ASSUME NEW b \in Batch, RemovePolicies(b) PROVE Owners'
  <2>1. PICK ins, del, held, count : Wrote(b, ins, del, held, count) /\ At(b, "write")
    BY <1>2 DEF RemovePolicies
  <2>2. /\ \A c \in Batch \ {b} : batch'[c] = batch[c]
        /\ batch'[b].pc \in {"write", "number"}
    BY <2>1, WroteEffect
  <2> QED
    BY <2>1, <2>2 DEF Wrote, At
<1>3. ASSUME NEW b \in Batch, Mutate(b) \/ Number(b) \/ Commit(b) PROVE Owners'
  <2>1. /\ \A c \in Batch \ {b} : batch'[c] = batch[c]
        /\ batch[b].pc \in {"idle", "number", "commit"}
        /\ batch'[b].pc \in {"write", "commit", "replay"}
    BY <1>3, MutateEffect, NumberEffect, CommitEffect
  <2> QED
    BY <1>3, <2>1 DEF Mutate, Number, Commit
<1>4. ASSUME NEW b \in Batch, CommitUnheard(b) \/ Rollback(b) \/ ScheduleRetry(b) PROVE Owners'
  <2>1. Leave(b, "done") /\ batch[b].pc \notin {"replaying", "loading"} /\ mu' = mu
    BY <1>4 DEF CommitUnheard, Rollback, ScheduleRetry, At, Open
  <2>2. batch'[b].pc = "done" /\ \A c \in Batch \ {b} : batch'[c] = batch[c]
    BY <2>1, Moved DEF Stage
  <2> QED
    BY <1>4, <2>1, <2>2 DEF CommitUnheard, Rollback, ScheduleRetry
<1>5. ASSUME NEW b \in Batch, TakeLock(b) PROVE Owners'
  <2>1. batch[b].pc = "replay" /\ mu = NoOne /\ retry' = retry
    BY <1>5 DEF TakeLock, At
  <2>2. CASE Leave(b, "recover") /\ mu' = mu
    <3>1. batch'[b].pc = "recover" /\ \A c \in Batch \ {b} : batch'[c] = batch[c]
      BY <2>2, Moved DEF Stage
    <3> QED
      BY <2>1, <2>2, <3>1
  <2>3. CASE Goto(b, "replaying") /\ mu' = b
    <3>1. batch'[b].pc = "replaying" /\ \A c \in Batch \ {b} : batch'[c] = batch[c]
      BY <2>3, Moved DEF Stage
    <3> QED
      BY <2>1, <2>3, <3>1
  <2> QED
    BY <1>5, <2>2, <2>3 DEF TakeLock
<1>6. ASSUME NEW b \in Batch, Replay(b) PROVE Owners'
  BY <1>6, ReplayEffect DEF Replay
<1>7. ASSUME NEW b \in Batch, RecoverLoad(b) \/ Recovered(b) PROVE Owners'
  <2>1. CASE RecoverLoad(b)
    <3>1. batch'[b].pc = "loading" /\ \A c \in Batch \ {b} : batch'[c] = batch[c]
      BY <2>1, Moved DEF RecoverLoad, Stage
    <3> QED
      BY <2>1, <3>1 DEF RecoverLoad, Load
  <2>2. CASE Recovered(b)
    <3>1. batch'[b].pc = "done" /\ \A c \in Batch \ {b} : batch'[c] = batch[c]
      BY <2>2, Moved DEF Recovered, Stage
    <3> QED
      BY <2>2, <3>1 DEF Recovered, Install
  <2> QED
    BY <1>7, <2>1, <2>2
<1>8. ASSUME NEW b \in Batch, RecoverFails(b) \/ PublishDivergence(b) PROVE Owners'
  <2>1. /\ batch'[b].pc \in {"publish", "schedule"} /\ \A c \in Batch \ {b} : batch'[c] = batch[c]
        /\ batch[b].pc \in {"recover", "publish"}
    BY <1>8, Moved DEF RecoverFails, PublishDivergence, Stage, At
  <2> QED
    BY <1>8, <2>1 DEF RecoverFails, PublishDivergence, LoadFails
<1>9. CASE RetryStep
  BY <1>9 DEF RetryStep, RetryWakes, RetryLoad, RetryDone, RetryFails, RetryEnds, Load, Install,
              LoadFails, Calls, Call
<1>10. CASE PeriodicStep \/ Foreign
  BY <1>10 DEF PeriodicStep, PeriodicLoad, PeriodicDone, Foreign, Load, Install, Calls, Call
<1> QED
  BY <1>1, <1>2, <1>3, <1>4, <1>5, <1>6, <1>7, <1>8, <1>9, <1>10 DEF Next, CallStep

\* The program starts well typed.
LEMMA TypeInit == ASSUME Init PROVE TypeInv /\ Flags
<1>1. Calls
  BY LeftType DEF Init, Calls, Stage
<1>2. Sets /\ Counters
  BY PoliciesAssumption DEF Init, Sets, Counters
<1>4. Flags
  BY DEF Init, Flags
<1>3. Owners /\ Carried
  BY PoliciesAssumption DEF Init, Owners, Owner, Carried, Bare, Open
<1> QED
  BY <1>1, <1>2, <1>3, <1>4 DEF TypeInv

\* Every step keeps the types.
LEMMA TypeStep == ASSUME TypeInv, [Next]_vars PROVE TypeInv'
<1>1. CASE Next
  BY <1>1, CallsStep, CarriedStep, SetsStep, CountersStep, OwnersStep DEF TypeInv
<1>2. CASE UNCHANGED vars
  BY <1>2 DEF vars, TypeInv, Sets, Counters, Calls, Owners, Carried
<1> QED
  BY <1>1, <1>2

\* Types and what every call carries, for every run.
THEOREM PolicyTypes == Spec => []TypeInv
<1>1. Init => TypeInv
  BY TypeInit
<1>2. TypeInv /\ [Next]_vars => TypeInv'
  BY TypeStep
<1> QED
  BY <1>1, <1>2, PTL DEF Spec

\* The type invariant: every variable keeps its type, and the policy lock is
\* with the call or goroutine that is using it.
THEOREM PolicyTypeCorrectness == Spec => []TypeOK
<1>1. Init => Flags
  BY TypeInit
<1>2. Flags /\ [Next]_vars => Flags'
  BY FlagsStep DEF vars, Flags
<1>3. TypeInv /\ Flags => TypeOK
  BY TypeParts DEF TypeInv
<1> QED
  BY <1>1, <1>2, <1>3, PolicyTypes, PTL DEF Spec

-----------------------------------------------------------------------------
(* The rules a batch names and leaves stored *)

\* One more mutation names its rules.
LEMMA NamedStep ==
  ASSUME NEW ms \in Changes, NEW k \in 1 .. Len(ms)
  PROVE  Named(ms, k) = Named(ms, k - 1) \cup ms[k].rules
<1>1. ms \in Seq(Mutation) /\ Len(ms) \in Nat /\ ms[k] \in Mutation
  BY PoliciesAssumption
<1>2. ms[k].rules \in SUBSET Rule
  BY <1>1 DEF Mutation
<1> QED
  BY <1>1, <1>2 DEF Named

\* An addition leaves its rules stored.
LEMMA AddedStep ==
  ASSUME NEW ms \in Changes, NEW k \in 1 .. Len(ms), ms[k].op = "add"
  PROVE  Added(ms, k) = Added(ms, k - 1) \cup ms[k].rules
<1>1. ms \in Seq(Mutation) /\ Len(ms) \in Nat /\ ms[k] \in Mutation
  BY PoliciesAssumption
<1>2. ms[k].rules \in SUBSET Rule
  BY <1>1 DEF Mutation
<1> QED
  BY <1>1, <1>2 DEF Added

\* Up to a removal nothing was added.
LEMMA RemovedStep ==
  ASSUME NEW ms \in Changes, NEW k \in 1 .. Len(ms), ms[k].op # "add"
  PROVE  Added(ms, k) = {} /\ Added(ms, k - 1) = {}
<1>1. ms \in Seq(Mutation) /\ DOMAIN ms = 1 .. Len(ms) /\ Len(ms) \in Nat
  BY PoliciesAssumption
<1>2. \A i \in 1 .. k : ms[i].op # "add"
  BY <1>1, RemovesFirst
<1> QED
  BY <1>1, <1>2 DEF Added

\* Nothing is named before the first mutation, and what is added is named.
LEMMA NamedBounds ==
  ASSUME NEW ms, NEW k \in Nat
  PROVE  Named(ms, 0) = {} /\ Added(ms, 0) = {} /\ Added(ms, k) \subseteq Named(ms, k)
  BY DEF Named, Added

-----------------------------------------------------------------------------
(* GrantsWereStored *)

\* What will be replayed was committed, or is about to be.
Promised == \A b \in Batch :
    /\ batch[b].pc \in Open => Added(batch[b].ms, Ran(b)) \subseteq batch[b].ins \cup ever
    /\ InFlight(b) => Adds(b) \subseteq ever

GrantInv ==
    /\ store \cup snap \subseteq ever
    /\ GrantsWereStored
    /\ Promised

\* Every step of a call keeps it.
LEMMA GrantCall ==
  ASSUME TypeInv, GrantInv, NEW b \in Batch, CallStep(b) \/ Mutate(b) PROVE GrantInv'
<1> USE DEF TypeInv, GrantInv, GrantsWereStored, memory, storage, flags
<1> DEFINE Same == \A c \in Batch \ {b} : batch'[c] = batch[c]
<1>0. ASSUME Same, ever \subseteq ever',
             batch'[b].pc \in Open => Added(batch[b].ms, Ran(b))' \subseteq (batch[b].ins \cup ever)',
             InFlight(b)' => Adds(b)' \subseteq ever'
      PROVE  Promised'
  BY <1>0 DEF Promised, InFlight, Adds, Ran
<1>1. CASE Mutate(b)
  <2>1. Same /\ batch'[b].pc = "write" /\ batch'[b].at = 1 /\ ever' = ever
    BY <1>1, MutateEffect DEF Carried, Mutate
  <2>2. Added(batch[b].ms, Ran(b))' = {}
    BY <2>1, NamedBounds DEF Ran
  <2>3. Promised'
    BY <1>0, <2>1, <2>2 DEF InFlight
  <2> QED
    BY <1>1, <2>3 DEF Mutate
<1>2. CASE AddPolicies(b)
  <2> DEFINE rs == Current(b).rules
             fresh == rs \ View(b)
  <2>1. PICK held, count : Wrote(b, batch[b].ins \cup fresh, batch[b].del, held, count)
    BY <1>2 DEF AddPolicies
  <2>2. At(b, "write") /\ Current(b).op = "add"
    BY <1>2 DEF AddPolicies
  <2>3. /\ Same /\ batch'[b].pc \in {"write", "number"} /\ batch'[b].ms = batch[b].ms
        /\ batch'[b].ins = batch[b].ins \cup fresh
        /\ Ran(b) = batch[b].at - 1 /\ Ran(b)' = batch[b].at
    BY <2>1, <2>2, WroteEffect
  <2>4. batch[b].ms \in Changes /\ batch[b].at \in 1 .. Len(batch[b].ms)
    BY <2>2 DEF At, Open, Carried
  <2>5. Added(batch[b].ms, batch[b].at) = Added(batch[b].ms, batch[b].at - 1) \cup rs
    BY <2>2, <2>4, AddedStep DEF Current
  <2>6. Added(batch[b].ms, batch[b].at - 1) \subseteq batch[b].ins \cup ever
    BY <2>2, <2>3 DEF Promised, At, Open
  <2>7. View(b) \subseteq batch[b].ins \cup ever
    BY DEF View
  <2>8. ever' = ever /\ UNCHANGED <<store, rules, index, snap>>
    BY <2>1 DEF Wrote
  <2>9. Added(batch[b].ms, Ran(b))' \subseteq (batch[b].ins \cup ever)'
    BY <2>3, <2>5, <2>6, <2>7, <2>8
  <2>10. Promised'
    BY <1>0, <2>3, <2>8, <2>9 DEF InFlight
  <2> QED
    BY <2>8, <2>10
<1>3. CASE RemovePolicies(b)
  <2>1. PICK ins, del, held, count : Wrote(b, ins, del, held, count)
    BY <1>3 DEF RemovePolicies
  <2>2. At(b, "write") /\ Current(b).op = "remove"
    BY <1>3 DEF RemovePolicies
  <2>3. /\ Same /\ batch'[b].pc \in {"write", "number"} /\ batch'[b].ms = batch[b].ms
        /\ Ran(b)' = batch[b].at
    BY <2>1, <2>2, WroteEffect
  <2>4. batch[b].ms \in Changes /\ batch[b].at \in 1 .. Len(batch[b].ms)
    BY <2>2 DEF At, Open, Carried
  <2>5. Added(batch[b].ms, batch[b].at) = {}
    BY <2>2, <2>4, RemovedStep DEF Current
  <2>6. ever' = ever /\ UNCHANGED <<store, rules, index, snap>>
    BY <2>1 DEF Wrote
  <2>7. Promised'
    BY <1>0, <2>3, <2>5, <2>6 DEF InFlight
  <2> QED
    BY <2>6, <2>7
<1>4. CASE Number(b)
  <2>1. /\ Same /\ batch[b].pc = "number" /\ batch'[b].pc = "commit" /\ batch'[b].ms = batch[b].ms
        /\ batch'[b].ins = batch[b].ins
    BY <1>4, NumberEffect
  <2>2. UNCHANGED <<ever, store, rules, index, snap>>
    BY <1>4 DEF Number
  <2>3. Promised'
    BY <1>0, <2>1, <2>2 DEF InFlight, Promised, Open, Ran
  <2> QED
    BY <2>2, <2>3
<1>5. CASE Commit(b)
  <2>1. /\ Same /\ batch[b].pc = "commit" /\ batch'[b].pc = "replay" /\ batch'[b].ms = batch[b].ms
    BY <1>5, CommitEffect
  <2>2. ever' = ever \cup View(b) /\ store' = View(b) /\ UNCHANGED <<rules, index, snap>>
    BY <1>5 DEF Commit, Stored
  <2>3. Adds(b) \subseteq batch[b].ins \cup ever
    BY <2>1 DEF Promised, Open, Ran, Adds
  <2>4. Adds(b)' \subseteq ever'
    BY <2>1, <2>2, <2>3 DEF View, Adds
  <2>5. Promised'
    BY <1>0, <2>1, <2>2, <2>4 DEF Open
  <2> QED
    BY <2>2, <2>5
<1>6. ASSUME NEW stage \in {"done", "recover"}, Leave(b, stage), ever \subseteq ever' PROVE Promised'
  <2>1. batch'[b].pc = stage /\ Same
    BY <1>6, Moved DEF Stage
  <2> QED
    BY <1>0, <1>6, <2>1 DEF Open, InFlight
<1>7. CASE CommitUnheard(b)
  <2>1. ever' = ever \cup View(b) /\ store' = View(b) /\ UNCHANGED <<rules, index, snap>>
    BY <1>7 DEF CommitUnheard, Stored
  <2>2. Promised'
    BY <1>6, <1>7, <2>1 DEF CommitUnheard
  <2> QED
    BY <2>1, <2>2
<1>8. CASE Rollback(b) \/ ScheduleRetry(b)
  <2>1. Leave(b, "done") /\ UNCHANGED <<ever, store, rules, index, snap>>
    BY <1>8 DEF Rollback, ScheduleRetry
  <2> QED
    BY <1>6, <2>1
<1>9. CASE TakeLock(b)
  <2>1. UNCHANGED <<ever, store, rules, index, snap>> /\ batch[b].pc = "replay"
    BY <1>9 DEF TakeLock, At
  <2>2. CASE Goto(b, "replaying")
    <3>1. Same /\ batch'[b].pc = "replaying" /\ batch'[b].ms = batch[b].ms
      BY <2>2, Moved, Went DEF Stage
    <3>2. Promised'
      BY <1>0, <2>1, <3>1 DEF Promised, Open, InFlight, Adds
    <3> QED
      BY <2>1, <3>2
  <2> QED
    BY <1>6, <1>9, <2>1, <2>2 DEF TakeLock
<1>10. CASE Replay(b)
  <2>1. UNCHANGED <<ever, store, snap>> /\ batch[b].pc = "replaying"
    BY <1>10 DEF Replay, At
  <2>2. Same
    BY <1>10, ReplayEffect
  <2>8. \/ batch'[b].pc = "recover" \/ batch'[b].pc = "done"
        \/ batch'[b].pc = "replaying" /\ batch'[b].ms = batch[b].ms
    BY <1>10, ReplayEffect, Zenon
  <2>3. Promised'
    BY <1>0, <2>1, <2>2, <2>8 DEF Promised, Open, InFlight, Adds
  <2>4. batch[b].ms \in Changes /\ batch[b].at \in 1 .. Len(batch[b].ms) /\ Current(b) \in Mutation
    BY <2>1, CurrentType DEF Carried
  <2>5. Current(b).op = "add" => Current(b).rules \subseteq Adds(b)
    BY <2>4 DEF Adds, Added, Current, Mutation
  <2>6. rules' \subseteq ever
    BY <1>10, <2>1, <2>5 DEF Replay, Replayed, Promised, InFlight
  <2>7. index' \in {index, rules'}
    BY <1>10 DEF Replay
  <2> QED
    BY <2>1, <2>3, <2>6, <2>7
<1>11. CASE RecoverLoad(b) \/ RecoverFails(b) \/ PublishDivergence(b)
  <2>1. PICK stage \in {"loading", "publish", "schedule"} : Goto(b, stage)
    BY <1>11 DEF RecoverLoad, RecoverFails, PublishDivergence
  <2>2. Same /\ batch'[b].pc = stage
    BY <2>1, Moved DEF Stage
  <2>3. UNCHANGED <<ever, store, rules, index>> /\ snap' \in {snap, store}
    BY <1>11 DEF RecoverLoad, RecoverFails, PublishDivergence, Load, LoadFails
  <2>4. Promised'
    BY <1>0, <2>2, <2>3 DEF Open, InFlight
  <2> QED
    BY <2>3, <2>4
<1>12. CASE Recovered(b)
  <2>1. Leave(b, "done") /\ UNCHANGED <<ever, store>> /\ rules' = snap /\ index' = snap /\ snap' = {}
    BY <1>12 DEF Recovered, Install
  <2> QED
    BY <1>6, <2>1
<1> QED
  BY <1>1, <1>2, <1>3, <1>4, <1>5, <1>7, <1>8, <1>9, <1>10, <1>11, <1>12 DEF CallStep

\* Every other step keeps it.
LEMMA GrantOthers ==
  ASSUME TypeInv, GrantInv, RetryStep \/ PeriodicStep \/ Foreign PROVE GrantInv'
<1> USE DEF TypeInv, GrantInv, GrantsWereStored, memory, storage, flags
<1>1. batch' = batch /\ ever \subseteq ever'
  BY DEF RetryStep, RetryWakes, RetryLoad, RetryDone, RetryFails, RetryEnds, PeriodicStep,
         PeriodicLoad, PeriodicDone, Foreign, Load, Install, LoadFails, Stored
<1>2. Promised'
  BY <1>1 DEF Promised, InFlight, Adds, Ran
<1>3. CASE RetryStep \/ PeriodicStep
  <2>1. UNCHANGED <<ever, store>> /\ rules' \in {rules, snap} /\ index' \in {index, snap}
        /\ snap' \in {snap, store, {}}
    BY <1>3 DEF RetryStep, RetryWakes, RetryLoad, RetryDone, RetryFails, RetryEnds, PeriodicStep,
                PeriodicLoad, PeriodicDone, Load, Install, LoadFails
  <2> QED
    BY <1>2, <2>1
<1>4. CASE Foreign
  BY <1>2, <1>4 DEF Foreign, Stored
<1> QED
  BY <1>3, <1>4

\* A decision never rests on a rule that was not committed: what a batch adds
\* is replayed only once its transaction has committed.
THEOREM NoUncommittedGrants == Spec => []GrantsWereStored
<1>1. Init => GrantInv
  BY DEF Init, GrantInv, GrantsWereStored, Promised, InFlight, Bare, Open
<1>2. TypeInv /\ GrantInv /\ [Next]_vars => GrantInv'
  <2> SUFFICES ASSUME TypeInv, GrantInv, [Next]_vars PROVE GrantInv'
    OBVIOUS
  <2>1. CASE Next
    BY <2>1, GrantCall, GrantOthers DEF Next
  <2>2. CASE UNCHANGED vars
    BY <2>2 DEF vars, GrantInv, GrantsWereStored, Promised, InFlight, Adds, Ran
  <2> QED
    BY <2>1, <2>2
<1>3. GrantInv => GrantsWereStored
  BY DEF GrantInv
<1> QED
  BY <1>1, <1>2, <1>3, PolicyTypes, PTL DEF Spec

-----------------------------------------------------------------------------
(* InStep: the locks *)

\* A call that begins holds nothing.
LEMMA LocksMutate ==
  ASSUME TypeInv, Locks, Shared, NEW b \in Batch, Mutate(b) PROVE Locks' /\ Shared'
<1> USE DEF TypeInv
<1>1. /\ \A c \in Batch \ {b} : batch'[c] = batch[c]
      /\ batch[b].pc = "idle" /\ batch'[b].pc = "write" /\ batch'[b].at = 1
      /\ batch'[b].held = {} /\ batch'[b].ins = {} /\ batch'[b].del = {}
  BY MutateEffect DEF Locks, Carried
<1>2. store' = store
  BY DEF Mutate, storage
<1>3. (batch[b].held = Named(batch[b].ms, Ran(b)))'
  BY <1>1, NamedBounds DEF Ran
<1>4. Locks'
  BY <1>1, <1>2, <1>3 DEF Locks, View, Ran, Open
<1>5. Shared'
  BY <1>1, <1>2 DEF Shared
<1> QED
  BY <1>4, <1>5

\* A statement holds what it names, and takes rules others hold only when they
\* are not there.
LEMMA LocksStatement ==
  ASSUME LocksNamed, TypeInv, Locks, Shared, NEW b \in Batch, AddPolicies(b) \/ RemovePolicies(b)
  PROVE  Locks' /\ Shared'
<1> USE DEF TypeInv
<1> DEFINE rs == Current(b).rules
           ms == batch[b].ms
           k  == batch[b].at
           Same == \A c \in Batch \ {b} : batch'[c] = batch[c]
<1>1. batch[b].pc = "write" /\ ms \in Changes /\ k \in 1 .. Len(ms) /\ ms[k] = Current(b)
  BY DEF AddPolicies, RemovePolicies, At, Carried, Open, Current
<1>2. store' = store
  BY DEF AddPolicies, RemovePolicies, Wrote, storage
<1>3. Named(ms, k) = Named(ms, k - 1) \cup rs
  BY <1>1, NamedStep
<1>4. /\ batch[b].held = Named(ms, k - 1)
      /\ batch[b].ins \subseteq batch[b].held /\ batch[b].del \subseteq batch[b].held
      /\ \A r \in batch[b].held : r \in View(b) <=> r \in Added(ms, k - 1)
  BY <1>1 DEF Locks, Open, Ran
<1>5. ASSUME Same, batch'[b].pc \in {"write", "number"}, batch'[b].held = batch[b].held \cup rs,
             batch'[b].ms = ms, Ran(b)' = k,
             batch'[b].ins \subseteq batch[b].held \cup rs,
             batch'[b].del \subseteq batch[b].held \cup rs,
             \A r \in batch[b].held \cup rs : r \in View(b)' <=> r \in Added(ms, k)
      PROVE  Locks'
  <2>1. batch'[b].held = Named(ms, k)
    BY <1>3, <1>4, <1>5
  <2> QED
    BY <1>2, <1>5, <2>1 DEF Locks, Open, View, Ran
<1>6. CASE AddPolicies(b)
  <2>1. /\ Same /\ batch'[b].pc \in {"write", "number"} /\ batch'[b].ms = ms
        /\ batch'[b].ins = batch[b].ins \cup (rs \ View(b)) /\ batch'[b].del = batch[b].del
        /\ batch'[b].held = batch[b].held \cup rs /\ Ran(b)' = k
    BY <1>1, <1>6, WroteEffect DEF AddPolicies
  <2>2. Added(ms, k) = Added(ms, k - 1) \cup rs
    BY <1>1, <1>6, AddedStep DEF AddPolicies
  <2>3. View(b)' = View(b) \cup rs
    BY <1>2, <2>1 DEF View
  <2>4. Locks'
    BY <1>4, <1>5, <2>1, <2>2, <2>3
  <2>5. \A c \in Others(b) : rs \cap batch[c].held = {}
    BY <1>6 DEF AddPolicies, HeldByOthers
  <2>6. Shared'
    BY <1>1, <1>2, <2>1, <2>5 DEF Shared, Others, Open
  <2> QED
    BY <2>4, <2>6
<1>7. CASE RemovePolicies(b)
  <2> DEFINE gone == rs \cap View(b)
  <2>1. /\ Same /\ batch'[b].pc \in {"write", "number"} /\ batch'[b].ms = ms
        /\ batch'[b].ins = batch[b].ins \ gone /\ batch'[b].del = batch[b].del \cup gone
        /\ batch'[b].held = batch[b].held \cup rs /\ Ran(b)' = k
    BY <1>1, <1>7, WroteEffect DEF RemovePolicies
  <2>2. Added(ms, k) = {} /\ Added(ms, k - 1) = {}
    BY <1>1, <1>7, RemovedStep DEF RemovePolicies
  <2>3. View(b)' = View(b) \ rs
    BY <1>2, <2>1 DEF View
  <2>4. Locks'
    BY <1>4, <1>5, <2>1, <2>2, <2>3
  <2>5. ASSUME NEW c \in Others(b), NEW r \in rs \cap batch[c].held
        PROVE  r \notin View(b) /\ r \notin batch[c].ins
    BY <1>7 DEF RemovePolicies, HeldByOthers, Rows
  <2>6. ASSUME NEW c \in Batch, c # b, batch[c].pc \in Open,
               NEW r \in (batch[b].held \cup rs) \cap batch[c].held
        PROVE  r \notin store /\ r \notin batch[b].ins /\ r \notin batch[c].ins
    <3>1. CASE r \in batch[b].held
      BY <1>1, <2>6, <3>1 DEF Shared, Open
    <3>2. CASE r \notin batch[b].held
      BY <1>4, <2>5, <2>6, <3>2 DEF Others, View
    <3> QED
      BY <3>1, <3>2
  <2>7. Shared'
    BY <1>1, <1>2, <2>1, <2>6 DEF Shared, Open
  <2> QED
    BY <2>4, <2>7
<1> QED
  BY <1>6, <1>7

\* A commit leaves alone what other open transactions hold.
LEMMA HeldKept ==
  ASSUME Locks, Shared, NEW e \in Batch, batch[e].pc = "commit", store' = View(e),
         NEW c \in Batch, c # e, batch[c].pc \in Open, NEW r \in batch[c].held
  PROVE  r \in store' <=> r \in store
<1>1. CASE r \in batch[e].held
  BY <1>1 DEF Shared, View, Open
<1>2. CASE r \notin batch[e].held
  BY <1>2 DEF Locks, View, Open
<1> QED
  BY <1>1, <1>2

\* Transactions that go on to their number, end, or stay as they are.
LEMMA LocksKept ==
  ASSUME Locks, Shared,
         \A c \in Batch : \/ batch'[c].pc \notin Open \cup {"idle"}
                          \/ batch'[c] = batch[c]
                          \/ /\ batch[c].pc = "number" /\ batch'[c].pc = "commit"
                             /\ batch'[c].ms = batch[c].ms /\ batch'[c].held = batch[c].held
                             /\ batch'[c].ins = batch[c].ins /\ batch'[c].del = batch[c].del,
         \A c \in Batch : batch[c].pc \in Open /\ batch'[c].pc \in Open =>
            \A r \in batch[c].held : r \in store' <=> r \in store
  PROVE  Locks' /\ Shared'
<1>1. \A c \in Batch : batch'[c].pc \in Open =>
         /\ batch[c].pc \in Open /\ batch'[c].ms = batch[c].ms /\ batch'[c].held = batch[c].held
         /\ batch'[c].ins = batch[c].ins /\ batch'[c].del = batch[c].del
         /\ Ran(c)' = Ran(c)
  BY DEF Open, Ran
<1>2. \A c \in Batch : batch'[c].pc = "idle" => batch'[c] = batch[c]
  OBVIOUS
<1>3. Locks'
  BY <1>1, <1>2 DEF Locks, View
<1>4. Shared'
  BY <1>1 DEF Shared
<1> QED
  BY <1>3, <1>4

\* Every step keeps the locks.
LEMMA LocksStep == ASSUME LocksNamed, TypeInv, Locks, Shared, Next PROVE Locks' /\ Shared'
<1> USE DEF TypeInv, memory, storage, flags
<1> DEFINE Q == Locks' /\ Shared'
<1>1. ASSUME NEW b \in Batch, Mutate(b) PROVE Q
  BY <1>1, LocksMutate
<1>2. ASSUME NEW b \in Batch, AddPolicies(b) \/ RemovePolicies(b) PROVE Q
  BY <1>2, LocksStatement
<1>3. ASSUME NEW b \in Batch, Number(b) PROVE Q
  BY <1>3, NumberEffect, LocksKept DEF Number
<1>4. ASSUME NEW b \in Batch, Commit(b) PROVE Q
  <2>1. store' = View(b)
    BY <1>4 DEF Commit, Stored
  <2> QED
    BY <1>4, <2>1, CommitEffect, HeldKept, LocksKept DEF Open
<1>5. ASSUME NEW b \in Batch, CommitUnheard(b) PROVE Q
  <2>1. store' = View(b) /\ batch[b].pc = "commit" /\ Leave(b, "done")
    BY <1>5 DEF CommitUnheard, Stored, At
  <2>2. batch'[b].pc = "done" /\ \A c \in Batch \ {b} : batch'[c] = batch[c]
    BY <2>1, Moved DEF Stage
  <2> QED
    BY <2>1, <2>2, HeldKept, LocksKept DEF Open
<1>6. ASSUME NEW b \in Batch, NEW stage \in Stage \ (Open \cup {"idle"}),
             Goto(b, stage) \/ Leave(b, stage), store' = store
      PROVE  Q
  <2>1. batch'[b].pc = stage /\ \A c \in Batch \ {b} : batch'[c] = batch[c]
    BY <1>6, Moved
  <2> QED
    BY <1>6, <2>1, LocksKept
<1>7. ASSUME NEW b \in Batch, \/ Rollback(b) \/ TakeLock(b) \/ RecoverLoad(b) \/ Recovered(b)
                              \/ RecoverFails(b) \/ PublishDivergence(b) \/ ScheduleRetry(b)
      PROVE  Q
  <2>1. store' = store
    BY <1>7 DEF Rollback, TakeLock, RecoverLoad, Recovered, RecoverFails, PublishDivergence,
                ScheduleRetry, Load, Install, LoadFails
  <2>2. \E stage \in {"done", "replaying", "recover", "loading", "publish", "schedule"} :
            Goto(b, stage) \/ Leave(b, stage)
    BY <1>7 DEF Rollback, TakeLock, RecoverLoad, Recovered, RecoverFails, PublishDivergence,
                ScheduleRetry
  <2> QED
    BY <1>6, <2>1, <2>2 DEF Stage, Open
<1>8. ASSUME NEW b \in Batch, Replay(b) PROVE Q
  <2>1. store' = store
    BY <1>8 DEF Replay
  <2>2. /\ \A c \in Batch \ {b} : batch'[c] = batch[c]
        /\ \/ batch'[b].pc = "recover" \/ batch'[b].pc = "done" \/ batch'[b].pc = "replaying"
    BY <1>8, ReplayEffect, Zenon
  <2> QED
    BY <2>1, <2>2, LocksKept DEF Open
<1>9. CASE RetryStep \/ PeriodicStep
  <2>1. store' = store /\ batch' = batch
    BY <1>9 DEF RetryStep, RetryWakes, RetryLoad, RetryDone, RetryFails, RetryEnds, PeriodicStep,
                PeriodicLoad, PeriodicDone, Load, Install, LoadFails
  <2> QED
    BY <2>1, LocksKept
<1>10. CASE Foreign
  <2>1. batch' = batch
        /\ \A c \in Batch : batch[c].pc \in Open =>
              \A r \in batch[c].held : r \in store' <=> r \in store
    BY <1>10 DEF Foreign, Stored
  <2> QED
    BY <2>1, LocksKept
<1> QED
  BY <1>1, <1>2, <1>3, <1>4, <1>5, <1>7, <1>8, <1>9, <1>10 DEF Next, CallStep

-----------------------------------------------------------------------------
(* InStep: the numbers *)

\* A call that is numbered or on its way stays what it is.
LEMMA NumberedKept ==
  ASSUME Numbered,
         \A c \in Batch : batch'[c].pc = "commit" =>
            batch[c].pc = "commit" /\ batch'[c].ms = batch[c].ms /\ batch'[c].seq = batch[c].seq,
         \A c \in Batch : InFlight(c)' =>
            InFlight(c) /\ batch'[c].ms = batch[c].ms /\ batch'[c].seq = batch[c].seq
  PROVE  Numbered'
  BY DEF Numbered, Names, Adds

\* A batch takes a number above those of all that committed.
LEMMA NumberedNumber ==
  ASSUME TypeInv, Numbered, NEW b \in Batch, Number(b) PROVE Numbered'
<1>1. /\ \A c \in Batch \ {b} : batch'[c] = batch[c]
      /\ batch[b].pc = "number" /\ batch'[b].pc = "commit" /\ batch'[b].seq = sequence + 1
  BY NumberEffect DEF TypeInv
<1>2. \A c \in Batch : InFlight(c)' => c # b /\ InFlight(c) /\ batch'[c] = batch[c]
  BY <1>1 DEF InFlight
<1>3. \A c \in Batch : InFlight(c) => batch[c].seq <= sequence /\ batch[c].seq \in Nat
  BY DEF TypeInv, Carried, InFlight, Calls, Call
<1>4. ASSUME NEW c \in Batch, InFlight(c)' PROVE batch'[c].seq < batch'[b].seq
  BY <1>1, <1>2, <1>3, <1>4 DEF TypeInv, Counters
<1>5. ASSUME NEW d \in Batch, d # b, NEW c \in Batch, batch'[d].pc = "commit", InFlight(c)',
             NEW r \in Names(d)' \cap Names(c)'
      PROVE  batch'[c].seq < batch'[d].seq \/ (r \notin Adds(d)' /\ r \notin Adds(c)')
  <2>1. batch'[d] = batch[d] /\ batch'[c] = batch[c] /\ InFlight(c) /\ batch[d].pc = "commit"
    BY <1>1, <1>2, <1>5
  <2> QED
    BY <1>5, <2>1 DEF Numbered, Names, Adds
<1> QED
  BY <1>4, <1>5 DEF Numbered

\* What a transaction about to commit holds and finds.
LEMMA AtCommit ==
  ASSUME TypeInv, Locks, NEW e \in Batch, batch[e].pc = "commit"
  PROVE  /\ \A r \in Names(e) : r \in View(e) <=> r \in Adds(e)
         /\ \A r \in Rule \ Names(e) : r \in View(e) <=> r \in store
         /\ batch[e].held = Names(e)
<1>1. /\ batch[e].held = Names(e)
      /\ batch[e].ins \subseteq batch[e].held /\ batch[e].del \subseteq batch[e].held
      /\ \A r \in batch[e].held : r \in View(e) <=> r \in Adds(e)
  BY DEF Locks, Open, Ran, Names, Adds
<1> QED
  BY <1>1 DEF View

\* One that committed shares with those that are numbered only what both remove.
LEMMA NumberedCommit ==
  ASSUME TypeInv, Locks, Shared, Numbered, NEW e \in Batch, Commit(e) PROVE Numbered'
<1>1. /\ \A c \in Batch \ {e} : batch'[c] = batch[c]
      /\ batch[e].pc = "commit" /\ batch'[e].pc = "replay"
      /\ batch'[e].seq = batch[e].seq /\ batch'[e].ms = batch[e].ms
  BY CommitEffect DEF TypeInv
<1>2. ASSUME NEW b \in Batch, batch'[b].pc = "commit", NEW r \in Names(b)' \cap Names(e)'
      PROVE  r \notin Adds(b)' /\ r \notin Adds(e)'
  <2>1. b # e /\ batch'[b] = batch[b] /\ batch[b].pc = "commit"
    BY <1>1, <1>2
  <2>2. r \in Names(b) /\ r \in Names(e) /\ Adds(b)' = Adds(b) /\ Adds(e)' = Adds(e)
    BY <1>1, <1>2, <2>1 DEF Names, Adds
  <2>3. batch[b].held = Names(b) /\ batch[e].held = Names(e)
    BY <1>1, <2>1, AtCommit
  <2>4. r \notin store /\ r \notin batch[b].ins /\ r \notin batch[e].ins
    BY <1>1, <2>1, <2>2, <2>3 DEF Shared, Open
  <2>5. r \notin View(b) /\ r \notin View(e)
    BY <2>4 DEF View
  <2> QED
    BY <1>1, <2>1, <2>2, <2>5, AtCommit
<1>3. ASSUME NEW b \in Batch, NEW c \in Batch, c # e, batch'[b].pc = "commit", InFlight(c)',
             NEW r \in Names(b)' \cap Names(c)'
      PROVE  batch'[c].seq < batch'[b].seq \/ (r \notin Adds(b)' /\ r \notin Adds(c)')
  <2>1. batch'[b] = batch[b] /\ batch'[c] = batch[c] /\ InFlight(c) /\ batch[b].pc = "commit"
    BY <1>1, <1>3 DEF InFlight
  <2> QED
    BY <1>3, <2>1 DEF Numbered, Names, Adds
<1> QED
  BY <1>2, <1>3 DEF Numbered

\* Every step keeps the numbers.
LEMMA NumberedStep == ASSUME TypeInv, Locks, Shared, Numbered, Next PROVE Numbered'
<1> USE DEF TypeInv
<1> DEFINE Same(b) == \A c \in Batch \ {b} : batch'[c] = batch[c]
<1>1. ASSUME NEW b \in Batch, Same(b), batch'[b].pc # "commit", ~InFlight(b)' PROVE Numbered'
  BY <1>1, NumberedKept DEF InFlight
<1>2. ASSUME NEW b \in Batch, Mutate(b) PROVE Numbered'
  BY <1>1, <1>2, MutateEffect DEF InFlight
<1>3. ASSUME NEW b \in Batch, AddPolicies(b) \/ RemovePolicies(b) PROVE Numbered'
  <2>1. PICK ins, del, held, count : Wrote(b, ins, del, held, count)
    BY <1>3 DEF AddPolicies, RemovePolicies
  <2>2. Same(b) /\ batch'[b].pc \in {"write", "number"}
    BY <1>3, <2>1, WroteEffect DEF AddPolicies, RemovePolicies
  <2> QED
    BY <1>1, <2>2 DEF InFlight
<1>4. ASSUME NEW b \in Batch, NEW stage \in {"done", "recover", "loading", "publish", "schedule"},
             Goto(b, stage) \/ Leave(b, stage)
      PROVE  Numbered'
  <2>1. Same(b) /\ batch'[b].pc = stage
    BY <1>4, Moved DEF Stage
  <2> QED
    BY <1>1, <2>1 DEF InFlight
<1>5. ASSUME NEW b \in Batch, TakeLock(b) PROVE Numbered'
  <2>1. CASE Goto(b, "replaying")
    <3>1. /\ Same(b) /\ batch'[b].pc = "replaying" /\ batch[b].pc = "replay"
          /\ batch'[b].ms = batch[b].ms /\ batch'[b].seq = batch[b].seq
      BY <1>5, <2>1, Moved, Went DEF Stage, TakeLock, At
    <3> QED
      BY <3>1, NumberedKept DEF InFlight
  <2> QED
    BY <1>4, <1>5, <2>1 DEF TakeLock
<1>6. ASSUME NEW b \in Batch, Replay(b) PROVE Numbered'
  <2>1. Same(b) /\ batch[b].pc = "replaying"
    BY <1>6, ReplayEffect
  <2>2. \/ batch'[b].pc = "recover" \/ batch'[b].pc = "done"
        \/ /\ batch'[b].pc = "replaying" /\ batch'[b].ms = batch[b].ms
           /\ batch'[b].seq = batch[b].seq
    BY <1>6, ReplayEffect, Zenon
  <2> QED
    BY <2>1, <2>2, NumberedKept DEF InFlight
<1>7. ASSUME NEW b \in Batch, \/ CommitUnheard(b) \/ Rollback(b) \/ RecoverLoad(b) \/ Recovered(b)
                              \/ RecoverFails(b) \/ PublishDivergence(b) \/ ScheduleRetry(b)
      PROVE  Numbered'
  BY <1>4, <1>7 DEF CommitUnheard, Rollback, RecoverLoad, Recovered, RecoverFails,
                    PublishDivergence, ScheduleRetry
<1>8. CASE RetryStep \/ PeriodicStep \/ Foreign
  <2>1. batch' = batch
    BY <1>8 DEF RetryStep, RetryWakes, RetryLoad, RetryDone, RetryFails, RetryEnds, PeriodicStep,
                PeriodicLoad, PeriodicDone, Foreign
  <2> QED
    BY <2>1, NumberedKept DEF InFlight
<1> QED
  BY <1>2, <1>3, <1>5, <1>6, <1>7, <1>8, NumberedNumber, NumberedCommit DEF Next, CallStep

-----------------------------------------------------------------------------
(* InStep: the memory *)

\* What the replays and the reloads owe to storage.
MemoryInv == LastWord /\ Halfway /\ RulesAgree /\ SnapAgrees /\ IndexFollows

\* The calls on their way stay as they are.
Steady ==
    /\ \A c \in Batch : InFlight(c)' <=> InFlight(c)
    /\ \A c \in Batch : InFlight(c) => batch'[c] = batch[c]

\* Whoever is replaying has the lock.
LEMMA NoReplay ==
  ASSUME Owners, NEW b \in Batch, batch[b].pc = "replaying"
  PROVE  mu = b /\ ~Loading /\ \A c \in Batch \ {b} : batch[c].pc # "replaying"
  BY DEF Owners, Loading

LEMMA SteadyFacts ==
  ASSUME Steady
  PROVE  /\ \A c \in Batch : batch'[c].pc = "replaying" <=> batch[c].pc = "replaying"
         /\ \A r : Settled(r)' <=> Settled(r)
<1>1. \A c \in Batch : batch'[c].pc = "replaying" <=> batch[c].pc = "replaying"
  BY DEF Steady, InFlight
<1>2. \A c \in Batch : InFlight(c) => Names(c)' = Names(c)
  BY DEF Steady, Names
<1> QED
  BY <1>1, <1>2 DEF Settled, Steady

\* The newest batch still has the last word.
LEMMA SteadyWord ==
  ASSUME Steady, LastWord, UNCHANGED <<store, applied>>, ~blind' => ~blind PROVE LastWord'
<1>1. \A c \in Batch : InFlight(c) => Names(c)' = Names(c) /\ Adds(c)' = Adds(c)
  BY DEF Steady, Names, Adds
<1> QED
  BY <1>1 DEF Steady, LastWord

\* A step that touches none of it.
LEMMA SteadyKeeps ==
  ASSUME MemoryInv, Steady, UNCHANGED <<store, rules, index, mu, snap, applied, blind>>,
         Owed => Owed'
  PROVE  MemoryInv'
<1> USE DEF MemoryInv
<1>1. LastWord'
  BY SteadyWord
<1>2. Halfway'
  BY SteadyFacts DEF Halfway, Steady, InFlight
<1>3. Loading' <=> Loading
  BY SteadyFacts DEF Loading
<1>4. RulesAgree'
  BY <1>3, SteadyFacts DEF RulesAgree
<1>5. SnapAgrees'
  BY <1>3, SteadyFacts DEF SnapAgrees
<1>6. IndexFollows'
  BY <1>3, SteadyFacts DEF IndexFollows
<1> QED
  BY <1>1, <1>2, <1>4, <1>5, <1>6

\* A step that stores rules no replay will tell of.
LEMMA BlindKeeps ==
  ASSUME MemoryInv, Steady, UNCHANGED <<rules, index, mu>>, blind', Owed => Owed'
  PROVE  MemoryInv'
<1> USE DEF MemoryInv
<1>1. Halfway'
  BY SteadyFacts DEF Halfway, Steady, InFlight
<1>2. Loading' <=> Loading
  BY SteadyFacts DEF Loading
<1>3. IndexFollows'
  BY <1>2, SteadyFacts DEF IndexFollows
<1> QED
  BY <1>1, <1>3 DEF LastWord, RulesAgree, SnapAgrees

\* A reload reads the set.
LEMMA LoadKeeps ==
  ASSUME TypeInv, MemoryInv, Steady, NEW o, o # NoOne, Load(o) PROVE MemoryInv'
<1> USE DEF TypeInv, MemoryInv
<1>1. /\ mu = NoOne /\ mu' = o /\ snap' = store
      /\ UNCHANGED <<store, rules, index, applied>>
  BY DEF Load, storage
<1>2. \A c \in Batch : batch[c].pc # "replaying" /\ batch'[c].pc # "replaying"
  BY <1>1, SteadyFacts, NoReplay, PoliciesAssumption
<1>3. Loading'
  BY <1>1, <1>2 DEF Loading
<1>4. LastWord'
  <2>1. CASE ~blind' => ~blind
    BY <1>1, <2>1, SteadyWord
  <2>2. CASE ~blind' /\ blind
    <3>1. \A c \in Batch : batch[c].pc # "replay"
      BY <2>2, Zenon DEF Load
    <3>2. \A c \in Batch : ~InFlight(c)'
      BY <1>2, <3>1 DEF InFlight, Steady
    <3> QED
      BY <3>2 DEF LastWord
  <2> QED
    BY <2>1, <2>2
<1>5. Halfway'
  BY <1>2 DEF Halfway
<1>6. RulesAgree' /\ IndexFollows'
  BY <1>3 DEF RulesAgree, IndexFollows
<1>7. SnapAgrees'
  BY <1>1 DEF SnapAgrees
<1> QED
  BY <1>4, <1>5, <1>6, <1>7

\* A reload installs what it read.
LEMMA InstallKeeps ==
  ASSUME TypeInv, MemoryInv, Steady, NEW o, o # NoOne, Install(o),
         \A b \in Batch : batch[b].pc = "replaying" => b # o
  PROVE  MemoryInv'
<1> USE DEF TypeInv, MemoryInv
<1>1. /\ mu = o /\ mu' = NoOne /\ rules' = snap /\ index' = snap
      /\ UNCHANGED <<store, applied, blind>>
  BY DEF Install, storage
<1>2. \A c \in Batch : batch[c].pc # "replaying" /\ batch'[c].pc # "replaying"
  BY <1>1, SteadyFacts, NoReplay
<1>3. Loading /\ ~Loading'
  BY <1>1, <1>2 DEF Loading
<1>4. LastWord'
  BY <1>1, SteadyWord
<1>5. Halfway'
  BY <1>2 DEF Halfway
<1>6. RulesAgree'
  BY <1>1, <1>3, SteadyFacts DEF RulesAgree, SnapAgrees
<1>7. SnapAgrees'
  BY <1>3 DEF SnapAgrees
<1>8. IndexFollows'
  BY <1>1 DEF IndexFollows
<1> QED
  BY <1>4, <1>5, <1>6, <1>7, <1>8

\* A commit: its batch has the last word on what it names, and storage changes
\* nowhere else.
LEMMA CommitKeeps ==
  ASSUME TypeInv, Locks, Numbered, MemoryInv, NEW e \in Batch, Commit(e) PROVE MemoryInv'
<1> USE DEF MemoryInv
<1>1. /\ \A c \in Batch \ {e} : batch'[c] = batch[c]
      /\ batch[e].pc = "commit" /\ batch'[e].pc = "replay"
      /\ batch'[e].seq = batch[e].seq /\ batch'[e].ms = batch[e].ms
  BY CommitEffect DEF TypeInv
<1>2. /\ store' = View(e)
      /\ UNCHANGED <<rules, index, mu, snap, applied, diverged, blind>>
  BY DEF Commit, Stored, memory, flags
<1>3. \A r \in Names(e) : r \in store' <=> r \in Adds(e)
  BY <1>1, <1>2, AtCommit
<1>4. \A r \in Rule \ Names(e) : r \in store' <=> r \in store
  BY <1>1, <1>2, AtCommit
<1>5. \A c \in Batch : /\ Names(c)' = Names(c) /\ Adds(c)' = Adds(c) /\ batch'[c].seq = batch[c].seq
                       /\ InFlight(c)' <=> InFlight(c) \/ c = e
  BY <1>1 DEF Names, Adds, InFlight
<1>6. \A c \in Batch : batch[c].seq \in Nat
  BY DEF TypeInv, Calls, Call
<1>7. \A c \in Batch : Names(c) \subseteq Rule
  BY DEF Names, Named
<1>8. LastWord'
  <2> SUFFICES ASSUME NEW b \in Batch, ~blind', InFlight(b)', batch[b].seq >= applied,
                      NEW r \in Names(b),
                      \A c \in Batch : InFlight(c)' /\ r \in Names(c) => batch[c].seq <= batch[b].seq
               PROVE  r \in store' <=> r \in Adds(b)
    BY <1>2, <1>5 DEF LastWord
  <2>1. CASE b = e
    BY <1>3, <2>1
  <2>2. CASE b # e /\ r \in Names(e)
    <3>1. batch[e].seq <= batch[b].seq /\ InFlight(b)
      BY <1>5, <2>2
    <3>2. r \notin Adds(e) /\ r \notin Adds(b)
      BY <1>1, <1>6, <2>2, <3>1 DEF Numbered
    <3> QED
      BY <1>3, <2>2, <3>2
  <2>3. CASE b # e /\ r \notin Names(e)
    <3>1. InFlight(b) /\ \A c \in Batch : InFlight(c) /\ r \in Names(c) => batch[c].seq <= batch[b].seq
      BY <1>5, <2>3
    <3>2. r \in store <=> r \in Adds(b)
      BY <1>2, <3>1 DEF LastWord
    <3> QED
      BY <1>4, <1>7, <2>3, <3>2
  <2> QED
    BY <2>1, <2>2, <2>3
<1>9. \A c \in Batch : batch'[c].pc = "replaying" <=> batch[c].pc = "replaying"
  BY <1>1
<1>10. Halfway'
  BY <1>1, <1>2, <1>9 DEF Halfway
<1>11. Loading' <=> Loading
  BY <1>2, <1>9 DEF Loading
<1>12. Owed => Owed'
  BY <1>1, <1>2 DEF Owed
<1>13. \A r : Settled(r)' => Settled(r) /\ r \notin Names(e)
  BY <1>5 DEF Settled
<1>14. RulesAgree'
  BY <1>2, <1>4, <1>11, <1>12, <1>13 DEF RulesAgree
<1>15. SnapAgrees'
  BY <1>2, <1>4, <1>11, <1>13 DEF SnapAgrees
<1>16. IndexFollows'
  BY <1>2, <1>9, <1>11, <1>12 DEF IndexFollows
<1> QED
  BY <1>8, <1>10, <1>14, <1>15, <1>16

\* A batch that leaves keeps the last word with those that outrank it.
LEMMA WordLeft ==
  ASSUME TypeInv, LastWord, NEW b \in Batch, InFlight(b), ~InFlight(b)', batch[b].seq <= applied,
         \A c \in Batch \ {b} : batch'[c] = batch[c], UNCHANGED <<store, applied, blind>>
  PROVE  LastWord'
<1>1. \A c \in Batch : InFlight(c)' => /\ c # b /\ InFlight(c) /\ batch'[c] = batch[c]
                                       /\ Names(c)' = Names(c) /\ Adds(c)' = Adds(c)
  BY DEF InFlight, Names, Adds
<1>2. \A c \in Batch : InFlight(c) /\ c # b => InFlight(c)'
  BY DEF InFlight
<1>3. \A c \in Batch : batch[c].seq \in Nat
  BY DEF TypeInv, Calls, Call
<1>4. applied \in Nat
  BY DEF TypeInv, Counters
<1> SUFFICES ASSUME NEW c \in Batch, ~blind, InFlight(c)', batch[c].seq >= applied,
                    NEW r \in Names(c),
                    \A d \in Batch : InFlight(d)' /\ r \in Names(d)' => batch'[d].seq <= batch[c].seq
             PROVE  r \in store <=> r \in Adds(c)
  BY <1>1 DEF LastWord
<1>5. ASSUME NEW d \in Batch, InFlight(d), r \in Names(d) PROVE batch[d].seq <= batch[c].seq
  <2>1. CASE d = b
    BY <1>3, <1>4, <2>1
  <2>2. CASE d # b
    BY <1>1, <1>2, <1>5, <2>2
  <2> QED
    BY <2>1, <2>2
<1> QED
  BY <1>1, <1>5 DEF LastWord

\* Taking the lock: a batch overtaken owes a rebuild, another outranks those
\* still on their way with a lower number.
LEMMA TakeLockKeeps ==
  ASSUME TypeInv, MemoryInv, NEW b \in Batch, TakeLock(b) PROVE MemoryInv'
<1> USE DEF TypeInv, MemoryInv
<1>1. /\ batch[b].pc = "replay" /\ mu = NoOne
      /\ UNCHANGED <<store, rules, index, snap, diverged, blind>>
  BY DEF TakeLock, At, storage, flags
<1>2. \A c \in Batch : batch[c].pc # "replaying"
  BY <1>1, NoReplay, PoliciesAssumption
<1>3. batch[b].seq \in Nat /\ applied \in Nat /\ \A c \in Batch : batch[c].seq \in Nat
  BY DEF Calls, Call, Counters
<1>4. CASE Overtaken(b)
  <2>1. applied' = applied /\ mu' = NoOne /\ Leave(b, "recover") /\ batch[b].seq < applied
    BY <1>1, <1>4 DEF TakeLock, Overtaken
  <2>2. batch'[b].pc = "recover" /\ \A c \in Batch \ {b} : batch'[c] = batch[c]
    BY <2>1, Moved DEF Stage
  <2>3. LastWord'
    BY <1>1, <1>3, <2>1, <2>2, WordLeft DEF InFlight
  <2>4. \A c \in Batch : batch'[c].pc # "replaying"
    BY <1>2, <2>2
  <2>5. Owed'
    BY <2>2 DEF Owed
  <2> QED
    BY <2>1, <2>3, <2>4, <2>5 DEF Halfway, RulesAgree, SnapAgrees, IndexFollows, Loading
<1>5. CASE ~Overtaken(b)
  <2>1. applied' = batch[b].seq /\ mu' = b /\ Goto(b, "replaying") /\ batch[b].seq >= applied
    BY <1>1, <1>3, <1>5 DEF TakeLock, Overtaken
  <2>2. /\ batch'[b].pc = "replaying" /\ \A c \in Batch \ {b} : batch'[c] = batch[c]
        /\ batch'[b].ms = batch[b].ms /\ batch'[b].at = 1 /\ batch'[b].seq = batch[b].seq
    BY <1>1, <2>1, Moved, Went DEF Stage, Carried
  <2>3. \A c \in Batch : /\ InFlight(c)' <=> InFlight(c)
                         /\ Names(c)' = Names(c) /\ Adds(c)' = Adds(c) /\ batch'[c].seq = batch[c].seq
    BY <1>1, <2>2 DEF InFlight, Names, Adds
  <2>4. LastWord'
    BY <1>1, <1>3, <2>1, <2>3 DEF LastWord
  <2>5. Halfway'
    BY <1>2, <2>2, NamedBounds DEF Halfway
  <2>6. ~Loading /\ ~Loading'
    BY <1>1, <2>2 DEF Loading
  <2>7. Owed => Owed'
    BY <1>1, <1>3, <2>1, <2>2 DEF Owed
  <2>8. \A r : Settled(r)' <=> Settled(r)
    BY <2>3 DEF Settled
  <2>9. RulesAgree'
    BY <1>1, <2>6, <2>7, <2>8 DEF RulesAgree
  <2>10. SnapAgrees' /\ IndexFollows'
    BY <2>2, <2>6 DEF SnapAgrees, IndexFollows
  <2> QED
    BY <2>4, <2>5, <2>9, <2>10
<1> QED
  BY <1>4, <1>5

\* The next mutation leaves the set as the batch says so far.
LEMMA OneMutation ==
  ASSUME TypeInv, Halfway, NEW b \in Batch, batch[b].pc = "replaying",
         rules' = Replayed(Current(b))
  PROVE  /\ \A r \in Named(batch[b].ms, batch[b].at) :
                r \in rules' <=> r \in Added(batch[b].ms, batch[b].at)
         /\ \A r : r \notin Names(b) => (r \in rules' <=> r \in rules)
<1> DEFINE ms == batch[b].ms
           k  == batch[b].at
           rs == Current(b).rules
<1>1. ms \in Changes /\ k \in 1 .. Len(ms) /\ Current(b) = ms[k] /\ Current(b) \in Mutation
  BY CurrentType DEF TypeInv, Carried, Current
<1>2. Named(ms, k) = Named(ms, k - 1) \cup rs
  BY <1>1, NamedStep
<1>3. \A r \in Named(ms, k - 1) : r \in rules <=> r \in Added(ms, k - 1)
  BY DEF Halfway
<1>4. rs \subseteq Names(b)
  BY <1>1 DEF Names, Named, Mutation
<1>5. CASE Current(b).op = "add"
  <2>1. Added(ms, k) = Added(ms, k - 1) \cup rs /\ rules' = rules \cup rs
    BY <1>1, <1>5, AddedStep DEF Replayed
  <2> HIDE DEF ms, k, rs
  <2> QED
    BY <1>2, <1>3, <1>4, <2>1 DEF ms, k
<1>6. CASE Current(b).op # "add"
  <2>1. Added(ms, k) = {} /\ Added(ms, k - 1) = {} /\ rules' = rules \ rs
    BY <1>1, <1>6, RemovedStep DEF Replayed
  <2> HIDE DEF ms, k, rs
  <2> QED
    BY <1>2, <1>3, <1>4, <2>1 DEF ms, k
<1> QED
  BY <1>5, <1>6

\* A replay that is over has brought the set in step with what it names.
LEMMA ReplayDone ==
  ASSUME TypeInv, MemoryInv, NEW b \in Batch, batch[b].pc = "replaying",
         rules' = Replayed(Current(b)), batch[b].at = Len(batch[b].ms),
         UNCHANGED <<store, blind, diverged, applied>>,
         batch'[b].pc = "done", \A c \in Batch \ {b} : batch'[c] = batch[c]
  PROVE  RulesAgree'
<1> USE DEF TypeInv, MemoryInv
<1>1. batch[b].seq = applied /\ applied \in Nat
  BY DEF Carried, Counters
<1>2. ~Loading
  BY NoReplay
<1>3. Owed => Owed'
  BY DEF Owed
<1>4. /\ \A r \in Names(b) : r \in rules' <=> r \in Adds(b)
      /\ \A r : r \notin Names(b) => (r \in rules' <=> r \in rules)
  BY OneMutation DEF Names, Adds
<1>5. \A c \in Batch \ {b} : InFlight(c) => InFlight(c)' /\ Names(c)' = Names(c)
  BY DEF InFlight, Names
<1> SUFFICES ASSUME ~blind, ~Owed', NEW r \in Rule, Settled(r)' PROVE r \in rules' <=> r \in store
  BY DEF RulesAgree
<1>6. \A c \in Batch \ {b} : InFlight(c) => r \notin Names(c)
  BY <1>5 DEF Settled
<1>7. CASE r \in Names(b)
  <2>1. \A c \in Batch : InFlight(c) /\ r \in Names(c) => batch[c].seq <= batch[b].seq
    BY <1>1, <1>6
  <2>2. r \in store <=> r \in Adds(b)
    BY <1>1, <1>7, <2>1 DEF LastWord, InFlight
  <2> QED
    BY <1>4, <1>7, <2>2
<1>8. CASE r \notin Names(b)
  <2>1. Settled(r)
    BY <1>6, <1>8 DEF Settled
  <2> QED
    BY <1>2, <1>3, <1>4, <1>8, <2>1 DEF RulesAgree
<1> QED
  BY <1>7, <1>8

\* A replay goes on, ends in step, or owes a rebuild.
LEMMA ReplayKeeps ==
  ASSUME TypeInv, MemoryInv, NEW b \in Batch, Replay(b) PROVE MemoryInv'
<1> USE DEF TypeInv, MemoryInv
<1>1. /\ rules' = Replayed(Current(b))
      /\ UNCHANGED <<store, snap, applied, blind, diverged>>
  BY DEF Replay, storage, flags
<1>2. batch[b].pc = "replaying" /\ \A c \in Batch \ {b} : batch'[c] = batch[c]
  BY ReplayEffect
<1>3. /\ mu = b /\ ~Loading /\ \A c \in Batch \ {b} : batch[c].pc # "replaying"
      /\ batch[b].seq = applied /\ applied \in Nat
  BY <1>2, NoReplay DEF Carried, Counters
<1>4. \A c \in Batch \ {b} : batch'[c].pc # "replaying"
  BY <1>2, <1>3
<1>5. ASSUME batch'[b].pc \in {"recover", "done"} PROVE LastWord' /\ Halfway'
  <2>1. InFlight(b) /\ ~InFlight(b)'
    BY <1>2, <1>5 DEF InFlight
  <2>2. LastWord'
    BY <1>1, <1>2, <1>3, <2>1, WordLeft
  <2>3. Halfway'
    BY <1>4, <1>5 DEF Halfway
  <2> QED
    BY <2>2, <2>3
<1>6. CASE batch'[b].pc = "recover" /\ mu' = NoOne
  <2>1. Owed' /\ ~Loading'
    BY <1>6 DEF Owed, Loading
  <2> QED
    BY <1>5, <1>6, <2>1 DEF RulesAgree, SnapAgrees, IndexFollows
<1>7. CASE batch[b].at = Len(batch[b].ms) /\ batch'[b].pc = "done" /\ mu' = NoOne /\ index' = rules'
  <2>1. RulesAgree'
    BY <1>1, <1>2, <1>7, ReplayDone
  <2>2. SnapAgrees' /\ IndexFollows'
    BY <1>7 DEF SnapAgrees, IndexFollows, Loading
  <2> QED
    BY <1>5, <1>7, <2>1, <2>2
<1>8. CASE /\ batch'[b].pc = "replaying" /\ batch'[b].ms = batch[b].ms
           /\ batch'[b].seq = batch[b].seq /\ batch'[b].at = batch[b].at + 1
  <2>1. \A c \in Batch : /\ InFlight(c)' <=> InFlight(c)
                         /\ Names(c)' = Names(c) /\ Adds(c)' = Adds(c) /\ batch'[c].seq = batch[c].seq
    BY <1>2, <1>8 DEF InFlight, Names, Adds
  <2>2. LastWord'
    BY <1>1, <2>1 DEF LastWord
  <2>3. /\ \A r \in Named(batch[b].ms, batch[b].at) :
                r \in rules' <=> r \in Added(batch[b].ms, batch[b].at)
        /\ \A r : r \notin Names(b) => (r \in rules' <=> r \in rules)
    BY <1>1, <1>2, OneMutation
  <2>4. batch[b].at \in Nat
    BY DEF Calls, Call
  <2>5. batch'[b].at - 1 = batch[b].at
    BY <1>8, <2>4
  <2>6. Halfway'
    BY <1>4, <1>8, <2>3, <2>5 DEF Halfway
  <2>7. \A r : Settled(r)' => Settled(r) /\ r \notin Names(b)
    BY <1>2, <2>1 DEF Settled, InFlight
  <2>8. Owed => Owed'
    BY <1>1, <1>2, <1>8 DEF Owed
  <2>9. RulesAgree'
    BY <1>1, <1>3, <2>3, <2>7, <2>8 DEF RulesAgree
  <2>10. SnapAgrees' /\ IndexFollows'
    BY <1>8 DEF SnapAgrees, IndexFollows, Loading
  <2> QED
    BY <2>2, <2>6, <2>9, <2>10
<1>9. \/ batch'[b].pc = "recover" /\ mu' = NoOne
      \/ batch[b].at = Len(batch[b].ms) /\ batch'[b].pc = "done" /\ mu' = NoOne /\ index' = rules'
      \/ /\ batch'[b].pc = "replaying" /\ batch'[b].ms = batch[b].ms
         /\ batch'[b].seq = batch[b].seq /\ batch'[b].at = batch[b].at + 1
  BY ReplayEffect, Zenon
<1> QED
  BY <1>6, <1>7, <1>8, <1>9

\* A call that is not on its way, before or after, owes no less for its step.
LEMMA SteadyCall ==
  ASSUME NEW b \in Batch, \A c \in Batch \ {b} : batch'[c] = batch[c],
         ~InFlight(b), ~InFlight(b)'
  PROVE  Steady
  BY DEF Steady, InFlight

\* Every step of a call keeps the memory half.
LEMMA MemoryCall ==
  ASSUME TypeInv, Locks, Numbered, MemoryInv, NEW b \in Batch, Mutate(b) \/ CallStep(b)
  PROVE  MemoryInv'
<1> USE DEF TypeInv, memory, storage, flags
<1> DEFINE Same == \A c \in Batch \ {b} : batch'[c] = batch[c]
           Still == UNCHANGED <<store, rules, index, mu, snap, applied, blind>>
<1>1. ASSUME Same, Still, UNCHANGED diverged,
             batch[b].pc \notin {"replay", "replaying", "recover", "publish"},
             batch'[b].pc \notin {"replay", "replaying"}
      PROVE  MemoryInv'
  <2>1. Steady
    BY <1>1, SteadyCall DEF InFlight
  <2>2. Owed => Owed'
    BY <1>1 DEF Owed
  <2> QED
    BY <1>1, <2>1, <2>2, SteadyKeeps
<1>2. CASE Mutate(b)
  BY <1>1, <1>2, MutateEffect DEF Mutate
<1>3. CASE AddPolicies(b) \/ RemovePolicies(b)
  <2>1. PICK ins, del, held, count : Wrote(b, ins, del, held, count)
    BY <1>3 DEF AddPolicies, RemovePolicies
  <2>2. Same /\ batch'[b].pc \in {"write", "number"} /\ batch[b].pc = "write"
    BY <1>3, <2>1, WroteEffect DEF AddPolicies, RemovePolicies, At
  <2>3. Still /\ UNCHANGED diverged
    BY <2>1 DEF Wrote
  <2> QED
    BY <1>1, <2>2, <2>3
<1>4. CASE Number(b)
  BY <1>1, <1>4, NumberEffect DEF Number
<1>5. CASE Rollback(b) \/ ScheduleRetry(b)
  <2>1. /\ Leave(b, "done") /\ Still /\ UNCHANGED diverged
        /\ batch[b].pc \in Open \cup {"schedule"}
    BY <1>5 DEF Rollback, ScheduleRetry, At
  <2>2. Same /\ batch'[b].pc = "done"
    BY <2>1, Moved DEF Stage
  <2> QED
    BY <1>1, <2>1, <2>2 DEF Open
<1>6. CASE RecoverFails(b)
  <2>1. Goto(b, "publish") /\ Still /\ UNCHANGED diverged /\ batch[b].pc = "recover"
    BY <1>6 DEF RecoverFails, LoadFails, At
  <2>2. Same /\ batch'[b].pc = "publish"
    BY <2>1, Moved DEF Stage
  <2>3. Owed'
    BY <2>2 DEF Owed
  <2> QED
    BY <2>1, <2>2, <2>3, SteadyCall, SteadyKeeps DEF InFlight
<1>7. CASE PublishDivergence(b)
  <2>1. Goto(b, "schedule") /\ Still /\ diverged' /\ batch[b].pc = "publish"
    BY <1>7 DEF PublishDivergence, At
  <2>2. Same /\ batch'[b].pc = "schedule"
    BY <2>1, Moved DEF Stage
  <2>3. Owed'
    BY <2>1 DEF Owed
  <2> QED
    BY <2>1, <2>2, <2>3, SteadyCall, SteadyKeeps DEF InFlight
<1>8. CASE CommitUnheard(b)
  <2>1. /\ Leave(b, "done") /\ UNCHANGED <<rules, index, mu, applied, diverged>> /\ blind'
        /\ batch[b].pc = "commit"
    BY <1>8 DEF CommitUnheard, At
  <2>2. Same /\ batch'[b].pc = "done"
    BY <2>1, Moved DEF Stage
  <2>3. Owed => Owed'
    BY <2>1, <2>2 DEF Owed
  <2> QED
    BY <2>1, <2>2, <2>3, SteadyCall, BlindKeeps DEF InFlight
<1>9. CASE RecoverLoad(b)
  <2>1. Goto(b, "loading") /\ Load(b) /\ batch[b].pc = "recover"
    BY <1>9 DEF RecoverLoad, At
  <2>2. Same /\ batch'[b].pc = "loading"
    BY <2>1, Moved DEF Stage
  <2> QED
    BY <2>1, <2>2, SteadyCall, LoadKeeps, PoliciesAssumption DEF InFlight
<1>10. CASE Recovered(b)
  <2>1. Leave(b, "done") /\ Install(b) /\ batch[b].pc = "loading"
    BY <1>10 DEF Recovered, At
  <2>2. Same /\ batch'[b].pc = "done"
    BY <2>1, Moved DEF Stage
  <2> QED
    BY <2>1, <2>2, SteadyCall, InstallKeeps, PoliciesAssumption DEF InFlight
<1> QED
  BY <1>2, <1>3, <1>4, <1>5, <1>6, <1>7, <1>8, <1>9, <1>10,
     CommitKeeps, TakeLockKeeps, ReplayKeeps DEF CallStep

\* So does every other step.
LEMMA MemoryOthers ==
  ASSUME TypeInv, MemoryInv, RetryStep \/ PeriodicStep \/ Foreign PROVE MemoryInv'
<1> USE DEF TypeInv, memory, storage, flags
<1>1. batch' = batch
  BY DEF RetryStep, RetryWakes, RetryLoad, RetryDone, RetryFails, RetryEnds, PeriodicStep,
         PeriodicLoad, PeriodicDone, Foreign
<1>2. Steady
  BY <1>1 DEF Steady, InFlight
<1>3. CASE RetryWakes \/ RetryFails \/ RetryEnds
  <2>1. UNCHANGED <<store, rules, index, mu, snap, applied, blind, diverged>>
    BY <1>3 DEF RetryWakes, RetryFails, RetryEnds, LoadFails
  <2>2. Owed => Owed'
    BY <1>1, <2>1 DEF Owed
  <2> QED
    BY <1>2, <2>1, <2>2, SteadyKeeps
<1>4. CASE RetryLoad \/ PeriodicLoad
  BY <1>2, <1>4, LoadKeeps, PoliciesAssumption DEF RetryLoad, PeriodicLoad
<1>5. CASE RetryDone \/ PeriodicDone
  BY <1>2, <1>5, InstallKeeps, PoliciesAssumption DEF RetryDone, PeriodicDone
<1>6. CASE Foreign
  <2>1. UNCHANGED <<rules, index, mu, applied, diverged>> /\ blind'
    BY <1>6 DEF Foreign
  <2>2. Owed => Owed'
    BY <1>1, <2>1 DEF Owed
  <2> QED
    BY <1>2, <2>1, <2>2, BlindKeeps
<1> QED
  BY <1>3, <1>4, <1>5, <1>6 DEF RetryStep, PeriodicStep

-----------------------------------------------------------------------------
LEMMA StepInit == ASSUME Init PROVE StepInv
<1>1. \A b \in Batch : batch[b].pc = "idle" /\ batch[b].held = {} /\ batch[b].ins = {} /\ batch[b].del = {}
  BY DEF Init, Bare
<1>2. Locks /\ Shared /\ Numbered
  BY <1>1 DEF Locks, Shared, Numbered, Open
<1>3. LastWord /\ Halfway
  BY <1>1 DEF LastWord, Halfway, InFlight
<1>4. RulesAgree /\ SnapAgrees /\ IndexFollows
  BY DEF Init, RulesAgree, SnapAgrees, IndexFollows, Loading
<1> QED
  BY <1>2, <1>3, <1>4 DEF StepInv

LEMMA StepNext == ASSUME LocksNamed, TypeInv, StepInv, [Next]_vars PROVE StepInv'
<1>1. CASE Next
  <2>1. Locks' /\ Shared'
    BY <1>1, LocksStep DEF StepInv
  <2>2. Numbered'
    BY <1>1, NumberedStep DEF StepInv
  <2>3. MemoryInv'
    BY <1>1, MemoryCall, MemoryOthers DEF Next, StepInv, MemoryInv
  <2> QED
    BY <2>1, <2>2, <2>3 DEF StepInv, MemoryInv
<1>2. CASE UNCHANGED vars
  <2> USE <1>2 DEF vars
  <2>1. Locks' /\ Shared' /\ Numbered'
    BY DEF StepInv, Locks, Shared, Numbered, View, Ran, InFlight, Names, Adds
  <2>2. Steady /\ (Owed => Owed')
    BY DEF Steady, InFlight, Owed
  <2>3. MemoryInv'
    BY <2>2, SteadyKeeps DEF StepInv, MemoryInv
  <2> QED
    BY <2>1, <2>3 DEF StepInv, MemoryInv
<1> QED
  BY <1>1, <1>2

\* On a backend whose statements hold the rules they name, the process decides
\* from the rules that are stored once every committed batch is replayed or
\* recovered, no failure stands recorded and nothing was stored behind its
\* back: the numbers taken under the locks tell applyMutations which of two
\* batches storage saw last, and what that cannot settle a reload does.
THEOREM InStepHeld == ASSUME LocksNamed PROVE Spec => []InStep
<1>1. Init => StepInv
  BY StepInit
<1>2. TypeInv /\ StepInv /\ [Next]_vars => StepInv'
  BY StepNext
<1>3. TypeInv /\ StepInv => InStep
  <2> SUFFICES ASSUME TypeInv, StepInv, mu = NoOne, ~diverged, ~blind,
                      \A b \in Batch : batch[b].pc \notin Unsettled
               PROVE  rules = store /\ index = store
    BY DEF InStep
  <2>1. ~Loading /\ ~Owed /\ \A b \in Batch : ~InFlight(b) /\ batch[b].pc # "replaying"
    BY DEF Loading, Owed, InFlight, Unsettled
  <2>2. \A r \in Rule : r \in rules <=> r \in store
    BY <2>1 DEF StepInv, RulesAgree, Settled
  <2>3. rules = store
    BY <2>2 DEF TypeInv, Sets
  <2>4. index = rules
    BY <2>1 DEF StepInv, IndexFollows
  <2> QED
    BY <2>3, <2>4
<1> QED
  BY <1>1, <1>2, <1>3, PolicyTypes, PTL DEF Spec
=============================================================================
