------------------------------ MODULE Policies ------------------------------
(***************************************************************************)
(* The policy set of authz/rbac in one process, against the rules stored   *)
(* in the database: mutate writes a batch in a transaction and replays it  *)
(* in memory once that has committed; a batch that was overtaken, or whose *)
(* removals affected storage and memory differently, has the set rebuilt   *)
(* from storage; the rebuild that fails is retried by a goroutine of its   *)
(* own, and a periodic reload reconciles the two whatever is known.        *)
(*                                                                         *)
(* A rule is a member of Rule.  A removal by values and one by filter are  *)
(* both the set of rules they name.  A batch refused by validate changes   *)
(* nothing and is left out.  The statements of a transaction see what is   *)
(* committed and what their own transaction wrote, and wait for the rules   *)
(* another transaction holds.  Which those are is the backend's: see       *)
(* LocksNamed.  Other replicas and repairs by hand write at any time.      *)
(***************************************************************************)
EXTENDS Naturals, Integers, Sequences, FiniteSets

CONSTANTS
    Rule,       \* the rules
    Batch,      \* the calls of mutate
    Changes,    \* the mutations a call may make: sequences of Mutation
    LocksNamed, \* whether a statement holds every rule it names, stored or
                \* not (InnoDB, SQLite), or the rows it changes only (PostgreSQL)
    Retry,      \* the retry goroutine and
    Periodic,   \* the periodic one, as owners of the policy lock
    NoOne,      \* the owner of the free lock
    MaxFaults   \* the modelling bound of what goes wrong or comes from outside

Mutation == [op : {"add", "remove"}, rules : SUBSET Rule]

ASSUME PoliciesAssumption ==
    /\ Changes \subseteq Seq(Mutation)
    /\ \A ms \in Changes : Len(ms) > 0
    /\ \A ms \in Changes : \A i \in DOMAIN ms : IsFiniteSet(ms[i].rules)
    /\ LocksNamed \in BOOLEAN
    /\ MaxFaults \in Nat
    /\ Retry \notin Batch /\ Periodic \notin Batch /\ NoOne \notin Batch
    /\ Retry # Periodic /\ NoOne # Retry /\ NoOne # Periodic

\* Every caller of mutate removes before it adds.
ASSUME RemovesFirst ==
    \A ms \in Changes : \A i, j \in DOMAIN ms :
        i < j /\ ms[i].op = "add" => ms[j].op = "add"

VARIABLES
    store,      \* the rules committed
    rules,      \* policyRules
    index,      \* what rebuildDerived last built the decisions from
    mu,         \* the owner of policyMu's write lock
    snap,       \* what loadPolicies read, while its caller has the lock
    sequence,   \* policySequence
    applied,    \* appliedSequence
    batch,      \* the calls of mutate
    diverged,   \* policiesDiverged
    retry,      \* the retry goroutine
    blind,      \* whether rules were stored that no replay tells of, since
                \* they were last read with no call in flight
    ever,       \* the rules that were ever committed
    always,     \* the rules that were committed at all times
    faults      \* how often something went wrong or came from outside

vars == <<store, rules, index, mu, snap, sequence, applied, batch, diverged,
          retry, blind, ever, always, faults>>

memory  == <<rules, index, mu, snap, applied>>
storage == <<store, ever, always>>
flags   == <<diverged, retry>>

-----------------------------------------------------------------------------
Owner == Batch \cup {Retry, Periodic, NoOne}

\* A call is at a statement until "commit", in its after-commit action until
\* "done".  "publish" and "schedule" follow a rebuild that failed.
Stage == {"idle", "write", "number", "commit", "replay", "replaying",
          "recover", "loading", "publish", "schedule", "done"}

Open      == {"write", "number", "commit"}
Unsettled == {"replay", "replaying", "recover", "loading", "publish"}

Call == [pc : Stage, ms : Seq(Mutation), at : Nat, counts : Seq(Int),
         seq : Nat, ins : SUBSET Rule, del : SUBSET Rule, held : SUBSET Rule]

storedCountUnknown == -1

\* A call without a batch: not begun, or with no more use for it because that
\* was replayed, given up or rolled back.
Bare(stage) == [pc |-> stage, ms |-> <<>>, at |-> 1, counts |-> <<>>, seq |-> 0,
                ins |-> {}, del |-> {}, held |-> {}]

At(b, stage) == batch[b].pc = stage

Goto(b, stage) == batch' = [batch EXCEPT ![b].pc = stage]

Leave(b, stage) == batch' = [batch EXCEPT ![b] = Bare(stage)]

Current(b) == batch[b].ms[batch[b].at]

\* What the statements of b's transaction find.
View(b) == (store \ batch[b].del) \cup batch[b].ins

\* The transactions open beside b's, and the rules they hold.
Others(b) == {c \in Batch \ {b} : batch[c].pc \in Open}

HeldByOthers(b) == UNION {batch[c].held : c \in Others(b)}

\* The rows a delete of b may have to wait for.  One that sees committed rows
\* only passes by what an uncommitted insert is adding.
Rows(b) == View(b) \cup (IF LocksNamed THEN UNION {batch[c].ins : c \in Others(b)} ELSE {})

Fault == faults < MaxFaults /\ faults' = faults + 1

Stored(rs) ==
    /\ store' = rs
    /\ ever' = ever \cup rs
    /\ always' = always \cap rs

\* Init of the package: the set is loaded and installed before it is reached.
Init ==
    /\ store \in SUBSET Rule
    /\ rules = store /\ index = store
    /\ mu = NoOne /\ snap = {}
    /\ sequence = 0 /\ applied = 0
    /\ batch = [b \in Batch |-> Bare("idle")]
    /\ diverged = FALSE /\ retry = "off"
    /\ blind = FALSE
    /\ ever = store /\ always = store
    /\ faults = 0

-----------------------------------------------------------------------------
(* The database half *)

\* The call opens its transaction, or joins its caller's.
Mutate(b) ==
    /\ At(b, "idle")
    /\ \E ms \in Changes : batch' = [batch EXCEPT ![b].pc = "write", ![b].ms = ms]
    /\ UNCHANGED <<memory, storage, flags, sequence, blind, faults>>

\* One statement of applyToStore ran, and count is what it reports.
Wrote(b, ins, del, held, count) ==
    /\ batch' = [batch EXCEPT
            ![b].ins = ins, ![b].del = del, ![b].held = @ \cup held,
            ![b].counts = Append(@, count),
            ![b].at = IF batch[b].at = Len(batch[b].ms) THEN 1 ELSE @ + 1,
            ![b].pc = IF batch[b].at = Len(batch[b].ms) THEN "number" ELSE @]
    /\ UNCHANGED <<memory, storage, flags, sequence, blind, faults>>

\* An insert ignores the rules already there, and waits for a transaction that
\* inserts or deletes one of its own.  On PostgreSQL it holds none that is there.
AddPolicies(b) ==
    LET rs    == Current(b).rules
        fresh == rs \ View(b)
    IN  /\ At(b, "write") /\ Current(b).op = "add"
        /\ rs \cap HeldByOthers(b) = {}
        /\ Wrote(b, batch[b].ins \cup fresh, batch[b].del,
                 IF LocksNamed THEN rs ELSE fresh, storedCountUnknown)

\* A delete reports how many rows went.  A removal by values is a delete for each
\* rule, all of which are one here: every caller names a single rule, or a filter.
RemovePolicies(b) ==
    LET rs   == Current(b).rules
        gone == rs \cap View(b)
    IN  /\ At(b, "write") /\ Current(b).op = "remove"
        /\ rs \cap Rows(b) \cap HeldByOthers(b) = {}
        /\ Wrote(b, batch[b].ins \ gone, batch[b].del \cup gone,
                 IF LocksNamed THEN rs ELSE gone, Cardinality(gone))

\* Numbered after the rows are written and before the commit; AfterCommit
\* registers the memory half.
Number(b) ==
    /\ At(b, "number")
    /\ sequence' = sequence + 1
    /\ batch' = [batch EXCEPT ![b].seq = sequence + 1, ![b].pc = "commit"]
    /\ UNCHANGED <<memory, storage, flags, blind, faults>>

Commit(b) ==
    /\ At(b, "commit")
    /\ Stored(View(b))
    /\ batch' = [batch EXCEPT ![b].pc = "replay",
                    ![b].ins = {}, ![b].del = {}, ![b].held = {}]
    /\ UNCHANGED <<memory, flags, sequence, blind, faults>>

\* The transaction commits and its memory half never runs: the answer of the
\* commit was lost, or an action registered before it failed.
CommitUnheard(b) ==
    /\ At(b, "commit")
    /\ Fault
    /\ Stored(View(b))
    /\ blind' = TRUE
    /\ Leave(b, "done")
    /\ UNCHANGED <<memory, flags, sequence>>

\* Mutant: the actions run from a defer, for a transaction that never happened.
RollbackHeard(b) ==
    /\ batch[b].pc \in Open
    /\ IF At(b, "commit") THEN Goto(b, "replay") ELSE Leave(b, "done")
    /\ UNCHANGED <<memory, storage, flags, sequence, blind, faults>>

\* A statement, the caller's own work or the commit failed, or the database
\* broke a cycle of waits.
Rollback(b) ==
    /\ batch[b].pc \in Open
    /\ Leave(b, "done")
    /\ UNCHANGED <<memory, storage, flags, sequence, blind, faults>>

\* Another replica, a repair or a restore writes rules.
Foreign ==
    /\ Fault
    /\ \E r \in Rule :
        /\ \A b \in Batch : batch[b].pc \in Open => r \notin batch[b].held
        /\ Stored(IF r \in store THEN store \ {r} ELSE store \cup {r})
    /\ blind' = TRUE
    /\ UNCHANGED <<memory, flags, sequence, batch>>

-----------------------------------------------------------------------------
(* The memory half *)

\* Mutant: every batch is replayed, in whatever order.
OvertakenNever(b) == FALSE

Overtaken(b) == batch[b].seq < applied

\* Mutant: the early return keeps the lock.
TakeLockKept(b) ==
    /\ At(b, "replay") /\ mu = NoOne
    /\ applied' = IF Overtaken(b) THEN applied ELSE batch[b].seq
    /\ IF Overtaken(b) THEN Leave(b, "recover") ELSE Goto(b, "replaying")
    /\ mu' = b
    /\ UNCHANGED <<rules, index, snap, storage, flags, sequence, blind, faults>>

\* applyMutations takes the lock, and gives it up at once for a batch a newer
\* one has overtaken.
TakeLock(b) ==
    /\ At(b, "replay") /\ mu = NoOne
    /\ applied' = IF Overtaken(b) THEN applied ELSE batch[b].seq
    /\ IF Overtaken(b)
       THEN Leave(b, "recover") /\ UNCHANGED mu
       ELSE Goto(b, "replaying") /\ mu' = b
    /\ UNCHANGED <<rules, index, snap, storage, flags, sequence, blind, faults>>

Replayed(m) == IF m.op = "add" THEN rules \cup m.rules ELSE rules \ m.rules

\* policySet reports what a mutation affected.
Affected(m) == IF m.op = "add" THEN m.rules \ rules ELSE m.rules \cap rules

Matches(b) ==
    \/ batch[b].counts[batch[b].at] = storedCountUnknown
    \/ batch[b].counts[batch[b].at] = Cardinality(Affected(Current(b)))

\* The next mutation is replayed; the last one rebuilds the decisions.  One
\* that affected storage and memory differently ends the replay where it is.
Replay(b) ==
    /\ At(b, "replaying")
    /\ rules' = Replayed(Current(b))
    /\ IF ~Matches(b)
       THEN Leave(b, "recover") /\ mu' = NoOne /\ UNCHANGED index
       ELSE IF batch[b].at = Len(batch[b].ms)
       THEN Leave(b, "done") /\ mu' = NoOne /\ index' = rules'
       ELSE batch' = [batch EXCEPT ![b].at = @ + 1] /\ UNCHANGED <<mu, index>>
    /\ UNCHANGED <<snap, applied, storage, flags, sequence, blind, faults>>

-----------------------------------------------------------------------------
(* reload, by the batch that needs it, by the retry or on the interval *)

\* The set is read with the lock held.
Load(o) ==
    /\ mu = NoOne
    /\ mu' = o
    /\ snap' = store
    /\ blind' = (blind /\ \E b \in Batch : batch[b].pc \in Open \cup {"replay"})
    /\ UNCHANGED <<rules, index, applied, storage, diverged, sequence, faults>>

\* The set is installed and the divergence over.
Install(o) ==
    /\ mu = o
    /\ rules' = snap /\ index' = snap
    /\ mu' = NoOne /\ snap' = {}
    /\ diverged' = FALSE
    /\ UNCHANGED <<applied, storage, sequence, blind, faults>>

\* The read fails, or reloadTimeout ends it.
LoadFails ==
    /\ mu = NoOne
    /\ Fault
    /\ UNCHANGED <<memory, storage, diverged, sequence, blind>>

RecoverLoad(b)  == At(b, "recover") /\ Load(b) /\ Goto(b, "loading") /\ UNCHANGED retry
Recovered(b)    == At(b, "loading") /\ Install(b) /\ Leave(b, "done") /\ UNCHANGED retry
RecoverFails(b) == At(b, "recover") /\ LoadFails /\ Goto(b, "publish") /\ UNCHANGED retry

\* recoverPolicies records the failed rebuild, with no lock held, ...
PublishDivergence(b) ==
    /\ At(b, "publish")
    /\ diverged' = TRUE
    /\ Goto(b, "schedule")
    /\ UNCHANGED <<memory, storage, retry, sequence, blind, faults>>

\* ... and starts the retry goroutine unless one still counts as running.
ScheduleRetry(b) ==
    /\ At(b, "schedule")
    /\ retry' = IF retry = "off" THEN "asleep" ELSE retry
    /\ Leave(b, "done")
    /\ UNCHANGED <<memory, storage, diverged, sequence, blind, faults>>

RetryWakes ==
    /\ retry = "asleep"
    /\ retry' = IF diverged THEN "awake" ELSE "ending"
    /\ UNCHANGED <<memory, storage, diverged, sequence, batch, blind, faults>>

RetryLoad  == retry = "awake" /\ Load(Retry) /\ retry' = "loading" /\ UNCHANGED batch
RetryDone  == retry = "loading" /\ Install(Retry) /\ retry' = "ending" /\ UNCHANGED batch
RetryFails == retry = "awake" /\ LoadFails /\ retry' = "asleep" /\ UNCHANGED batch

\* The goroutine stops counting as running only as it returns.
RetryEnds ==
    /\ retry = "ending"
    /\ retry' = "off"
    /\ UNCHANGED <<memory, storage, diverged, sequence, batch, blind, faults>>

\* Mutant: only a divergence that is known is put right.
PeriodicLoadDiverged == diverged /\ Load(Periodic) /\ UNCHANGED <<batch, retry>>

\* A tick of startPeriodicReload, or a call of ReloadPolicies.  A read that
\* fails changes nothing.
PeriodicLoad == Load(Periodic) /\ UNCHANGED <<batch, retry>>
PeriodicDone == Install(Periodic) /\ UNCHANGED <<batch, retry>>

-----------------------------------------------------------------------------
CallStep(b) ==
    \/ AddPolicies(b) \/ RemovePolicies(b) \/ Number(b)
    \/ Commit(b) \/ CommitUnheard(b) \/ Rollback(b)
    \/ TakeLock(b) \/ Replay(b)
    \/ RecoverLoad(b) \/ Recovered(b) \/ RecoverFails(b)
    \/ PublishDivergence(b) \/ ScheduleRetry(b)

RetryStep == RetryWakes \/ RetryLoad \/ RetryDone \/ RetryFails \/ RetryEnds

PeriodicStep == PeriodicLoad \/ PeriodicDone

Next ==
    \/ \E b \in Batch : Mutate(b) \/ CallStep(b)
    \/ RetryStep \/ PeriodicStep
    \/ Foreign

\* A call once begun goes on, the goroutines are scheduled, and a mutex hands
\* the lock to everyone who keeps waiting for it.
Spec ==
    /\ Init /\ [][Next]_vars
    /\ \A b \in Batch : WF_vars(CallStep(b))
    /\ \A b \in Batch : SF_vars(TakeLock(b)) /\ SF_vars(RecoverLoad(b))
    /\ WF_vars(RetryStep)
    /\ SF_vars(PeriodicLoad) /\ WF_vars(PeriodicDone)

-----------------------------------------------------------------------------
(* Properties *)

\* Every variable has its type, and the lock is with the actor that is using it.
TypeOK ==
    /\ store \in SUBSET Rule /\ rules \in SUBSET Rule /\ index \in SUBSET Rule
    /\ snap \in SUBSET Rule /\ ever \in SUBSET Rule /\ always \in SUBSET Rule
    /\ mu \in Owner
    /\ sequence \in Nat /\ applied \in 0 .. sequence
    /\ batch \in [Batch -> Call]
    /\ \A b \in Batch : mu = b <=> batch[b].pc \in {"replaying", "loading"}
    /\ mu = Retry <=> retry = "loading"
    /\ diverged \in BOOLEAN /\ blind \in BOOLEAN
    /\ retry \in {"off", "asleep", "awake", "loading", "ending"}
    /\ faults \in 0 .. MaxFaults

\* With every committed batch replayed or recovered, no failure recorded and
\* nothing stored behind its back, the process decides from the rules that are
\* stored: no order in which batches number, commit, replay and reload leaves
\* an older answer standing.
InStep ==
    mu = NoOne /\ ~diverged /\ ~blind /\ (\A b \in Batch : batch[b].pc \notin Unsettled)
        => rules = store /\ index = store

\* A decision never rests on a rule that was not committed: a batch rolled
\* back leaves nothing behind in memory.
GrantsWereStored == rules \cup index \subseteq ever

\* Decisions see a replacement whole, as replacePermissions says: a rule
\* stored at all times is not missing from them.
NoGap == always \subseteq index

\* Once no more batches come and the database answers, the process ends up in
\* step for good, whatever was stored behind its back, and takes its
\* divergence back.
Settles == <>[](~diverged /\ rules = store /\ index = store)
=============================================================================
