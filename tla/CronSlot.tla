------------------------------ MODULE CronSlot ------------------------------
(***************************************************************************)
(* One job of the cronjob scheduler shared by a deployment: the slot       *)
(* columns of its row in gst_leases (internal/lease/slot.go) and, on every *)
(* replica, the job's loop, the round it runs and the sweep that finds     *)
(* rounds cut short (cronjob/job.go, cronjob/cronjob.go).                  *)
(*                                                                         *)
(* Instants are the numbers 1, 2, ...; now is the last one the database    *)
(* clock has reached; a replica's clock may be up to Skew off either way.   *)
(* The lease is reduced to what Lease proves of it: a claim makes it live, and *)
(* it may stop being live at any point, since a holder may be paused past  *)
(* its expiry.  A holder token is known by the term its claim started:     *)
(* every claim writes both in one statement, so they name the same claim.  *)
(*                                                                         *)
(* A replica waits for its statement in place; when it gives up on it the  *)
(* statement stays astray and may run at any later point.  Faults bounds   *)
(* the crashes, stops and failed statements of a behaviour, MaxInstant the *)
(* schedule (modelling bounds).                                            *)
(***************************************************************************)
EXTENDS Integers, Sequences

CONSTANTS Replica, MaxInstant, Skew, Faults

ASSUME BoundsAssumption ==
    /\ MaxInstant \in Nat \ {0}
    /\ Skew \in Nat
    /\ Faults \in Nat

VARIABLES
    now,       \* the last instant the database clock has reached, 0 for none
    row,       \* the job's row; term 0 while the table has none
    astray,    \* statements their senders gave up on
    pc,        \* where the loop of each replica is
    next,      \* the instant the loop waits for
    at,        \* the instant it claims or runs
    origin,    \* why: "due", "catchup" or "rerun"
    write,     \* the statement in flight
    lost,      \* the round's lease is known lost
    stopping,  \* the process is shutting down
    found,     \* the channel from the sweep to the loop, one place
    faults,    \* faults so far
    claims,    \* history: the claims on record, in order
    settled    \* history: the instants recorded finished

vars == <<now, row, astray, pc, next, at, origin, write, lost, stopping, found,
          faults, claims, settled>>

loopVars == <<next, at, origin, write>>
procVars == <<lost, stopping, found>>

-----------------------------------------------------------------------------
Instant == 1..MaxInstant

Row == [term : Nat, live : BOOLEAN, slot : Nat, unfinished : Nat, rerun : Nat]

\* The statements that write, with the term (for a claim, the one read before;
\* for the end of a round, its own) and the instant each carries; passed is
\* the last instant to have come, for a finish.
Statement == [kind : {"none", "insert", "slot", "rerun", "finish", "record", "release"},
              term : Nat, slot : Nat, passed : Nat]

\* A claim as the history keeps it.
ClaimOnRecord == [slot : Nat, rerun : BOOLEAN]

Stmt(k, t, s, p) == [kind |-> k, term |-> t, slot |-> s, passed |-> p]

NoStatement == Stmt("none", 0, 0, 0)
NoUnfinished == [term |-> 0, slot |-> 0]

MaxOf(a, b) == IF a >= b THEN a ELSE b

\* A reading of a replica's clock, as the last instant it has reached.
Clock == {c \in 0..MaxInstant : c >= now - Skew /\ c <= now + Skew}

\* The first instant after c, never at or before the one that ran.
NextAfter(c, ran) == MaxOf(c, ran) + 1

\* Mutant: the update does not compare the term it read.
SlotFreeAnyTerm(w) == ~row.live

\* ClaimSlot's update: the name has not changed hands since it was read.
SlotFree(w) == row.term = w.term /\ ~row.live

\* Mutant: the second claim trusts the sweep that the round is unfinished.
RerunFreeAsFound(w) == row.term = w.term /\ ~row.live /\ row.rerun < row.slot

\* ClaimRerun's update: and the instant is still unfinished, not claimed again.
RerunFree(w) ==
    /\ row.term = w.term /\ ~row.live
    /\ row.unfinished = row.slot /\ row.rerun < row.slot

\* Mutant: the end recorded without the name clears whatever mark there is.
StillMarkedAny(w) == row.unfinished # 0

\* Finish without the name: the instant is still the one marked unfinished.
StillMarked(w) == row.unfinished = w.slot

\* The WHERE clause of each statement.
Matches(w) ==
    CASE w.kind = "insert"  -> row.term = 0
      [] w.kind = "slot"    -> SlotFree(w)
      [] w.kind = "rerun"   -> RerunFree(w)
      [] w.kind \in {"finish", "release"} -> row.term = w.term
      [] w.kind = "record"  -> StillMarked(w)

\* Mutant: Finish takes them along by the replica's clock alone.
TakenAlongAhead(w) == IF row.slot < w.passed THEN w.passed ELSE row.slot

\* Finish takes the instants the round overran along, up to the database's now.
TakenAlong(w) == IF row.slot < w.passed /\ w.passed <= now THEN w.passed ELSE row.slot

\* Mutant: Finish gives the name back and leaves the mark.
FinishedMarked(w) == [row EXCEPT !.live = FALSE, !.slot = TakenAlong(w)]

\* The row Finish leaves.
Finished(w) == [row EXCEPT !.live = FALSE, !.unfinished = 0, !.slot = TakenAlong(w)]

\* The row once a statement matched.
Written(w) ==
    CASE w.kind = "insert"  -> [term |-> 1, live |-> TRUE, slot |-> w.slot,
                                unfinished |-> w.slot, rerun |-> 0]
      [] w.kind = "slot"    -> [row EXCEPT !.term = @ + 1, !.live = TRUE,
                                           !.slot = w.slot, !.unfinished = w.slot]
      [] w.kind = "rerun"   -> [row EXCEPT !.term = @ + 1, !.live = TRUE, !.rerun = row.slot]
      [] w.kind = "finish"  -> Finished(w)
      [] w.kind = "record"  -> [row EXCEPT !.unfinished = 0]
      [] w.kind = "release" -> [row EXCEPT !.live = FALSE]

\* The database executes w.
Execute(w) ==
    /\ row' = IF Matches(w) THEN Written(w) ELSE row
    /\ claims' = IF Matches(w) /\ w.kind \in {"insert", "slot", "rerun"}
                 THEN Append(claims, [slot |-> w.slot, rerun |-> w.kind = "rerun"])
                 ELSE claims
    /\ settled' = IF Matches(w) /\ w.kind \in {"finish", "record"}
                  THEN settled \cup {w.slot}
                  ELSE settled

Init ==
    /\ now = 0
    /\ row = [term |-> 0, live |-> FALSE, slot |-> 0, unfinished |-> 0, rerun |-> 0]
    /\ astray = {}
    /\ pc = [r \in Replica |-> "down"]
    /\ next = [r \in Replica |-> 0]
    /\ at = [r \in Replica |-> 0]
    /\ origin = [r \in Replica |-> "due"]
    /\ write = [r \in Replica |-> NoStatement]
    /\ lost = [r \in Replica |-> FALSE]
    /\ stopping = [r \in Replica |-> FALSE]
    /\ found = [r \in Replica |-> NoUnfinished]
    /\ faults = 0
    /\ claims = <<>>
    /\ settled = {}

-----------------------------------------------------------------------------
(***************************************************************************)
(* The loop.                                                               *)
(***************************************************************************)
Goto(r, l) == pc' = [pc EXCEPT ![r] = l]

\* The locals of a round go out of scope.
Clear(r) ==
    /\ at' = [at EXCEPT ![r] = 0]
    /\ origin' = [origin EXCEPT ![r] = "due"]
    /\ write' = [write EXCEPT ![r] = NoStatement]
    /\ lost' = [lost EXCEPT ![r] = FALSE]

\* The loop is over, and with it what the process kept for it.
Exit(r) ==
    /\ Goto(r, "down")
    /\ Clear(r)
    /\ next' = [next EXCEPT ![r] = 0]
    /\ stopping' = [stopping EXCEPT ![r] = FALSE]
    /\ found' = [found EXCEPT ![r] = NoUnfinished]

\* Mutant: the loss of the last round is carried into the next.
LoopHeadLost(r, n) ==
    /\ Goto(r, "waiting")
    /\ at' = [at EXCEPT ![r] = 0]
    /\ origin' = [origin EXCEPT ![r] = "due"]
    /\ write' = [write EXCEPT ![r] = NoStatement]
    /\ next' = [next EXCEPT ![r] = n]
    /\ UNCHANGED procVars

\* Back at the loop's head, to wait for n, or out of it once stopping.
LoopHead(r, n) ==
    IF stopping[r]
    THEN Exit(r)
    ELSE /\ Goto(r, "waiting")
         /\ Clear(r)
         /\ next' = [next EXCEPT ![r] = n]
         /\ UNCHANGED <<stopping, found>>

\* The scheduler starts: the first instant to wait for is the next one.
Start(r) ==
    /\ pc[r] = "down"
    /\ Goto(r, "starting")
    /\ \E c \in Clock : next' = [next EXCEPT ![r] = c + 1]
    /\ UNCHANGED <<now, row, astray, at, origin, write, procVars, faults, claims, settled>>

\* catchUp: the most recent instant, when the job has run and its record is older.
CatchUp(r) ==
    /\ pc[r] = "starting"
    /\ \E c \in Clock :
        IF c >= 1 /\ row.term > 0 /\ row.slot < c
        THEN /\ Goto(r, "reading")
             /\ at' = [at EXCEPT ![r] = c]
             /\ origin' = [origin EXCEPT ![r] = "catchup"]
             /\ UNCHANGED <<next, write, procVars>>
        ELSE LoopHead(r, next[r])
    /\ UNCHANGED <<now, row, astray, faults, claims, settled>>

\* The timer for the next instant fires.
Due(r) ==
    /\ pc[r] = "waiting"
    /\ next[r] \in Instant /\ next[r] <= now + Skew
    /\ Goto(r, "reading")
    /\ at' = [at EXCEPT ![r] = next[r]]
    /\ origin' = [origin EXCEPT ![r] = "due"]
    /\ UNCHANGED <<now, row, astray, next, write, procVars, faults, claims, settled>>

\* After an instant: the loop waits for the first one after it, except that
\* a catch-up or a second run that did not run leaves the wait as it was.
Proceed(r, ran) ==
    \E c \in Clock :
        LoopHead(r, IF ran \/ origin[r] = "due" THEN NextAfter(c, at[r]) ELSE next[r])

\* Mutant: only the lease refuses a claim.
RecordedNever(i) == FALSE

\* The instant is on record already.
Recorded(i) == row.slot >= i

\* ClaimSlot reads the row: refused when the name is held or the instant is on
\* record; the insert or the update that claims it is sent otherwise.
ReadSlot(r) ==
    /\ pc[r] = "reading"
    /\ \/ /\ row.term > 0 /\ (row.live \/ Recorded(at[r]))
          /\ Proceed(r, FALSE)
       \/ /\ row.term = 0 \/ (~row.live /\ ~Recorded(at[r]))
          /\ Goto(r, "writing")
          /\ write' = [write EXCEPT ![r] =
                Stmt(IF row.term = 0 THEN "insert" ELSE "slot", row.term, at[r], 0)]
          /\ UNCHANGED <<next, at, origin, procVars>>
    /\ UNCHANGED <<now, row, astray, faults, claims, settled>>

\* The loop takes the round the sweep handed in and sends its second claim.
TakeFound(r) ==
    /\ pc[r] = "waiting"
    /\ found[r] # NoUnfinished
    /\ Goto(r, "writing")
    /\ at' = [at EXCEPT ![r] = found[r].slot]
    /\ origin' = [origin EXCEPT ![r] = "rerun"]
    /\ write' = [write EXCEPT ![r] = Stmt("rerun", found[r].term, found[r].slot, 0)]
    /\ found' = [found EXCEPT ![r] = NoUnfinished]
    /\ UNCHANGED <<now, row, astray, next, lost, stopping, faults, claims, settled>>

\* The claim is executed and answered: the round starts, under the term after
\* the one read, or the instant is someone else's.
Claim(r) ==
    /\ pc[r] = "writing"
    /\ Execute(write[r])
    /\ IF Matches(write[r])
       THEN /\ Goto(r, "running")
            /\ write' = [write EXCEPT ![r].term = @ + 1]
            /\ UNCHANGED <<next, at, origin, procVars>>
       ELSE Proceed(r, FALSE)
    /\ UNCHANGED <<now, astray, faults>>

\* A round cut short, not claimed a second time yet, under a lease that ended.
CutShort ==
    /\ row.term > 0 /\ ~row.live
    /\ row.unfinished = row.slot /\ row.rerun < row.slot

\* Mutant: the sweep looks only before the loop's first wait.
SweepOnce(r) ==
    /\ pc[r] = "starting" /\ ~stopping[r]
    /\ CutShort
    /\ found[r] = NoUnfinished
    /\ found' = [found EXCEPT ![r] = [term |-> row.term, slot |-> row.slot]]
    /\ UNCHANGED <<now, row, astray, pc, loopVars, lost, stopping, faults, claims, settled>>

\* The sweep looks for a round cut short and hands it in unless one is waiting.
Sweep(r) ==
    /\ pc[r] # "down" /\ ~stopping[r]
    /\ CutShort
    /\ found[r] = NoUnfinished
    /\ found' = [found EXCEPT ![r] = [term |-> row.term, slot |-> row.slot]]
    /\ UNCHANGED <<now, row, astray, pc, loopVars, lost, stopping, faults, claims, settled>>

-----------------------------------------------------------------------------
(***************************************************************************)
(* The round.                                                              *)
(***************************************************************************)
\* The lease is gone in the database: expired, or taken by a later claim.
Gone(r) == row.term # write[r].term \/ ~row.live

\* Hold finds the lease lost: refused a renewal, or out of time to get one.
Lose(r) ==
    /\ pc[r] = "running" /\ ~lost[r]
    /\ lost' = [lost EXCEPT ![r] = TRUE]
    /\ UNCHANGED <<now, row, astray, pc, loopVars, stopping, found, faults, claims, settled>>

\* The round ran to its end: the end is recorded, and with the lease not known
\* lost the name is given back along with it.
RoundEnds(r) ==
    /\ pc[r] = "running"
    /\ Goto(r, "settling")
    /\ IF lost[r]
       THEN write' = [write EXCEPT ![r] = Stmt("record", @.term, at[r], 0)]
       ELSE \E c \in Clock : write' = [write EXCEPT ![r] = Stmt("finish", @.term, at[r], c)]
    /\ UNCHANGED <<now, row, astray, next, at, origin, procVars, faults, claims, settled>>

\* The round returns the ending of its context: cut short.  The instant stays
\* unfinished; the name is given back unless the lease is lost.
RoundCutShort(r) ==
    /\ pc[r] = "running" /\ (stopping[r] \/ lost[r])
    /\ IF lost[r]
       THEN Proceed(r, TRUE)
       ELSE /\ Goto(r, "settling")
            /\ write' = [write EXCEPT ![r] = Stmt("release", @.term, at[r], 0)]
            /\ UNCHANGED <<next, at, origin, procVars>>
    /\ UNCHANGED <<now, row, astray, faults, claims, settled>>

\* Finish or Release is executed and answered.  A finish that finds the name
\* gone records the end without it.
Settle(r) ==
    /\ pc[r] = "settling"
    /\ Execute(write[r])
    /\ IF write[r].kind = "finish" /\ ~Matches(write[r])
       THEN /\ write' = [write EXCEPT ![r] = Stmt("record", @.term, at[r], 0)]
            /\ UNCHANGED <<pc, next, at, origin, procVars>>
       ELSE Proceed(r, TRUE)
    /\ UNCHANGED <<now, astray, faults>>

\* Work under a lost lease that will not stop fails the process.
FailNow(r) ==
    /\ pc[r] = "running" /\ lost[r]
    /\ Exit(r)
    /\ UNCHANGED <<now, row, astray, faults, claims, settled>>

-----------------------------------------------------------------------------
(***************************************************************************)
(* The environment.                                                        *)
(***************************************************************************)
Fault ==
    /\ faults < Faults
    /\ faults' = faults + 1

\* The process is told to stop: the contexts of the loop and its round end.
Stop(r) ==
    /\ pc[r] # "down" /\ ~stopping[r]
    /\ Fault
    /\ IF pc[r] = "waiting"
       THEN Exit(r)
       ELSE /\ stopping' = [stopping EXCEPT ![r] = TRUE]
            /\ UNCHANGED <<pc, loopVars, lost, found>>
    /\ UNCHANGED <<now, row, astray, claims, settled>>

\* What a sender that gives up, or dies, leaves behind.
LeaveAstray(r) ==
    astray' = IF pc[r] \in {"writing", "settling"} THEN astray \cup {write[r]} ELSE astray

\* The process dies; a statement in flight may still run.
Crash(r) ==
    /\ pc[r] # "down"
    /\ Fault
    /\ LeaveAstray(r)
    /\ Exit(r)
    /\ UNCHANGED <<now, row, claims, settled>>

\* A statement fails or times out, or its context ends with the process.  A
\* first claim is tried again while its instant is the last to have come; the
\* end of a round, sent on a context of its own, is left unrecorded.
StatementFails(r) ==
    /\ pc[r] \in {"starting", "reading", "writing", "settling"}
    /\ IF stopping[r] /\ pc[r] # "settling" THEN UNCHANGED faults ELSE Fault
    /\ LeaveAstray(r)
    /\ \/ pc[r] = "starting" /\ LoopHead(r, next[r])
       \/ pc[r] # "starting" /\ Proceed(r, pc[r] = "settling")
       \/ /\ pc[r] \in {"reading", "writing"} /\ origin[r] # "rerun" /\ ~stopping[r]
          /\ \E c \in Clock : c <= at[r]
          /\ Goto(r, "reading")
          /\ write' = [write EXCEPT ![r] = NoStatement]
          /\ UNCHANGED <<next, at, origin, procVars>>
    /\ UNCHANGED <<now, row, claims, settled>>

\* A statement given up on runs after all.
ExecuteAstray(w) ==
    /\ Execute(w)
    /\ astray' = astray \ {w}
    /\ UNCHANGED <<now, pc, loopVars, procVars, faults>>

\* The lease runs out: its holder is gone, cut off or paused.
Expire ==
    /\ row.live
    /\ row' = [row EXCEPT !.live = FALSE]
    /\ UNCHANGED <<now, astray, pc, loopVars, procVars, faults, claims, settled>>

\* The next instant comes.
Tick ==
    /\ now < MaxInstant
    /\ now' = now + 1
    /\ UNCHANGED <<row, astray, pc, loopVars, procVars, faults, claims, settled>>

\* The steps the loop takes as soon as it can.
LoopStep(r) ==
    CatchUp(r) \/ Due(r) \/ ReadSlot(r) \/ TakeFound(r) \/ Claim(r) \/ Settle(r)

Next ==
    \/ Tick \/ Expire
    \/ \E w \in astray : ExecuteAstray(w)
    \/ \E r \in Replica :
        \/ Start(r) \/ LoopStep(r) \/ Sweep(r)
        \/ Lose(r) \/ RoundEnds(r) \/ RoundCutShort(r) \/ FailNow(r)
        \/ Stop(r) \/ Crash(r) \/ StatementFails(r)

Spec == Init /\ [][Next]_vars

\* A deployment restarts its processes; a process takes the steps it can take;
\* the renewals find a lease that is gone, and work that will not stop then
\* fails the process.  A round in charge may run for ever, and time may stop.
Fairness ==
    \A r \in Replica :
        /\ WF_vars(Start(r)) /\ WF_vars(LoopStep(r)) /\ WF_vars(Sweep(r))
        /\ WF_vars(Gone(r) /\ Lose(r)) /\ WF_vars(FailNow(r))

FairSpec == Spec /\ Fairness

-----------------------------------------------------------------------------
(***************************************************************************)
(* Properties.                                                             *)
(***************************************************************************)
\* Every variable has its type, and a loop between rounds keeps nothing of the
\* last one: no statement, no instant and no loss a later round would inherit.
TypeOK ==
    /\ now \in 0..MaxInstant
    /\ row \in Row
    /\ astray \subseteq Statement
    /\ pc \in [Replica -> {"down", "starting", "waiting", "reading", "writing",
                           "running", "settling"}]
    /\ next \in [Replica -> Nat]
    /\ at \in [Replica -> Nat]
    /\ origin \in [Replica -> {"due", "catchup", "rerun"}]
    /\ write \in [Replica -> Statement]
    /\ lost \in [Replica -> BOOLEAN]
    /\ stopping \in [Replica -> BOOLEAN]
    /\ found \in [Replica -> [term : Nat, slot : Nat]]
    /\ faults \in 0..Faults
    /\ claims \in Seq(ClaimOnRecord)
    /\ settled \subseteq Nat
    /\ \A r \in Replica : pc[r] \in {"down", "starting", "waiting"} =>
          at[r] = 0 /\ write[r] = NoStatement /\ ~lost[r]

\* Each instant of a job is claimed once across the deployment, later ones
\* after earlier ones, and only once more, right after, when its round was
\* cut short: whatever claims race, arrive late or are sent again
\* (ClaimSlot, ClaimRerun, claimSlot's retries, catchUp).
ClaimsInOrder ==
    \A i, j \in 1..Len(claims) : i < j =>
        \/ claims[i].slot < claims[j].slot
        \/ claims[i].slot = claims[j].slot /\ ~claims[i].rerun /\ claims[j].rerun

\* An instant whose round is recorded as having run to its end never runs
\* again: neither a claim in flight while the record was written nor one made
\* of a stale sweep's finding wins it, not even once its lease was lost (Finish).
FinishedNeverClaimed ==
    [][\A c \in {claims'[k] : k \in (Len(claims) + 1)..Len(claims')} :
            c.slot \notin settled]_vars

\* No instant the database clock has yet to reach is recorded as skipped: the
\* record is ahead of the database only for an instant a replica claimed,
\* however far ahead the clock of a replica that finishes a round (Finish).
SkipsOnlyThePast ==
    row.slot > now => \E k \in 1..Len(claims) : claims[k].slot = row.slot

\* The mark of an unfinished round names the last instant claimed, and none
\* that is recorded finished: what ClaimSlot gives up, what the sweep finds and
\* what Finish clears without the name is never another claim's.
UnfinishedIsLastClaim ==
    row.unfinished # 0 =>
        /\ row.unfinished = row.slot
        /\ Len(claims) > 0 /\ claims[Len(claims)].slot = row.slot
        /\ row.unfinished \notin settled

\* A round cut short does not stay so: it is claimed a second time, given up
\* for a later instant, or recorded finished after all (sweep, rerun).
CutShortResolved ==
    \A i \in Instant :
        (CutShort /\ row.slot = i)
            ~> ~(row.slot = i /\ row.unfinished = i /\ row.rerun < i)

\* The last instant on record never goes back (slot_ms in gst_leases).
RecordNeverGoesBack == [][row'.slot >= row.slot]_vars

-----------------------------------------------------------------------------
(***************************************************************************)
(* The inductive invariant behind them: the record against the claims, and *)
(* every statement and finding in flight against the record of its term.   *)
(***************************************************************************)

\* The instant claimed last.
Last == IF Len(claims) = 0 THEN 0 ELSE claims[Len(claims)].slot

\* Every claim starts a term; the record is at or past the last instant
\* claimed, and nothing later is marked, claimed again or finished.
RecordInv ==
    /\ row.term = Len(claims)
    /\ Last <= row.slot
    /\ row.term > 0 => Last > 0
    /\ row.unfinished # 0 => row.unfinished = Last /\ row.slot = Last /\ Last \notin settled
    /\ Len(claims) > 0 /\ claims[Len(claims)].rerun => row.rerun = Last
    /\ row.slot = Last \/ row.slot <= now
    /\ \A i \in settled : i <= Last

\* What carries instant s in the name of term t: that term's own instant, as
\* long as no later claim was made.
OfTerm(t, s) ==
    /\ t \in 1..row.term
    /\ s > 0
    /\ t = row.term => s = Last

\* A statement in flight: a first claim carries an instant later than the one
\* claimed in the term it read.
Fits(w) ==
    /\ w.kind # "none"
    /\ w.kind = "insert" => w.term = 0 /\ w.slot > 0
    /\ w.kind = "slot" => w.term \in 1..row.term /\ (w.term = row.term => w.slot > Last)
    /\ w.kind \notin {"insert", "slot"} => OfTerm(w.term, w.slot)

\* What a replica carries.
InFlight(r) ==
    /\ found[r] # NoUnfinished => OfTerm(found[r].term, found[r].slot)
    /\ pc[r] # "down" => next[r] > 0
    /\ pc[r] \in {"reading", "writing"} => at[r] > 0
    /\ pc[r] = "writing" => Fits(write[r]) /\ write[r].slot = at[r]
                             /\ write[r].kind \in {"insert", "slot", "rerun"}
    /\ pc[r] = "running" => OfTerm(write[r].term, at[r])
    /\ pc[r] = "settling" => Fits(write[r]) /\ write[r].slot = at[r]
                              /\ write[r].kind \in {"finish", "record", "release"}

FlightInv ==
    /\ \A w \in astray : Fits(w)
    /\ \A r \in Replica : InFlight(r)

SlotInv == TypeOK /\ RecordInv /\ ClaimsInOrder /\ FlightInv

-----------------------------------------------------------------------------
\* The instant claimed last was claimed a second time.
Again == Len(claims) > 0 /\ claims[Len(claims)].rerun

Abstract == INSTANCE OneRoundEach WITH latest <- Last, again <- Again, done <- settled

\* The deployment implements one round for each instant: whatever replica,
\* statement or sweep is late, a claim is of a later instant or the one second
\* claim of the latest while that is unfinished, and a round's end recorded
\* late is never another instant's (ClaimSlot, ClaimRerun, Finish).
ImplementsOneRoundEach == Abstract!Spec
=============================================================================
