------------------------------- MODULE Lease -------------------------------
(***************************************************************************)
(* The lease protocol of internal/lease for one coordinated name: its row  *)
(* in gst_leases, the statements on their way to the database, and the     *)
(* claims of the name, each known by the token newHolder mints for it.     *)
(*                                                                         *)
(* A claim goes through Claim, Hold and Run and ends with Release, the way *)
(* lock.TryRun and leader.lead drive it.  A statement is sent in one step, *)
(* executed by the database in a later one, and answered in a third, so a  *)
(* statement may run long after its sender gave up on it, crashed or       *)
(* moved on, or never.  A process is "prompt" while its timers fire in the *)
(* tick they are due; it may be paused at any point and, once resumed, is  *)
(* "late" for good.                                                        *)
(*                                                                         *)
(* now is the database's clock; the monotonic clock of every process runs  *)
(* at the same rate.  MaxTime bounds it (a modelling bound).               *)
(***************************************************************************)
EXTENDS Integers

CONSTANTS
    Holder,         \* the tokens: one per claim, never reused
    NoHolder,       \* the holder of a name the table has never seen
    LeaseDuration,  \* how long a claim or renewal holds the name
    RenewInterval,  \* the cadence of the renewals
    LocalDeadline,  \* how long a holder goes on without a renewal
    StepDownGrace,  \* how long work may take to return after the loss
    MaxTime         \* the modelling bound of the clock

ASSUME TimingAssumption ==
    /\ LeaseDuration \in Nat \ {0}
    /\ RenewInterval \in Nat \ {0}
    /\ LocalDeadline \in Nat \ {0}
    /\ StepDownGrace \in Nat \ {0}
    /\ LocalDeadline + StepDownGrace <= LeaseDuration
    /\ MaxTime \in Nat

ASSUME HolderAssumption == NoHolder \notin Holder

VARIABLES
    now,        \* the time
    row,        \* the name's row; term 0 while the table has none
    sent,       \* the statements sent and not executed
    stage,      \* where each claim is in its life
    answer,     \* what the claim's caller knows of the statement it awaits
    last,       \* when the last successful renewal was sent, the claim first
    attempted,  \* when the last attempt was sent
    term,       \* the term on the handle, 0 without a handle
    lostAt,     \* when the lease was found lost
    pace        \* whether the claim's process keeps up with its timers

vars == <<now, row, sent, stage, answer, last, attempted, term, lostAt, pace>>

-----------------------------------------------------------------------------
Kind == {"claim", "insert", "renew", "release"}

Statement == [kind : Kind, by : Holder, at : Nat]

\* "claiming" .. "reading" are inside Claim, "holding" .. "failing" inside
\* Run with the work running, "releasing" inside Release.
Stage == {"idle", "claiming", "inserting", "reading", "refused", "failed",
          "holding", "lost", "failing", "releasing", "released", "done", "dead"}

Claiming == {"claiming", "inserting", "reading"}
Working  == {"holding", "lost", "failing"}
Alive    == Claiming \cup Working \cup {"releasing"}

\* The statement a claim's caller waits for at each stage.
StatementOf(st) ==
    CASE st = "claiming"  -> "claim"
      [] st = "inserting" -> "insert"
      [] st = "holding"   -> "renew"
      [] st = "releasing" -> "release"
      [] OTHER            -> "none"

Row == [holder : Holder \cup {NoHolder}, term : Nat, expires : Nat]

MinOf(a, b) == IF a <= b THEN a ELSE b

\* The bound of one statement: half the local deadline (the floor of a second
\* is below it with the timings the protocol runs with).
AttemptBound == LocalDeadline \div 2

\* Mutant: the timer is not cut to the deadline.
NextRenewalOversleeps(h) == attempted[h] + RenewInterval

\* When the holder's timer fires next.
NextRenewal(h) == MinOf(attempted[h] + RenewInterval, last[h] + LocalDeadline)

\* When the attempt in flight times out.
AttemptEnds(h) == MinOf(attempted[h] + AttemptBound, last[h] + LocalDeadline)

\* The row the transaction guard looks for.
VerifyPasses(h) == row.holder = h /\ row.expires > now

\* h's caller is told it holds the name and its deadline has not passed.
InCharge(h) == stage[h] = "holding" /\ now < last[h] + LocalDeadline

Running(h) == pace[h] # "paused"

-----------------------------------------------------------------------------
Init ==
    /\ now = 0
    /\ row = [holder |-> NoHolder, term |-> 0, expires |-> 0]
    /\ sent = {}
    /\ stage = [h \in Holder |-> "idle"]
    /\ answer = [h \in Holder |-> "none"]
    /\ last = [h \in Holder |-> 0]
    /\ attempted = [h \in Holder |-> 0]
    /\ term = [h \in Holder |-> 0]
    /\ lostAt = [h \in Holder |-> 0]
    /\ pace = [h \in Holder |-> "prompt"]

(***************************************************************************)
(* The database executes a statement.  Its answer reaches the sender only  *)
(* if the sender still waits for this very statement.                      *)
(***************************************************************************)
Awaited(s) ==
    /\ answer[s.by] = "awaited"
    /\ StatementOf(stage[s.by]) = s.kind
    /\ attempted[s.by] = s.at

Executed(s, matched) ==
    /\ sent' = sent \ {s}
    /\ answer' = IF Awaited(s)
                 THEN [answer EXCEPT ![s.by] = IF matched THEN "row" ELSE "norow"]
                 ELSE answer
    /\ UNCHANGED <<now, stage, last, attempted, term, lostAt, pace>>

\* Mutant: the claim does not ask whether the lease has expired.
ExecuteClaimUnasked(s) ==
    /\ s.kind = "claim"
    /\ LET free == row.term > 0 IN
        /\ row' = IF free
                  THEN [holder |-> s.by, term |-> row.term + 1, expires |-> now + LeaseDuration]
                  ELSE row
        /\ Executed(s, free)

\* Mutant: the claim leaves the term as it is.
ExecuteClaimSameTerm(s) ==
    /\ s.kind = "claim"
    /\ LET free == row.term > 0 /\ row.expires <= now IN
        /\ row' = IF free
                  THEN [row EXCEPT !.holder = s.by, !.expires = now + LeaseDuration]
                  ELSE row
        /\ Executed(s, free)

\* UPDATE ... SET holder, term = term + 1 WHERE expires_at_ms <= now
ExecuteClaim(s) ==
    /\ s.kind = "claim"
    /\ LET free == row.term > 0 /\ row.expires <= now IN
        /\ row' = IF free
                  THEN [holder |-> s.by, term |-> row.term + 1, expires |-> now + LeaseDuration]
                  ELSE row
        /\ Executed(s, free)

\* Mutant: the insert holds the name for the local deadline only.
ExecuteInsertShort(s) ==
    /\ s.kind = "insert"
    /\ LET unseen == row.term = 0 IN
        /\ row' = IF unseen
                  THEN [holder |-> s.by, term |-> 1, expires |-> now + LocalDeadline]
                  ELSE row
        /\ Executed(s, unseen)

\* INSERT ... ON CONFLICT DO NOTHING
ExecuteInsert(s) ==
    /\ s.kind = "insert"
    /\ LET unseen == row.term = 0 IN
        /\ row' = IF unseen
                  THEN [holder |-> s.by, term |-> 1, expires |-> now + LeaseDuration]
                  ELSE row
        /\ Executed(s, unseen)

\* Mutant: the renewal revives a lease that has ended.
ExecuteRenewRevives(s) ==
    /\ s.kind = "renew"
    /\ LET mine == row.holder = s.by IN
        /\ row' = IF mine THEN [row EXCEPT !.expires = now + LeaseDuration] ELSE row
        /\ Executed(s, mine)

\* UPDATE ... SET expires_at_ms = now + duration WHERE holder AND expires_at_ms > now
ExecuteRenew(s) ==
    /\ s.kind = "renew"
    /\ LET mine == row.holder = s.by /\ row.expires > now IN
        /\ row' = IF mine THEN [row EXCEPT !.expires = now + LeaseDuration] ELSE row
        /\ Executed(s, mine)

\* UPDATE ... SET expires_at_ms = 0 WHERE holder
ExecuteRelease(s) ==
    /\ s.kind = "release"
    /\ LET mine == row.holder = s.by IN
        /\ row' = IF mine THEN [row EXCEPT !.expires = 0] ELSE row
        /\ Executed(s, mine)

(***************************************************************************)
(* The claimant's side.                                                    *)
(***************************************************************************)
Send(k, h) ==
    /\ sent' = sent \cup {[kind |-> k, by |-> h, at |-> attempted'[h]]}
    /\ answer' = [answer EXCEPT ![h] = "awaited"]

Goto(h, st) == stage' = [stage EXCEPT ![h] = st]

Forget(h) == answer' = [answer EXCEPT ![h] = "none"]

\* Claim mints the token, notes the time and sends the UPDATE.
Claim(h) ==
    /\ stage[h] = "idle"
    /\ Goto(h, "claiming")
    /\ last' = [last EXCEPT ![h] = now]
    /\ attempted' = [attempted EXCEPT ![h] = now]
    /\ Send("claim", h)
    /\ UNCHANGED <<now, row, term, lostAt, pace>>

\* The UPDATE matched a row: its term is read next.
ClaimWon(h) ==
    /\ stage[h] = "claiming" /\ answer[h] = "row" /\ Running(h)
    /\ Goto(h, "reading")
    /\ Forget(h)
    /\ UNCHANGED <<now, row, sent, last, attempted, term, lostAt, pace>>

\* It matched none: the name is held, or new and the INSERT is the claim.
ClaimMissed(h) ==
    /\ stage[h] = "claiming" /\ answer[h] = "norow" /\ Running(h)
    /\ Goto(h, "inserting")
    /\ attempted' = attempted
    /\ Send("insert", h)
    /\ UNCHANGED <<now, row, last, term, lostAt, pace>>

\* Claim returns a handle; Hold and Run start.
Held(h, t) ==
    /\ Goto(h, "holding")
    /\ term' = [term EXCEPT ![h] = t]
    /\ Forget(h)
    /\ UNCHANGED <<now, row, sent, last, attempted, lostAt, pace>>

\* Claim returns without a handle.
NotHeld(h, st) ==
    /\ Goto(h, st)
    /\ Forget(h)
    /\ UNCHANGED <<now, row, sent, last, attempted, term, lostAt, pace>>

\* handleOf reads the term the claim started, if the name is still the claim's.
ReadTerm(h) ==
    /\ stage[h] = "reading" /\ Running(h)
    /\ \/ row.holder = h /\ Held(h, row.term)
       \/ row.holder # h /\ NotHeld(h, "failed")

InsertAnswered(h) ==
    /\ stage[h] = "inserting" /\ Running(h)
    /\ \/ answer[h] = "row" /\ Held(h, 1)
       \/ answer[h] = "norow" /\ NotHeld(h, "refused")

\* A statement of the claim fails or times out; it may still run later.
ClaimFails(h) ==
    /\ stage[h] \in Claiming /\ Running(h)
    /\ NotHeld(h, "failed")

-----------------------------------------------------------------------------
\* Mutant: the loss leaves the attempt in flight awaited.
LoseAwaiting(h) ==
    /\ Goto(h, "lost")
    /\ lostAt' = [lostAt EXCEPT ![h] = now]
    /\ UNCHANGED answer

\* lose: the loss is on the handle, the work's context ends, renewals stop.
Lose(h) ==
    /\ Goto(h, "lost")
    /\ lostAt' = [lostAt EXCEPT ![h] = now]
    /\ Forget(h)

\* The renewal timer fires: past the deadline the lease is lost.
RenewDue(h) ==
    /\ stage[h] = "holding" /\ answer[h] = "none" /\ Running(h)
    /\ now >= NextRenewal(h)
    /\ \/ /\ now >= last[h] + LocalDeadline
          /\ Lose(h)
          /\ UNCHANGED <<sent, attempted>>
       \/ /\ now < last[h] + LocalDeadline
          /\ attempted' = [attempted EXCEPT ![h] = now]
          /\ Send("renew", h)
          /\ UNCHANGED <<stage, lostAt>>
    /\ UNCHANGED <<now, row, last, term, pace>>

\* What follows an attempt that did not find the lease lost: the deadline is
\* checked against the last renewal that succeeded, renewed.
AfterAttempt(h, renewed) ==
    /\ IF now >= renewed + LocalDeadline
       THEN Lose(h)
       ELSE Forget(h) /\ UNCHANGED <<stage, lostAt>>
    /\ UNCHANGED <<now, row, sent, attempted, term, pace>>

\* Mutant: the renewal counts from its answer, not from when it was sent.
RenewSucceedsFromAnswer(h) ==
    /\ stage[h] = "holding" /\ answer[h] = "row" /\ Running(h)
    /\ last' = [last EXCEPT ![h] = now]
    /\ AfterAttempt(h, now)

RenewSucceeds(h) ==
    /\ stage[h] = "holding" /\ answer[h] = "row" /\ Running(h)
    /\ last' = [last EXCEPT ![h] = attempted[h]]
    /\ AfterAttempt(h, attempted[h])

\* The attempt fails or times out, whether or not the database ran it.
RenewFails(h) ==
    /\ stage[h] = "holding" /\ answer[h] # "none" /\ Running(h)
    /\ last' = last
    /\ AfterAttempt(h, last[h])

RenewRefused(h) ==
    /\ stage[h] = "holding" /\ answer[h] = "norow" /\ Running(h)
    /\ Lose(h)
    /\ UNCHANGED <<now, row, sent, last, attempted, term, pace>>

-----------------------------------------------------------------------------
\* The work returns.  The renewals stop, one in flight cut short; the name is
\* given back unless the lease is known lost.
WorkReturns(h) ==
    /\ stage[h] \in Working /\ Running(h)
    /\ IF stage[h] = "holding"
       THEN /\ Goto(h, "releasing")
            /\ attempted' = [attempted EXCEPT ![h] = now]
            /\ Send("release", h)
       ELSE /\ Goto(h, "done")
            /\ UNCHANGED <<sent, answer, attempted>>
    /\ UNCHANGED <<now, row, last, term, lostAt, pace>>

\* Release is answered, or given up on.
ReleaseReturns(h) ==
    /\ stage[h] = "releasing" /\ Running(h)
    /\ \/ answer[h] = "row" /\ NotHeld(h, "released")
       \/ NotHeld(h, "done")

\* The work has not returned within the grace: the process fails.
FailNow(h) ==
    /\ stage[h] = "lost" /\ Running(h)
    /\ now >= lostAt[h] + StepDownGrace
    /\ Goto(h, "failing")
    /\ UNCHANGED <<now, row, sent, answer, last, attempted, term, lostAt, pace>>

\* The process dies, or a failing one exits.
Exit(h) ==
    /\ stage[h] \in Alive
    /\ NotHeld(h, "dead")

Pause(h) ==
    /\ stage[h] \in Alive /\ Running(h)
    /\ pace' = [pace EXCEPT ![h] = "paused"]
    /\ UNCHANGED <<now, row, sent, stage, answer, last, attempted, term, lostAt>>

Resume(h) ==
    /\ pace[h] = "paused"
    /\ pace' = [pace EXCEPT ![h] = "late"]
    /\ UNCHANGED <<now, row, sent, stage, answer, last, attempted, term, lostAt>>

\* A timer of h's process is due.
Due(h) ==
    \/ stage[h] \in Claiming /\ now >= last[h] + AttemptBound
    \/ stage[h] = "holding" /\ answer[h] = "none" /\ now >= NextRenewal(h)
    \/ stage[h] = "holding" /\ answer[h] # "none" /\ now >= AttemptEnds(h)
    \/ stage[h] = "lost" /\ now >= lostAt[h] + StepDownGrace

\* Time passes once every process that is not paused has served its timers.
Tick ==
    /\ now < MaxTime
    /\ \A h \in Holder : Running(h) => ~Due(h)
    /\ now' = now + 1
    /\ UNCHANGED <<row, sent, stage, answer, last, attempted, term, lostAt, pace>>

Database ==
    \E s \in sent : ExecuteClaim(s) \/ ExecuteInsert(s) \/ ExecuteRenew(s) \/ ExecuteRelease(s)

Process(h) ==
    \/ Claim(h) \/ ClaimWon(h) \/ ClaimMissed(h)
    \/ ReadTerm(h) \/ InsertAnswered(h) \/ ClaimFails(h)
    \/ RenewDue(h) \/ RenewSucceeds(h) \/ RenewFails(h) \/ RenewRefused(h)
    \/ WorkReturns(h) \/ ReleaseReturns(h) \/ FailNow(h)
    \/ Exit(h) \/ Pause(h) \/ Resume(h)

Next == Database \/ Tick \/ \E h \in Holder : Process(h)

Spec == Init /\ [][Next]_vars
-----------------------------------------------------------------------------
(***************************************************************************)
(* Properties.                                                             *)
(***************************************************************************)

\* Every variable has its type, and a caller waits for an answer only at a
\* stage that has a statement to wait for: lose, stop and every return of
\* Claim leave no statement awaited.
TypeOK ==
    /\ now \in Nat
    /\ row \in Row
    /\ sent \subseteq Statement
    /\ stage \in [Holder -> Stage]
    /\ answer \in [Holder -> {"none", "awaited", "row", "norow"}]
    /\ last \in [Holder -> Nat]
    /\ attempted \in [Holder -> Nat]
    /\ term \in [Holder -> Nat]
    /\ lostAt \in [Holder -> Nat]
    /\ pace \in [Holder -> {"prompt", "paused", "late"}]
    /\ \A h \in Holder :
        answer[h] # "none" => stage[h] \in {"claiming", "inserting", "holding", "releasing"}

\* The lease's contract (LEASE_PROTOCOL.md, "at most one healthy holder"): no
\* two claims are in charge of the name at once, whatever statements run
\* late, get lost or are repeated, and whichever processes pause or die.
OneInCharge ==
    \A h, k \in Holder : InCharge(h) /\ InCharge(k) => h = k

\* Until its own deadline the holder is the database's holder too: the
\* transaction guard of work that is in charge never refuses it (Hold's
\* deadline is strictly inside the lease the last renewal wrote).
InChargePassesVerify ==
    \A h \in Holder : InCharge(h) => VerifyPasses(h)

\* Terms fence: the term of the claim in charge is higher than the term on
\* any other handle ever returned (Handle.Term, handleOf).
InChargeFences ==
    \A h, k \in Holder : InCharge(h) /\ k # h => term[k] < term[h]

\* A release is final: once Release reported success, no renewal of the same
\* holder still on its way gives the name back to it (Renew's condition on
\* expires_at_ms).
ReleasedStaysFree ==
    \A h \in Holder : stage[h] = "released" => ~VerifyPasses(h)

\* What Renew's and handleOf's comments call unreachable in normal operation:
\* a process that keeps up with its timers is never told by a renewal that
\* its lease is gone, and never finds its claim vanished.
PromptNeverRefused ==
    \A h \in Holder : pace[h] = "prompt" =>
        /\ stage[h] = "holding" => answer[h] # "norow"
        /\ stage[h] = "reading" => row.holder = h

\* The work of two claims of prompt processes overlaps only once one of the
\* processes is failing for it, or due to in this very instant: deadline and
\* grace together end before the database lets a successor in (Run).
PromptWorkAlone ==
    \A h, k \in Holder :
        /\ h # k
        /\ pace[h] = "prompt" /\ pace[k] = "prompt"
        /\ stage[h] \in Working /\ stage[k] \in Working
        => \E l \in {h, k} :
              \/ stage[l] = "failing"
              \/ stage[l] = "lost" /\ now >= lostAt[l] + StepDownGrace

-----------------------------------------------------------------------------
(***************************************************************************)
(* The inductive invariant behind them: who the row belongs to, and until  *)
(* when, for every claim that may believe it won.                          *)
(***************************************************************************)

\* The database answered h's claim with a row, and h's work may still run.
Won(h) ==
    \/ stage[h] \in {"reading"} \cup Working
    \/ stage[h] \in {"claiming", "inserting"} /\ answer[h] = "row"

\* No claim of h has won in the database.
Unwon(h) ==
    \/ stage[h] = "idle"
    \/ stage[h] \in {"claiming", "inserting"} /\ answer[h] # "row"

\* A claim statement still on its way belongs to a claim that waits for it or
\* gave up, and is the only one; a release to one that is past its work.
SentInv ==
    /\ \A s \in sent :
        /\ s.kind = "claim" =>
              \/ stage[s.by] \in {"failed", "dead"}
              \/ stage[s.by] = "claiming" /\ answer[s.by] = "awaited" /\ attempted[s.by] = s.at
        /\ s.kind = "insert" =>
              \/ stage[s.by] \in {"failed", "dead"}
              \/ stage[s.by] = "inserting" /\ answer[s.by] = "awaited" /\ attempted[s.by] = s.at
        /\ s.kind = "release" =>
              \/ stage[s.by] \in {"done", "dead"}
              \/ stage[s.by] = "releasing" /\ answer[s.by] = "awaited" /\ attempted[s.by] = s.at
    /\ \A s, t \in sent :
        s.by = t.by /\ {s.kind, t.kind} \subseteq {"claim", "insert"} => s = t

\* The database does not know a token before its claim ran.
FreshInv ==
    /\ \A h \in Holder : Unwon(h) => row.holder # h
    /\ \A s \in sent : s.kind \in {"claim", "insert"} => row.holder # s.by

ClockInv ==
    \A h \in Holder : last[h] <= attempted[h] /\ attempted[h] <= now

\* For LeaseDuration after the last renewal h knows of was sent, the row is
\* h's; the same from the attempt the database has answered.
OwnsInv ==
    \A h \in Holder :
        /\ Won(h) /\ now < last[h] + LeaseDuration =>
              row.holder = h /\ row.expires >= last[h] + LeaseDuration
        /\ stage[h] = "holding" /\ answer[h] = "row" /\ now < attempted[h] + LeaseDuration =>
              row.holder = h /\ row.expires >= attempted[h] + LeaseDuration

\* The row's term is its holder's, and every other handle's is lower.
TermInv ==
    /\ row.term = 0 <=> row.holder = NoHolder
    /\ \A h \in Holder :
        /\ term[h] <= row.term
        /\ term[h] = row.term => row.term = 0 \/ row.holder = h
        /\ stage[h] = "holding" /\ row.holder = h => term[h] = row.term
        /\ stage[h] = "inserting" /\ answer[h] = "row" =>
              row.term >= 1 /\ (row.term = 1 <=> row.holder = h)

ReleaseInv ==
    \A h \in Holder :
        stage[h] = "released" \/ (stage[h] = "releasing" /\ answer[h] = "row") =>
            ~VerifyPasses(h)

\* A process that keeps up is never past the deadline of what it is doing,
\* and so is never refused.
PromptInv ==
    \A h \in Holder : pace[h] = "prompt" =>
        /\ stage[h] \in Claiming => now <= last[h] + AttemptBound
        /\ stage[h] = "holding" => now <= last[h] + LocalDeadline /\ answer[h] # "norow"
        /\ stage[h] = "lost" => lostAt[h] <= last[h] + LocalDeadline

IInv ==
    /\ TypeOK /\ SentInv /\ FreshInv /\ ClockInv
    /\ OwnsInv /\ TermInv /\ ReleaseInv /\ PromptInv
-----------------------------------------------------------------------------
\* The claim in charge, if there is one.
Owner ==
    IF \E h \in Holder : InCharge(h)
    THEN CHOOSE h \in Holder : InCharge(h)
    ELSE NoHolder

Abstract == INSTANCE OneHolder WITH champion <- row.holder, fence <- row.term, owner <- Owner

\* The protocol implements the abstract lease: whatever the interleaving, a
\* claim wins the name only while no claim is in charge, and only the claim
\* the database knows as its holder takes charge.
ImplementsOneHolder == Abstract!Spec
=============================================================================
