--------------------------- MODULE CronSlotProofs ---------------------------
(***************************************************************************)
(* Proofs about the scheduler's claims, for any set of replicas, any       *)
(* schedule length, any skew and any number of faults.                     *)
(***************************************************************************)
EXTENDS CronSlot, SequenceTheorems, TLAPS

-----------------------------------------------------------------------------
(***************************************************************************)
(* What the database does with one statement.                              *)
(***************************************************************************)

\* Appending to a sequence keeps its elements and adds one at the end.
LEMMA AppendFacts ==
    ASSUME NEW S, NEW s \in Seq(S), NEW e \in S
    PROVE  /\ Append(s, e) \in Seq(S)
           /\ Len(s) \in Nat
           /\ Len(Append(s, e)) = Len(s) + 1
           /\ Append(s, e)[Len(s) + 1] = e
           /\ \A i \in 1..Len(s) : Append(s, e)[i] = s[i]
  OBVIOUS

\* The last instant claimed, once a claim was made.
LEMMA LastFacts ==
    ASSUME claims \in Seq(ClaimOnRecord)
    PROVE  /\ Len(claims) \in Nat
           /\ \A i \in 1..Len(claims) : claims[i] \in ClaimOnRecord
           /\ Len(claims) > 0 => Last = claims[Len(claims)].slot
           /\ Last \in Nat
  <1>1. Len(claims) \in Nat
    BY LenProperties
  <1>2. \A i \in 1..Len(claims) : claims[i] \in ClaimOnRecord
    BY ElementOfSeq
  <1>3. Len(claims) > 0 => claims[Len(claims)] \in ClaimOnRecord
    BY <1>1, <1>2
  <1> QED
    BY <1>1, <1>2, <1>3 DEF Last, ClaimOnRecord

\* A claim on record: what the history and the last instant become.
LEMMA ClaimAppended ==
    ASSUME claims \in Seq(ClaimOnRecord), ClaimsInOrder,
           NEW c \in ClaimOnRecord, claims' = Append(claims, c),
           \/ c.slot > Last
           \/ Len(claims) > 0 /\ c.slot = Last /\ ~claims[Len(claims)].rerun /\ c.rerun
    PROVE  /\ claims' \in Seq(ClaimOnRecord)
           /\ ClaimsInOrder'
           /\ Len(claims') = Len(claims) + 1
           /\ claims'[Len(claims')] = c
           /\ Last' = c.slot
  <1> DEFINE n == Len(claims)
  <1>1. /\ n \in Nat /\ Last \in Nat
        /\ \A i \in 1..n : claims[i] \in ClaimOnRecord
        /\ n > 0 => Last = claims[n].slot
    BY LastFacts
  <1>2. /\ claims' \in Seq(ClaimOnRecord)
        /\ Len(claims') = n + 1
        /\ claims'[n + 1] = c
        /\ \A i \in 1..n : claims'[i] = claims[i]
    BY AppendFacts
  <1>3. Last' = c.slot
    BY <1>1, <1>2 DEF Last
  <1>4. ASSUME NEW i \in 1..n
        PROVE  \/ claims[i].slot < c.slot
               \/ claims[i].slot = c.slot /\ ~claims[i].rerun /\ c.rerun
    <2>1. claims[i].slot \in Nat /\ c.slot \in Nat /\ n > 0
      BY <1>1 DEF ClaimOnRecord
    <2>2. i = n \/ claims[i].slot < claims[n].slot
                \/ (claims[i].slot = claims[n].slot /\ ~claims[i].rerun /\ claims[n].rerun)
      BY <1>1 DEF ClaimsInOrder
    <2> QED
      BY <1>1, <2>1, <2>2
  <1>5. ClaimsInOrder'
    <2> SUFFICES ASSUME NEW i \in 1..(n + 1), NEW j \in 1..(n + 1), i < j
                 PROVE  \/ claims'[i].slot < claims'[j].slot
                        \/ claims'[i].slot = claims'[j].slot /\ ~claims'[i].rerun /\ claims'[j].rerun
      BY <1>2 DEF ClaimsInOrder
    <2>1. CASE j = n + 1
      BY <1>1, <1>2, <1>4, <2>1
    <2>2. CASE j # n + 1
      <3>1. i \in 1..n /\ j \in 1..n
        BY <1>1, <2>2
      <3> QED
        BY <1>2, <3>1 DEF ClaimsInOrder
    <2> QED
      BY <2>1, <2>2
  <1> QED
    BY <1>2, <1>3, <1>5

\* The record a statement finds.
RecordOK ==
    /\ row \in Row
    /\ now \in Nat
    /\ claims \in Seq(ClaimOnRecord)
    /\ settled \subseteq Nat
    /\ RecordInv
    /\ ClaimsInOrder

\* No step takes the name back to an earlier term, or changes a term's instant.
Onward ==
    \/ row'.term = row.term /\ Last' = Last
    \/ row'.term > row.term

\* A statement that fits the record leaves the record in order, and a claim
\* it makes is of no instant recorded finished.
LEMMA ExecuteFacts ==
    ASSUME RecordOK, NEW w \in Statement, Fits(w), Execute(w), now' = now
    PROVE  /\ RecordOK'
           /\ Onward
           /\ row'.term \in Nat
           /\ w.kind \in {"insert", "slot", "rerun"} /\ Matches(w) =>
                 row'.term = w.term + 1 /\ OfTerm(w.term + 1, w.slot)'
           /\ \A k \in (Len(claims) + 1)..Len(claims') : claims'[k].slot \notin settled
  <1> DEFINE n == Len(claims)
             c == [slot |-> w.slot, rerun |-> w.kind = "rerun"]
  <1>1. /\ n \in Nat /\ Last \in Nat
        /\ n > 0 => Last = claims[n].slot
    BY LastFacts DEF RecordOK
  <1>2. /\ row.term \in Nat /\ row.live \in BOOLEAN /\ row.slot \in Nat
        /\ row.unfinished \in Nat /\ row.rerun \in Nat
        /\ row = [term |-> row.term, live |-> row.live, slot |-> row.slot,
                  unfinished |-> row.unfinished, rerun |-> row.rerun]
    BY DEF RecordOK, Row
  <1>3. w.term \in Nat /\ w.slot \in Nat /\ w.passed \in Nat /\ c \in ClaimOnRecord
    BY DEF Statement, ClaimOnRecord
  <1>4. w.kind \in {"insert", "slot", "rerun", "finish", "record", "release"}
    BY DEF Statement, Fits
  <1>a. c.slot = w.slot /\ (c.rerun <=> w.kind = "rerun")
    OBVIOUS
  <1>b. \A i \in settled : i \in Nat /\ i <= Last
    BY DEF RecordOK, RecordInv
  <1> HIDE DEF c
  <1>5. CASE ~Matches(w)
    <2>1. row' = row /\ claims' = claims /\ settled' = settled
      BY <1>5 DEF Execute
    <2> QED
      BY <2>1, <1>1, <1>2, <1>5 DEF RecordOK, RecordInv, ClaimsInOrder, Onward, Last
  <1>6. CASE Matches(w) /\ w.kind = "insert"
    <2>1. /\ row' = [term |-> 1, live |-> TRUE, slot |-> w.slot,
                     unfinished |-> w.slot, rerun |-> 0]
          /\ claims' = Append(claims, c) /\ settled' = settled
      BY <1>6 DEF Execute, Written, c
    <2>2. row.term = 0 /\ w.term = 0 /\ w.slot > 0 /\ n = 0 /\ Last = 0
      BY <1>6 DEF Matches, Fits, RecordOK, RecordInv, Last
    <2>3. /\ claims' \in Seq(ClaimOnRecord) /\ ClaimsInOrder'
          /\ Len(claims') = n + 1 /\ claims'[Len(claims')] = c /\ Last' = w.slot
      BY <2>1, <2>2, <1>1, <1>3, <1>a, ClaimAppended DEF RecordOK
    <2>4. w.slot \notin settled
      BY <2>2, <1>1, <1>3, <1>b
    <2>5. RecordInv' /\ row' \in Row
      BY <2>1, <2>2, <2>3, <2>4, <1>1, <1>3, <1>6, <1>a, <1>b DEF RecordInv, Row
    <2>6. Onward /\ row'.term = 1 /\ OfTerm(w.term + 1, w.slot)'
      BY <2>1, <2>2, <2>3, <1>3 DEF Onward, OfTerm
    <2> QED
      BY <2>1, <2>2, <2>3, <2>4, <2>5, <2>6, <1>1, <1>3, <1>a DEF RecordOK
  <1>7. CASE Matches(w) /\ w.kind = "slot"
    <2>1. /\ row' = [row EXCEPT !.term = @ + 1, !.live = TRUE,
                                !.slot = w.slot, !.unfinished = w.slot]
          /\ claims' = Append(claims, c) /\ settled' = settled
      BY <1>7 DEF Execute, Written, c
    <2>2. row.term = w.term /\ w.term > 0 /\ w.slot > Last /\ n = row.term
      BY <1>7, <1>2, <1>3 DEF Matches, SlotFree, Fits, RecordOK, RecordInv
    <2>3. /\ claims' \in Seq(ClaimOnRecord) /\ ClaimsInOrder'
          /\ Len(claims') = n + 1 /\ claims'[Len(claims')] = c /\ Last' = w.slot
      BY <2>1, <2>2, <1>1, <1>3, <1>a, ClaimAppended DEF RecordOK
    <2>4. w.slot \notin settled
      BY <2>2, <1>1, <1>3, <1>b
    <2>5. row' = [term |-> row.term + 1, live |-> TRUE, slot |-> w.slot,
                  unfinished |-> w.slot, rerun |-> row.rerun]
      BY <2>1, <1>2
    <2>a. /\ row'.term = row.term + 1 /\ row'.slot = w.slot
          /\ row'.unfinished = w.slot /\ row' \in Row
      BY <2>5, <1>2, <1>3 DEF Row
    <2>b. ~claims'[Len(claims')].rerun
      BY <2>3, <1>7, <1>a
    <2>c. \A i \in settled' : i <= Last'
      BY <2>1, <2>2, <2>3, <1>1, <1>3, <1>b
    <2>6. RecordInv'
      BY <2>1, <2>2, <2>3, <2>4, <2>a, <2>b, <2>c, <1>1, <1>2, <1>3 DEF RecordInv
    <2>7. Onward /\ row'.term = w.term + 1 /\ OfTerm(w.term + 1, w.slot)'
      BY <2>2, <2>3, <2>5, <1>1, <1>2, <1>3 DEF Onward, OfTerm
    <2> QED
      BY <2>1, <2>2, <2>3, <2>4, <2>6, <2>7, <2>a, <1>1, <1>2, <1>3, <1>a DEF RecordOK
  <1>8. CASE Matches(w) /\ w.kind = "rerun"
    <2>1. /\ row' = [row EXCEPT !.term = @ + 1, !.live = TRUE, !.rerun = row.slot]
          /\ claims' = Append(claims, c) /\ settled' = settled
      BY <1>8 DEF Execute, Written, c
    <2>2. /\ row.term = w.term /\ w.term > 0 /\ w.slot = Last /\ n = row.term
          /\ row.unfinished = row.slot /\ row.rerun < row.slot
      BY <1>8, <1>2, <1>3 DEF Matches, RerunFree, Fits, OfTerm, RecordOK, RecordInv
    <2>3. row.slot = Last /\ Last \notin settled /\ Last > 0
      BY <2>2, <1>1, <1>2 DEF RecordOK, RecordInv
    <2>4. ~claims[n].rerun /\ c.rerun /\ c.slot = Last
      BY <2>2, <2>3, <1>1, <1>2, <1>8, <1>a DEF RecordOK, RecordInv
    <2>5. /\ claims' \in Seq(ClaimOnRecord) /\ ClaimsInOrder'
          /\ Len(claims') = n + 1 /\ claims'[Len(claims')] = c /\ Last' = w.slot
      BY <2>1, <2>2, <2>4, <1>1, <1>2, <1>3, <1>a, ClaimAppended DEF RecordOK
    <2>7. row' = [term |-> row.term + 1, live |-> TRUE, slot |-> row.slot,
                  unfinished |-> row.unfinished, rerun |-> row.slot]
      BY <2>1, <1>2
    <2>a. /\ row'.term = row.term + 1 /\ row'.slot = row.slot /\ row'.rerun = row.slot
          /\ row'.unfinished = row.unfinished /\ row' \in Row
      BY <2>7, <1>2 DEF Row
    <2>8. RecordInv'
      BY <2>1, <2>2, <2>3, <2>5, <2>a, <1>1, <1>2, <1>3, <1>b DEF RecordInv
    <2>9. Onward /\ row'.term = w.term + 1 /\ OfTerm(w.term + 1, w.slot)'
      BY <2>2, <2>3, <2>5, <2>7, <1>1, <1>2, <1>3 DEF Onward, OfTerm
    <2> QED
      BY <2>1, <2>2, <2>3, <2>5, <2>8, <2>9, <2>a, <1>1, <1>2, <1>3, <1>a DEF RecordOK
  <1>9. CASE Matches(w) /\ w.kind \in {"finish", "record", "release"}
    <2>1. claims' = claims /\ Last' = Last
      BY <1>9 DEF Execute, Last
    <2>a. w.term = row.term \/ w.kind = "record" => w.slot <= Last
      <3>1. w.term = row.term => w.slot = Last
        BY <1>9 DEF Fits, OfTerm
      <3>2. w.kind = "record" => w.slot = row.unfinished /\ w.slot > 0
        BY <1>9 DEF Matches, StillMarked, Fits, OfTerm
      <3> QED
        BY <3>1, <3>2, <1>1, <1>2, <1>3 DEF RecordOK, RecordInv
    <2>2. /\ w.kind \in {"finish", "record"} => w.slot <= Last
          /\ w.kind \in {"finish", "record"} => settled' = settled \cup {w.slot}
          /\ w.kind = "release" => settled' = settled
      BY <1>9, <2>a DEF Execute, Matches
    <2>3. /\ row'.term = row.term /\ row'.rerun = row.rerun /\ row'.live \in BOOLEAN
          /\ row'.unfinished = (IF w.kind = "release" THEN row.unfinished ELSE 0)
          /\ row'.slot = (IF w.kind = "finish" THEN TakenAlong(w) ELSE row.slot)
          /\ row' \in Row
      BY <1>9, <1>2, <1>3 DEF Execute, Written, Finished, TakenAlong, Row
    <2>4. row'.slot = row.slot \/ (w.kind = "finish" /\ row'.slot > row.slot /\ row'.slot <= now)
      BY <2>3, <1>2, <1>3 DEF TakenAlong, RecordOK
    <2>b. \A i \in settled' : i <= Last'
      BY <2>1, <2>2, <1>9, <1>b
    <2>c. row'.unfinished # 0 => /\ row'.unfinished = Last' /\ row'.slot = Last'
                                 /\ Last' \notin settled'
      BY <2>1, <2>2, <2>3, <2>4, <1>9 DEF RecordInv, RecordOK
    <2>d. Last <= row'.slot /\ (row'.slot = Last \/ row'.slot <= now)
      BY <2>3, <2>4, <1>1, <1>2 DEF RecordInv, RecordOK, Row
    <2>5. RecordInv'
      BY <2>1, <2>3, <2>b, <2>c, <2>d DEF RecordInv, RecordOK
    <2> QED
      BY <2>1, <2>2, <2>3, <2>5, <1>1, <1>2, <1>3, <1>9 DEF RecordOK, ClaimsInOrder, Onward
  <1> QED
    BY <1>4, <1>5, <1>6, <1>7, <1>8, <1>9

-----------------------------------------------------------------------------
(***************************************************************************)
(* What a replica does to its own state.                                   *)
(***************************************************************************)
Stage == {"down", "starting", "waiting", "reading", "writing", "running", "settling"}

\* The part of TypeOK about the replicas.
LocalType ==
    /\ pc \in [Replica -> Stage]
    /\ next \in [Replica -> Nat]
    /\ at \in [Replica -> Nat]
    /\ origin \in [Replica -> {"due", "catchup", "rerun"}]
    /\ write \in [Replica -> Statement]
    /\ lost \in [Replica -> BOOLEAN]
    /\ stopping \in [Replica -> BOOLEAN]
    /\ found \in [Replica -> [term : Nat, slot : Nat]]
    /\ \A r \in Replica : pc[r] \in {"down", "starting", "waiting"} =>
          at[r] = 0 /\ write[r] = NoStatement /\ ~lost[r]

\* The part about what they share.
SharedType ==
    /\ now \in 0..MaxInstant
    /\ row \in Row
    /\ astray \subseteq Statement
    /\ faults \in 0..Faults
    /\ claims \in Seq(ClaimOnRecord)
    /\ settled \subseteq Nat

\* The two parts are the whole.
LEMMA TypeParts == TypeOK <=> LocalType /\ SharedType
  BY DEF TypeOK, LocalType, SharedType, Stage

\* Replica q is left alone.
Same(q) ==
    /\ pc'[q] = pc[q] /\ next'[q] = next[q] /\ at'[q] = at[q]
    /\ write'[q] = write[q] /\ found'[q] = found[q]

OthersSame(r) == \A q \in Replica : q # r => Same(q)

\* The clock of a replica shows an instant.
LEMMA ClockFact == \A c \in Clock : c \in Nat
  BY BoundsAssumption DEF Clock

\* The statement a replica sends is one, with the fields it was given.
LEMMA StmtFacts ==
    ASSUME NEW t \in Nat, NEW s \in Nat
    PROVE  \A k \in {"insert", "slot", "rerun", "record", "release"} :
              \E w \in Statement :
                  w = Stmt(k, t, s, 0) /\ w.kind = k /\ w.term = t /\ w.slot = s
  <1> SUFFICES ASSUME NEW k \in {"insert", "slot", "rerun", "record", "release"}
               PROVE  \E w \in Statement :
                          w = Stmt(k, t, s, 0) /\ w.kind = k /\ w.term = t /\ w.slot = s
    OBVIOUS
  <1> DEFINE v == Stmt(k, t, s, 0)
  <1>1. v \in Statement /\ v.kind = k /\ v.term = t /\ v.slot = s
    BY DEF Stmt, Statement
  <1> HIDE DEF v
  <1>2. \E w \in Statement : w = v /\ w.kind = k /\ w.term = t /\ w.slot = s
    BY <1>1
  <1> QED
    BY <1>2 DEF v

\* No statement is a statement.
LEMMA NoStatementFact == NoStatement \in Statement
  BY DEF NoStatement, Stmt, Statement

\* Leaving the loop clears what the replica kept.
LEMMA ExitFacts ==
    ASSUME LocalType, NEW r \in Replica, Exit(r)
    PROVE  /\ LocalType'
           /\ OthersSame(r)
           /\ pc'[r] = "down" /\ found'[r] = NoUnfinished
  <1>1. NoUnfinished \in [term : Nat, slot : Nat]
    BY DEF NoUnfinished
  <1>2. /\ pc' = [pc EXCEPT ![r] = "down"]
        /\ next' = [next EXCEPT ![r] = 0]
        /\ at' = [at EXCEPT ![r] = 0]
        /\ origin' = [origin EXCEPT ![r] = "due"]
        /\ write' = [write EXCEPT ![r] = NoStatement]
        /\ lost' = [lost EXCEPT ![r] = FALSE]
        /\ stopping' = [stopping EXCEPT ![r] = FALSE]
        /\ found' = [found EXCEPT ![r] = NoUnfinished]
    BY DEF Exit, Goto, Clear
  <1> QED
    BY <1>1, <1>2, NoStatementFact DEF LocalType, Stage, OthersSame, Same

\* Back at its head the loop waits for n, or has ended.
LEMMA LoopHeadFacts ==
    ASSUME LocalType, NEW r \in Replica, NEW n \in Nat, n > 0, LoopHead(r, n)
    PROVE  /\ LocalType'
           /\ OthersSame(r)
           /\ pc'[r] = "down" \/ (pc'[r] = "waiting" /\ next'[r] > 0)
           /\ found'[r] = found[r] \/ found'[r] = NoUnfinished
  <1>1. CASE stopping[r]
    BY <1>1, ExitFacts DEF LoopHead
  <1>2. CASE ~stopping[r]
    <2>1. /\ pc' = [pc EXCEPT ![r] = "waiting"]
          /\ next' = [next EXCEPT ![r] = n]
          /\ at' = [at EXCEPT ![r] = 0]
          /\ origin' = [origin EXCEPT ![r] = "due"]
          /\ write' = [write EXCEPT ![r] = NoStatement]
          /\ lost' = [lost EXCEPT ![r] = FALSE]
          /\ stopping' = stopping /\ found' = found
      BY <1>2 DEF LoopHead, Goto, Clear
    <2> QED
      BY <2>1, NoStatementFact DEF LocalType, Stage, OthersSame, Same
  <1> QED
    BY <1>1, <1>2

\* The same after an instant.
LEMMA ProceedFacts ==
    ASSUME LocalType, NEW r \in Replica, NEW ran \in BOOLEAN, Proceed(r, ran), next[r] > 0
    PROVE  /\ LocalType'
           /\ OthersSame(r)
           /\ pc'[r] = "down" \/ (pc'[r] = "waiting" /\ next'[r] > 0)
           /\ found'[r] = found[r] \/ found'[r] = NoUnfinished
  <1>1. PICK c \in Clock :
          LoopHead(r, IF ran \/ origin[r] = "due" THEN NextAfter(c, at[r]) ELSE next[r])
    BY DEF Proceed
  <1>2. next[r] \in Nat /\ at[r] \in Nat /\ c \in Nat
    BY ClockFact DEF LocalType
  <1>3. NextAfter(c, at[r]) \in Nat /\ NextAfter(c, at[r]) > 0
    BY <1>2 DEF NextAfter, MaxOf
  <1> QED
    BY <1>1, <1>2, <1>3, LoopHeadFacts

\* Back at its head a replica carries nothing but what it found before.
LEMMA HeadInFlight ==
    ASSUME NEW r \in Replica, InFlight(r), row.term \in Nat, row'.term \in Nat, Onward,
           LocalType,
           pc'[r] = "down" \/ (pc'[r] = "waiting" /\ next'[r] > 0),
           found'[r] = found[r] \/ found'[r] = NoUnfinished
    PROVE  InFlight(r)'
  <1>1. found[r].term \in Nat /\ found[r].slot \in Nat
    BY DEF LocalType
  <1>2. found'[r] # NoUnfinished => OfTerm(found[r].term, found[r].slot) /\ found'[r] = found[r]
    BY DEF InFlight
  <1>3. found'[r] # NoUnfinished => OfTerm(found[r].term, found[r].slot)'
    BY <1>1, <1>2 DEF OfTerm, Onward
  <1> QED
    BY <1>3 DEF InFlight, NoUnfinished

\* What a replica left alone carries fits the record as it moves on.
LEMMA SameInFlight ==
    ASSUME NEW q \in Replica, InFlight(q), row.term \in Nat, row'.term \in Nat, Onward,
           LocalType, Same(q)
    PROVE  InFlight(q)'
  <1>1. /\ found[q].term \in Nat /\ found[q].slot \in Nat
        /\ write[q].term \in Nat /\ write[q].slot \in Nat /\ at[q] \in Nat
    BY DEF LocalType, Statement
  <1>2. found'[q] # NoUnfinished => OfTerm(found[q].term, found[q].slot)'
    BY <1>1 DEF OfTerm, Onward, InFlight, Same, NoUnfinished
  <1>3. pc'[q] \in {"writing", "settling"} => Fits(write[q])'
    BY <1>1 DEF OfTerm, Fits, Onward, InFlight, Same
  <1>4. pc'[q] = "running" => OfTerm(write[q].term, at[q])'
    BY <1>1 DEF OfTerm, Onward, InFlight, Same
  <1> QED
    BY <1>2, <1>3, <1>4 DEF InFlight, Same, NoUnfinished

\* So does a statement astray.
LEMMA AstrayFits ==
    ASSUME NEW w \in Statement, Fits(w), row.term \in Nat, row'.term \in Nat, Onward
    PROVE  Fits(w)'
  BY DEF Fits, OfTerm, Onward, Statement

-----------------------------------------------------------------------------
(***************************************************************************)
(* Every step keeps the invariant.                                         *)
(***************************************************************************)

\* The parts of the invariant the step lemmas start from.
LEMMA InvParts ==
    ASSUME SlotInv
    PROVE  /\ LocalType /\ SharedType /\ RecordOK
           /\ row.term \in Nat
           /\ \A w \in astray : w \in Statement /\ Fits(w)
           /\ \A r \in Replica : InFlight(r)
  <1>1. LocalType /\ SharedType
    BY TypeParts DEF SlotInv
  <1>2. now \in Nat
    BY <1>1, BoundsAssumption DEF SharedType
  <1> QED
    BY <1>1, <1>2 DEF SlotInv, RecordOK, SharedType, FlightInv, Row

\* The parts after a step of replica r make the whole.
LEMMA InvAfter ==
    ASSUME SlotInv, NEW r \in Replica, LocalType', RecordOK', Onward, InFlight(r)',
           OthersSame(r), now' \in 0..MaxInstant, faults' \in 0..Faults,
           \A w \in astray' : w \in Statement /\ (w \in astray \/ Fits(w)')
    PROVE  SlotInv'
  <1>1. /\ LocalType /\ row.term \in Nat /\ \A q \in Replica : InFlight(q)
        /\ \A w \in astray : w \in Statement /\ Fits(w)
    BY InvParts
  <1>2. SharedType' /\ row'.term \in Nat
    BY DEF SharedType, RecordOK, Row
  <1>3. TypeOK'
    <2>1. (TypeOK <=> LocalType /\ SharedType)'
      BY TypeParts, PTL
    <2> QED
      BY <1>2, <2>1
  <1>4. \A w \in astray' : Fits(w)'
    BY <1>1, <1>2, AstrayFits
  <1>5. \A q \in Replica : InFlight(q)'
    <2>1. SUFFICES ASSUME NEW q \in Replica, q # r PROVE InFlight(q)'
      OBVIOUS
    <2> QED
      BY <1>1, <1>2, <2>1, SameInFlight DEF OthersSame
  <1> QED
    BY <1>3, <1>4, <1>5 DEF SlotInv, FlightInv, RecordOK

\* A step that leaves the record alone.
LEMMA RecordUnchanged ==
    ASSUME RecordOK, UNCHANGED <<now, row, claims, settled>>
    PROVE  RecordOK' /\ Onward /\ Last' = Last
  BY DEF RecordOK, RecordInv, ClaimsInOrder, Onward, Last

\* A step of replica r that leaves the record alone and adds nothing astray.
LEMMA QuietStep ==
    ASSUME SlotInv, NEW r \in Replica, LocalType', InFlight(r)', OthersSame(r),
           UNCHANGED <<now, row, astray, claims, settled>>, faults' \in 0..Faults
    PROVE  SlotInv'
  <1>1. RecordOK /\ SharedType /\ (\A w \in astray : w \in Statement)
    BY InvParts
  <1>2. RecordOK' /\ Onward
    BY <1>1, RecordUnchanged
  <1> QED
    BY <1>1, <1>2, InvAfter DEF SharedType

\* Starting the scheduler.
LEMMA StartKeeps ==
    ASSUME SlotInv, NEW r \in Replica, Start(r) PROVE SlotInv'
  <1>1. LocalType /\ SharedType /\ RecordOK /\ InFlight(r)
    BY InvParts
  <1>2. PICK c \in Nat : next' = [next EXCEPT ![r] = c + 1]
    BY ClockFact DEF Start
  <1>3. /\ pc[r] = "down" /\ pc' = [pc EXCEPT ![r] = "starting"] /\ faults' = faults
        /\ UNCHANGED <<now, row, astray, at, origin, write, lost, stopping, found, claims, settled>>
    BY DEF Start, Goto, procVars
  <1>4. LocalType' /\ OthersSame(r)
    BY <1>1, <1>2, <1>3 DEF LocalType, Stage, OthersSame, Same
  <1>5. InFlight(r)'
    <2>1. pc'[r] = "starting" /\ next'[r] > 0 /\ found'[r] = found[r]
      BY <1>1, <1>2, <1>3 DEF LocalType
    <2>2. Last' = Last /\ row' = row
      BY <1>1, <1>3, RecordUnchanged
    <2> QED
      BY <1>1, <2>1, <2>2 DEF InFlight, OfTerm, NoUnfinished
  <1> QED
    BY <1>1, <1>3, <1>4, <1>5, QuietStep DEF SharedType

\* Going back to the loop's head, whatever came before, carries nothing on.
LEMMA HeadKeeps ==
    ASSUME SlotInv, NEW r \in Replica, LocalType', OthersSame(r),
           UNCHANGED <<now, row, claims, settled>>, faults' \in 0..Faults,
           astray' = astray \/ LeaveAstray(r),
           pc'[r] = "down" \/ (pc'[r] = "waiting" /\ next'[r] > 0),
           found'[r] = found[r] \/ found'[r] = NoUnfinished
    PROVE  SlotInv'
  <1>1. /\ LocalType /\ SharedType /\ RecordOK /\ InFlight(r) /\ row.term \in Nat
        /\ \A w \in astray : w \in Statement
    BY InvParts
  <1>2. RecordOK' /\ Onward /\ row'.term \in Nat /\ Last' = Last /\ row' = row
    BY <1>1, RecordUnchanged
  <1>3. InFlight(r)'
    BY <1>1, <1>2, HeadInFlight
  <1>4. ASSUME NEW w \in astray' PROVE w \in Statement /\ (w \in astray \/ Fits(w)')
    <2>1. CASE w \in astray
      BY <1>1, <2>1
    <2>2. CASE w \notin astray
      <3>1. w = write[r] /\ pc[r] \in {"writing", "settling"}
        BY <2>2 DEF LeaveAstray
      <3>2. w \in Statement /\ Fits(w)
        BY <1>1, <3>1 DEF InFlight, LocalType
      <3> QED
        BY <1>1, <1>2, <3>2, AstrayFits
    <2> QED
      BY <2>1, <2>2
  <1> QED
    BY <1>1, <1>2, <1>3, <1>4, InvAfter DEF SharedType

\* The catch-up at the start of the loop.
LEMMA CatchUpKeeps ==
    ASSUME SlotInv, NEW r \in Replica, CatchUp(r) PROVE SlotInv'
  <1>1. LocalType /\ SharedType /\ RecordOK /\ InFlight(r)
    BY InvParts
  <1>2. PICK c \in Clock :
          IF c >= 1 /\ row.term > 0 /\ row.slot < c
          THEN /\ Goto(r, "reading")
               /\ at' = [at EXCEPT ![r] = c]
               /\ origin' = [origin EXCEPT ![r] = "catchup"]
               /\ UNCHANGED <<next, write, procVars>>
          ELSE LoopHead(r, next[r])
    BY DEF CatchUp
  <1>3. /\ pc[r] = "starting" /\ UNCHANGED <<now, row, astray, claims, settled>>
        /\ faults' = faults /\ faults \in 0..Faults
    BY <1>1 DEF CatchUp, SharedType
  <1>4. CASE c >= 1 /\ row.term > 0 /\ row.slot < c
    <2>1. /\ Goto(r, "reading") /\ at' = [at EXCEPT ![r] = c]
          /\ origin' = [origin EXCEPT ![r] = "catchup"]
          /\ UNCHANGED <<next, write, lost, stopping, found>>
      BY <1>2, <1>4 DEF procVars
    <2>2. c \in Nat
      BY ClockFact
    <2>3. /\ LocalType' /\ OthersSame(r) /\ pc'[r] = "reading" /\ at'[r] = c
          /\ found'[r] = found[r] /\ next'[r] = next[r]
      BY <1>1, <2>1, <2>2 DEF LocalType, Stage, OthersSame, Same, Goto
    <2>4. InFlight(r)'
      <3>1. Last' = Last /\ row' = row
        BY <1>1, <1>3, RecordUnchanged
      <3> QED
        BY <1>1, <1>3, <1>4, <2>2, <2>3, <3>1 DEF InFlight, OfTerm, NoUnfinished
    <2> QED
      BY <1>3, <2>3, <2>4, QuietStep
  <1>5. CASE ~(c >= 1 /\ row.term > 0 /\ row.slot < c)
    <2>1. LoopHead(r, next[r])
      BY <1>2, <1>5
    <2>2. next[r] \in Nat /\ next[r] > 0
      BY <1>1, <1>3 DEF LocalType, InFlight
    <2>3. /\ LocalType' /\ OthersSame(r)
          /\ pc'[r] = "down" \/ (pc'[r] = "waiting" /\ next'[r] > 0)
          /\ found'[r] = found[r] \/ found'[r] = NoUnfinished
      BY <1>1, <2>1, <2>2, LoopHeadFacts
    <2> QED
      BY <1>3, <2>3, HeadKeeps
  <1> QED
    BY <1>4, <1>5

\* The timer of an instant.
LEMMA DueKeeps ==
    ASSUME SlotInv, NEW r \in Replica, Due(r) PROVE SlotInv'
  <1>1. LocalType /\ SharedType /\ RecordOK /\ InFlight(r)
    BY InvParts
  <1>2. /\ pc[r] = "waiting" /\ pc' = [pc EXCEPT ![r] = "reading"]
        /\ at' = [at EXCEPT ![r] = next[r]]
        /\ origin' = [origin EXCEPT ![r] = "due"]
        /\ UNCHANGED <<now, row, astray, next, write, lost, stopping, found, faults, claims, settled>>
    BY DEF Due, Goto, procVars
  <1>3. LocalType' /\ OthersSame(r)
    BY <1>1, <1>2 DEF LocalType, Stage, OthersSame, Same
  <1>4. InFlight(r)'
    <2>1. pc'[r] = "reading" /\ at'[r] = next[r]
      BY <1>1, <1>2 DEF LocalType
    <2>2. Last' = Last
      BY <1>1, <1>2, RecordUnchanged
    <2> QED
      BY <1>1, <1>2, <2>1, <2>2 DEF InFlight, OfTerm, NoUnfinished
  <1> QED
    BY <1>1, <1>2, <1>3, <1>4, QuietStep DEF SharedType

\* ClaimSlot's read, which sends its write or gives the instant up.
LEMMA ReadSlotKeeps ==
    ASSUME SlotInv, NEW r \in Replica, ReadSlot(r) PROVE SlotInv'
  <1>1. LocalType /\ SharedType /\ RecordOK /\ InFlight(r) /\ row.term \in Nat
    BY InvParts
  <1>2. /\ pc[r] = "reading" /\ next[r] > 0 /\ at[r] \in Nat /\ at[r] > 0
        /\ UNCHANGED <<now, row, astray, claims, settled>>
        /\ faults' = faults /\ faults \in 0..Faults
    BY <1>1 DEF ReadSlot, InFlight, SharedType, LocalType
  <1>3. CASE Proceed(r, FALSE)
    <2>1. /\ LocalType' /\ OthersSame(r)
          /\ pc'[r] = "down" \/ (pc'[r] = "waiting" /\ next'[r] > 0)
          /\ found'[r] = found[r] \/ found'[r] = NoUnfinished
      BY <1>1, <1>2, <1>3, ProceedFacts
    <2> QED
      BY <1>2, <2>1, HeadKeeps
  <1>4. CASE ~Proceed(r, FALSE)
    <2>0. PICK w \in Statement :
            /\ w = Stmt(IF row.term = 0 THEN "insert" ELSE "slot", row.term, at[r], 0)
            /\ w.kind = (IF row.term = 0 THEN "insert" ELSE "slot")
            /\ w.term = row.term /\ w.slot = at[r]
      <3>1. CASE row.term = 0
        BY <1>1, <1>2, <3>1, StmtFacts
      <3>2. CASE row.term # 0
        BY <1>1, <1>2, <3>2, StmtFacts
      <3> QED
        BY <3>1, <3>2
    <2>1. /\ row.term = 0 \/ (~row.live /\ ~Recorded(at[r]))
          /\ pc' = [pc EXCEPT ![r] = "writing"]
          /\ write' = [write EXCEPT ![r] = w]
          /\ UNCHANGED <<next, at, origin, lost, stopping, found>>
      BY <1>4, <2>0 DEF ReadSlot, Goto, procVars
    <2>3. LocalType' /\ OthersSame(r) /\ pc'[r] = "writing" /\ write'[r] = w
      BY <1>1, <2>1 DEF LocalType, Stage, OthersSame, Same
    <2>4. row.term # 0 => at[r] > Last
      <3>1. row.slot \in Nat /\ Last \in Nat /\ Last <= row.slot
        BY <1>1, LastFacts DEF RecordOK, RecordInv, Row
      <3> QED
        BY <1>2, <2>1, <3>1 DEF Recorded
    <2>5. Last' = Last
      BY <1>1, <1>2, RecordUnchanged
    <2>6. Fits(w)'
      BY <1>1, <1>2, <2>0, <2>4, <2>5 DEF Fits
    <2>7. InFlight(r)'
      BY <1>1, <1>2, <2>0, <2>1, <2>3, <2>5, <2>6 DEF InFlight, OfTerm, NoUnfinished
    <2> QED
      BY <1>2, <2>3, <2>7, QuietStep
  <1> QED
    BY <1>3, <1>4

\* The loop takes what the sweep found.
LEMMA TakeFoundKeeps ==
    ASSUME SlotInv, NEW r \in Replica, TakeFound(r) PROVE SlotInv'
  <1>1. LocalType /\ SharedType /\ RecordOK /\ InFlight(r) /\ row.term \in Nat
    BY InvParts
  <1>2. /\ pc[r] = "waiting" /\ found[r] # NoUnfinished
        /\ pc' = [pc EXCEPT ![r] = "writing"]
        /\ at' = [at EXCEPT ![r] = found[r].slot]
        /\ origin' = [origin EXCEPT ![r] = "rerun"]
        /\ write' = [write EXCEPT ![r] = Stmt("rerun", found[r].term, found[r].slot, 0)]
        /\ found' = [found EXCEPT ![r] = NoUnfinished]
        /\ UNCHANGED <<now, row, astray, next, lost, stopping, faults, claims, settled>>
    BY DEF TakeFound, Goto
  <1>3. found[r].term \in Nat /\ found[r].slot \in Nat
    BY <1>1 DEF LocalType
  <1>4. PICK w \in Statement :
          /\ w = Stmt("rerun", found[r].term, found[r].slot, 0)
          /\ w.kind = "rerun" /\ w.term = found[r].term /\ w.slot = found[r].slot
    BY <1>3, StmtFacts
  <1>5. NoUnfinished \in [term : Nat, slot : Nat]
    BY DEF NoUnfinished
  <1>6. /\ LocalType' /\ OthersSame(r) /\ pc'[r] = "writing" /\ write'[r] = w
        /\ at'[r] = found[r].slot /\ found'[r] = NoUnfinished
    BY <1>1, <1>2, <1>3, <1>4, <1>5 DEF LocalType, Stage, OthersSame, Same
  <1>7. Last' = Last
    BY <1>1, <1>2, RecordUnchanged
  <1>8. Fits(w)'
    BY <1>1, <1>2, <1>4, <1>7 DEF Fits, InFlight, OfTerm
  <1>a. found[r].slot > 0
    BY <1>1, <1>2 DEF InFlight, OfTerm
  <1>9. InFlight(r)'
    BY <1>1, <1>2, <1>4, <1>6, <1>8, <1>a DEF InFlight, NoUnfinished
  <1> QED
    BY <1>1, <1>2, <1>6, <1>9, QuietStep DEF SharedType

\* The sweep hands in the round it finds.
LEMMA SweepKeeps ==
    ASSUME SlotInv, NEW r \in Replica, Sweep(r) PROVE SlotInv'
  <1>1. LocalType /\ SharedType /\ RecordOK /\ InFlight(r) /\ row.term \in Nat
    BY InvParts
  <1>2. /\ row.term > 0 /\ row.unfinished = row.slot
        /\ found' = [found EXCEPT ![r] = [term |-> row.term, slot |-> row.slot]]
        /\ UNCHANGED <<now, row, astray, pc, next, at, origin, write, lost, stopping,
                       faults, claims, settled>>
    BY DEF Sweep, CutShort, loopVars
  <1>3. PICK f \in [term : Nat, slot : Nat] :
          /\ f = [term |-> row.term, slot |-> row.slot]
          /\ f.term = row.term /\ f.slot = row.slot
    <2> DEFINE v == [term |-> row.term, slot |-> row.slot]
    <2>1. v \in [term : Nat, slot : Nat] /\ v.term = row.term /\ v.slot = row.slot
      BY <1>1 DEF SharedType, Row
    <2> HIDE DEF v
    <2>2. \E f \in [term : Nat, slot : Nat] : f = v /\ f.term = row.term /\ f.slot = row.slot
      BY <2>1
    <2> QED
      BY <2>2 DEF v
  <1>4. LocalType' /\ OthersSame(r) /\ found'[r] = f
    BY <1>1, <1>2, <1>3 DEF LocalType, OthersSame, Same
  <1>5. Last' = Last
    BY <1>1, <1>2, RecordUnchanged
  <1>6. row.slot = Last /\ Last > 0
    <2>1. /\ Last \in Nat /\ row.slot \in Nat /\ row.unfinished \in Nat
          /\ Last > 0 /\ Last <= row.slot
      BY <1>1, <1>2, LastFacts DEF RecordOK, RecordInv, Row
    <2> QED
      BY <1>1, <1>2, <2>1 DEF RecordOK, RecordInv
  <1>7. OfTerm(f.term, f.slot)'
    BY <1>1, <1>2, <1>3, <1>5, <1>6 DEF OfTerm
  <1>8. InFlight(r)'
    BY <1>1, <1>2, <1>4, <1>5, <1>7 DEF InFlight, OfTerm, Fits
  <1> QED
    BY <1>1, <1>2, <1>4, <1>8, QuietStep DEF SharedType

\* The claim: the round starts under the next term, or the instant is given up.
LEMMA ClaimKeeps ==
    ASSUME SlotInv, NEW r \in Replica, Claim(r) PROVE SlotInv'
  <1>1. /\ LocalType /\ SharedType /\ RecordOK /\ InFlight(r) /\ row.term \in Nat
        /\ \A w \in astray : w \in Statement
    BY InvParts
  <1>2. PICK w \in Statement : w = write[r]
    BY <1>1 DEF LocalType
  <1>3. /\ pc[r] = "writing" /\ Execute(w) /\ now' = now /\ astray' = astray
        /\ faults' = faults /\ faults \in 0..Faults /\ now' \in 0..MaxInstant
    BY <1>1, <1>2 DEF Claim, SharedType
  <1>4. /\ Fits(w) /\ w.slot = at[r] /\ next[r] > 0
        /\ w.kind \in {"insert", "slot", "rerun"}
    BY <1>1, <1>2, <1>3 DEF InFlight
  <1>5. /\ RecordOK' /\ Onward /\ row'.term \in Nat
        /\ Matches(w) => row'.term = w.term + 1 /\ OfTerm(w.term + 1, w.slot)'
    BY <1>1, <1>3, <1>4, ExecuteFacts
  <1>6. CASE Matches(w)
    <2>1. /\ pc' = [pc EXCEPT ![r] = "running"]
          /\ write' = [write EXCEPT ![r].term = @ + 1]
          /\ UNCHANGED <<next, at, origin, lost, stopping, found>>
      BY <1>2, <1>6 DEF Claim, Goto, procVars
    <2>2. PICK v \in Statement : v = [w EXCEPT !.term = @ + 1] /\ v.term = w.term + 1
      <3> DEFINE u == [w EXCEPT !.term = @ + 1]
      <3>1. u \in Statement /\ u.term = w.term + 1
        BY DEF Statement
      <3> HIDE DEF u
      <3>2. \E v \in Statement : v = u /\ v.term = w.term + 1
        BY <3>1
      <3> QED
        BY <3>2 DEF u
    <2>3. write' = [write EXCEPT ![r] = v]
      BY <1>2, <2>1, <2>2
    <2>4. LocalType' /\ OthersSame(r) /\ pc'[r] = "running" /\ write'[r] = v
      BY <1>1, <2>1, <2>3 DEF LocalType, Stage, OthersSame, Same
    <2>5. found'[r] # NoUnfinished => OfTerm(found[r].term, found[r].slot)'
      <3>1. found[r].term \in Nat /\ found[r].slot \in Nat
        BY <1>1 DEF LocalType
      <3> QED
        BY <1>1, <1>5, <2>1, <3>1 DEF InFlight, OfTerm, Onward, NoUnfinished
    <2>6. OfTerm(write[r].term, at[r])'
      BY <1>4, <1>5, <1>6, <2>1, <2>2, <2>4 DEF OfTerm
    <2>7. InFlight(r)'
      BY <1>4, <2>1, <2>4, <2>5, <2>6 DEF InFlight, NoUnfinished
    <2> QED
      BY <1>1, <1>3, <1>5, <2>4, <2>7, InvAfter
  <1>7. CASE ~Matches(w)
    <2>1. Proceed(r, FALSE)
      BY <1>2, <1>7 DEF Claim
    <2>2. /\ LocalType' /\ OthersSame(r)
          /\ pc'[r] = "down" \/ (pc'[r] = "waiting" /\ next'[r] > 0)
          /\ found'[r] = found[r] \/ found'[r] = NoUnfinished
      BY <1>1, <1>4, <2>1, ProceedFacts
    <2>3. InFlight(r)'
      BY <1>1, <1>5, <2>2, HeadInFlight
    <2> QED
      BY <1>1, <1>3, <1>5, <2>2, <2>3, InvAfter
  <1> QED
    BY <1>6, <1>7

\* The end of the round is recorded, once with the name and, when the name is
\* gone, once more without it.
LEMMA SettleKeeps ==
    ASSUME SlotInv, NEW r \in Replica, Settle(r) PROVE SlotInv'
  <1>1. /\ LocalType /\ SharedType /\ RecordOK /\ InFlight(r) /\ row.term \in Nat
        /\ \A w \in astray : w \in Statement
    BY InvParts
  <1>2. PICK w \in Statement : w = write[r]
    BY <1>1 DEF LocalType
  <1>3. /\ pc[r] = "settling" /\ Execute(w) /\ now' = now /\ astray' = astray
        /\ faults' = faults /\ faults \in 0..Faults /\ now' \in 0..MaxInstant
    BY <1>1, <1>2 DEF Settle, SharedType
  <1>4. Fits(w) /\ w.slot = at[r] /\ next[r] > 0 /\ at[r] \in Nat /\ w.term \in Nat
    BY <1>1, <1>2, <1>3 DEF InFlight, LocalType, Statement
  <1>5. RecordOK' /\ Onward /\ row'.term \in Nat
    BY <1>1, <1>3, <1>4, ExecuteFacts
  <1>6. CASE w.kind = "finish" /\ ~Matches(w)
    <2>1. PICK v \in Statement : /\ v = Stmt("record", w.term, at[r], 0)
                                 /\ v.kind = "record" /\ v.term = w.term /\ v.slot = at[r]
      BY <1>4, StmtFacts
    <2>2. /\ write' = [write EXCEPT ![r] = v]
          /\ UNCHANGED <<pc, next, at, origin, lost, stopping, found>>
      BY <1>2, <1>6, <2>1 DEF Settle, procVars
    <2>3. row' = row /\ claims' = claims /\ settled' = settled
      BY <1>3, <1>6 DEF Execute
    <2>4. Last' = Last
      BY <2>3 DEF Last
    <2>5. LocalType' /\ OthersSame(r) /\ write'[r] = v
      BY <1>1, <1>3, <2>2 DEF LocalType, Stage, OthersSame, Same
    <2>6. Fits(v)'
      BY <1>4, <1>6, <2>1, <2>3, <2>4 DEF Fits, OfTerm
    <2>7. InFlight(r)'
      BY <1>1, <1>3, <2>1, <2>2, <2>3, <2>4, <2>5, <2>6 DEF InFlight, OfTerm, NoUnfinished
    <2> QED
      BY <1>1, <1>3, <1>5, <2>5, <2>7, InvAfter
  <1>7. CASE ~(w.kind = "finish" /\ ~Matches(w))
    <2>1. Proceed(r, TRUE)
      BY <1>2, <1>7 DEF Settle
    <2>2. /\ LocalType' /\ OthersSame(r)
          /\ pc'[r] = "down" \/ (pc'[r] = "waiting" /\ next'[r] > 0)
          /\ found'[r] = found[r] \/ found'[r] = NoUnfinished
      BY <1>1, <1>4, <2>1, ProceedFacts
    <2>3. InFlight(r)'
      BY <1>1, <1>5, <2>2, HeadInFlight
    <2> QED
      BY <1>1, <1>3, <1>5, <2>2, <2>3, InvAfter
  <1> QED
    BY <1>6, <1>7

\* The lease of the round is found lost.
LEMMA LoseKeeps ==
    ASSUME SlotInv, NEW r \in Replica, Lose(r) PROVE SlotInv'
  <1>1. LocalType /\ SharedType /\ RecordOK /\ InFlight(r)
    BY InvParts
  <1>2. /\ pc[r] = "running" /\ lost' = [lost EXCEPT ![r] = TRUE]
        /\ UNCHANGED <<now, row, astray, pc, next, at, origin, write, stopping, found,
                       faults, claims, settled>>
    BY DEF Lose, loopVars
  <1>3. LocalType' /\ OthersSame(r)
    BY <1>1, <1>2 DEF LocalType, OthersSame, Same
  <1>4. Last' = Last
    BY <1>1, <1>2, RecordUnchanged
  <1>5. InFlight(r)'
    BY <1>1, <1>2, <1>4 DEF InFlight, OfTerm, NoUnfinished
  <1> QED
    BY <1>1, <1>2, <1>3, <1>5, QuietStep DEF SharedType

\* The end of a round sends statement v, in the name of its term.
LEMMA RoundSends ==
    ASSUME SlotInv, NEW r \in Replica, pc[r] = "running", NEW v \in Statement,
           v.kind \in {"finish", "record", "release"},
           v.term = write[r].term, v.slot = at[r],
           Goto(r, "settling"), write' = [write EXCEPT ![r] = v],
           UNCHANGED <<now, row, astray, next, at, origin, procVars, faults, claims, settled>>
    PROVE  SlotInv'
  <1>1. LocalType /\ SharedType /\ RecordOK /\ InFlight(r) /\ row.term \in Nat
    BY InvParts
  <1>2. /\ pc' = [pc EXCEPT ![r] = "settling"]
        /\ UNCHANGED <<lost, stopping, found>>
    BY DEF Goto, procVars
  <1>3. LocalType' /\ OthersSame(r) /\ pc'[r] = "settling" /\ write'[r] = v
    BY <1>1, <1>2 DEF LocalType, Stage, OthersSame, Same
  <1>4. Last' = Last
    BY <1>1, RecordUnchanged
  <1>5. Fits(v)'
    BY <1>1, <1>4 DEF Fits, OfTerm, InFlight
  <1>6. InFlight(r)'
    BY <1>1, <1>2, <1>3, <1>4, <1>5 DEF InFlight, OfTerm, NoUnfinished
  <1> QED
    BY <1>1, <1>3, <1>6, QuietStep DEF SharedType

\* The round ran to its end.
LEMMA RoundEndsKeeps ==
    ASSUME SlotInv, NEW r \in Replica, RoundEnds(r) PROVE SlotInv'
  <1>1. LocalType /\ InFlight(r)
    BY InvParts
  <1>2. /\ pc[r] = "running" /\ Goto(r, "settling")
        /\ UNCHANGED <<now, row, astray, next, at, origin, procVars, faults, claims, settled>>
    BY DEF RoundEnds
  <1>3. at[r] \in Nat /\ write[r].term \in Nat
    BY <1>1 DEF LocalType, Statement
  <1>4. CASE lost[r]
    <2>1. PICK v \in Statement : /\ v = Stmt("record", write[r].term, at[r], 0)
                                 /\ v.kind = "record" /\ v.term = write[r].term /\ v.slot = at[r]
      BY <1>3, StmtFacts
    <2>2. write' = [write EXCEPT ![r] = v]
      BY <1>4, <2>1 DEF RoundEnds
    <2> QED
      BY <1>2, <2>1, <2>2, RoundSends
  <1>5. CASE ~lost[r]
    <2>1. PICK c \in Nat : write' = [write EXCEPT ![r] = Stmt("finish", @.term, at[r], c)]
      BY <1>5, ClockFact DEF RoundEnds
    <2>2. PICK v \in Statement : /\ v = Stmt("finish", write[r].term, at[r], c)
                                 /\ v.kind = "finish" /\ v.term = write[r].term /\ v.slot = at[r]
      <3> DEFINE u == Stmt("finish", write[r].term, at[r], c)
      <3>1. u \in Statement /\ u.kind = "finish" /\ u.term = write[r].term /\ u.slot = at[r]
        BY <1>3 DEF Stmt, Statement
      <3> HIDE DEF u
      <3>2. \E v \in Statement :
              v = u /\ v.kind = "finish" /\ v.term = write[r].term /\ v.slot = at[r]
        BY <3>1
      <3> QED
        BY <3>2 DEF u
    <2>3. write' = [write EXCEPT ![r] = v]
      BY <2>1, <2>2
    <2> QED
      BY <1>2, <2>2, <2>3, RoundSends
  <1> QED
    BY <1>4, <1>5

\* The round was cut short.
LEMMA RoundCutShortKeeps ==
    ASSUME SlotInv, NEW r \in Replica, RoundCutShort(r) PROVE SlotInv'
  <1>1. LocalType /\ SharedType /\ InFlight(r)
    BY InvParts
  <1>2. /\ pc[r] = "running" /\ next[r] > 0
        /\ UNCHANGED <<now, row, astray, claims, settled>>
        /\ faults' = faults /\ faults \in 0..Faults
    BY <1>1 DEF RoundCutShort, InFlight, SharedType
  <1>3. CASE lost[r]
    <2>1. Proceed(r, TRUE)
      BY <1>3 DEF RoundCutShort
    <2>2. /\ LocalType' /\ OthersSame(r)
          /\ pc'[r] = "down" \/ (pc'[r] = "waiting" /\ next'[r] > 0)
          /\ found'[r] = found[r] \/ found'[r] = NoUnfinished
      BY <1>1, <1>2, <2>1, ProceedFacts
    <2> QED
      BY <1>2, <2>2, HeadKeeps
  <1>4. CASE ~lost[r]
    <2>1. at[r] \in Nat /\ write[r].term \in Nat
      BY <1>1 DEF LocalType, Statement
    <2>2. PICK v \in Statement : /\ v = Stmt("release", write[r].term, at[r], 0)
                                 /\ v.kind = "release" /\ v.term = write[r].term /\ v.slot = at[r]
      BY <2>1, StmtFacts
    <2>3. /\ write' = [write EXCEPT ![r] = v] /\ Goto(r, "settling")
          /\ UNCHANGED <<next, at, origin, procVars>>
      BY <1>4, <2>2 DEF RoundCutShort
    <2> QED
      BY <1>2, <2>2, <2>3, RoundSends
  <1> QED
    BY <1>3, <1>4

\* Failing the process, a crash and a stop leave the loop.
LEMMA ExitKeeps ==
    ASSUME SlotInv, NEW r \in Replica, FailNow(r) \/ Crash(r) \/ Stop(r) PROVE SlotInv'
  <1>1. LocalType /\ SharedType /\ RecordOK /\ InFlight(r)
    BY InvParts
  <1>2. faults' \in 0..Faults /\ UNCHANGED <<now, row, claims, settled>>
    BY <1>1, BoundsAssumption DEF FailNow, Crash, Stop, Fault, SharedType
  <1>3. CASE Exit(r)
    <2>1. LocalType' /\ OthersSame(r) /\ pc'[r] = "down" /\ found'[r] = NoUnfinished
      BY <1>1, <1>3, ExitFacts
    <2>2. astray' = astray \/ LeaveAstray(r)
      BY DEF FailNow, Crash, Stop
    <2> QED
      BY <1>2, <2>1, <2>2, HeadKeeps
  <1>4. CASE ~Exit(r)
    <2>1. /\ stopping' = [stopping EXCEPT ![r] = TRUE]
          /\ UNCHANGED <<pc, next, at, origin, write, lost, found, astray>>
      BY <1>4 DEF FailNow, Crash, Stop, loopVars
    <2>2. LocalType' /\ OthersSame(r)
      BY <1>1, <2>1 DEF LocalType, OthersSame, Same
    <2>3. Last' = Last
      BY <1>1, <1>2, RecordUnchanged
    <2>4. InFlight(r)'
      BY <1>1, <1>2, <2>1, <2>3 DEF InFlight, OfTerm, Fits, NoUnfinished
    <2> QED
      BY <1>2, <2>1, <2>2, <2>4, QuietStep
  <1> QED
    BY <1>3, <1>4

\* A statement fails: the loop goes on, or reads again.
LEMMA StatementFailsKeeps ==
    ASSUME SlotInv, NEW r \in Replica, StatementFails(r) PROVE SlotInv'
  <1>1. LocalType /\ SharedType /\ RecordOK /\ InFlight(r) /\ row.term \in Nat
        /\ \A w \in astray : w \in Statement
    BY InvParts
  <1>2. /\ pc[r] \in {"starting", "reading", "writing", "settling"}
        /\ LeaveAstray(r) /\ UNCHANGED <<now, row, claims, settled>>
        /\ next[r] \in Nat /\ next[r] > 0
    BY <1>1 DEF StatementFails, InFlight, LocalType
  <1>3. faults' \in 0..Faults
    BY <1>1, BoundsAssumption DEF StatementFails, Fault, SharedType
  <1>4. CASE LoopHead(r, next[r]) \/ Proceed(r, pc[r] = "settling")
    <2>1. /\ LocalType' /\ OthersSame(r)
          /\ pc'[r] = "down" \/ (pc'[r] = "waiting" /\ next'[r] > 0)
          /\ found'[r] = found[r] \/ found'[r] = NoUnfinished
      BY <1>1, <1>2, <1>4, LoopHeadFacts, ProceedFacts
    <2> QED
      BY <1>2, <1>3, <2>1, HeadKeeps
  <1>5. CASE ~(LoopHead(r, next[r]) \/ Proceed(r, pc[r] = "settling"))
    <2>1. /\ pc[r] \in {"reading", "writing"} /\ pc' = [pc EXCEPT ![r] = "reading"]
          /\ write' = [write EXCEPT ![r] = NoStatement]
          /\ UNCHANGED <<next, at, origin, lost, stopping, found>>
      BY <1>5 DEF StatementFails, Goto, procVars
    <2>2. LocalType' /\ OthersSame(r) /\ pc'[r] = "reading"
      BY <1>1, <2>1, NoStatementFact DEF LocalType, Stage, OthersSame, Same
    <2>3. RecordOK' /\ Onward /\ Last' = Last /\ row' = row /\ row'.term \in Nat
      BY <1>1, <1>2, RecordUnchanged
    <2>4. at[r] > 0
      BY <1>1, <2>1 DEF InFlight
    <2>5. InFlight(r)'
      BY <1>1, <2>1, <2>2, <2>3, <2>4 DEF InFlight, OfTerm, NoUnfinished
    <2>6. ASSUME NEW w \in astray' PROVE w \in Statement /\ (w \in astray \/ Fits(w)')
      <3>1. CASE w \in astray
        BY <1>1, <3>1
      <3>2. CASE w \notin astray
        <4>1. w = write[r] /\ pc[r] \in {"writing", "settling"}
          BY <1>2, <3>2 DEF LeaveAstray
        <4>2. w \in Statement /\ Fits(w)
          BY <1>1, <4>1 DEF InFlight, LocalType
        <4> QED
          BY <1>1, <2>3, <4>2, AstrayFits
      <3> QED
        BY <3>1, <3>2
    <2> QED
      BY <1>1, <1>2, <1>3, <2>2, <2>3, <2>5, <2>6, InvAfter DEF SharedType
  <1> QED
    BY <1>4, <1>5

\* A statement astray runs after all, the lease expires, time passes: no
\* replica moves.
LEMMA EnvironmentKeeps ==
    ASSUME SlotInv, Tick \/ Expire \/ (\E w \in astray : ExecuteAstray(w))
    PROVE  SlotInv'
  <1>1. /\ LocalType /\ SharedType /\ RecordOK /\ row.term \in Nat
        /\ \A w \in astray : w \in Statement /\ Fits(w)
        /\ \A q \in Replica : InFlight(q)
    BY InvParts
  <1>2. /\ UNCHANGED <<pc, next, at, origin, write, lost, stopping, found, faults>>
        /\ astray' \subseteq astray
    BY DEF Tick, Expire, ExecuteAstray, loopVars, procVars
  <1>3. LocalType' /\ (\A q \in Replica : Same(q))
    BY <1>1, <1>2 DEF LocalType, Same
  <1>4. RecordOK' /\ Onward /\ now' \in 0..MaxInstant
    <2>1. CASE Tick
      <3>1. /\ now' = now + 1 /\ now' \in 0..MaxInstant /\ now \in Nat /\ row.slot \in Nat
            /\ row' = row /\ claims' = claims /\ settled' = settled
        BY <1>1, <2>1, BoundsAssumption DEF Tick, SharedType, Row
      <3>2. Last' = Last
        BY <3>1 DEF Last
      <3>3. RecordInv' /\ ClaimsInOrder'
        BY <1>1, <3>1, <3>2 DEF RecordOK, RecordInv, ClaimsInOrder
      <3> QED
        BY <1>1, <3>1, <3>2, <3>3 DEF RecordOK, Onward
    <2>2. CASE Expire
      <3>1. /\ row'.term = row.term /\ row'.slot = row.slot /\ row'.rerun = row.rerun
            /\ row'.unfinished = row.unfinished /\ row' \in Row
            /\ now' = now /\ claims' = claims /\ settled' = settled
        BY <1>1, <2>2 DEF Expire, SharedType, Row
      <3>2. Last' = Last
        BY <3>1 DEF Last
      <3>3. RecordInv' /\ ClaimsInOrder'
        BY <1>1, <3>1, <3>2 DEF RecordOK, RecordInv, ClaimsInOrder
      <3> QED
        BY <1>1, <3>1, <3>2, <3>3 DEF RecordOK, Onward, SharedType
    <2>3. CASE \E w \in astray : ExecuteAstray(w)
      <3>1. PICK w \in astray : ExecuteAstray(w)
        BY <2>3
      <3>2. w \in Statement /\ Fits(w) /\ Execute(w) /\ now' = now
        BY <1>1, <3>1 DEF ExecuteAstray
      <3> QED
        BY <1>1, <3>2, ExecuteFacts DEF SharedType
    <2> QED
      BY <2>1, <2>2, <2>3
  <1>5. SharedType' /\ row'.term \in Nat
    BY <1>1, <1>2, <1>4 DEF SharedType, RecordOK, Row
  <1>6. TypeOK'
    <2>1. (TypeOK <=> LocalType /\ SharedType)'
      BY TypeParts, PTL
    <2> QED
      BY <1>3, <1>5, <2>1
  <1>7. \A w \in astray' : Fits(w)'
    BY <1>1, <1>2, <1>4, <1>5, AstrayFits
  <1>8. \A q \in Replica : InFlight(q)'
    BY <1>1, <1>3, <1>4, <1>5, SameInFlight
  <1> QED
    BY <1>4, <1>6, <1>7, <1>8 DEF SlotInv, FlightInv, RecordOK

\* The invariant holds at the start: no row, no claim, every replica down.
LEMMA InvAtInit ==
    ASSUME Init PROVE SlotInv
  <1>1. TypeOK
    <2>1. /\ now \in 0..MaxInstant /\ faults \in 0..Faults
      BY BoundsAssumption DEF Init
    <2>2. row \in Row /\ claims \in Seq(ClaimOnRecord)
      BY DEF Init, Row
    <2>3. NoUnfinished \in [term : Nat, slot : Nat]
      BY DEF NoUnfinished
    <2> QED
      BY <2>1, <2>2, <2>3, NoStatementFact DEF Init, TypeOK
  <1>2. Len(claims) = 0 /\ Last = 0
    BY DEF Init, Last
  <1>3. RecordInv /\ ClaimsInOrder
    BY <1>2 DEF Init, RecordInv, ClaimsInOrder
  <1>4. FlightInv
    BY DEF Init, FlightInv, InFlight
  <1> QED
    BY <1>1, <1>3, <1>4 DEF SlotInv

\* Every step keeps the invariant.
LEMMA InvStep ==
    ASSUME SlotInv, [Next]_vars PROVE SlotInv'
  <1>1. CASE Tick \/ Expire \/ (\E w \in astray : ExecuteAstray(w))
    BY <1>1, EnvironmentKeeps
  <1>2. ASSUME NEW r \in Replica, LoopStep(r) PROVE SlotInv'
    BY <1>2, CatchUpKeeps, DueKeeps, ReadSlotKeeps, TakeFoundKeeps, ClaimKeeps, SettleKeeps
       DEF LoopStep
  <1>3. ASSUME NEW r \in Replica,
               \/ Start(r) \/ Sweep(r) \/ Lose(r) \/ RoundEnds(r) \/ RoundCutShort(r)
               \/ FailNow(r) \/ Stop(r) \/ Crash(r) \/ StatementFails(r)
        PROVE  SlotInv'
    BY <1>3, StartKeeps, SweepKeeps, LoseKeeps, RoundEndsKeeps, RoundCutShortKeeps,
       ExitKeeps, StatementFailsKeeps
  <1>4. CASE UNCHANGED vars
    <2>1. Last' = Last
      BY <1>4 DEF vars, Last
    <2>2. TypeOK'
      BY <1>4 DEF vars, SlotInv, TypeOK
    <2>3. RecordInv' /\ ClaimsInOrder'
      BY <1>4, <2>1 DEF vars, SlotInv, RecordInv, ClaimsInOrder
    <2>4. FlightInv'
      BY <1>4, <2>1 DEF vars, SlotInv, FlightInv, InFlight, Fits, OfTerm, NoUnfinished
    <2> QED
      BY <2>2, <2>3, <2>4 DEF SlotInv
  <1> QED
    BY <1>1, <1>2, <1>3, <1>4 DEF Next

-----------------------------------------------------------------------------
(***************************************************************************)
(* The theorems.                                                           *)
(***************************************************************************)

\* The record agrees with the history of claims, and every statement and
\* finding in flight with the record, in every reachable state.
THEOREM SlotInvariance == Spec => []SlotInv
  <1>1. Init => SlotInv
    BY InvAtInit
  <1>2. SlotInv /\ [Next]_vars => SlotInv'
    BY InvStep
  <1> QED
    BY <1>1, <1>2, PTL DEF Spec

\* Every variable keeps its type, and a loop between rounds keeps nothing of
\* the last one.
THEOREM SlotTypeCorrectness == Spec => []TypeOK
  <1>1. SlotInv => TypeOK
    BY DEF SlotInv
  <1> QED
    BY <1>1, SlotInvariance, PTL

\* Across any number of replicas, crashes, failed and late statements, each
\* instant is claimed once, in order, and once more only after it was cut short.
THEOREM ClaimOrder == Spec => []ClaimsInOrder
  <1>1. SlotInv => ClaimsInOrder
    BY DEF SlotInv
  <1> QED
    BY <1>1, SlotInvariance, PTL

\* The mark of an unfinished round is the last claim's and of no finished one.
THEOREM UnfinishedMark == Spec => []UnfinishedIsLastClaim
  <1>1. SlotInv => UnfinishedIsLastClaim
    <2> SUFFICES ASSUME SlotInv, row.unfinished # 0
                 PROVE  /\ row.unfinished = row.slot
                        /\ Len(claims) > 0 /\ claims[Len(claims)].slot = row.slot
                        /\ row.unfinished \notin settled
      BY DEF UnfinishedIsLastClaim
    <2>1. RecordOK /\ row.unfinished \in Nat /\ Len(claims) \in Nat
      BY InvParts, LastFacts DEF RecordOK, Row
    <2>2. row.unfinished = Last /\ row.slot = Last /\ Last \notin settled
      BY <2>1 DEF RecordOK, RecordInv
    <2>3. Len(claims) > 0
      BY <2>1, <2>2 DEF Last
    <2> QED
      BY <2>2, <2>3 DEF Last
  <1> QED
    BY <1>1, SlotInvariance, PTL

\* Nothing ahead of the database's clock is recorded as skipped, for any skew.
THEOREM SkipSafety == Spec => []SkipsOnlyThePast
  <1>1. SlotInv => SkipsOnlyThePast
    <2> SUFFICES ASSUME SlotInv, row.slot > now
                 PROVE  \E k \in 1..Len(claims) : claims[k].slot = row.slot
      BY DEF SkipsOnlyThePast
    <2>1. RecordOK /\ row.slot \in Nat /\ now \in Nat /\ Len(claims) \in Nat
      BY InvParts, LastFacts DEF RecordOK, Row
    <2>2. row.slot = Last /\ row.slot > 0
      BY <2>1 DEF RecordOK, RecordInv
    <2>3. Len(claims) > 0
      BY <2>1, <2>2 DEF Last
    <2> QED
      BY <2>1, <2>2, <2>3 DEF Last
  <1> QED
    BY <1>1, SlotInvariance, PTL

\* An instant whose round is recorded finished is never claimed again.
THEOREM FinishedFinal == Spec => FinishedNeverClaimed
  <1>1. SlotInv /\ [Next]_vars =>
          [\A c \in {claims'[k] : k \in (Len(claims) + 1)..Len(claims')} :
              c.slot \notin settled]_vars
    <2> SUFFICES ASSUME SlotInv, Next
                 PROVE  \A k \in (Len(claims) + 1)..Len(claims') : claims'[k].slot \notin settled
      OBVIOUS
    <2>1. /\ RecordOK /\ Len(claims) \in Nat /\ LocalType
          /\ \A w \in astray : w \in Statement /\ Fits(w)
          /\ \A r \in Replica : InFlight(r)
      BY InvParts, LastFacts DEF RecordOK
    <2>2. CASE claims' = claims
      BY <2>1, <2>2
    <2>3. CASE \E w \in astray : ExecuteAstray(w)
      BY <2>1, <2>3, ExecuteFacts DEF ExecuteAstray
    <2>4. ASSUME NEW r \in Replica, Claim(r) \/ Settle(r)
          PROVE  \A k \in (Len(claims) + 1)..Len(claims') : claims'[k].slot \notin settled
      <3>1. write[r] \in Statement /\ Fits(write[r]) /\ Execute(write[r]) /\ now' = now
        BY <2>1, <2>4 DEF Claim, Settle, InFlight, LocalType
      <3> QED
        BY <2>1, <3>1, ExecuteFacts
    <2>5. \/ claims' = claims
          \/ \E w \in astray : ExecuteAstray(w)
          \/ \E r \in Replica : Claim(r) \/ Settle(r)
      BY DEF Next, Tick, Expire, LoopStep, Start, CatchUp, Due, ReadSlot, TakeFound, Sweep,
             Lose, RoundEnds, RoundCutShort, FailNow, Stop, Crash, StatementFails
    <2> QED
      BY <2>2, <2>3, <2>4, <2>5
  <1> QED
    BY <1>1, SlotInvariance, PTL DEF Spec, FinishedNeverClaimed
-----------------------------------------------------------------------------
(***************************************************************************)
(* One round for each instant.                                             *)
(***************************************************************************)

\* A statement executed is a step of OneRoundEach, or none.
LEMMA ExecuteAbstract ==
    ASSUME RecordOK, NEW w \in Statement, Fits(w), Execute(w)
    PROVE  [Abstract!Next]_(Abstract!vars)
  <1> DEFINE n == Len(claims)
             c == [slot |-> w.slot, rerun |-> w.kind = "rerun"]
  <1>1. /\ n \in Nat /\ Last \in Nat /\ claims \in Seq(ClaimOnRecord) /\ ClaimsInOrder
        /\ row.term = n /\ row.term \in Nat /\ row.slot \in Nat /\ row.unfinished \in Nat
        /\ row.rerun \in Nat /\ (row.term > 0 => Last > 0)
        /\ row.unfinished # 0 => row.unfinished = Last /\ row.slot = Last /\ Last \notin settled
        /\ n > 0 /\ claims[n].rerun => row.rerun = Last
        /\ Last <= row.slot
    BY LastFacts DEF RecordOK, RecordInv, Row
  <1>2. w.term \in Nat /\ w.slot \in Nat /\ c \in ClaimOnRecord
    BY DEF Statement, ClaimOnRecord
  <1>3. w.kind \in {"insert", "slot", "rerun", "finish", "record", "release"}
    BY DEF Statement, Fits
  <1>4. c.slot = w.slot /\ c.rerun = (w.kind = "rerun")
    OBVIOUS
  <1> HIDE DEF c
  <1>5. ASSUME claims' = claims PROVE Last' = Last /\ Again' = Again
    BY <1>5 DEF Last, Again
  <1>6. ASSUME claims' = Append(claims, c),
               \/ w.slot > Last
               \/ n > 0 /\ w.slot = Last /\ ~claims[n].rerun /\ w.kind = "rerun"
        PROVE  Last' = w.slot /\ Again' = (w.kind = "rerun")
    <2>1. /\ Len(claims') = n + 1 /\ claims'[Len(claims')] = c /\ Last' = c.slot
      BY <1>1, <1>2, <1>4, <1>6, ClaimAppended
    <2>2. Len(claims') > 0
      BY <1>1, <2>1
    <2>3. Again' <=> w.kind = "rerun"
      BY <1>4, <2>1, <2>2, Zenon DEF Again
    <2>4. Again' = (w.kind = "rerun")
      BY <2>3, Zenon DEF Again
    <2> QED
      BY <1>4, <2>1, <2>4
  <1>7. CASE ~Matches(w) \/ w.kind = "release"
    <2>1. claims' = claims /\ settled' = settled
      BY <1>7 DEF Execute
    <2> QED
      BY <1>5, <2>1 DEF Abstract!vars
  <1>8. CASE Matches(w) /\ w.kind \in {"insert", "slot"}
    <2>1. claims' = Append(claims, c) /\ settled' = settled
      BY <1>8 DEF Execute, c
    <2>2. w.slot > Last
      <3>1. CASE w.kind = "insert"
        BY <1>1, <1>2, <1>8, <3>1 DEF Matches, Fits, Last
      <3>2. CASE w.kind = "slot"
        BY <1>1, <1>2, <1>8, <3>2 DEF Matches, SlotFree, Fits
      <3> QED
        BY <1>8, <3>1, <3>2
    <2>3. Last' = w.slot /\ Again' = FALSE
      BY <1>6, <1>8, <2>1, <2>2
    <2>4. Abstract!Begin
      BY <1>2, <2>1, <2>2, <2>3 DEF Abstract!Begin
    <2> QED
      BY <2>4 DEF Abstract!Next
  <1>9. CASE Matches(w) /\ w.kind = "rerun"
    <2>1. claims' = Append(claims, c) /\ settled' = settled
      BY <1>9 DEF Execute, c
    <2>2. /\ row.term = w.term /\ w.term > 0 /\ w.slot = Last
          /\ row.unfinished = row.slot /\ row.rerun < row.slot
      BY <1>1, <1>2, <1>9 DEF Matches, RerunFree, Fits, OfTerm
    <2>3. n > 0 /\ Last > 0 /\ Last \notin settled /\ ~claims[n].rerun
      BY <1>1, <2>2
    <2>4. Last' = Last /\ Again' = TRUE /\ ~Again
      BY <1>6, <1>9, <2>1, <2>2, <2>3 DEF Again
    <2>5. Abstract!BeginAgain
      BY <2>1, <2>3, <2>4 DEF Abstract!BeginAgain
    <2> QED
      BY <2>5 DEF Abstract!Next
  <1>10. CASE Matches(w) /\ w.kind \in {"finish", "record"}
    <2>1. claims' = claims /\ settled' = settled \cup {w.slot}
      BY <1>10 DEF Execute
    <2>2. w.slot = Last /\ Last > 0
      <3>1. w.kind = "finish" => w.slot = Last /\ w.slot > 0
        BY <1>10 DEF Matches, Fits, OfTerm
      <3>2. w.kind = "record" => w.slot = row.unfinished /\ w.slot > 0
        BY <1>10 DEF Matches, StillMarked, Fits, OfTerm
      <3> QED
        BY <1>1, <1>2, <1>10, <3>1, <3>2
    <2>3. Abstract!Finish
      BY <1>5, <2>1, <2>2 DEF Abstract!Finish
    <2> QED
      BY <2>3 DEF Abstract!Next
  <1> QED
    BY <1>3, <1>7, <1>8, <1>9, <1>10

\* The scheduler implements the abstract one-round-each: the history of claims
\* and ends, over every replica, crash and late statement, is one that a single
\* process running its instants one after the other could have.
THEOREM OneRoundEachRefinement == Spec => ImplementsOneRoundEach
  <1>1. Init => Abstract!Init
    BY DEF Init, Abstract!Init, Last, Again
  <1>2. SlotInv /\ [Next]_vars => [Abstract!Next]_(Abstract!vars)
    <2> SUFFICES ASSUME SlotInv, [Next]_vars
                 PROVE  [Abstract!Next]_(Abstract!vars)
      OBVIOUS
    <2>1. /\ RecordOK /\ LocalType
          /\ \A w \in astray : w \in Statement /\ Fits(w)
          /\ \A r \in Replica : InFlight(r)
      BY InvParts
    <2>2. CASE claims' = claims /\ settled' = settled
      BY <2>2 DEF Abstract!vars, Last, Again
    <2>3. CASE \E w \in astray : ExecuteAstray(w)
      BY <2>1, <2>3, ExecuteAbstract DEF ExecuteAstray
    <2>4. ASSUME NEW r \in Replica, Claim(r) \/ Settle(r)
          PROVE  [Abstract!Next]_(Abstract!vars)
      <3>1. write[r] \in Statement /\ Fits(write[r]) /\ Execute(write[r])
        BY <2>1, <2>4 DEF Claim, Settle, InFlight, LocalType
      <3> QED
        BY <2>1, <3>1, ExecuteAbstract
    <2>5. \/ claims' = claims /\ settled' = settled
          \/ \E w \in astray : ExecuteAstray(w)
          \/ \E r \in Replica : Claim(r) \/ Settle(r)
      BY DEF Next, Tick, Expire, LoopStep, Start, CatchUp, Due, ReadSlot, TakeFound, Sweep,
             Lose, RoundEnds, RoundCutShort, FailNow, Stop, Crash, StatementFails, vars
    <2> QED
      BY <2>2, <2>3, <2>4, <2>5
  <1> QED
    BY <1>1, <1>2, SlotInvariance, PTL DEF Spec, ImplementsOneRoundEach, Abstract!Spec
=============================================================================
