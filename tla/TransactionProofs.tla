------------------------- MODULE TransactionProofs --------------------------
(***************************************************************************)
(* The invariants of Transaction for any instances, any nesting and any    *)
(* number of transactions, rows and faults.  Each step is first stated     *)
(* field by field (Wrote, Got, Called, ...); the invariants are then shown *)
(* from those statements and never meet an EXCEPT.                         *)
(***************************************************************************)
EXTENDS Transaction, TLAPS

\* TypeOK in two: the sets, and the boundaries that have run.
Types ==
    /\ depth \in 0 .. MaxDepth /\ opened \in 0 .. MaxTx /\ written \in 0 .. MaxRow
    /\ frame \in [Level -> Frame]
    /\ tx \in [Tx -> Boundary]
    /\ row \in [Row -> Tx \cup {0}]
    /\ ran \in Seq(Row) /\ failed \in SUBSET Row
    /\ ended \in BOOLEAN /\ faults \in 0 .. MaxFaults

Cleared == \A l \in Level : frame[l].pc = "run" => tx[frame[l].own].actions = <<>>

\* The bodies lie on one another: nothing above the top, the handler at the
\* bottom, a transaction upon a body, an action upon whatever called it, and
\* no transaction is the own one of two.
Stack ==
    /\ \A l \in Level : l > depth => frame[l].pc = "off" /\ frame[l].own = 0
    /\ \A l \in 1 .. depth :
        /\ frame[l].pc # "off" /\ frame[l].own <= opened
        /\ frame[l].pc # "body" => frame[l].own # 0
        /\ l < depth => frame[l].pc # "commit"
        /\ l = 1 => frame[l].own = 0
        /\ l > 1 /\ frame[l].own = 0 => frame[l].act # 0
        /\ l > 1 /\ frame[l].own # 0 => frame[l - 1].pc = "body"
    /\ \A k, l \in 1 .. depth : frame[k].own = frame[l].own /\ frame[l].own # 0 => k = l

\* What became of the transactions: one on the stack has not answered, and it
\* has committed just when its actions run; one that answered is settled; what
\* was not opened is as it began.
Fates ==
    /\ \A t \in Tx : t > opened =>
        /\ tx[t].state = "unused" /\ tx[t].answer = "none"
        /\ tx[t].actions = <<>> /\ tx[t].said = <<>>
    /\ \A l \in 1 .. depth : frame[l].own # 0 =>
        /\ tx[frame[l].own].answer = "none"
        /\ frame[l].pc = "run" <=> tx[frame[l].own].state = "committed"
    /\ \A l \in 1 .. depth : frame[l].pc = "run" => frame[l].err \in {"nil", "panic"} \cup IsAfter
    /\ \A t \in Tx : tx[t].answer # "none" => tx[t].state \in {"committed", "undone"}
    /\ \A t \in Tx : tx[t].cut => ended

Said(w) == \E t \in Tx : \E i \in DOMAIN tx[t].said : tx[t].said[i] = w

\* A row has one action: the body that wrote it has still to register it, or
\* it was registered or run, once.
Entries ==
    /\ \A l \in 1 .. depth : frame[l].wrote # 0 =>
        frame[l].wrote <= written /\ ~ Ran(frame[l].wrote) /\ ~ Said(frame[l].wrote)
    /\ \A k, l \in 1 .. depth : frame[k].wrote = frame[l].wrote /\ frame[l].wrote # 0 => k = l
    /\ \A t, u \in Tx : \A i \in DOMAIN tx[t].said, j \in DOMAIN tx[u].said :
        tx[t].said[i] = tx[u].said[j] => t = u /\ i = j
    /\ \A w \in Row : Ran(w) \/ Said(w) => w <= written
    /\ \A i, j \in DOMAIN ran : ran[i] = ran[j] => i = j

\* The actions on the stack are running, have not failed and are all different;
\* one that AfterCommit runs at once belongs to no boundary.
Acts ==
    /\ \A w \in failed : Ran(w)
    /\ \A l \in 2 .. depth : frame[l].own = 0 =>
        /\ Ran(frame[l].act) /\ frame[l].act \notin failed
        /\ frame[l - 1].pc = "body" => ~ Said(frame[l].act)
    /\ \A k, l \in 2 .. depth :
        frame[k].own = 0 /\ frame[l].own = 0 /\ frame[k].act = frame[l].act => k = l

\* How far a run is: n of the actions said have run, the last of them still on
\* the stack when the run is not on top, and the others are left.
Progress(l, said, n) ==
    /\ Len(said) = n + Len(frame[l].todo)
    /\ \A i \in 1 .. Len(frame[l].todo) :
        frame[l].todo[i] = said[n + i] /\ ~ Ran(said[n + i])
    /\ frame[l].err # "nil" => frame[l].todo = <<>> /\ l = depth
    /\ frame[l].err = "nil" => \A m \in 1 .. n :
        Ran(said[m]) /\ (m < n \/ l = depth => said[m] \notin failed)
    /\ l < depth => n > 0 /\ frame[l + 1].act = said[n]

Waiting(t) ==
    /\ tx[t].actions = tx[t].said
    /\ \A i \in 1 .. Len(tx[t].said) : ~ Ran(tx[t].said[i])

Lists ==
    \A l \in 1 .. depth : frame[l].own # 0 =>
        IF frame[l].pc = "run" THEN \E n \in Nat : Progress(l, tx[frame[l].own].said, n)
                               ELSE Waiting(frame[l].own)

-----------------------------------------------------------------------------
(* What a step does, field by field. *)

SameBody(l) ==
    /\ frame'[l].pc = frame[l].pc /\ frame'[l].own = frame[l].own
    /\ frame'[l].act = frame[l].act /\ frame'[l].ctx = frame[l].ctx

OthersSame(l) == \A k \in Level : k # l => frame'[k] = frame[k]

IsBody(l, pc, t, w, ctx) ==
    /\ frame'[l].pc = pc /\ frame'[l].own = t /\ frame'[l].act = w /\ frame'[l].ctx = ctx
    /\ frame'[l].wrote = 0 /\ frame'[l].err = "nil" /\ frame'[l].todo = <<>>

SameLists(t) == tx'[t].actions = tx[t].actions /\ tx'[t].said = tx[t].said

SameFate(t) ==
    /\ tx'[t].state = tx[t].state /\ tx'[t].returned = tx[t].returned
    /\ tx'[t].answer = tx[t].answer /\ tx'[t].cut = tx[t].cut

OtherTxSame(t) == \A u \in Tx : u # t => tx'[u] = tx[u]

\* The body on top may act.
OnBody == depth \in Level /\ frame[depth].pc = "body"

Wrote ==
    /\ OnBody /\ written + 1 \in Row /\ written' = written + 1
    /\ \A w \in Row : w # written + 1 => row'[w] = row[w]
    /\ SameBody(depth) /\ OthersSame(depth)
    /\ frame'[depth].wrote = written + 1
    /\ frame'[depth].err = frame[depth].err /\ frame'[depth].todo = frame[depth].todo
    /\ UNCHANGED <<depth, opened, tx, ran, failed, ended>>

Got ==
    /\ OnBody
    /\ SameBody(depth) /\ OthersSame(depth)
    /\ frame'[depth].wrote = frame[depth].wrote /\ frame'[depth].todo = frame[depth].todo
    /\ UNCHANGED <<depth, opened, tx, written, row, ran, failed, ended>>

Called(w, ctx) ==
    /\ depth \in Level /\ depth + 1 \in Level /\ depth' = depth + 1
    /\ w \in Row /\ ctx \in Context /\ ran' = Append(ran, w)
    /\ SameBody(depth)
    /\ frame'[depth].wrote = 0 /\ frame'[depth].err = frame[depth].err
    /\ IsBody(depth + 1, "body", 0, w, ctx)
    /\ \A k \in Level : k # depth /\ k # depth + 1 => frame'[k] = frame[k]
    /\ UNCHANGED <<opened, tx, written, row, failed, ended>>

\* AfterCommit without a boundary, and the run after a commit.
CalledAtOnce(w, ctx) ==
    /\ OnBody /\ w = frame[depth].wrote /\ ctx = frame[depth].ctx /\ ctx.boundary = 0
    /\ ~Crossing => row[w] = 0
    /\ Called(w, ctx)
    /\ frame'[depth].todo = frame[depth].todo

CalledInRun(w, ctx) ==
    /\ depth \in Level /\ depth - 1 \in Level
    /\ frame[depth].pc = "run" /\ frame[depth].todo # <<>>
    /\ w = Head(frame[depth].todo) /\ ctx = frame[depth - 1].ctx
    /\ Called(w, ctx)
    /\ frame'[depth].todo = Tail(frame[depth].todo)

Registered(w, b) ==
    /\ OnBody /\ w \in Row /\ b \in Tx
    /\ w = frame[depth].wrote /\ b = frame[depth].ctx.boundary
    /\ ~Crossing => row[w] = b
    /\ tx'[b].actions = Append(tx[b].actions, w) /\ tx'[b].said = Append(tx[b].said, w)
    /\ SameFate(b) /\ OtherTxSame(b)
    /\ SameBody(depth) /\ OthersSame(depth)
    /\ frame'[depth].wrote = 0
    /\ frame'[depth].err = frame[depth].err /\ frame'[depth].todo = frame[depth].todo
    /\ UNCHANGED <<depth, opened, written, row, ran, failed, ended>>

Opened(d) ==
    /\ OnBody /\ depth + 1 \in Level /\ depth' = depth + 1
    /\ opened + 1 \in Tx /\ opened' = opened + 1
    /\ tx'[opened + 1].state = "open"
    /\ tx'[opened + 1].returned = tx[opened + 1].returned
    /\ tx'[opened + 1].answer = tx[opened + 1].answer
    /\ tx'[opened + 1].cut = tx[opened + 1].cut
    /\ SameLists(opened + 1) /\ OtherTxSame(opened + 1)
    /\ IsBody(depth + 1, "body", opened + 1, 0, WithTx(frame[depth].ctx, d, opened + 1))
    /\ OthersSame(depth + 1)
    /\ UNCHANGED <<written, row, ran, failed, ended>>

Over ==
    /\ depth = 1 /\ depth' = 0
    /\ frame'[1] = NoBody /\ OthersSame(1)
    /\ UNCHANGED <<opened, tx, written, row, ran, failed, ended>>

Done(t) ==
    /\ OnBody /\ t \in Tx /\ t = frame[depth].own
    /\ frame'[depth].pc = "commit" /\ frame'[depth].own = t
    /\ frame'[depth].act = frame[depth].act /\ frame'[depth].ctx = frame[depth].ctx
    /\ frame'[depth].wrote = frame[depth].wrote
    /\ OthersSame(depth)
    /\ tx'[t].returned = "nil" /\ tx'[t].state = tx[t].state
    /\ tx'[t].answer = tx[t].answer /\ tx'[t].cut = tx[t].cut
    /\ SameLists(t) /\ OtherTxSame(t)
    /\ UNCHANGED <<depth, opened, written, row, ran, failed, ended>>

\* A transaction is over: the body below gets the answer.
Closed(t, e) ==
    /\ depth \in Level /\ depth - 1 \in Level /\ depth' = depth - 1
    /\ t \in Tx /\ t = frame[depth].own
    /\ frame'[depth] = NoBody
    /\ SameBody(depth - 1) /\ frame'[depth - 1].err = e
    /\ frame'[depth - 1].wrote = frame[depth - 1].wrote
    /\ frame'[depth - 1].todo = frame[depth - 1].todo
    /\ \A k \in Level : k # depth /\ k # depth - 1 => frame'[k] = frame[k]
    /\ tx'[t].answer = e /\ e \in Result
    /\ SameLists(t) /\ OtherTxSame(t)
    /\ UNCHANGED <<opened, written, row, ran, failed, ended>>

RolledBack(t, e) ==
    /\ frame[depth].pc = "body" /\ Closed(t, Told(e)) /\ e \in Result \ {"nil"}
    /\ tx'[t].state = "undone" /\ tx'[t].returned = e /\ tx'[t].cut = tx[t].cut

NotCommitted(t) ==
    /\ frame[depth].pc = "commit"
    /\ tx'[t].returned = tx[t].returned
    /\ \/ Closed(t, "err") /\ tx'[t].cut = FALSE /\ tx'[t].state \in {"committed", "undone"}
       \/ Closed(t, "ended") /\ tx'[t].state = "undone" /\ ended

RunOver(t) ==
    /\ frame[depth].pc = "run" /\ frame[depth].todo = <<>>
    /\ Closed(t, frame[depth].err)
    /\ tx'[t].state = "committed" /\ tx'[t].returned = tx[t].returned /\ tx'[t].cut = FALSE

Committed(t) ==
    /\ depth \in Level /\ frame[depth].pc = "commit" /\ t \in Tx /\ t = frame[depth].own
    /\ frame'[depth].pc = "run" /\ frame'[depth].own = t
    /\ frame'[depth].act = frame[depth].act /\ frame'[depth].ctx = frame[depth].ctx
    /\ frame'[depth].wrote = frame[depth].wrote
    /\ frame'[depth].err = "nil" /\ frame'[depth].todo = tx[t].actions
    /\ OthersSame(depth)
    /\ tx'[t].state = "committed" /\ tx'[t].returned = tx[t].returned
    /\ tx'[t].answer = tx[t].answer /\ tx'[t].cut = tx[t].cut
    /\ tx'[t].actions = <<>> /\ tx'[t].said = tx[t].said
    /\ OtherTxSame(t)
    /\ UNCHANGED <<depth, opened, written, row, ran, failed, ended>>

ActionOver(e) ==
    /\ OnBody /\ depth - 1 \in Level /\ depth' = depth - 1
    /\ frame[depth].own = 0 /\ frame[depth].act \in Row /\ e \in Result
    /\ frame'[depth] = NoBody
    /\ SameBody(depth - 1) /\ frame'[depth - 1].wrote = frame[depth - 1].wrote
    /\ frame'[depth - 1].err = IF frame[depth - 1].pc = "run" THEN Marked(e) ELSE e
    /\ frame'[depth - 1].todo = Stopped(frame[depth - 1].todo, e)
    /\ \A k \in Level : k # depth /\ k # depth - 1 => frame'[k] = frame[k]
    /\ failed' = IF e = "nil" THEN failed ELSE failed \cup {frame[depth].act}
    /\ UNCHANGED <<opened, tx, written, row, ran, ended>>

Ended ==
    /\ ended' = TRUE
    /\ UNCHANGED <<depth, frame, opened, tx, written, row, ran, failed>>

CutOff(t) ==
    /\ t \in Tx /\ ended /\ tx[t].state = "open"
    /\ tx'[t].state = "undone" /\ tx'[t].cut = TRUE
    /\ tx'[t].returned = tx[t].returned /\ tx'[t].answer = tx[t].answer
    /\ SameLists(t) /\ OtherTxSame(t)
    /\ UNCHANGED <<depth, frame, opened, written, row, ran, failed, ended>>

Step ==
    \/ Wrote \/ Got \/ Over \/ Ended
    \/ \E w \in Row, ctx \in Context : CalledAtOnce(w, ctx) \/ CalledInRun(w, ctx)
    \/ \E w \in Row, b \in Tx : Registered(w, b)
    \/ \E d \in Instance : Opened(d)
    \/ \E t \in Tx : Done(t) \/ NotCommitted(t) \/ RunOver(t) \/ Committed(t) \/ CutOff(t)
    \/ \E t \in Tx, e \in Result : RolledBack(t, e)
    \/ \E e \in Result : ActionOver(e)

-----------------------------------------------------------------------------
(* The actions take such steps and keep the types. *)

\* The place of the body on top, and of the one below.
LEMMA Places ==
  ASSUME Types, Stack, depth > 0
  PROVE  /\ depth \in Level /\ depth \in Nat
         /\ depth < MaxDepth => depth + 1 \in Level
         /\ depth > 1 => depth - 1 \in Level
         /\ frame[depth].own # 0 => depth > 1 /\ frame[depth].own \in Tx
         /\ frame[depth].pc # "body" => frame[depth].own # 0
         /\ depth > 1 /\ frame[depth].own = 0 => frame[depth].act \in Row
         /\ frame[depth] \in Frame
<1>1. /\ depth \in Level /\ depth \in Nat
      /\ depth < MaxDepth => depth + 1 \in Level
      /\ depth > 1 => depth - 1 \in Level
      /\ depth \in 1 .. depth
  BY TransactionAssumption DEF Types, Level
<1>2. frame[depth] \in Frame
  BY <1>1 DEF Types
<1>3. frame[depth].own \in Tx \cup {0} /\ frame[depth].act \in Row \cup {0}
  BY <1>2 DEF Frame
<1>4. /\ frame[depth].pc # "body" => frame[depth].own # 0
      /\ depth = 1 => frame[depth].own = 0
      /\ depth > 1 /\ frame[depth].own = 0 => frame[depth].act # 0
  BY <1>1 DEF Stack
<1> QED
  BY <1>1, <1>2, <1>3, <1>4

\* A field of the body on top.
LEMMA SetWrote ==
  ASSUME frame \in [Level -> Frame], depth \in Level, NEW v \in Row \cup {0},
         frame' = [frame EXCEPT ![depth].wrote = v]
  PROVE  /\ frame' \in [Level -> Frame]
         /\ SameBody(depth) /\ OthersSame(depth)
         /\ frame'[depth].wrote = v
         /\ frame'[depth].err = frame[depth].err /\ frame'[depth].todo = frame[depth].todo
  BY DEF Frame, SameBody, OthersSame

LEMMA SetErr ==
  ASSUME frame \in [Level -> Frame], depth \in Level, NEW v \in Result,
         frame' = [frame EXCEPT ![depth].err = v]
  PROVE  /\ frame' \in [Level -> Frame]
         /\ SameBody(depth) /\ OthersSame(depth)
         /\ frame'[depth].wrote = frame[depth].wrote /\ frame'[depth].todo = frame[depth].todo
  BY DEF Frame, SameBody, OthersSame

\* A statement.
LEMMA WriteStep ==
  ASSUME Types, Stack, NEW d \in Instance, Write(d)
  PROVE  Types' /\ Wrote
<1>1. depth \in Level /\ frame[depth].pc = "body" /\ frame[depth] \in Frame
  BY Places DEF Write, Running, Top
<1>2. frame[depth].ctx.tx[d] \in Tx \cup {0}
  BY <1>1 DEF Frame, Context
<1>3. written + 1 \in Row /\ written' = written + 1 /\ written' \in 0 .. MaxRow
  BY TransactionAssumption DEF Types, Write, Row
<1>4. row' \in [Row -> Tx \cup {0}] /\ \A w \in Row : w # written + 1 => row'[w] = row[w]
  BY <1>2, <1>3 DEF Types, Write, Top
<1>5. /\ frame' \in [Level -> Frame]
      /\ SameBody(depth) /\ OthersSame(depth)
      /\ frame'[depth].wrote = written + 1
      /\ frame'[depth].err = frame[depth].err /\ frame'[depth].todo = frame[depth].todo
  BY <1>1, <1>3, SetWrote DEF Types, Write
<1>6. UNCHANGED <<depth, opened, tx, ran, failed, ended, faults>>
  BY DEF Write
<1> QED
  BY <1>1, <1>3, <1>4, <1>5, <1>6 DEF Types, Wrote, OnBody

\* An error.
LEMMA ErrStep ==
  ASSUME Types, Stack, OpenFails \/ \E d \in Instance : WriteFails(d)
  PROVE  Types' /\ Got
<1>1. PICK e \in Result : /\ Running /\ frame' = [frame EXCEPT ![depth].err = e]
                          /\ UNCHANGED <<depth, opened, tx, written, row, ran, failed, ended, faults>>
  BY DEF OpenFails, WriteFails, Result
<1>2. depth \in Level /\ frame[depth].pc = "body"
  BY <1>1, Places DEF Running, Top
<1>3. /\ frame' \in [Level -> Frame]
      /\ SameBody(depth) /\ OthersSame(depth)
      /\ frame'[depth].wrote = frame[depth].wrote /\ frame'[depth].todo = frame[depth].todo
  BY <1>1, <1>2, SetErr DEF Types
<1> QED
  BY <1>1, <1>2, <1>3 DEF Types, Got, OnBody

\* The context an action or a transaction gets.
LEMMA Contexts ==
  ASSUME NEW ctx \in Context, NEW d \in Instance, NEW t \in Tx
  PROVE  WithTx(ctx, d, t) \in Context
  BY DEF Context, WithTx

LEMMA BackgroundType == Background \in Context
  BY DEF Background, Context

\* A new body.
LEMMA NewBody ==
  ASSUME NEW pc \in {"off", "body", "commit", "run"}, NEW t \in Tx \cup {0},
         NEW w \in Row \cup {0}, NEW ctx \in Context
  PROVE  /\ Body(pc, t, w, ctx) \in Frame
         /\ Body(pc, t, w, ctx).pc = pc /\ Body(pc, t, w, ctx).own = t
         /\ Body(pc, t, w, ctx).act = w /\ Body(pc, t, w, ctx).ctx = ctx
         /\ Body(pc, t, w, ctx).wrote = 0 /\ Body(pc, t, w, ctx).err = "nil"
         /\ Body(pc, t, w, ctx).todo = <<>>
<1>1. <<>> \in Seq(Row) /\ "nil" \in Result
  BY DEF Result
<1> QED
  BY <1>1 DEF Body, Frame

LEMMA NoBodyType ==
  NoBody \in Frame /\ NoBody.pc = "off" /\ NoBody.own = 0
  BY NewBody, BackgroundType DEF NoBody

\* An action is called.
LEMMA CallStep ==
  ASSUME Types, Stack, depth > 0, NEW w \in Row, NEW ctx \in Context, Call(w, ctx),
         frame[depth].pc = "run" => frame[depth].todo # <<>>,
         UNCHANGED <<opened, tx, written, row, failed, ended, faults>>
  PROVE  /\ Types' /\ Called(w, ctx)
         /\ frame'[depth].todo = IF frame[depth].pc = "run" THEN Tail(frame[depth].todo)
                                                            ELSE frame[depth].todo
<1>1. depth \in Level /\ depth \in Nat /\ depth + 1 \in Level /\ frame[depth] \in Frame
  BY Places DEF Call
<1>2. frame[depth].todo \in Seq(Row)
  BY <1>1 DEF Frame
<1>3. PICK rest \in Seq(Row) : rest = IF frame[depth].pc = "run" THEN Tail(frame[depth].todo)
                                                                 ELSE frame[depth].todo
  <2>1. frame[depth].todo # <<>> => Tail(frame[depth].todo) \in Seq(Row)
    BY <1>2
  <2> QED
    BY <1>2, <2>1
<1>4. PICK new \in Frame : new = Body("body", 0, w, ctx)
  BY NewBody
<1>5. frame' = [frame EXCEPT ![depth].wrote = 0, ![depth].todo = rest, ![depth + 1] = new]
  BY <1>3, <1>4 DEF Call, Top
<1>6. /\ frame'[depth + 1] = new
      /\ \A k \in Level : k # depth /\ k # depth + 1 => frame'[k] = frame[k]
  BY <1>1, <1>5 DEF Types
<1>7. /\ SameBody(depth) /\ frame'[depth].wrote = 0 /\ frame'[depth].err = frame[depth].err
  BY <1>1, <1>5 DEF Types, Frame, SameBody
<1>8. frame'[depth].todo = rest
  BY <1>1, <1>5, SMTT(30) DEF Types, Frame
<1>9. frame' \in [Level -> Frame]
  <2>1. [frame EXCEPT ![depth].wrote = 0] \in [Level -> Frame]
    BY <1>1 DEF Types, Frame
  <2> DEFINE f == [frame EXCEPT ![depth].wrote = 0]
  <2>2. [f EXCEPT ![depth].todo = rest] \in [Level -> Frame]
    <3> HIDE DEF f
    <3> QED
      BY <1>1, <2>1 DEF f, Frame
  <2> DEFINE g == [f EXCEPT ![depth].todo = rest]
  <2>3. frame' = [g EXCEPT ![depth + 1] = new]
    BY <1>5
  <2> HIDE DEF g
  <2> QED
    BY <1>1, <2>2, <2>3 DEF g
<1>10. IsBody(depth + 1, "body", 0, w, ctx)
  BY <1>4, <1>6 DEF IsBody, Body
<1>11. ran' = Append(ran, w) /\ ran' \in Seq(Row) /\ depth' = depth + 1 /\ depth' \in 0 .. MaxDepth
  BY <1>1, TransactionAssumption DEF Call, Types, Level
<1> QED
  BY <1>1, <1>3, <1>6, <1>7, <1>8, <1>9, <1>10, <1>11 DEF Types, Called

\* AfterCommit without a boundary.
LEMMA AtOnceStep ==
  ASSUME Types, Stack, AfterCommit, frame[depth].ctx.boundary = 0
  PROVE  Types' /\ \E w \in Row, ctx \in Context : CalledAtOnce(w, ctx)
<1>1. depth > 0 /\ depth \in Level /\ frame[depth].pc = "body" /\ frame[depth] \in Frame
  BY Places DEF AfterCommit, Running, Top
<1>2. frame[depth].wrote \in Row /\ frame[depth].ctx \in Context
  BY <1>1 DEF AfterCommit, Top, Frame
<1>3. /\ Call(frame[depth].wrote, frame[depth].ctx)
      /\ UNCHANGED <<opened, tx, written, row, failed, ended, faults>>
      /\ ~Crossing => row[frame[depth].wrote] = 0
  BY DEF AfterCommit, Top
<1>4. Types' /\ Called(frame[depth].wrote, frame[depth].ctx)
      /\ frame'[depth].todo = frame[depth].todo
  BY <1>1, <1>2, <1>3, CallStep
<1>5. CalledAtOnce(frame[depth].wrote, frame[depth].ctx)
  BY <1>1, <1>3, <1>4 DEF CalledAtOnce, OnBody
<1> QED
  BY <1>2, <1>4, <1>5

\* The next action of a run.
LEMMA RunActionStep ==
  ASSUME Types, Stack, RunAction
  PROVE  Types' /\ \E w \in Row, ctx \in Context : CalledInRun(w, ctx)
<1>1. /\ depth > 0 /\ depth \in Level /\ frame[depth].pc = "run" /\ frame[depth] \in Frame
      /\ depth - 1 \in Level /\ frame[depth].todo # <<>>
  BY Places DEF RunAction, Top
<1>2. Head(frame[depth].todo) \in Row
  BY <1>1 DEF Frame
<1>3. frame[depth - 1].ctx \in Context
  BY <1>1 DEF Types, Frame
<1>4. /\ Call(Head(frame[depth].todo), frame[depth - 1].ctx)
      /\ UNCHANGED <<opened, tx, written, row, failed, ended, faults>>
  BY DEF RunAction, Top, Outer
<1>5. /\ Types' /\ Called(Head(frame[depth].todo), frame[depth - 1].ctx)
      /\ frame'[depth].todo = Tail(frame[depth].todo)
  BY <1>1, <1>2, <1>3, <1>4, CallStep
<1>6. CalledInRun(Head(frame[depth].todo), frame[depth - 1].ctx)
  BY <1>1, <1>5 DEF CalledInRun
<1> QED
  BY <1>2, <1>3, <1>5, <1>6

\* AfterCommit registers.
LEMMA RegisterStep ==
  ASSUME Types, Stack, AfterCommit, frame[depth].ctx.boundary # 0
  PROVE  Types' /\ \E w \in Row, b \in Tx : Registered(w, b)
<1>1. depth > 0 /\ depth \in Level /\ frame[depth].pc = "body" /\ frame[depth] \in Frame
  BY Places DEF AfterCommit, Running, Top
<1>2. PICK w \in Row : w = frame[depth].wrote
  BY <1>1 DEF AfterCommit, Top, Frame
<1>3. PICK b \in Tx : b = frame[depth].ctx.boundary
  BY <1>1 DEF Frame, Context
<1>4. /\ tx' = [tx EXCEPT ![b].actions = Append(@, w), ![b].said = Append(@, w)]
      /\ frame' = [frame EXCEPT ![depth].wrote = 0]
      /\ UNCHANGED <<depth, opened, written, row, ran, failed, ended, faults>>
      /\ ~Crossing => row[w] = b
  BY <1>2, <1>3 DEF AfterCommit, Top
<1>5. /\ frame' \in [Level -> Frame]
      /\ SameBody(depth) /\ OthersSame(depth)
      /\ frame'[depth].wrote = 0
      /\ frame'[depth].err = frame[depth].err /\ frame'[depth].todo = frame[depth].todo
  BY <1>1, <1>4, SetWrote DEF Types
<1>6. PICK acts \in Seq(Row), said \in Seq(Row) :
        acts = Append(tx[b].actions, w) /\ said = Append(tx[b].said, w)
  <2>1. tx[b].actions \in Seq(Row) /\ tx[b].said \in Seq(Row)
    BY DEF Types, Boundary
  <2>2. Append(tx[b].actions, w) \in Seq(Row) /\ Append(tx[b].said, w) \in Seq(Row)
    BY <2>1
  <2> QED
    BY <2>2
<1>7. tx' = [tx EXCEPT ![b].actions = acts, ![b].said = said]
  BY <1>4, <1>6
<1>8. tx'[b].actions = acts /\ tx'[b].said = said /\ SameFate(b) /\ OtherTxSame(b)
  BY <1>7 DEF Types, Boundary, SameFate, OtherTxSame
<1>9. tx' \in [Tx -> Boundary]
  <2> DEFINE f == [tx EXCEPT ![b].actions = acts]
  <2>1. f \in [Tx -> Boundary]
    BY ZenonT(30) DEF Types, Boundary
  <2>2. tx' = [f EXCEPT ![b].said = said]
    BY <1>7
  <2> HIDE DEF f
  <2> QED
    BY <2>1, <2>2 DEF Boundary
<1> QED
  BY <1>1, <1>2, <1>3, <1>4, <1>5, <1>6, <1>8, <1>9 DEF Types, Registered, OnBody

\* A transaction opens.
LEMMA OpenStep ==
  ASSUME Types, Stack, NEW d \in Instance, Open(d)
  PROVE  Types' /\ Opened(d)
<1>1. /\ depth > 0 /\ depth \in Level /\ frame[depth].pc = "body" /\ frame[depth] \in Frame
      /\ depth + 1 \in Level /\ depth \in Nat
  BY Places DEF Open, Running, Top
<1>2. opened + 1 \in Tx /\ opened' = opened + 1 /\ opened' \in 0 .. MaxTx
  BY TransactionAssumption DEF Types, Open, Tx
<1>3. PICK t \in Tx : t = opened + 1
  BY <1>2
<1>4. frame[depth].ctx \in Context
  BY <1>1 DEF Frame
<1>5. PICK ctx \in Context : ctx = WithTx(frame[depth].ctx, d, t)
  BY <1>4, Contexts
<1>6. Body("body", t, 0, ctx) \in Frame
  BY NewBody
<1>7. PICK new \in Frame : new = Body("body", t, 0, ctx)
  BY <1>6
<1>8. /\ frame' = [frame EXCEPT ![depth + 1] = new]
      /\ tx' = [tx EXCEPT ![t].state = "open"]
      /\ depth' = depth + 1
      /\ UNCHANGED <<written, row, ran, failed, ended, faults>>
  BY <1>3, <1>5, <1>7 DEF Open, Top
<1>9. /\ frame' \in [Level -> Frame] /\ frame'[depth + 1] = new /\ OthersSame(depth + 1)
  BY <1>1, <1>8 DEF Types, OthersSame
<1>10. IsBody(depth + 1, "body", t, 0, ctx)
  BY <1>7, <1>9 DEF IsBody, Body
<1>11. tx' \in [Tx -> Boundary]
  BY <1>8, ZenonT(30) DEF Types, Boundary
<1>12. /\ tx'[t].state = "open" /\ tx'[t].returned = tx[t].returned
       /\ tx'[t].answer = tx[t].answer /\ tx'[t].cut = tx[t].cut
       /\ SameLists(t) /\ OtherTxSame(t)
  BY <1>8 DEF Types, Boundary, SameLists, OtherTxSame
<1>13. depth' \in 0 .. MaxDepth
  BY <1>1, <1>8, TransactionAssumption DEF Level
<1>14. Types'
  BY <1>2, <1>8, <1>9, <1>11, <1>13 DEF Types
<1> QED
  BY <1>1, <1>2, <1>3, <1>5, <1>8, <1>9, <1>10, <1>12, <1>14 DEF Opened, OnBody

\* The handler returns.
LEMMA HandlerStep ==
  ASSUME Types, Stack, HandlerReturns
  PROVE  Types' /\ Over
<1>1. depth = 1 /\ depth \in Level /\ depth' = 0
  BY Places DEF HandlerReturns
<1>2. PICK none \in Frame : none = NoBody
  BY NoBodyType
<1>3. frame' = [frame EXCEPT ![1] = none]
  BY <1>2 DEF HandlerReturns
<1>4. frame' \in [Level -> Frame] /\ frame'[1] = none /\ OthersSame(1)
  BY <1>1, <1>3 DEF Types, OthersSame
<1>5. UNCHANGED <<opened, tx, written, row, ran, failed, ended, faults>>
  BY DEF HandlerReturns
<1>6. depth' \in 0 .. MaxDepth
  BY <1>1, TransactionAssumption
<1>7. Types'
  BY <1>4, <1>5, <1>6 DEF Types
<1> QED
  BY <1>1, <1>2, <1>4, <1>5, <1>7 DEF Over

\* The function of a transaction returned nil.
LEMMA DoneStep ==
  ASSUME Types, Stack, BodyDone
  PROVE  Types' /\ \E t \in Tx : Done(t)
<1>1. /\ depth > 0 /\ depth \in Level /\ frame[depth].pc = "body" /\ frame[depth] \in Frame
      /\ frame[depth].own \in Tx
  BY Places DEF BodyDone, Returns, Top
<1>2. PICK t \in Tx : t = frame[depth].own
  BY <1>1
<1>3. /\ frame' = [frame EXCEPT ![depth].pc = "commit"]
      /\ tx' = [tx EXCEPT ![t].returned = "nil"]
      /\ UNCHANGED <<depth, opened, written, row, ran, failed, ended, faults>>
  BY <1>2 DEF BodyDone, Top
<1>4. frame' \in [Level -> Frame]
  BY <1>1, <1>3 DEF Types, Frame
<1>5. /\ frame'[depth].pc = "commit" /\ frame'[depth].own = t
      /\ frame'[depth].act = frame[depth].act /\ frame'[depth].ctx = frame[depth].ctx
      /\ frame'[depth].wrote = frame[depth].wrote
      /\ OthersSame(depth)
  BY <1>1, <1>2, <1>3 DEF Types, Frame, OthersSame
<1>6. tx' \in [Tx -> Boundary]
  BY <1>3, ZenonT(30) DEF Types, Boundary, Result
<1>7. /\ tx'[t].returned = "nil" /\ tx'[t].state = tx[t].state
      /\ tx'[t].answer = tx[t].answer /\ tx'[t].cut = tx[t].cut
      /\ SameLists(t) /\ OtherTxSame(t)
  BY <1>3 DEF Types, Boundary, SameLists, OtherTxSame
<1>8. Types'
  BY <1>3, <1>4, <1>6 DEF Types
<1>9. Done(t)
  BY <1>1, <1>2, <1>3, <1>5, <1>7 DEF Done, OnBody
<1> QED
  BY <1>8, <1>9

\* The body on top goes and the one below gets an error.
LEMMA Pop ==
  ASSUME frame \in [Level -> Frame], depth \in Level, depth \in Nat, depth - 1 \in Level,
         NEW e \in Result, frame' = [frame EXCEPT ![depth] = NoBody, ![depth - 1].err = e]
  PROVE  /\ frame' \in [Level -> Frame]
         /\ frame'[depth] = NoBody
         /\ SameBody(depth - 1) /\ frame'[depth - 1].err = e
         /\ frame'[depth - 1].wrote = frame[depth - 1].wrote
         /\ frame'[depth - 1].todo = frame[depth - 1].todo
         /\ \A k \in Level : k # depth /\ k # depth - 1 => frame'[k] = frame[k]
<1>1. PICK none \in Frame : none = NoBody
  BY NoBodyType
<1> DEFINE f == [frame EXCEPT ![depth] = none]
<1>2. /\ f \in [Level -> Frame] /\ f[depth] = none /\ f[depth - 1] = frame[depth - 1]
      /\ \A k \in Level : k # depth => f[k] = frame[k]
  OBVIOUS
<1>3. frame' = [f EXCEPT ![depth - 1].err = e]
  BY <1>1
<1> HIDE DEF f
<1>4. PICK b \in Level : b = depth - 1
  OBVIOUS
<1>5. /\ frame' \in [Level -> Frame]
      /\ frame'[b].pc = f[b].pc /\ frame'[b].own = f[b].own
      /\ frame'[b].act = f[b].act /\ frame'[b].ctx = f[b].ctx
      /\ frame'[b].wrote = f[b].wrote /\ frame'[b].todo = f[b].todo
      /\ frame'[b].err = e
  <2>1. f \in [Level -> Frame]
    BY <1>2
  <2>2. frame' = [f EXCEPT ![b].err = e]
    BY <1>3, <1>4
  <2> QED
    BY ONLY <2>1, <2>2, b \in Level, e \in Result DEF Frame
<1>6. \A k \in Level : k # depth - 1 => frame'[k] = f[k]
  BY <1>2, <1>3
<1> QED
  BY <1>1, <1>2, <1>4, <1>5, <1>6 DEF SameBody

\* What a caller is told is a result.
LEMMA ToldResult == ASSUME NEW e \in Result PROVE Told(e) \in Result
  BY DEF Told, Result

\* The function of a transaction failed.
LEMMA RollbackStep ==
  ASSUME Types, Stack, Rollback
  PROVE  Types' /\ \E t \in Tx, e \in Result : RolledBack(t, e)
<1>1. /\ depth > 0 /\ depth \in Level /\ depth \in Nat /\ depth - 1 \in Level
      /\ frame[depth].own \in Tx
  BY Places DEF Rollback, Top
<1>2. PICK t \in Tx : t = frame[depth].own
  BY <1>1
<1>3. PICK e \in Result \ {"nil"} :
        /\ Returns(e)
        /\ tx' = [tx EXCEPT ![Top.own].state = "undone", ![Top.own].returned = e,
                    ![Top.own].answer = Told(e)]
        /\ frame' = [frame EXCEPT ![depth] = NoBody, ![depth - 1].err = Told(e)]
        /\ depth' = depth - 1
  BY DEF Rollback
<1>4. PICK a \in Result : a = Told(e)
  BY <1>3, ToldResult
<1>5. /\ frame' \in [Level -> Frame]
      /\ frame'[depth] = NoBody
      /\ SameBody(depth - 1) /\ frame'[depth - 1].err = a
      /\ frame'[depth - 1].wrote = frame[depth - 1].wrote
      /\ frame'[depth - 1].todo = frame[depth - 1].todo
      /\ \A k \in Level : k # depth /\ k # depth - 1 => frame'[k] = frame[k]
  BY <1>1, <1>3, <1>4, Pop DEF Types
<1>6. tx' = [tx EXCEPT ![t].state = "undone", ![t].returned = e, ![t].answer = a]
  BY <1>2, <1>3, <1>4 DEF Top
<1>7. /\ tx'[t].state = "undone" /\ tx'[t].returned = e /\ tx'[t].answer = a
      /\ tx'[t].cut = tx[t].cut /\ SameLists(t) /\ OtherTxSame(t)
  BY <1>6 DEF Types, Boundary, SameLists, OtherTxSame
<1>8. tx' \in [Tx -> Boundary]
  <2> DEFINE f == [tx EXCEPT ![t].state = "undone"]
  <2> DEFINE g == [f EXCEPT ![t].returned = e]
  <2>1. f \in [Tx -> Boundary]
    BY ZenonT(30) DEF Types, Boundary
  <2>2. g \in [Tx -> Boundary]
    <3> HIDE DEF f
    <3> QED
      BY <1>3, <2>1 DEF Boundary
  <2>3. tx' = [g EXCEPT ![t].answer = a]
    BY <1>6
  <2> HIDE DEF g
  <2> QED
    BY <2>2, <2>3, ZenonT(30) DEF Boundary
<1>9. UNCHANGED <<opened, written, row, ran, failed, ended, faults>>
  BY DEF Rollback
<1>10. depth' \in 0 .. MaxDepth
  BY <1>1, <1>3, TransactionAssumption DEF Level
<1>11. Types'
  BY <1>5, <1>8, <1>9, <1>10 DEF Types
<1>12. Closed(t, a)
  BY <1>1, <1>2, <1>3, <1>5, <1>7, <1>9 DEF Closed
<1>13. RolledBack(t, e)
  BY <1>3, <1>4, <1>7, <1>12 DEF RolledBack, Returns, Top
<1> QED
  BY <1>3, <1>11, <1>13

\* The boundary returns.
LEMMA AnswerStep ==
  ASSUME Types, Stack, depth > 0, frame[depth].pc # "body",
         NEW state \in {"committed", "undone"}, NEW cut \in BOOLEAN, NEW e \in Result,
         Answer(state, cut, e), faults' \in 0 .. MaxFaults,
         UNCHANGED <<opened, written, row, ran, failed, ended>>
  PROVE  /\ Types'
         /\ \E t \in Tx : /\ Closed(t, e) /\ tx'[t].state = state /\ tx'[t].cut = cut
                          /\ tx'[t].returned = tx[t].returned
<1>1. /\ depth \in Level /\ depth \in Nat /\ depth - 1 \in Level
      /\ frame[depth].own \in Tx
  BY Places
<1>2. PICK t \in Tx : t = frame[depth].own
  BY <1>1
<1>3. /\ tx' = [tx EXCEPT ![t].state = state, ![t].cut = cut, ![t].answer = e]
      /\ frame' = [frame EXCEPT ![depth] = NoBody, ![depth - 1].err = e]
      /\ depth' = depth - 1
  BY <1>2 DEF Answer, Top
<1>4. /\ frame' \in [Level -> Frame]
      /\ frame'[depth] = NoBody
      /\ SameBody(depth - 1) /\ frame'[depth - 1].err = e
      /\ frame'[depth - 1].wrote = frame[depth - 1].wrote
      /\ frame'[depth - 1].todo = frame[depth - 1].todo
      /\ \A k \in Level : k # depth /\ k # depth - 1 => frame'[k] = frame[k]
  BY <1>1, <1>3, Pop DEF Types
<1>5. tx \in [Tx -> Boundary]
  BY DEF Types
<1>6. /\ tx'[t].state = state /\ tx'[t].cut = cut /\ tx'[t].answer = e
      /\ tx'[t].returned = tx[t].returned /\ SameLists(t) /\ OtherTxSame(t)
  BY <1>3, <1>5 DEF Boundary, SameLists, OtherTxSame
<1>7. tx' \in [Tx -> Boundary]
  <2> DEFINE f == [tx EXCEPT ![t].state = state]
  <2> DEFINE g == [f EXCEPT ![t].cut = cut]
  <2>1. f \in [Tx -> Boundary]
    BY <1>5 DEF Boundary
  <2>2. g \in [Tx -> Boundary]
    <3> HIDE DEF f
    <3> QED
      BY <2>1 DEF Boundary
  <2>3. tx' = [g EXCEPT ![t].answer = e]
    BY <1>3
  <2> HIDE DEF g
  <2> QED
    BY <2>2, <2>3 DEF Boundary
<1>8. depth' \in 0 .. MaxDepth
  BY <1>1, <1>3, TransactionAssumption DEF Level
<1>9. Types'
  BY <1>4, <1>7, <1>8 DEF Types
<1>10. Closed(t, e)
  BY <1>1, <1>2, <1>3, <1>4, <1>6 DEF Closed
<1> QED
  BY <1>6, <1>9, <1>10

\* The commit did not go through, or nobody heard that it did.
LEMMA NotCommittedStep ==
  ASSUME Types, Stack, CommitFails \/ CommitUnheard \/ CommitEnded
  PROVE  Types' /\ \E t \in Tx : NotCommitted(t)
<1>1. /\ depth > 0 /\ frame[depth].pc = "commit"
      /\ UNCHANGED <<opened, written, row, ran, failed, ended>>
      /\ faults' \in 0 .. MaxFaults
  <2>1. /\ depth > 0 /\ frame[depth].pc = "commit"
        /\ UNCHANGED <<opened, written, row, ran, failed, ended>>
    BY Zenon DEF CommitFails, CommitUnheard, CommitEnded, Committing, Top
  <2>2. faults' = faults \/ (faults < MaxFaults /\ faults' = faults + 1)
    <3>1. CASE CommitFails
      BY <3>1 DEF CommitFails
    <3>2. CASE CommitUnheard
      BY <3>2 DEF CommitUnheard
    <3>3. CASE CommitEnded
      BY <3>3 DEF CommitEnded
    <3> QED
      BY <3>1, <3>2, <3>3
  <2> QED
    BY <2>1, <2>2, TransactionAssumption DEF Types
<1>2. CASE CommitFails
  <2>1. Answer("undone", FALSE, "err")
    BY <1>2 DEF CommitFails
  <2>2. /\ Types'
        /\ \E t \in Tx : /\ Closed(t, "err") /\ tx'[t].state = "undone" /\ tx'[t].cut = FALSE
                         /\ tx'[t].returned = tx[t].returned
    BY <1>1, <2>1, AnswerStep DEF Result
  <2> QED
    BY <1>1, <2>2 DEF NotCommitted
<1>3. CASE CommitUnheard
  <2>1. Answer("committed", FALSE, "err")
    BY <1>3 DEF CommitUnheard
  <2>2. /\ Types'
        /\ \E t \in Tx : /\ Closed(t, "err") /\ tx'[t].state = "committed" /\ tx'[t].cut = FALSE
                         /\ tx'[t].returned = tx[t].returned
    BY <1>1, <2>1, AnswerStep DEF Result
  <2> QED
    BY <1>1, <2>2 DEF NotCommitted
<1>4. CASE CommitEnded
  <2>1. Answer("undone", TRUE, "ended") /\ ended
    BY <1>4 DEF CommitEnded, Told, IsTxDone
  <2>2. /\ Types'
        /\ \E t \in Tx : /\ Closed(t, "ended") /\ tx'[t].state = "undone"
                         /\ tx'[t].returned = tx[t].returned
    BY <1>1, <2>1, AnswerStep DEF Result
  <2> QED
    BY <1>1, <2>1, <2>2 DEF NotCommitted
<1> QED
  BY <1>2, <1>3, <1>4

\* The run is over.
LEMMA RunOverStep ==
  ASSUME Types, Stack, RunEnds
  PROVE  Types' /\ \E t \in Tx : RunOver(t)
<1>1. /\ depth > 0 /\ frame[depth].pc = "run" /\ frame[depth].todo = <<>>
      /\ UNCHANGED <<opened, written, row, ran, failed, ended>>
      /\ faults' \in 0 .. MaxFaults
      /\ Answer("committed", FALSE, frame[depth].err)
  BY DEF Types, RunEnds, Top
<1>2. frame[depth].err \in Result
  BY <1>1, Places DEF Frame
<1>3. /\ Types'
      /\ \E t \in Tx : /\ Closed(t, frame[depth].err) /\ tx'[t].state = "committed"
                       /\ tx'[t].cut = FALSE /\ tx'[t].returned = tx[t].returned
  BY <1>1, <1>2, AnswerStep, ZenonT(30)
<1> QED
  BY <1>1, <1>3 DEF RunOver

\* The commit.
LEMMA CommitStep ==
  ASSUME Types, Stack, Commit
  PROVE  Types' /\ \E t \in Tx : Committed(t)
<1>1. /\ depth > 0 /\ depth \in Level /\ frame[depth].pc = "commit" /\ frame[depth] \in Frame
      /\ frame[depth].own \in Tx
  BY Places DEF Commit, Committing, Top
<1>2. PICK t \in Tx : t = frame[depth].own
  BY <1>1
<1>3. frame \in [Level -> Frame] /\ tx \in [Tx -> Boundary]
  BY DEF Types
<1>4. PICK list \in Seq(Row) : list = tx[t].actions
  BY <1>3 DEF Boundary
<1>5. /\ frame' = [frame EXCEPT ![depth].pc = "run", ![depth].err = "nil", ![depth].todo = list]
      /\ tx' = [tx EXCEPT ![t].state = "committed", ![t].actions = <<>>]
      /\ UNCHANGED <<depth, opened, written, row, ran, failed, ended, faults>>
  BY <1>2, <1>4 DEF Commit, Top
<1>6. /\ frame'[depth].pc = "run" /\ frame'[depth].own = t
      /\ frame'[depth].act = frame[depth].act /\ frame'[depth].ctx = frame[depth].ctx
      /\ frame'[depth].wrote = frame[depth].wrote
      /\ frame'[depth].err = "nil" /\ frame'[depth].todo = list
      /\ OthersSame(depth)
  BY <1>1, <1>2, <1>3, <1>5 DEF Frame, OthersSame
<1>7. frame' \in [Level -> Frame]
  <2> DEFINE f == [frame EXCEPT ![depth].pc = "run"]
  <2> DEFINE g == [f EXCEPT ![depth].err = "nil"]
  <2>1. f \in [Level -> Frame]
    BY <1>1, <1>3 DEF Frame
  <2>2. g \in [Level -> Frame]
    <3> HIDE DEF f
    <3> QED
      BY <1>1, <2>1 DEF Frame, Result
  <2>3. frame' = [g EXCEPT ![depth].todo = list]
    BY <1>5
  <2> HIDE DEF g
  <2> QED
    BY <1>1, <2>2, <2>3 DEF Frame
<1>8. PICK none \in Seq(Row) : none = <<>>
  <2>1. <<>> \in Seq(Row)
    OBVIOUS
  <2> QED
    BY <2>1
<1>9. tx' = [tx EXCEPT ![t].state = "committed", ![t].actions = none]
  BY <1>5, <1>8
<1>10. /\ tx'[t].state = "committed" /\ tx'[t].returned = tx[t].returned
       /\ tx'[t].answer = tx[t].answer /\ tx'[t].cut = tx[t].cut
       /\ tx'[t].actions = none /\ tx'[t].said = tx[t].said
       /\ OtherTxSame(t)
  BY <1>3, <1>9 DEF Boundary, OtherTxSame
<1>11. tx' \in [Tx -> Boundary]
  <2> DEFINE f == [tx EXCEPT ![t].state = "committed"]
  <2>1. f \in [Tx -> Boundary]
    BY <1>3 DEF Boundary
  <2>2. tx' = [f EXCEPT ![t].actions = none]
    BY <1>9
  <2> HIDE DEF f
  <2> QED
    BY <2>1, <2>2, ZenonT(30) DEF Boundary
<1>12. Types'
  BY <1>5, <1>7, <1>11 DEF Types
<1>13. Committed(t)
  BY <1>1, <1>2, <1>4, <1>5, <1>6, <1>8, <1>10 DEF Committed
<1> QED
  BY <1>12, <1>13

\* An action returned.
LEMMA ActionOverStep ==
  ASSUME Types, Stack, ActionReturns
  PROVE  Types' /\ \E e \in Result : ActionOver(e)
<1>1. /\ depth > 1 /\ frame[depth].own = 0 /\ depth' = depth - 1
      /\ UNCHANGED <<opened, tx, written, row, ran, ended, faults>>
  BY DEF ActionReturns, Top
<1>2. PICK e \in Result :
        /\ Returns(e)
        /\ frame' = [frame EXCEPT ![depth] = NoBody,
                ![depth - 1].err = IF frame[depth - 1].pc = "run" THEN Marked(e) ELSE e,
                ![depth - 1].todo = Stopped(@, e)]
        /\ failed' = IF e = "nil" THEN failed ELSE failed \cup {frame[depth].act}
  BY DEF ActionReturns, Top
<1>3. /\ depth \in Level /\ depth \in Nat /\ depth - 1 \in Level
      /\ frame[depth].act \in Row /\ frame[depth].pc = "body"
  <2>1. depth > 0
    BY <1>1 DEF Types
  <2>2. frame[depth].pc = "body"
    BY <1>2 DEF Returns, Top
  <2> QED
    BY <1>1, <2>1, <2>2, Places
<1>4. PICK b \in Level : b = depth - 1
  BY <1>3
<1>5. PICK none \in Frame : none = NoBody
  BY NoBodyType
<1>6. frame \in [Level -> Frame]
  BY DEF Types
<1> DEFINE f == [frame EXCEPT ![depth] = none]
<1>7. /\ f \in [Level -> Frame] /\ f[depth] = none
      /\ \A k \in Level : k # depth => f[k] = frame[k]
  BY <1>3, <1>6
<1>8. b # depth /\ f[b] = frame[b]
  BY <1>3, <1>4, <1>7
<1>9. PICK a \in Result : a = IF frame[b].pc = "run" THEN Marked(e) ELSE e
  BY DEF Marked, Result, IsTxDone
<1>10. PICK rest \in Seq(Row) : rest = Stopped(frame[b].todo, e)
  <2>1. frame[b].todo \in Seq(Row) /\ <<>> \in Seq(Row)
    BY <1>6 DEF Frame
  <2>2. Stopped(frame[b].todo, e) \in Seq(Row)
    BY <2>1 DEF Stopped
  <2> QED
    BY <2>2
<1>11. frame' = [f EXCEPT ![b].err = a, ![b].todo = rest]
  <2>1. frame' = [frame EXCEPT ![depth] = none, ![b].err = a, ![b].todo = rest]
    BY <1>2, <1>4, <1>5, <1>8, <1>9, <1>10
  <2> QED
    BY <2>1
<1> HIDE DEF f
<1>12. /\ frame'[b].pc = f[b].pc /\ frame'[b].own = f[b].own
       /\ frame'[b].act = f[b].act /\ frame'[b].ctx = f[b].ctx
       /\ frame'[b].wrote = f[b].wrote /\ frame'[b].todo = rest
       /\ frame'[b].err = a
       /\ \A k \in Level : k # b => frame'[k] = f[k]
  <2>1. f \in [Level -> Frame]
    BY <1>7
  <2> QED
    BY ONLY <2>1, <1>11, b \in Level, a \in Result, rest \in Seq(Row) DEF Frame
<1>13. frame' \in [Level -> Frame]
  <2> DEFINE g == [f EXCEPT ![b].err = a]
  <2>1. f \in [Level -> Frame]
    BY <1>7
  <2>2. g \in [Level -> Frame]
    BY ONLY <2>1, b \in Level, a \in Result DEF Frame
  <2>3. frame' = [g EXCEPT ![b].todo = rest]
    BY <1>11
  <2> HIDE DEF g
  <2> QED
    BY ONLY <2>2, <2>3, b \in Level, rest \in Seq(Row) DEF Frame
<1>14. /\ frame'[depth] = NoBody /\ SameBody(depth - 1)
       /\ frame'[depth - 1].wrote = frame[depth - 1].wrote
       /\ frame'[depth - 1].err = (IF frame[depth - 1].pc = "run" THEN Marked(e) ELSE e)
       /\ frame'[depth - 1].todo = Stopped(frame[depth - 1].todo, e)
       /\ \A k \in Level : k # depth /\ k # depth - 1 => frame'[k] = frame[k]
  BY <1>3, <1>4, <1>5, <1>7, <1>8, <1>9, <1>10, <1>12 DEF SameBody
<1>15. depth' \in 0 .. MaxDepth /\ failed' \in SUBSET Row
  <2>1. depth' \in 0 .. MaxDepth
    BY <1>1, <1>3, TransactionAssumption DEF Level
  <2>2. failed' \in SUBSET Row
    BY <1>2, <1>3 DEF Types
  <2> QED
    BY <2>1, <2>2
<1>16. Types'
  BY <1>1, <1>13, <1>15 DEF Types
<1>17. ActionOver(e)
  BY <1>1, <1>2, <1>3, <1>14 DEF ActionOver, OnBody
<1> QED
  BY <1>16, <1>17

\* The context ends.
LEMMA EndStep ==
  ASSUME Types, ContextEnds
  PROVE  Types' /\ Ended
<1>1. /\ ended' = TRUE
      /\ UNCHANGED <<depth, frame, opened, tx, written, row, ran, failed, faults>>
  BY DEF ContextEnds
<1> QED
  BY <1>1 DEF Types, Ended

\* database/sql rolls back.
LEMMA CutStep ==
  ASSUME Types, NEW t \in Tx, SqlRollsBack(t)
  PROVE  Types' /\ CutOff(t)
<1>1. /\ ended /\ tx[t].state = "open"
      /\ tx' = [tx EXCEPT ![t].state = "undone", ![t].cut = TRUE]
      /\ UNCHANGED <<depth, frame, opened, written, row, ran, failed, ended, faults>>
  BY DEF SqlRollsBack
<1>2. tx \in [Tx -> Boundary]
  BY DEF Types
<1>3. /\ tx'[t].state = "undone" /\ tx'[t].cut = TRUE
      /\ tx'[t].returned = tx[t].returned /\ tx'[t].answer = tx[t].answer
      /\ SameLists(t) /\ OtherTxSame(t)
  BY <1>1, <1>2 DEF Boundary, SameLists, OtherTxSame
<1>4. tx' \in [Tx -> Boundary]
  <2> DEFINE f == [tx EXCEPT ![t].state = "undone"]
  <2>1. f \in [Tx -> Boundary]
    BY <1>2 DEF Boundary
  <2>2. tx' = [f EXCEPT ![t].cut = TRUE]
    BY <1>1
  <2> HIDE DEF f
  <2> QED
    BY <2>1, <2>2 DEF Boundary
<1>5. Types'
  BY <1>1, <1>4 DEF Types
<1> QED
  BY <1>1, <1>3, <1>5 DEF CutOff

\* Every step is one of these, and keeps the types.
LEMMA Steps ==
  ASSUME Types, Stack, Next
  PROVE  Types' /\ Step
<1>1. CASE \E d \in Instance : Write(d) \/ WriteFails(d) \/ Open(d)
  BY <1>1, WriteStep, ErrStep, OpenStep DEF Step
<1>2. CASE AfterCommit
  BY <1>2, AtOnceStep, RegisterStep DEF Step
<1>3. CASE OpenFails
  BY <1>3, ErrStep DEF Step
<1>4. CASE HandlerReturns
  BY <1>4, HandlerStep DEF Step
<1>5. CASE BodyDone
  BY <1>5, DoneStep DEF Step
<1>6. CASE Rollback
  BY <1>6, RollbackStep DEF Step
<1>7. CASE Commit
  BY <1>7, CommitStep DEF Step
<1>8. CASE CommitFails \/ CommitUnheard \/ CommitEnded
  BY <1>8, NotCommittedStep DEF Step
<1>9. CASE RunAction
  BY <1>9, RunActionStep DEF Step
<1>10. CASE ActionReturns
  BY <1>10, ActionOverStep DEF Step
<1>11. CASE RunEnds
  BY <1>11, RunOverStep DEF Step
<1>12. CASE ContextEnds
  BY <1>12, EndStep DEF Step
<1>13. CASE \E t \in Tx : SqlRollsBack(t)
  BY <1>13, CutStep DEF Step
<1> QED
  BY <1>1, <1>2, <1>3, <1>4, <1>5, <1>6, <1>7, <1>8, <1>9, <1>10, <1>11, <1>12, <1>13
  DEF Next

-----------------------------------------------------------------------------
(* The stack, and the contexts on it. *)

Still == UNCHANGED <<depth, opened>> /\ \A l \in Level : SameBody(l)

Pushed(t, w, ctx) ==
    /\ OnBody \/ (depth \in Level /\ frame[depth].pc = "run" /\ t = 0)
    /\ depth + 1 \in Level /\ depth' = depth + 1
    /\ frame'[depth + 1].pc = "body" /\ frame'[depth + 1].own = t
    /\ frame'[depth + 1].act = w /\ frame'[depth + 1].ctx = ctx
    /\ \A k \in Level : k # depth + 1 => SameBody(k)

Turned ==
    /\ depth \in Level /\ frame[depth].own # 0 /\ frame[depth].pc # "run"
    /\ frame'[depth].own = frame[depth].own /\ frame'[depth].act = frame[depth].act
    /\ frame'[depth].pc \in {"commit", "run"}
    /\ \A k \in Level : k # depth => SameBody(k)
    /\ UNCHANGED <<depth, opened>>

Popped ==
    /\ depth \in Level /\ depth' = depth - 1
    /\ frame'[depth].pc = "off" /\ frame'[depth].own = 0
    /\ \A k \in Level : k # depth => SameBody(k)
    /\ opened' = opened

\* Any step leaves the stack as it is, puts a body on it, takes one off or
\* moves the one on top on.
LEMMA Shapes ==
  ASSUME Types, Step
  PROVE  \/ Still \/ Turned \/ Popped
         \/ \E w \in Row, ctx \in Context :
                /\ Pushed(0, w, ctx) /\ opened' = opened
                /\ \/ ctx = frame[depth].ctx /\ frame[depth].pc = "body"
                   \/ depth - 1 \in Level /\ frame[depth].pc = "run" /\ ctx = frame[depth - 1].ctx
         \/ \E d \in Instance :
                /\ Pushed(opened + 1, 0, WithTx(frame[depth].ctx, d, opened + 1))
                /\ opened' = opened + 1 /\ opened + 1 \in Tx /\ OnBody
<1>1. CASE Wrote \/ Got \/ \E w \in Row, b \in Tx : Registered(w, b)
  <2>1. Still
    BY <1>1 DEF Wrote, Got, Registered, Still, OthersSame, SameBody
  <2> QED
    BY <2>1
<1>2. CASE Ended \/ \E t \in Tx : CutOff(t)
  <2>1. Still
    BY <1>2 DEF Ended, CutOff, Still, SameBody
  <2> QED
    BY <2>1
<1>3. CASE Over \/ \E e \in Result : ActionOver(e)
  <2>1. Popped
    BY <1>3, NoBodyType, TransactionAssumption
    DEF Over, ActionOver, Popped, SameBody, OthersSame, OnBody, Level
  <2> QED
    BY <2>1
<1>4. ASSUME NEW t \in Tx, NEW e \in Result, Closed(t, e) PROVE Popped
  BY <1>4, NoBodyType DEF Closed, Popped, SameBody
<1>5. CASE \E t \in Tx : NotCommitted(t) \/ RunOver(t)
  <2>1. \E t \in Tx, e \in Result : Closed(t, e)
    BY <1>5 DEF NotCommitted, RunOver, Closed, Result
  <2> QED
    BY <2>1, <1>4
<1>6. CASE \E t \in Tx, e \in Result : RolledBack(t, e)
  BY <1>6, <1>4, ToldResult DEF RolledBack
<1>7. CASE \E t \in Tx : Done(t) \/ Committed(t)
  <2>1. Turned
    BY <1>7 DEF Done, Committed, Turned, SameBody, OthersSame, OnBody, Tx
  <2> QED
    BY <2>1
<1>8. ASSUME NEW w \in Row, NEW ctx \in Context, CalledAtOnce(w, ctx)
      PROVE  /\ Pushed(0, w, ctx) /\ opened' = opened
             /\ ctx = frame[depth].ctx /\ frame[depth].pc = "body"
  BY <1>8 DEF CalledAtOnce, Called, Pushed, IsBody, SameBody, OnBody
<1>9. ASSUME NEW w \in Row, NEW ctx \in Context, CalledInRun(w, ctx)
      PROVE  /\ Pushed(0, w, ctx) /\ opened' = opened
             /\ depth - 1 \in Level /\ frame[depth].pc = "run" /\ ctx = frame[depth - 1].ctx
  BY <1>9 DEF CalledInRun, Called, Pushed, IsBody, SameBody
<1>10. ASSUME NEW d \in Instance, Opened(d)
       PROVE  /\ Pushed(opened + 1, 0, WithTx(frame[depth].ctx, d, opened + 1))
              /\ opened' = opened + 1 /\ opened + 1 \in Tx /\ OnBody
  BY <1>10 DEF Opened, Pushed, IsBody, SameBody, OthersSame
<1> QED
  BY <1>1, <1>2, <1>3, <1>5, <1>6, <1>7, <1>8, <1>9, <1>10 DEF Step

\* The stack keeps its form.
LEMMA StackStep ==
  ASSUME Types, Types', Stack, Step
  PROVE  Stack'
<1> USE TransactionAssumption DEF Level
<1>1. depth \in 0 .. MaxDepth /\ opened \in Nat
  BY DEF Types
<1>2. \A l \in Level : frame[l].own \in Nat
  BY DEF Types, Frame, Tx
<1>3. CASE Still
  BY <1>1, <1>3 DEF Still, SameBody, Stack
<1>4. CASE Turned
  BY <1>1, <1>4 DEF Turned, SameBody, Stack
<1>5. CASE Popped
  BY <1>1, <1>5 DEF Popped, SameBody, Stack
<1>6. ASSUME NEW w \in Row, NEW ctx \in Context, Pushed(0, w, ctx), opened' = opened
      PROVE  Stack'
  BY <1>1, <1>6 DEF Pushed, SameBody, Stack, OnBody, Row
<1>7. ASSUME NEW ctx, Pushed(opened + 1, 0, ctx), opened' = opened + 1, OnBody
      PROVE  Stack'
  BY <1>1, <1>2, <1>7 DEF Pushed, SameBody, Stack, OnBody
<1> QED
  BY <1>3, <1>4, <1>5, <1>6, <1>7, Shapes

\* A context gains the transaction that opens, and nothing else.
LEMMA CarriedOf ==
  ASSUME NEW ctx \in Context, NEW d \in Instance, NEW t
  PROVE  Carried(WithTx(ctx, d, t)) \subseteq Carried(ctx) \cup {t}
  BY DEF Carried, WithTx, Context

\* What runs has no context of a transaction that is over: a body that goes on
\* to its commit is on top, so no context below is of its transaction, and the
\* actions it runs have the context of the body below.
LEMMA ContextStep ==
  ASSUME Types, Types', Stack, NoStaleContext, Step
  PROVE  NoStaleContext'
<1> USE TransactionAssumption DEF Level
<1>1. depth \in 0 .. MaxDepth /\ opened \in Nat
  BY DEF Types
<1> DEFINE Alive(t, l) == \E k \in 1 .. l : frame[k].own = t /\ frame[k].pc = "body"
           Good(ctx, l) == \A t \in Carried(ctx) : Alive(t, l)
<1>2. \A l \in 1 .. depth : frame[l].pc = "body" => Good(frame[l].ctx, l)
  BY DEF NoStaleContext
<1>3. SUFFICES ASSUME NEW l \in 1 .. depth', frame'[l].pc = "body",
                      NEW t \in Carried(frame'[l].ctx)
               PROVE  \E k \in 1 .. l : frame'[k].own = t /\ frame'[k].pc = "body"
  BY DEF NoStaleContext, Carried
<1>4. ASSUME NEW m \in 0 .. depth, m <= l, Alive(t, m),
             \A k \in 1 .. m : frame[k].pc = "body" =>
                 frame'[k].own = frame[k].own /\ frame'[k].pc = "body"
      PROVE  \E k \in 1 .. l : frame'[k].own = t /\ frame'[k].pc = "body"
  BY <1>1, <1>4
<1>5. CASE Still
  <2>1. /\ l \in 1 .. depth /\ frame[l].pc = "body" /\ t \in Carried(frame[l].ctx)
        /\ \A k \in 1 .. l : frame[k].pc = "body" =>
                 frame'[k].own = frame[k].own /\ frame'[k].pc = "body"
    BY <1>1, <1>3, <1>5 DEF Still, SameBody
  <2> QED
    BY <1>1, <1>2, <1>4, <2>1
<1>6. CASE Turned
  <2>1. l # depth
    BY <1>3, <1>6 DEF Turned
  <2>2. /\ l \in 1 .. depth /\ frame[l].pc = "body" /\ t \in Carried(frame[l].ctx)
        /\ \A k \in 1 .. l : frame[k].pc = "body" =>
                 frame'[k].own = frame[k].own /\ frame'[k].pc = "body"
    BY <1>1, <1>3, <1>6, <2>1 DEF Turned, SameBody
  <2> QED
    BY <1>1, <1>2, <1>4, <2>2
<1>7. CASE Popped
  <2>1. /\ l \in 1 .. depth /\ frame[l].pc = "body" /\ t \in Carried(frame[l].ctx)
        /\ \A k \in 1 .. l : frame[k].pc = "body" =>
                 frame'[k].own = frame[k].own /\ frame'[k].pc = "body"
    BY <1>1, <1>3, <1>7 DEF Popped, SameBody
  <2> QED
    BY <1>1, <1>2, <1>4, <2>1
<1>8. ASSUME NEW u, NEW w, NEW ctx, Pushed(u, w, ctx)
      PROVE  /\ \A k \in 1 .. depth : frame[k].pc = "body" =>
                    frame'[k].own = frame[k].own /\ frame'[k].pc = "body"
             /\ l = depth + 1 => frame'[l].ctx = ctx /\ frame'[l].own = u
             /\ l # depth + 1 => /\ l \in 1 .. depth /\ frame[l].pc = "body"
                                 /\ t \in Carried(frame[l].ctx)
  BY <1>1, <1>3, <1>8 DEF Pushed, SameBody
<1>9. ASSUME NEW w \in Row, NEW ctx \in Context, Pushed(0, w, ctx),
             \/ ctx = frame[depth].ctx /\ frame[depth].pc = "body"
             \/ depth - 1 \in Level /\ frame[depth].pc = "run" /\ ctx = frame[depth - 1].ctx
      PROVE  \E k \in 1 .. l : frame'[k].own = t /\ frame'[k].pc = "body"
  <2>1. CASE l # depth + 1
    BY <1>1, <1>2, <1>4, <1>8, <1>9, <2>1
  <2>2. CASE l = depth + 1
    <3>1. t \in Carried(ctx) /\ depth \in Level
      BY <1>3, <1>8, <1>9, <2>2 DEF Pushed, OnBody
    <3>2. PICK m \in 1 .. depth : frame[m].pc = "body" /\ ctx = frame[m].ctx
      <4>1. CASE ctx = frame[depth].ctx /\ frame[depth].pc = "body"
        BY <1>1, <3>1, <4>1
      <4>2. CASE depth - 1 \in Level /\ frame[depth].pc = "run" /\ ctx = frame[depth - 1].ctx
        <5>1. depth \in 1 .. depth /\ depth > 1 /\ depth - 1 \in 1 .. depth
          BY <1>1, <4>2
        <5>2. frame[depth].own # 0
          BY <4>2, <5>1 DEF Stack
        <5>3. frame[depth - 1].pc = "body"
          BY <5>1, <5>2 DEF Stack
        <5> QED
          BY <4>2, <5>1, <5>3
      <4> QED
        BY <1>9, <4>1, <4>2
    <3>3. Alive(t, m)
      BY <1>2, <3>1, <3>2
    <3> QED
      BY <1>1, <1>4, <1>8, <1>9, <2>2, <3>2, <3>3
  <2> QED
    BY <2>1, <2>2
<1>10. ASSUME NEW d \in Instance, OnBody, opened + 1 \in Tx,
              Pushed(opened + 1, 0, WithTx(frame[depth].ctx, d, opened + 1))
       PROVE  \E k \in 1 .. l : frame'[k].own = t /\ frame'[k].pc = "body"
  <2>1. CASE l # depth + 1
    BY <1>1, <1>2, <1>4, <1>8, <1>10, <2>1
  <2>2. CASE l = depth + 1
    <3>1. t \in Carried(WithTx(frame[depth].ctx, d, opened + 1)) /\ frame'[l].own = opened + 1
      BY <1>3, <1>8, <1>10, <2>2
    <3>2. depth \in 1 .. depth /\ frame[depth].pc = "body" /\ frame[depth].ctx \in Context
      BY <1>1, <1>10 DEF OnBody, Types, Frame
    <3>3. CASE t = opened + 1
      BY <1>1, <1>3, <2>2, <3>1, <3>3
    <3>4. CASE t # opened + 1
      <4>1. t \in Carried(frame[depth].ctx)
        BY <3>1, <3>2, <3>4, CarriedOf
      <4>2. Alive(t, depth)
        BY <1>2, <3>2, <4>1
      <4> QED
        BY <1>1, <1>4, <1>8, <1>10, <2>2, <4>2
    <3> QED
      BY <3>3, <3>4
  <2> QED
    BY <2>1, <2>2
<1> QED
  BY <1>5, <1>6, <1>7, <1>9, <1>10, Shapes

\* Actions are registered with the transaction of a body that goes on.
LEMMA RegisteredWithBody ==
  ASSUME Types, Stack, NoStaleContext, NEW w \in Row, NEW b \in Tx, Registered(w, b)
  PROVE  \E k \in 1 .. depth : frame[k].own = b /\ frame[k].pc = "body"
<1>1. /\ depth \in Level /\ frame[depth].pc = "body" /\ b = frame[depth].ctx.boundary
  BY DEF Registered, OnBody
<1>2. depth \in 1 .. depth
  BY <1>1, TransactionAssumption DEF Level
<1>3. b # 0
  BY DEF Tx
<1>4. b \in Carried(frame[depth].ctx)
  BY <1>1, <1>3, Zenon DEF Carried
<1> QED
  BY <1>1, <1>2, <1>4 DEF NoStaleContext

\* A body that runs the actions of its commit was doing so, or commits.
LEMMA RunsFrom ==
  ASSUME Types, Stack, Step, NEW l \in Level, frame'[l].pc = "run"
  PROVE  /\ l \in 1 .. depth /\ l \in 1 .. depth'
         /\ frame'[l].own = frame[l].own /\ frame[l].own \in Tx
         /\ \/ frame[l].pc = "run"
            \/ l = depth /\ Committed(frame[l].own)
<1> USE TransactionAssumption DEF Level
<1>1. depth \in 0 .. MaxDepth /\ frame[l].own \in Tx \cup {0}
  BY DEF Types, Frame
<1>2. ASSUME frame'[l].pc = frame[l].pc, frame'[l].own = frame[l].own
      PROVE  l \in 1 .. depth /\ frame[l].own \in Tx /\ frame[l].pc = "run"
  BY <1>1, <1>2 DEF Stack
<1>3. CASE Still
  BY <1>1, <1>2, <1>3 DEF Still, SameBody
<1>4. CASE Popped
  <2>1. l # depth
    BY <1>4 DEF Popped
  <2> QED
    BY <1>1, <1>2, <1>4, <2>1 DEF Popped, SameBody
<1>5. ASSUME NEW t, NEW w, NEW ctx, Pushed(t, w, ctx)
      PROVE  l \in 1 .. depth' /\ frame'[l].pc = frame[l].pc /\ frame'[l].own = frame[l].own
  <2>1. l # depth + 1
    BY <1>5 DEF Pushed
  <2>2. frame'[l].pc = frame[l].pc /\ frame'[l].own = frame[l].own
    BY <1>5, <2>1 DEF Pushed, SameBody
  <2> QED
    BY <1>1, <1>2, <1>5, <2>2 DEF Pushed
<1>6. CASE Turned
  <2>1. CASE l # depth
    BY <1>1, <1>2, <1>6, <2>1 DEF Turned, SameBody
  <2>2. CASE l = depth
    <3>1. \A k \in Level : k # depth => SameBody(k)
      BY <1>6 DEF Turned
    <3>2. frame'[l].own = frame[l].own /\ frame[l].own \in Tx /\ l \in 1 .. depth /\ depth' = depth
      BY <1>1, <1>6, <2>2 DEF Turned
    <3>3. ASSUME frame[l].pc # "run" PROVE Committed(frame[l].own)
      <4>1. CASE Wrote \/ Got \/ \E w \in Row, b \in Tx : Registered(w, b)
        BY <2>2, <3>3, <4>1 DEF Wrote, Got, Registered, SameBody
      <4>2. CASE Ended \/ \E t \in Tx : CutOff(t)
        BY <3>3, <4>2 DEF Ended, CutOff
      <4>3. CASE Over \/ \E e \in Result : ActionOver(e)
        BY <1>1, <3>2, <4>3 DEF Over, ActionOver
      <4>4. CASE \E t \in Tx : NotCommitted(t) \/ RunOver(t)
        BY <1>1, <3>2, <4>4 DEF NotCommitted, RunOver, Closed
      <4>5. CASE \E t \in Tx, e \in Result : RolledBack(t, e)
        BY <1>1, <3>2, <4>5 DEF RolledBack, Closed
      <4>6. CASE \E w \in Row, ctx \in Context : CalledAtOnce(w, ctx) \/ CalledInRun(w, ctx)
        BY <1>1, <3>2, <4>6 DEF CalledAtOnce, CalledInRun, Called
      <4>7. CASE \E d \in Instance : Opened(d)
        BY <1>1, <3>2, <4>7 DEF Opened
      <4>8. ASSUME NEW t \in Tx, Done(t) PROVE FALSE
        BY <2>2, <4>8 DEF Done
      <4>9. ASSUME NEW t \in Tx, Committed(t) PROVE Committed(frame[l].own)
        <5>1. t = frame[l].own
          BY <2>2, <4>9 DEF Committed
        <5> QED
          BY <4>9, <5>1
      <4> QED
        BY <4>1, <4>2, <4>3, <4>4, <4>5, <4>6, <4>7, <4>8, <4>9 DEF Step
    <3> QED
      BY <2>2, <3>2, <3>3
  <2> QED
    BY <2>1, <2>2
<1> QED
  BY <1>2, <1>3, <1>4, <1>5, <1>6, Shapes

\* It goes on doing so while it is on the stack ...
LEMMA RunsOn ==
  ASSUME Types, Stack, Step, NEW l \in 1 .. depth, l \in 1 .. depth', frame[l].pc = "run"
  PROVE  SameBody(l)
<1> USE TransactionAssumption DEF Level
<1>1. depth \in 0 .. MaxDepth /\ l \in Level
  BY DEF Types
<1>2. CASE Still
  BY <1>1, <1>2 DEF Still
<1>3. CASE Turned
  BY <1>1, <1>3 DEF Turned
<1>4. CASE Popped
  BY <1>1, <1>4 DEF Popped
<1>5. ASSUME NEW t, NEW w, NEW ctx, Pushed(t, w, ctx) PROVE SameBody(l)
  BY <1>1, <1>5 DEF Pushed
<1> QED
  BY <1>2, <1>3, <1>4, <1>5, Shapes

\* ... and gets an error from its actions only.
LEMMA RunErr ==
  ASSUME Types, Stack, Step, NEW l \in 1 .. depth, l \in 1 .. depth', frame[l].pc = "run"
  PROVE  \/ frame'[l].err = frame[l].err
         \/ \E e \in Result : ActionOver(e) /\ l = depth - 1
<1> USE TransactionAssumption DEF Level
<1>1. depth \in 0 .. MaxDepth /\ l \in Level /\ depth \in 1 .. depth
  BY DEF Types
<1>2. ASSUME OthersSame(depth), frame[depth].pc # "run" PROVE frame'[l].err = frame[l].err
  BY <1>1, <1>2 DEF OthersSame
<1>3. CASE Wrote \/ Got \/ \E w \in Row, b \in Tx : Registered(w, b)
  BY <1>2, <1>3 DEF Wrote, Got, Registered, OnBody
<1>4. CASE Ended \/ \E t \in Tx : CutOff(t)
  BY <1>4 DEF Ended, CutOff
<1>5. CASE Over
  BY <1>1, <1>5 DEF Over
<1>6. CASE \E w \in Row, ctx \in Context : CalledAtOnce(w, ctx) \/ CalledInRun(w, ctx)
  BY <1>1, <1>6 DEF CalledAtOnce, CalledInRun, Called
<1>7. CASE \E d \in Instance : Opened(d)
  BY <1>1, <1>7 DEF Opened, OthersSame
<1>8. CASE \E t \in Tx : Done(t) \/ Committed(t)
  BY <1>2, <1>8 DEF Done, Committed, OnBody
<1>9. ASSUME NEW t \in Tx, NEW e, Closed(t, e) PROVE frame'[l].err = frame[l].err
  <2>1. frame[depth].own # 0 /\ depth' = depth - 1 /\ depth - 1 \in Level
    BY <1>9 DEF Closed, Tx
  <2>2. frame[depth - 1].pc = "body"
    BY <1>1, <2>1 DEF Stack
  <2>3. l # depth /\ l # depth - 1
    BY <1>1, <2>1, <2>2
  <2> QED
    BY <1>1, <1>9, <2>3 DEF Closed
<1>10. CASE \E t \in Tx : NotCommitted(t) \/ RunOver(t)
  BY <1>9, <1>10 DEF NotCommitted, RunOver
<1>11. CASE \E t \in Tx, e \in Result : RolledBack(t, e)
  BY <1>9, <1>11 DEF RolledBack
<1>12. ASSUME NEW e \in Result, ActionOver(e)
       PROVE  frame'[l].err = frame[l].err \/ l = depth - 1
  <2>1. l # depth
    BY <1>1, <1>12 DEF ActionOver
  <2> QED
    BY <1>1, <1>12, <2>1 DEF ActionOver
<1> QED
  BY <1>3, <1>4, <1>5, <1>6, <1>7, <1>8, <1>10, <1>11, <1>12 DEF Step

\* The lists of a boundary change as an action is registered and as it commits.
LEMMA ListsFrom ==
  ASSUME Types, Step, NEW t \in Tx
  PROVE  \/ SameLists(t) \/ Committed(t)
         \/ \E w \in Row : Registered(w, t)
<1>1. ASSUME tx'[t] = tx[t] PROVE SameLists(t)
  BY <1>1 DEF SameLists
<1>2. CASE Wrote \/ Got \/ Over \/ Ended
  <2>1. tx' = tx
    BY <1>2 DEF Wrote, Got, Over, Ended
  <2> QED
    BY <1>1, <2>1
<1>3. CASE \E e \in Result : ActionOver(e)
  BY <1>1, <1>3 DEF ActionOver
<1>4. CASE \E w \in Row, ctx \in Context : CalledAtOnce(w, ctx) \/ CalledInRun(w, ctx)
  BY <1>1, <1>4 DEF CalledAtOnce, CalledInRun, Called
<1>5. ASSUME NEW w \in Row, NEW b \in Tx, Registered(w, b)
      PROVE  SameLists(t) \/ \E v \in Row : Registered(v, t)
  <2>1. CASE t = b
    BY <1>5, <2>1
  <2>2. CASE t # b
    BY <1>1, <1>5, <2>2 DEF Registered, OtherTxSame
  <2> QED
    BY <2>1, <2>2
<1>6. CASE \E d \in Instance : Opened(d)
  BY <1>1, <1>6 DEF Opened, OtherTxSame
<1>7. ASSUME NEW u \in Tx, SameLists(u), OtherTxSame(u) PROVE SameLists(t)
  BY <1>1, <1>7 DEF OtherTxSame
<1>8. CASE \E u \in Tx : Done(u) \/ CutOff(u)
  BY <1>7, <1>8 DEF Done, CutOff
<1>9. CASE \E u \in Tx : NotCommitted(u) \/ RunOver(u)
  BY <1>7, <1>9 DEF NotCommitted, RunOver, Closed
<1>10. CASE \E u \in Tx, e \in Result : RolledBack(u, e)
  BY <1>7, <1>10 DEF RolledBack, Closed
<1>11. ASSUME NEW u \in Tx, Committed(u) PROVE SameLists(t) \/ Committed(t)
  <2>1. CASE t = u
    BY <1>11, <2>1
  <2>2. CASE t # u
    BY <1>1, <1>11, <2>2 DEF Committed, OtherTxSame
  <2> QED
    BY <2>1, <2>2
<1> QED
  BY <1>2, <1>3, <1>4, <1>5, <1>6, <1>8, <1>9, <1>10, <1>11 DEF Step

\* A boundary that has run gets no more actions.
LEMMA ClearedStep ==
  ASSUME Types, Stack, NoStaleContext, Cleared, Step
  PROVE  Cleared'
<1>1. SUFFICES ASSUME NEW l \in Level, frame'[l].pc = "run"
               PROVE  tx'[frame'[l].own].actions = <<>>
  BY DEF Cleared
<1>2. PICK t \in Tx : t = frame[l].own
  BY <1>1, RunsFrom
<1>3. frame'[l].own = t /\ l \in 1 .. depth
  BY <1>1, <1>2, RunsFrom
<1>4. CASE Committed(t)
  BY <1>3, <1>4 DEF Committed
<1>5. CASE ~ Committed(t)
  <2>1. frame[l].pc = "run" /\ tx[t].actions = <<>>
    BY <1>1, <1>2, <1>5, RunsFrom DEF Cleared
  <2>2. ASSUME NEW w \in Row, Registered(w, t) PROVE FALSE
    <3>1. PICK k \in 1 .. depth : frame[k].own = t /\ frame[k].pc = "body"
      BY <2>2, RegisteredWithBody
    <3>2. k = l
      BY <1>2, <1>3, <3>1 DEF Stack, Tx
    <3> QED
      BY <2>1, <3>1, <3>2
  <2>3. SameLists(t)
    BY <1>5, <2>2, ListsFrom
  <2> QED
    BY <1>3, <2>1, <2>3 DEF SameLists
<1> QED
  BY <1>4, <1>5

-----------------------------------------------------------------------------
StackInv == Types /\ Stack /\ NoStaleContext /\ Cleared

LEMMA TypeParts == TypeOK <=> Types /\ Cleared
  BY DEF TypeOK, Types, Cleared

LEMMA StackInit == Init => StackInv
<1> SUFFICES ASSUME Init PROVE StackInv
  OBVIOUS
<1> USE TransactionAssumption DEF Level
<1>1. Body("body", 0, 0, Background) \in Frame
  BY NewBody, BackgroundType
<1>2. frame \in [Level -> Frame]
  BY <1>1, NoBodyType DEF Init
<1>3. NoBoundary \in Boundary
  <2>1. <<>> \in Seq(Row)
    OBVIOUS
  <2> QED
    BY <2>1 DEF NoBoundary, Boundary
<1>4. tx \in [Tx -> Boundary]
  BY <1>3 DEF Init
<1>5. ran \in Seq(Row) /\ failed \in SUBSET Row /\ row \in [Row -> Tx \cup {0}] /\ ended \in BOOLEAN
  <2>1. ran = <<>> /\ failed = {} /\ row = [w \in Row |-> 0] /\ ended = FALSE
    BY DEF Init
  <2>2. ran \in Seq(Row)
    BY <2>1
  <2> QED
    BY <2>1, <2>2
<1>6. Types
  BY <1>2, <1>4, <1>5 DEF Init, Types
<1>7. /\ depth = 1 /\ opened = 0
      /\ frame[1].pc = "body" /\ frame[1].own = 0 /\ frame[1].ctx = Background
      /\ \A l \in Level : l # 1 => frame[l].pc = "off" /\ frame[l].own = 0
  <2>1. frame[1] = Body("body", 0, 0, Background)
    BY DEF Init
  <2>2. \A l \in Level : l # 1 => frame[l] = NoBody
    BY DEF Init
  <2> QED
    BY <2>1, <2>2, NoBodyType DEF Init, Body
<1>8. Stack
  BY <1>7 DEF Stack
<1>9. Carried(Background) = {}
  BY DEF Carried, Background
<1>10. NoStaleContext
  BY <1>7, <1>9 DEF NoStaleContext
<1>11. Cleared
  BY <1>7 DEF Cleared
<1> QED
  BY <1>6, <1>8, <1>10, <1>11 DEF StackInv

LEMMA StackInvStep == StackInv /\ [Next]_vars => StackInv'
<1> SUFFICES ASSUME StackInv, [Next]_vars PROVE StackInv'
  OBVIOUS
<1> USE DEF StackInv
<1>1. CASE Next
  BY <1>1, Steps, StackStep, ContextStep, ClearedStep
<1>2. CASE UNCHANGED vars
  <2>1. Types'
    BY <1>2 DEF vars, Types
  <2>2. Stack'
    BY <1>2 DEF vars, Stack
  <2>3. NoStaleContext'
    BY <1>2 DEF vars, NoStaleContext, Carried
  <2>4. Cleared'
    BY <1>2 DEF vars, Cleared
  <2> QED
    BY <2>1, <2>2, <2>3, <2>4
<1> QED
  BY <1>1, <1>2

LEMMA StackInvariant == Spec => []StackInv
  BY StackInit, StackInvStep, PTL DEF Spec

\* Every variable keeps its type, and a boundary that has run holds no actions:
\* none is registered with it from inside one of them (AfterCommit, run).
THEOREM TypeCorrect == Spec => []TypeOK
<1>1. StackInv => TypeOK
  BY TypeParts DEF StackInv
<1> QED
  BY <1>1, StackInvariant, PTL

\* Whatever runs, however deep, has a context of no transaction that is over
\* (withTransactionBoundary runs the actions with the context from before it).
THEOREM ContextsFresh == Spec => []NoStaleContext
<1>1. StackInv => NoStaleContext
  BY DEF StackInv
<1> QED
  BY <1>1, StackInvariant, PTL

-----------------------------------------------------------------------------
(* What becomes of the transactions, and what their callers are told. *)

\* The fate of a transaction is changed by itself, or by the end of the context.
LEMMA FatesFrom ==
  ASSUME Types, Step, NEW t \in Tx
  PROVE  \/ SameFate(t)
         \/ t = opened + 1 /\ \E d \in Instance : Opened(d)
         \/ Done(t) \/ NotCommitted(t) \/ RunOver(t) \/ Committed(t) \/ CutOff(t)
         \/ \E e \in Result : RolledBack(t, e)
<1>1. ASSUME tx'[t] = tx[t] PROVE SameFate(t)
  BY <1>1 DEF SameFate
<1>2. CASE Wrote \/ Got \/ Over \/ Ended
  <2>1. tx' = tx
    BY <1>2 DEF Wrote, Got, Over, Ended
  <2> QED
    BY <1>1, <2>1
<1>3. CASE \E e \in Result : ActionOver(e)
  BY <1>1, <1>3 DEF ActionOver
<1>4. CASE \E w \in Row, ctx \in Context : CalledAtOnce(w, ctx) \/ CalledInRun(w, ctx)
  BY <1>1, <1>4 DEF CalledAtOnce, CalledInRun, Called
<1>5. CASE \E w \in Row, b \in Tx : Registered(w, b)
  BY <1>1, <1>5 DEF Registered, OtherTxSame
<1>6. CASE \E d \in Instance : Opened(d)
  BY <1>1, <1>6 DEF Opened, OtherTxSame
<1>7. ASSUME NEW u \in Tx, OtherTxSame(u) PROVE t = u \/ SameFate(t)
  BY <1>1, <1>7 DEF OtherTxSame
<1>8. ASSUME NEW u \in Tx,
             Done(u) \/ NotCommitted(u) \/ RunOver(u) \/ Committed(u) \/ CutOff(u)
      PROVE  OtherTxSame(u)
  BY <1>8 DEF Done, NotCommitted, RunOver, Committed, CutOff, Closed
<1>9. ASSUME NEW u \in Tx, NEW e \in Result, RolledBack(u, e)
      PROVE  OtherTxSame(u)
  BY <1>9 DEF RolledBack, Closed
<1>10. CASE \E u \in Tx : Done(u) \/ NotCommitted(u) \/ RunOver(u) \/ Committed(u) \/ CutOff(u)
  BY <1>7, <1>8, <1>10
<1>11. CASE \E u \in Tx, e \in Result : RolledBack(u, e)
  BY <1>7, <1>9, <1>11
<1> QED
  BY <1>2, <1>3, <1>4, <1>5, <1>6, <1>10, <1>11 DEF Step

\* Those on the stack were there, or open.
LEMMA OwnersFrom ==
  ASSUME Types, Stack, Step, NEW l \in 1 .. depth', frame'[l].own # 0
  PROVE  /\ l \in Level /\ frame'[l].own \in Tx
         /\ \/ l \in 1 .. depth /\ frame'[l].own = frame[l].own
            \/ /\ l = depth + 1 /\ frame'[l].own = opened + 1 /\ frame'[l].pc = "body"
               /\ \E d \in Instance : Opened(d)
<1> USE TransactionAssumption DEF Level
<1>1. depth \in 0 .. MaxDepth /\ \A k \in Level : frame[k].own \in Tx \cup {0}
  BY DEF Types, Frame
<1>2. CASE Still
  BY <1>1, <1>2 DEF Still, SameBody
<1>3. CASE Turned
  BY <1>1, <1>3 DEF Turned, SameBody
<1>4. CASE Popped
  BY <1>1, <1>4 DEF Popped, SameBody
<1>5. ASSUME NEW w, NEW ctx, Pushed(0, w, ctx)
      PROVE  l \in 1 .. depth /\ frame'[l].own = frame[l].own
  BY <1>1, <1>5 DEF Pushed, SameBody
<1>6. ASSUME NEW ctx, Pushed(opened + 1, 0, ctx), opened + 1 \in Tx, opened' = opened + 1
      PROVE  /\ l \in Level /\ frame'[l].own \in Tx
             /\ \/ l \in 1 .. depth /\ frame'[l].own = frame[l].own
                \/ /\ l = depth + 1 /\ frame'[l].own = opened + 1 /\ frame'[l].pc = "body"
                   /\ \E d \in Instance : Opened(d)
  <2>1. \E d \in Instance : Opened(d)
    <3>1. opened' # opened
      BY <1>6 DEF Types
    <3> QED
      BY <3>1 DEF Step, Wrote, Got, Over, Ended, CalledAtOnce, CalledInRun, Called, Registered,
         Done, NotCommitted, RunOver, Committed, CutOff, RolledBack, Closed, ActionOver
  <2>2. CASE l = depth + 1
    BY <1>1, <1>6, <2>1, <2>2 DEF Pushed
  <2>3. CASE l # depth + 1
    BY <1>1, <1>6, <2>3 DEF Pushed, SameBody
  <2> QED
    BY <2>2, <2>3
<1> QED
  BY <1>1, <1>2, <1>3, <1>4, <1>5, <1>6, Shapes

\* The owner of the transaction a step is about is on top.
LEMMA Owner ==
  ASSUME Types, Stack, NEW t \in Tx,
         \/ Done(t) \/ NotCommitted(t) \/ RunOver(t) \/ Committed(t)
         \/ \E e \in Result : RolledBack(t, e)
  PROVE  /\ depth \in 1 .. depth /\ frame[depth].own = t /\ t <= opened
         /\ \A l \in 1 .. depth : frame[l].own = t => l = depth
<1>1. depth \in Level /\ frame[depth].own = t
  BY DEF Done, NotCommitted, RunOver, Committed, RolledBack, Closed, OnBody
<1>2. depth \in 1 .. depth
  BY <1>1, TransactionAssumption DEF Level
<1> QED
  BY <1>1, <1>2 DEF Stack, Tx

\* The context does not come back.
LEMMA EndedStays == ASSUME Step, ended PROVE ended'
  BY DEF Step, Wrote, Got, Over, Ended, CalledAtOnce, CalledInRun, Called, Registered, Opened,
     Done, NotCommitted, RunOver, Committed, CutOff, RolledBack, Closed, ActionOver

\* The transactions never un-open.
LEMMA OpenedGrows == ASSUME Types, Step PROVE opened' \in Nat /\ opened' >= opened /\ opened \in Nat
<1>1. opened' = opened \/ opened' = opened + 1
  BY DEF Step, Wrote, Got, Over, Ended, CalledAtOnce, CalledInRun, Called, Registered, Opened,
     Done, NotCommitted, RunOver, Committed, CutOff, RolledBack, Closed, ActionOver
<1> QED
  BY <1>1 DEF Types

LEMMA FatesStep ==
  ASSUME Types, Types', Stack, NoStaleContext, Fates, Step
  PROVE  Fates'
<1>1. ASSUME NEW t \in Tx, t > opened'
      PROVE  /\ tx'[t].state = "unused" /\ tx'[t].answer = "none"
             /\ tx'[t].actions = <<>> /\ tx'[t].said = <<>>
  <2>1. /\ t > opened /\ (t # opened + 1 \/ opened' = opened)
        /\ ~ (t <= opened)
    BY <1>1, OpenedGrows DEF Tx
  <2>2. /\ tx[t].state = "unused" /\ tx[t].answer = "none"
        /\ tx[t].actions = <<>> /\ tx[t].said = <<>>
    BY <2>1 DEF Fates
  <2>3. SameFate(t)
    <3>1. CASE CutOff(t)
      BY <2>2, <3>1 DEF CutOff
    <3>2. CASE t = opened + 1 /\ \E d \in Instance : Opened(d)
      BY <1>1, <3>2 DEF Opened, Tx
    <3> QED
      BY <2>1, <3>1, <3>2, FatesFrom, Owner
  <2>4. SameLists(t)
    <3>1. ASSUME NEW w \in Row, Registered(w, t) PROVE FALSE
      BY <2>1, <3>1, RegisteredWithBody DEF Stack
    <3> QED
      BY <2>1, <3>1, ListsFrom, Owner
  <2> QED
    BY <2>2, <2>3, <2>4 DEF SameFate, SameLists
<1>2. ASSUME NEW l \in 1 .. depth', frame'[l].own # 0
      PROVE  /\ tx'[frame'[l].own].answer = "none"
             /\ frame'[l].pc = "run" <=> tx'[frame'[l].own].state = "committed"
  <2>1. PICK t \in Tx : t = frame'[l].own
    BY <1>2, OwnersFrom
  <2>2. CASE l \in 1 .. depth /\ t = frame[l].own
    <3>1. /\ tx[t].answer = "none" /\ t # 0 /\ t <= opened /\ t # opened + 1
          /\ frame[l].pc = "run" <=> tx[t].state = "committed"
      <4>1. t # 0 /\ t = frame[l].own /\ l \in 1 .. depth
        BY <2>2 DEF Tx
      <4>2. tx[t].answer = "none" /\ (frame[l].pc = "run" <=> tx[t].state = "committed")
        BY <4>1, Zenon DEF Fates
      <4>3. t <= opened
        BY <4>1, Zenon DEF Stack
      <4>4. t # opened + 1
        BY <4>3 DEF Tx, Types
      <4> QED
        BY <4>1, <4>2, <4>3, <4>4, Zenon
    <3>2. l \in Level
      BY <1>2, OwnersFrom
    <3>3. CASE Committed(t)
      BY <2>1, <2>2, <3>1, <3>3, Owner DEF Committed
    <3>4. CASE ~ Committed(t)
      <4>1. frame'[l].pc = "run" <=> frame[l].pc = "run"
        <5>1. frame'[l].pc = "run" => frame[l].pc = "run"
          BY <2>2, <3>2, <3>4, RunsFrom
        <5>2. frame[l].pc = "run" => frame'[l].pc = "run"
          BY <1>2, <2>2, RunsOn DEF SameBody
        <5> QED
          BY <5>1, <5>2
      <4>2. /\ tx'[t].answer = "none"
            /\ tx'[t].state = "committed" <=> tx[t].state = "committed"
        <5>1. CASE SameFate(t) \/ Done(t) \/ CutOff(t)
          BY <3>1, <5>1 DEF SameFate, Done, CutOff
        <5>2. ASSUME NotCommitted(t) \/ RunOver(t) \/ \E e \in Result : RolledBack(t, e)
              PROVE  FALSE
          <6>1. l = depth
            BY <2>2, <5>2, Owner
          <6>2. depth' = depth - 1
            BY <5>2 DEF NotCommitted, RunOver, RolledBack, Closed
          <6> QED
            BY <1>2, <6>1, <6>2 DEF Types
        <5> QED
          BY <3>1, <3>4, <5>1, <5>2, FatesFrom
      <4> QED
        BY <2>1, <3>1, <4>1, <4>2
    <3> QED
      BY <3>3, <3>4
  <2>3. CASE /\ t = opened + 1 /\ frame'[l].pc = "body"
             /\ \E d \in Instance : Opened(d)
    <3>1. tx[t].answer = "none"
      BY <2>3 DEF Fates, Types
    <3> QED
      BY <2>1, <2>3, <3>1 DEF Opened
  <2> QED
    BY <1>2, <2>1, <2>2, <2>3, OwnersFrom
<1>3. ASSUME NEW l \in 1 .. depth', frame'[l].pc = "run"
      PROVE  frame'[l].err \in {"nil", "panic"} \cup IsAfter
  <2>1. l \in Level
    BY <1>3, TransactionAssumption DEF Types, Level
  <2>2. CASE Committed(frame[l].own) /\ l = depth
    BY <2>2 DEF Committed
  <2>3. CASE frame[l].pc = "run"
    <3>1. l \in 1 .. depth /\ frame[l].err \in {"nil", "panic"} \cup IsAfter
      BY <1>3, <2>1, <2>3, RunsFrom DEF Fates
    <3>2. CASE frame'[l].err = frame[l].err
      BY <3>1, <3>2
    <3>3. ASSUME NEW e \in Result, ActionOver(e), l = depth - 1
          PROVE  frame'[l].err \in {"nil", "panic"} \cup IsAfter
      BY <2>3, <3>3 DEF ActionOver, Marked, IsTxDone, IsAfter
    <3> QED
      BY <1>3, <2>1, <2>3, <3>1, <3>2, <3>3, RunErr
  <2> QED
    BY <1>3, <2>1, <2>2, <2>3, RunsFrom
<1>4. ASSUME NEW t \in Tx, tx'[t].answer # "none"
      PROVE  tx'[t].state \in {"committed", "undone"}
  <2>1. tx[t].answer # "none" => tx[t].state \in {"committed", "undone"}
    BY DEF Fates
  <2>2. CASE SameFate(t) \/ Done(t)
    BY <1>4, <2>1, <2>2 DEF SameFate, Done
  <2>3. CASE t = opened + 1 /\ \E d \in Instance : Opened(d)
    <3>1. tx[t].answer = "none"
      BY <2>3 DEF Fates, Types
    <3> QED
      BY <1>4, <2>3, <3>1 DEF Opened
  <2>4. CASE NotCommitted(t) \/ RunOver(t) \/ Committed(t) \/ CutOff(t)
    BY <2>4 DEF NotCommitted, RunOver, Committed, CutOff
  <2>5. CASE \E e \in Result : RolledBack(t, e)
    BY <2>5 DEF RolledBack
  <2> QED
    BY <2>2, <2>3, <2>4, <2>5, FatesFrom
<1>5. ASSUME NEW t \in Tx, tx'[t].cut PROVE ended'
  <2>1. tx[t].cut => ended'
    BY EndedStays DEF Fates
  <2>2. CASE SameFate(t) \/ Done(t) \/ Committed(t)
    BY <1>5, <2>1, <2>2 DEF SameFate, Done, Committed
  <2>3. CASE t = opened + 1 /\ \E d \in Instance : Opened(d)
    BY <1>5, <2>1, <2>3 DEF Opened
  <2>4. CASE NotCommitted(t) \/ RunOver(t)
    BY <1>5, <2>4, EndedStays DEF NotCommitted, RunOver
  <2>5. CASE CutOff(t)
    BY <2>5, EndedStays DEF CutOff
  <2>6. CASE \E e \in Result : RolledBack(t, e)
    BY <1>5, <2>1, <2>6 DEF RolledBack
  <2> QED
    BY <2>2, <2>3, <2>4, <2>5, <2>6, FatesFrom
<1> QED
  BY <1>1, <1>2, <1>3, <1>4, <1>5 DEF Fates

\* What the callers were told stays true.
LEMMA AnswersStep ==
  ASSUME Types, Types', Stack, Fates, AnswersTrue, Step
  PROVE  AnswersTrue'
<1>1. SUFFICES ASSUME NEW t \in 1 .. opened'
      PROVE  /\ tx'[t].answer = "nil" => tx'[t].state = "committed"
             /\ tx'[t].answer \in IsAfter /\ tx'[t].returned = "nil" => tx'[t].state = "committed"
             /\ tx'[t].answer = "ended" /\ tx'[t].returned = "nil" =>
                    tx'[t].state = "undone" /\ ended'
             /\ tx'[t].cut /\ tx'[t].returned \in {"nil", "ended"} \cup IsTxDone =>
                    tx'[t].answer \in {"none", "ended"}
  BY DEF AnswersTrue
<1>2. t \in Tx
  BY TransactionAssumption DEF Types, Tx
<1>3. t \in 1 .. opened =>
        /\ tx[t].answer = "nil" => tx[t].state = "committed"
        /\ tx[t].answer \in IsAfter /\ tx[t].returned = "nil" => tx[t].state = "committed"
        /\ tx[t].answer = "ended" /\ tx[t].returned = "nil" => tx[t].state = "undone" /\ ended
        /\ tx[t].cut /\ tx[t].returned \in {"nil", "ended"} \cup IsTxDone =>
               tx[t].answer \in {"none", "ended"}
  BY DEF AnswersTrue
<1>4. ASSUME tx'[t].answer = "none" PROVE /\ tx'[t].answer # "nil" /\ tx'[t].answer \notin IsAfter
                                          /\ tx'[t].answer # "ended"
                                          /\ tx'[t].answer \in {"none", "ended"}
  BY <1>4 DEF IsAfter
<1>5. t > opened => tx[t].answer = "none"
  BY <1>2 DEF Fates
<1>6. t \in 1 .. opened \/ t > opened
  BY DEF Types
<1>7. CASE SameFate(t)
  <2>1. CASE t \in 1 .. opened
    BY <1>3, <1>7, <2>1, EndedStays DEF SameFate
  <2>2. CASE t > opened
    BY <1>4, <1>5, <1>7, <2>2 DEF SameFate
  <2> QED
    BY <1>6, <2>1, <2>2
<1>8. CASE t = opened + 1 /\ \E d \in Instance : Opened(d)
  <2>1. tx'[t].answer = "none"
    BY <1>5, <1>8 DEF Opened, Types
  <2> QED
    BY <1>4, <2>1
<1>9. CASE Done(t) \/ Committed(t)
  <2>1. frame[depth].own # 0 /\ depth \in 1 .. depth
    BY <1>2, <1>9, Owner DEF Tx
  <2>2. tx[t].answer = "none"
    BY <1>2, <1>9, <2>1, Owner DEF Fates
  <2>3. tx'[t].answer = "none"
    BY <1>9, <2>2 DEF Done, Committed
  <2> QED
    BY <1>4, <2>3
<1>10. CASE NotCommitted(t)
  <2>1. CASE Closed(t, "err") /\ tx'[t].cut = FALSE
    BY <2>1 DEF Closed, IsAfter
  <2>2. CASE Closed(t, "ended") /\ tx'[t].state = "undone" /\ ended
    BY <2>2, EndedStays DEF Closed, IsAfter
  <2> QED
    BY <1>10, <2>1, <2>2 DEF NotCommitted
<1>11. CASE RunOver(t)
  <2>1. depth \in 1 .. depth /\ frame[depth].err \in {"nil", "panic"} \cup IsAfter
    BY <1>2, <1>11, Owner DEF RunOver, Fates
  <2>2. tx'[t].state = "committed" /\ tx'[t].cut = FALSE /\ tx'[t].answer # "ended"
    BY <1>11, <2>1 DEF RunOver, Closed, IsAfter
  <2> QED
    BY <2>2
<1>12. CASE CutOff(t)
  <2>1. tx[t].answer = "none"
    BY <1>2, <1>12 DEF CutOff, Fates
  <2>2. tx'[t].answer = "none"
    BY <1>12, <2>1 DEF CutOff
  <2> QED
    BY <1>4, <2>2
<1>13. ASSUME NEW e \in Result, RolledBack(t, e)
       PROVE  /\ tx'[t].answer # "nil" /\ tx'[t].returned # "nil"
              /\ tx'[t].cut /\ tx'[t].returned \in {"nil", "ended"} \cup IsTxDone =>
                     tx'[t].answer \in {"none", "ended"}
  <2>1. tx'[t].answer = Told(e) /\ tx'[t].returned = e /\ e # "nil" /\ tx'[t].cut = tx[t].cut
    BY <1>13 DEF RolledBack, Closed
  <2>2. tx[t].cut => ended
    BY <1>2 DEF Fates
  <2> QED
    BY <2>1, <2>2 DEF Told
<1> QED
  BY <1>2, <1>7, <1>8, <1>9, <1>10, <1>11, <1>12, <1>13, FatesFrom

-----------------------------------------------------------------------------
FateInv == StackInv /\ Fates /\ AnswersTrue

LEMMA FateInit == Init => FateInv
<1> SUFFICES ASSUME Init PROVE FateInv
  OBVIOUS
<1>1. \A t \in Tx : tx[t] = NoBoundary
  BY DEF Init
<1>2. \A t \in Tx : /\ tx[t].state = "unused" /\ tx[t].answer = "none" /\ ~ tx[t].cut
                    /\ tx[t].actions = <<>> /\ tx[t].said = <<>>
  BY <1>1 DEF NoBoundary
<1>3. depth = 1 /\ opened = 0 /\ 1 \in Level
  BY TransactionAssumption DEF Init, Level
<1>4. frame[1] = Body("body", 0, 0, Background)
  BY <1>3 DEF Init
<1>5. frame[1].own = 0 /\ frame[1].pc = "body"
  BY <1>4 DEF Body
<1>6. Fates
  BY <1>2, <1>3, <1>5 DEF Fates
<1>7. AnswersTrue
  BY <1>3 DEF AnswersTrue
<1> QED
  BY <1>6, <1>7, StackInit DEF FateInv

LEMMA FateInvStep == FateInv /\ [Next]_vars => FateInv'
<1> SUFFICES ASSUME FateInv, [Next]_vars PROVE FateInv'
  OBVIOUS
<1>1. StackInv'
  BY StackInvStep DEF FateInv
<1>2. CASE Next
  <2>1. Types /\ Types' /\ Stack /\ NoStaleContext /\ Step
    BY <1>1, <1>2, Steps DEF FateInv, StackInv
  <2> QED
    BY <1>1, <2>1, FatesStep, AnswersStep DEF FateInv
<1>3. CASE UNCHANGED vars
  <2>1. Fates'
    BY <1>3 DEF vars, FateInv, Fates
  <2>2. AnswersTrue'
    BY <1>3 DEF vars, FateInv, AnswersTrue
  <2> QED
    BY <1>1, <2>1, <2>2 DEF FateInv
<1> QED
  BY <1>2, <1>3

LEMMA FateInvariant == Spec => []FateInv
  BY FateInit, FateInvStep, PTL DEF Spec

\* What the caller of a transaction is told is what became of it, through lost
\* answers, rollbacks of database/sql and actions that fail after the commit
\* (withTransactionBoundary).
THEOREM AnswersAreTrue == Spec => []AnswersTrue
<1>1. FateInv => AnswersTrue
  BY DEF FateInv
<1> QED
  BY <1>1, FateInvariant, PTL

-----------------------------------------------------------------------------
(* What was registered and what ran. *)

\* What a step adds to what ran ...
LEMMA RanSame == ASSUME ran' = ran, NEW w PROVE Ran(w)' <=> Ran(w)
  BY DEF Ran

LEMMA RanMore ==
  ASSUME Types, NEW w \in Row, ran' = Append(ran, w), NEW v
  PROVE  Ran(v)' <=> Ran(v) \/ v = w
<1>1. /\ ran \in Seq(Row) /\ Len(ran) \in Nat /\ DOMAIN ran = 1 .. Len(ran)
      /\ Append(ran, w) \in Seq(Row) /\ DOMAIN Append(ran, w) = 1 .. Len(ran) + 1
      /\ \A i \in 1 .. Len(ran) : Append(ran, w)[i] = ran[i]
      /\ Append(ran, w)[Len(ran) + 1] = w
  BY DEF Types
<1>2. Ran(v)' <=> \E i \in DOMAIN Append(ran, w) : Append(ran, w)[i] = v
  BY DEF Ran
<1> QED
  BY <1>1, <1>2 DEF Ran

LEMMA RanFrom ==
  ASSUME Types, Step, NEW v \in Row
  PROVE  \/ Ran(v)' <=> Ran(v)
         \/ \E ctx \in Context : CalledAtOnce(v, ctx) \/ CalledInRun(v, ctx)
<1>1. CASE \E w \in Row, ctx \in Context : CalledAtOnce(w, ctx) \/ CalledInRun(w, ctx)
  <2>1. PICK w \in Row, ctx \in Context : CalledAtOnce(w, ctx) \/ CalledInRun(w, ctx)
    BY <1>1
  <2>2. ran' = Append(ran, w)
    BY <2>1 DEF CalledAtOnce, CalledInRun, Called
  <2>3. Ran(v)' <=> Ran(v) \/ v = w
    BY <2>2, RanMore
  <2> QED
    BY <2>1, <2>3
<1>2. CASE ran' = ran
  BY <1>2, RanSame
<1> QED
  BY <1>1, <1>2 DEF Step, Wrote, Got, Over, Ended, Registered, Opened,
     Done, NotCommitted, RunOver, Committed, CutOff, RolledBack, Closed, ActionOver

\* ... and to what was registered.
LEMMA SaidFrom ==
  ASSUME Types, Types', Step, NEW t \in Tx
  PROVE  \/ tx'[t].said = tx[t].said
         \/ \E w \in Row : /\ Registered(w, t)
                           /\ tx'[t].said = Append(tx[t].said, w)
  BY ListsFrom DEF SameLists, Committed, Registered

LEMMA SaidMore ==
  ASSUME Types, NEW w \in Row, NEW t \in Tx, tx'[t].said = Append(tx[t].said, w)
  PROVE  /\ Len(tx[t].said) \in Nat /\ DOMAIN tx[t].said = 1 .. Len(tx[t].said)
         /\ DOMAIN tx'[t].said = 1 .. Len(tx[t].said) + 1
         /\ \A i \in DOMAIN tx[t].said : i \in DOMAIN tx'[t].said /\ tx'[t].said[i] = tx[t].said[i]
         /\ tx'[t].said[Len(tx[t].said) + 1] = w
<1>1. tx[t].said \in Seq(Row)
  BY DEF Types, Boundary
<1>2. PICK s \in Seq(Row) : s = tx[t].said
  BY <1>1
<1>3. /\ Len(s) \in Nat /\ DOMAIN s = 1 .. Len(s)
      /\ DOMAIN Append(s, w) = 1 .. Len(s) + 1
      /\ \A i \in DOMAIN s : i \in DOMAIN Append(s, w) /\ Append(s, w)[i] = s[i]
      /\ Append(s, w)[Len(s) + 1] = w
  OBVIOUS
<1> QED
  BY <1>2, <1>3

LEMMA SaidBy ==
  ASSUME Types, Types', Step, NEW v \in Row
  PROVE  \/ Said(v)' <=> Said(v)
         \/ \E b \in Tx : Registered(v, b)
<1>1. CASE \E w \in Row, b \in Tx : Registered(w, b)
  <2>1. PICK w \in Row, b \in Tx : Registered(w, b)
    BY <1>1
  <2>2. tx'[b].said = Append(tx[b].said, w) /\ \A t \in Tx : t # b => tx'[t].said = tx[t].said
    BY <2>1 DEF Registered, OtherTxSame
  <2>3. ASSUME v # w PROVE Said(v)' <=> Said(v)
    <3>1. ASSUME NEW t \in Tx
          PROVE  (\E i \in DOMAIN tx'[t].said : tx'[t].said[i] = v) <=>
                 (\E i \in DOMAIN tx[t].said : tx[t].said[i] = v)
      <4>1. CASE t = b
        BY <2>2, <2>3, <4>1, SaidMore
      <4>2. CASE t # b
        BY <2>2, <4>2
      <4> QED
        BY <4>1, <4>2
    <3> QED
      BY <3>1 DEF Said
  <2> QED
    BY <2>1, <2>3
<1>2. CASE ~ \E w \in Row, b \in Tx : Registered(w, b)
  <2>1. \A t \in Tx : tx'[t].said = tx[t].said
    BY <1>2, SaidFrom
  <2> QED
    BY <2>1 DEF Said
<1> QED
  BY <1>1, <1>2

\* The row a body wrote is its own to register.
LEMMA WroteFrom ==
  ASSUME Types, Stack, Step, NEW l \in 1 .. depth'
  PROVE  \/ frame'[l].wrote = 0
         \/ Wrote /\ l = depth /\ frame'[l].wrote = written + 1
         \/ /\ l \in 1 .. depth /\ frame'[l].wrote = frame[l].wrote
            /\ l = depth => ~ Wrote
            /\ l = depth => \A w \in Row, b \in Tx : ~ Registered(w, b)
            /\ l = depth => \A w \in Row, ctx \in Context : ~ CalledAtOnce(w, ctx)
<1> USE TransactionAssumption DEF Level
<1>1. depth \in 0 .. MaxDepth
  BY DEF Types
<1>2. CASE Wrote
  BY <1>1, <1>2 DEF Wrote, OthersSame, OnBody
<1>3. CASE \E w \in Row, b \in Tx : Registered(w, b)
  <2>1. depth \in Level /\ depth' = depth /\ frame'[depth].wrote = 0 /\ OthersSame(depth)
    BY <1>3 DEF Registered, OnBody
  <2> QED
    BY <1>1, <2>1 DEF OthersSame
<1>4. ASSUME \E w \in Row, ctx \in Context : CalledAtOnce(w, ctx) \/ CalledInRun(w, ctx)
      PROVE  \/ frame'[l].wrote = 0
             \/ l \in 1 .. depth /\ l # depth /\ frame'[l].wrote = frame[l].wrote
  <2>1. /\ depth \in Level /\ depth' = depth + 1 /\ depth + 1 \in Level
        /\ frame'[depth].wrote = 0 /\ frame'[depth + 1].wrote = 0
        /\ \A k \in Level : k # depth /\ k # depth + 1 => frame'[k] = frame[k]
    BY <1>4 DEF CalledAtOnce, CalledInRun, Called, IsBody
  <2> QED
    BY <1>1, <2>1
<1> DEFINE Quiet == /\ ~ Wrote
                    /\ \A w \in Row, b \in Tx : ~ Registered(w, b)
                    /\ \A w \in Row, ctx \in Context : ~ CalledAtOnce(w, ctx)
<1>5. ASSUME Quiet
      PROVE  \/ frame'[l].wrote = 0
             \/ l \in 1 .. depth /\ frame'[l].wrote = frame[l].wrote
  <2>1. CASE Got
    BY <1>1, <2>1 DEF Got, OthersSame, OnBody
  <2>2. CASE Over
    BY <1>1, <2>2 DEF Over
  <2>3. CASE Ended \/ \E t \in Tx : CutOff(t)
    BY <1>1, <2>3 DEF Ended, CutOff
  <2>4. CASE \E d \in Instance : Opened(d)
    BY <1>1, <2>4 DEF Opened, OthersSame, OnBody, IsBody
  <2>5. CASE \E t \in Tx : Done(t) \/ Committed(t)
    BY <1>1, <2>5 DEF Done, Committed, OthersSame, OnBody
  <2>6. ASSUME NEW t \in Tx, NEW e, Closed(t, e)
        PROVE  l \in 1 .. depth /\ frame'[l].wrote = frame[l].wrote
    BY <1>1, <2>6 DEF Closed
  <2>7. CASE \E t \in Tx : NotCommitted(t) \/ RunOver(t)
    BY <2>6, <2>7 DEF NotCommitted, RunOver
  <2>8. CASE \E t \in Tx, e \in Result : RolledBack(t, e)
    BY <2>6, <2>8 DEF RolledBack
  <2>9. CASE \E e \in Result : ActionOver(e)
    BY <1>1, <2>9 DEF ActionOver, OnBody
  <2>10. CASE \E w \in Row, ctx \in Context : CalledInRun(w, ctx)
    BY <1>4, <2>10
  <2> QED
    BY <1>5, <2>1, <2>2, <2>3, <2>4, <2>5, <2>7, <2>8, <2>9, <2>10 DEF Step
<1> HIDE DEF Quiet
<1>6. Quiet \/ ~ Quiet
  OBVIOUS
<1>7. ~ Quiet => \/ Wrote \/ \E w \in Row, b \in Tx : Registered(w, b)
                 \/ \E w \in Row, ctx \in Context : CalledAtOnce(w, ctx)
  BY DEF Quiet
<1>8. CASE Quiet
  BY <1>5, <1>8 DEF Quiet
<1> QED
  BY <1>2, <1>3, <1>4, <1>7, <1>8

\* The next action of a run is the first one left, and has not run.
LEMMA NextOfRun ==
  ASSUME Types, Stack, Lists, NEW w \in Row, NEW ctx \in Context, CalledInRun(w, ctx)
  PROVE  \E t \in Tx, n \in Nat :
            /\ depth \in 1 .. depth /\ t = frame[depth].own
            /\ Progress(depth, tx[t].said, n)
            /\ n + 1 \in DOMAIN tx[t].said /\ tx[t].said[n + 1] = w
            /\ ~ Ran(w) /\ frame[depth].err = "nil"
<1>1. /\ depth \in Level /\ frame[depth].pc = "run" /\ frame[depth].todo # <<>>
      /\ w = Head(frame[depth].todo)
  BY DEF CalledInRun
<1>2. depth \in 1 .. depth /\ depth > 0
  BY <1>1, TransactionAssumption DEF Level
<1>3. PICK t \in Tx : t = frame[depth].own
  BY <1>1, <1>2, Places
<1>4. PICK n \in Nat : Progress(depth, tx[t].said, n)
  BY <1>1, <1>2, <1>3 DEF Lists, Tx
<1>5. PICK todo \in Seq(Row) : todo = frame[depth].todo
  BY <1>1 DEF Types, Frame
<1>6. PICK said \in Seq(Row) : said = tx[t].said
  BY DEF Types, Boundary
<1>7. todo # <<>> /\ Len(todo) \in Nat /\ Len(todo) > 0 /\ 1 \in 1 .. Len(todo) /\ w = todo[1]
  BY <1>1, <1>5
<1>8. Len(said) = n + Len(todo) /\ todo[1] = said[n + 1] /\ ~ Ran(said[n + 1])
  BY <1>4, <1>5, <1>6, <1>7 DEF Progress
<1>9. n + 1 \in DOMAIN said
  BY <1>7, <1>8
<1>10. frame[depth].err = "nil"
  BY <1>1, <1>4 DEF Progress
<1> QED
  BY <1>2, <1>3, <1>4, <1>6, <1>7, <1>8, <1>9, <1>10

\* It was registered, so it is in no hand.
LEMMA NextSaid ==
  ASSUME Types, Stack, Lists, NEW w \in Row, NEW ctx \in Context, CalledInRun(w, ctx)
  PROVE  Said(w) /\ ~ Ran(w)
  BY NextOfRun DEF Said

\* The row of a body on top is AfterCommit's.
LEMMA Taken ==
  ASSUME Types, Stack, Entries, NEW w \in Row,
         \/ \E ctx \in Context : CalledAtOnce(w, ctx)
         \/ \E b \in Tx : Registered(w, b)
  PROVE  /\ depth \in 1 .. depth /\ w = frame[depth].wrote /\ w # 0
         /\ w <= written /\ ~ Ran(w) /\ ~ Said(w)
         /\ \A l \in 1 .. depth : frame[l].wrote = w => l = depth
<1>1. depth \in Level /\ w = frame[depth].wrote
  BY DEF CalledAtOnce, Registered, OnBody
<1>2. depth \in 1 .. depth /\ w # 0
  BY <1>1, TransactionAssumption DEF Level, Row
<1> QED
  BY <1>1, <1>2 DEF Entries

\* Rows only get more.
LEMMA WrittenGrows ==
  ASSUME Types, Step
  PROVE  /\ written \in Nat /\ written' \in Nat /\ written' >= written
         /\ Wrote \/ written' = written
<1>1. Wrote \/ written' = written
  BY DEF Step, Wrote, Got, Over, Ended, CalledAtOnce, CalledInRun, Called, Registered, Opened,
     Done, NotCommitted, RunOver, Committed, CutOff, RolledBack, Closed, ActionOver
<1> QED
  BY <1>1 DEF Types, Wrote

\* A row has one action.
LEMMA EntriesStep ==
  ASSUME Types, Types', Stack, Entries, Lists, Step
  PROVE  Entries'
<1>1. \A l \in 1 .. depth' : l \in Level /\ frame'[l].wrote \in Row \cup {0}
  <2>1. \A l \in 1 .. depth' : l \in Level
    BY TransactionAssumption DEF Types, Level
  <2> QED
    BY <2>1 DEF Types, Frame
<1>2. ASSUME NEW l \in 1 .. depth', frame'[l].wrote # 0
      PROVE  /\ frame'[l].wrote <= written'
             /\ ~ Ran(frame[l].wrote)' /\ ~ Said(frame[l].wrote)'
  <2>1. PICK v \in Row : v = frame'[l].wrote
    BY <1>1, <1>2
  <2>2. v <= written' /\ ~ Ran(v)' /\ ~ Said(v)'
    <3>1. CASE Wrote /\ v = written + 1
      <4>1. ran' = ran /\ tx' = tx /\ written' = written + 1 /\ ~ (v <= written)
        BY <3>1, WrittenGrows DEF Wrote
      <4>2. (Ran(v)' <=> Ran(v)) /\ (Said(v)' <=> Said(v))
        BY <4>1 DEF Ran, Said
      <4>3. ~ Ran(v) /\ ~ Said(v)
        BY <4>1 DEF Entries
      <4> QED
        BY <3>1, <4>1, <4>2, <4>3, WrittenGrows
    <3>2. ASSUME l \in 1 .. depth, v = frame[l].wrote,
                 l = depth => \A w \in Row, b \in Tx : ~ Registered(w, b),
                 l = depth => \A w \in Row, ctx \in Context : ~ CalledAtOnce(w, ctx)
          PROVE  v <= written' /\ ~ Ran(v)' /\ ~ Said(v)'
      <4>1. v <= written /\ ~ Ran(v) /\ ~ Said(v)
        BY <1>2, <2>1, <3>2 DEF Entries
      <4>2. ~ Ran(v)'
        BY <3>2, <4>1, RanFrom, NextSaid, Taken
      <4>3. ~ Said(v)'
        BY <3>2, <4>1, SaidBy, Taken
      <4>4. v <= written'
        BY <4>1, WrittenGrows DEF Row
      <4> QED
        BY <4>2, <4>3, <4>4
    <3> QED
      BY <1>2, <2>1, <3>1, <3>2, WroteFrom
  <2> QED
    BY <2>1, <2>2
<1>3. ASSUME NEW k \in 1 .. depth', NEW l \in 1 .. depth',
             frame'[k].wrote = frame'[l].wrote, frame'[l].wrote # 0
      PROVE  k = l
  <2>1. ASSUME NEW m \in 1 .. depth', frame'[m].wrote # 0
        PROVE  \/ Wrote /\ m = depth /\ frame'[m].wrote = written + 1
               \/ /\ m \in 1 .. depth /\ frame'[m].wrote = frame[m].wrote
                  /\ frame'[m].wrote <= written
    BY <2>1, WroteFrom DEF Entries
  <2>2. written \in Nat
    BY WrittenGrows
  <2> QED
    BY <1>3, <2>1, <2>2 DEF Entries
<1>4. ASSUME NEW t \in Tx, NEW u \in Tx,
             NEW i \in DOMAIN tx'[t].said, NEW j \in DOMAIN tx'[u].said,
             tx'[t].said[i] = tx'[u].said[j]
      PROVE  t = u /\ i = j
  <2>1. CASE tx'[t].said = tx[t].said /\ tx'[u].said = tx[u].said
    BY <1>4, <2>1 DEF Entries
  <2>2. ASSUME NEW b \in Tx, NEW w \in Row, Registered(w, b)
        PROVE  t = u /\ i = j
    <3>1. ~ Said(w)
      BY <2>2, Taken
    <3>2. /\ Len(tx[b].said) \in Nat /\ DOMAIN tx[b].said = 1 .. Len(tx[b].said)
          /\ DOMAIN tx'[b].said = 1 .. Len(tx[b].said) + 1
          /\ \A m \in DOMAIN tx[b].said : tx'[b].said[m] = tx[b].said[m]
          /\ tx'[b].said[Len(tx[b].said) + 1] = w
      BY <2>2, SaidMore DEF Registered
    <3>3. ASSUME NEW x \in Tx, NEW m \in DOMAIN tx'[x].said
          PROVE  \/ x = b /\ m = Len(tx[b].said) + 1 /\ tx'[x].said[m] = w
                 \/ m \in DOMAIN tx[x].said /\ tx'[x].said[m] = tx[x].said[m]
      <4>1. CASE x = b
        BY <3>2, <3>3, <4>1
      <4>2. CASE x # b
        BY <2>2, <4>2 DEF Registered, OtherTxSame
      <4> QED
        BY <4>1, <4>2
    <3>4. \A x \in Tx : \A m \in DOMAIN tx[x].said : tx[x].said[m] # w
      BY <3>1 DEF Said
    <3>5. CASE t = b /\ i = Len(tx[b].said) + 1 /\ tx'[t].said[i] = w
      BY <1>4, <3>3, <3>4, <3>5
    <3>6. CASE i \in DOMAIN tx[t].said /\ tx'[t].said[i] = tx[t].said[i]
      <4>1. tx[t].said[i] # w
        BY <3>4, <3>6
      <4>2. j \in DOMAIN tx[u].said /\ tx'[u].said[j] = tx[u].said[j]
        BY <1>4, <3>3, <3>6, <4>1
      <4>3. tx[t].said[i] = tx[u].said[j]
        BY <1>4, <3>6, <4>2
      <4> QED
        BY <3>6, <4>2, <4>3 DEF Entries
    <3> QED
      BY <3>3, <3>5, <3>6
  <2> QED
    BY <2>1, <2>2, SaidFrom
<1>5. ASSUME NEW w \in Row, Ran(w)' \/ Said(w)' PROVE w <= written'
  <2>1. w <= written
    <3>1. CASE Ran(w) \/ Said(w)
      BY <3>1 DEF Entries
    <3>2. CASE \E ctx \in Context : CalledInRun(w, ctx)
      BY <3>1, <3>2, NextSaid
    <3>3. CASE \/ \E ctx \in Context : CalledAtOnce(w, ctx)
               \/ \E b \in Tx : Registered(w, b)
      BY <3>3, Taken
    <3> QED
      BY <1>5, <3>1, <3>2, <3>3, RanFrom, SaidBy
  <2> QED
    BY <2>1, WrittenGrows DEF Row
<1>6. ASSUME NEW i \in DOMAIN ran', NEW j \in DOMAIN ran', ran'[i] = ran'[j]
      PROVE  i = j
  <2>1. CASE ran' = ran
    BY <1>6, <2>1 DEF Entries
  <2>2. ASSUME NEW w \in Row, NEW ctx \in Context, CalledAtOnce(w, ctx) \/ CalledInRun(w, ctx)
        PROVE  i = j
    <3>1. ~ Ran(w)
      BY <2>2, NextSaid, Taken
    <3>2. ran \in Seq(Row) /\ ran' = Append(ran, w)
      BY <2>2 DEF CalledAtOnce, CalledInRun, Called, Types
    <3>3. /\ Len(ran) \in Nat /\ DOMAIN ran = 1 .. Len(ran)
          /\ DOMAIN ran' = 1 .. Len(ran) + 1
          /\ \A m \in 1 .. Len(ran) : ran'[m] = ran[m]
          /\ ran'[Len(ran) + 1] = w
      BY <3>2
    <3>4. \A m \in 1 .. Len(ran) : ran[m] # w
      BY <3>1, <3>3 DEF Ran
    <3>5. \A k, l \in 1 .. Len(ran) : ran[k] = ran[l] => k = l
      BY <3>3 DEF Entries
    <3> QED
      BY <1>6, <3>3, <3>4, <3>5
  <2> QED
    BY <2>1, <2>2 DEF Step, Wrote, Got, Over, Ended, Registered, Opened,
       Done, NotCommitted, RunOver, Committed, CutOff, RolledBack, Closed, ActionOver
<1> QED
  BY <1>2, <1>3, <1>4, <1>5, <1>6 DEF Entries

\* What ran has run.
LEMMA RanStays == ASSUME Types, Step, NEW v \in Row, Ran(v) PROVE Ran(v)'
<1>1. ASSUME NEW ctx \in Context, CalledAtOnce(v, ctx) \/ CalledInRun(v, ctx) PROVE Ran(v)'
  <2>1. ran' = Append(ran, v)
    BY <1>1 DEF CalledAtOnce, CalledInRun, Called
  <2> QED
    BY <2>1, RanMore
<1> QED
  BY <1>1, RanFrom

\* An action on the stack was there, or is called.
LEMMA ActsFrom ==
  ASSUME Types, Types', Stack, Step, NEW l \in 2 .. depth', frame'[l].own = 0
  PROVE  \/ l \in 2 .. depth /\ SameBody(l) /\ frame'[l - 1].pc = frame[l - 1].pc
         \/ /\ l = depth + 1
            /\ \E w \in Row, ctx \in Context :
                /\ frame'[l].act = w /\ frame'[l - 1].pc = frame[l - 1].pc
                /\ \/ CalledAtOnce(w, ctx)
                   \/ CalledInRun(w, ctx)
<1> USE TransactionAssumption DEF Level
<1>1. depth \in 0 .. MaxDepth /\ depth' \in 0 .. MaxDepth /\ l \in Level /\ l - 1 \in Level
  BY DEF Types
<1>2. CASE Still
  BY <1>1, <1>2 DEF Still, SameBody
<1>3. CASE Turned
  BY <1>1, <1>3 DEF Turned, SameBody
<1>4. CASE Popped
  BY <1>1, <1>4 DEF Popped, SameBody
<1>5. ASSUME NEW t, NEW w, NEW ctx, Pushed(t, w, ctx)
      PROVE  \/ l \in 2 .. depth /\ SameBody(l) /\ frame'[l - 1].pc = frame[l - 1].pc
             \/ l = depth + 1 /\ frame'[l].own = t /\ depth' = depth + 1
  BY <1>1, <1>5 DEF Pushed, SameBody
<1>6. CASE \E d \in Instance : /\ Pushed(opened + 1, 0, WithTx(frame[depth].ctx, d, opened + 1))
                               /\ opened + 1 \in Tx
  <2>1. l \in 2 .. depth /\ SameBody(l) /\ frame'[l - 1].pc = frame[l - 1].pc
    BY <1>5, <1>6 DEF Tx
  <2> QED
    BY <2>1
<1>7. CASE \E w \in Row, ctx \in Context : Pushed(0, w, ctx) /\ opened' = opened
  <2>1. CASE l # depth + 1
    BY <1>5, <1>7, <2>1
  <2>2. CASE l = depth + 1
    <3>1. depth' = depth + 1 /\ opened' = opened /\ depth' # depth /\ depth' # depth - 1 /\ depth' # 0
      BY <1>1, <1>7, <2>2 DEF Pushed
    <3>2. \E w \in Row, ctx \in Context : CalledAtOnce(w, ctx) \/ CalledInRun(w, ctx)
      <4>1. ~ (\E d \in Instance : Opened(d))
        BY <3>1 DEF Opened, Types
      <4> QED
        BY <3>1, <4>1 DEF Step, Wrote, Got, Over, Ended, Registered,
           Done, NotCommitted, RunOver, Committed, CutOff, RolledBack, Closed, ActionOver
    <3>3. ASSUME NEW w \in Row, NEW ctx \in Context, CalledAtOnce(w, ctx) \/ CalledInRun(w, ctx)
          PROVE  frame'[l].act = w /\ frame'[l - 1].pc = frame[l - 1].pc
      <4>1. Called(w, ctx)
        BY <3>3 DEF CalledAtOnce, CalledInRun
      <4>2. l - 1 = depth
        BY <1>1, <2>2
      <4> QED
        BY <2>2, <4>1, <4>2 DEF Called, IsBody, SameBody
    <3> QED
      BY <2>2, <3>2, <3>3
  <2> QED
    BY <2>1, <2>2
<1> QED
  BY <1>2, <1>3, <1>4, <1>6, <1>7, Shapes

\* An action that returns is the one on top.
LEMMA FailedFrom ==
  ASSUME Types, Stack, Step
  PROVE  \/ failed' = failed
         \/ \E e \in Result : /\ ActionOver(e) /\ failed' = failed \cup {frame[depth].act}
                              /\ depth \in 2 .. depth /\ frame[depth].own = 0
                              /\ depth' = depth - 1 /\ frame[depth].act \in Row /\ e # "nil"
<1>1. ASSUME NEW e \in Result, ActionOver(e)
      PROVE  \/ failed' = failed
             \/ /\ ActionOver(e) /\ failed' = failed \cup {frame[depth].act}
                /\ depth \in 2 .. depth /\ frame[depth].own = 0
                /\ depth' = depth - 1 /\ frame[depth].act \in Row /\ e # "nil"
  <2>1. depth \in 2 .. depth
    BY <1>1, TransactionAssumption DEF ActionOver, OnBody, Level
  <2> QED
    BY <1>1, <2>1 DEF ActionOver
<1> QED
  BY <1>1 DEF Step, Wrote, Got, Over, Ended, CalledAtOnce, CalledInRun, Called, Registered, Opened,
     Done, NotCommitted, RunOver, Committed, CutOff, RolledBack, Closed

LEMMA ActsStep ==
  ASSUME Types, Types', Stack, Entries, Acts, Lists, Step
  PROVE  Acts'
<1>1. \A l \in 2 .. depth : l \in Level /\ l \in 1 .. depth /\ l > 1
  BY TransactionAssumption DEF Types, Level
<1>2. \A l \in 2 .. depth : frame[l].own = 0 => frame[l].act \in Row
  BY <1>1 DEF Types, Frame, Stack
<1>3. ASSUME NEW w \in failed' PROVE Ran(w)'
  <2>1. w \in Row
    BY DEF Types
  <2>2. Ran(w)
    BY FailedFrom DEF Acts
  <2> QED
    BY <2>1, <2>2, RanStays
<1>5. ASSUME NEW w \in Row, NEW l \in 2 .. depth, frame[l].own = 0, w = frame[l].act,
             l \in 2 .. depth'
      PROVE  /\ Ran(w)' /\ w \notin failed'
             /\ frame[l - 1].pc = "body" => ~ Said(w)'
  <2>1. Ran(w) /\ w \notin failed /\ (frame[l - 1].pc = "body" => ~ Said(w))
    BY <1>5 DEF Acts
  <2>2. Ran(w)'
    BY <2>1, RanStays
  <2>3. w \notin failed'
    <3>1. CASE failed' = failed
      BY <2>1, <3>1
    <3>2. CASE \E e \in Result : /\ ActionOver(e) /\ failed' = failed \cup {frame[depth].act}
                                 /\ depth \in 2 .. depth /\ frame[depth].own = 0
                                 /\ depth' = depth - 1
      <4>1. l # depth
        BY <1>5, <3>2 DEF Types
      <4>2. frame[l].act # frame[depth].act
        BY <1>5, <3>2, <4>1 DEF Acts
      <4> QED
        BY <1>5, <2>1, <3>2, <4>2
    <3> QED
      BY <3>1, <3>2, FailedFrom
  <2>4. ASSUME frame[l - 1].pc = "body" PROVE ~ Said(w)'
    BY <2>1, <2>4, SaidBy, Taken
  <2> QED
    BY <2>2, <2>3, <2>4
<1>6. ASSUME NEW w \in Row, NEW ctx \in Context, CalledAtOnce(w, ctx) \/ CalledInRun(w, ctx)
      PROVE  /\ ~ Ran(w) /\ Ran(w)' /\ w \notin failed'
             /\ frame[depth].pc = "body" => ~ Said(w)'
  <2>1. ~ Ran(w)
    BY <1>6, NextSaid, Taken
  <2>2. ran' = Append(ran, w) /\ failed' = failed /\ tx' = tx
    BY <1>6 DEF CalledAtOnce, CalledInRun, Called
  <2>3. Ran(w)'
    BY <2>2, RanMore
  <2>4. w \notin failed'
    BY <2>1, <2>2 DEF Acts
  <2>5. ASSUME frame[depth].pc = "body" PROVE ~ Said(w)'
    <3>1. CalledAtOnce(w, ctx)
      BY <1>6, <2>5 DEF CalledInRun
    <3>2. ~ Said(w)
      BY <3>1, Taken
    <3> QED
      BY <2>2, <3>2 DEF Said
  <2> QED
    BY <2>1, <2>3, <2>4, <2>5
<1>7. ASSUME NEW l \in 2 .. depth', frame'[l].own = 0
      PROVE  \E w \in Row :
                /\ frame'[l].act = w
                /\ Ran(w)' /\ w \notin failed'
                /\ frame'[l - 1].pc = "body" => ~ Said(w)'
                /\ \/ l \in 2 .. depth /\ frame[l].own = 0 /\ frame[l].act = w /\ Ran(w)
                   \/ l = depth + 1 /\ ~ Ran(w)
  <2>1. CASE l \in 2 .. depth /\ SameBody(l) /\ frame'[l - 1].pc = frame[l - 1].pc
    <3>1. frame[l].own = 0 /\ frame'[l].act = frame[l].act
      BY <1>7, <2>1 DEF SameBody
    <3>2. PICK w \in Row : w = frame[l].act
      BY <1>2, <2>1, <3>1
    <3>3. Ran(w)
      BY <2>1, <3>1, <3>2 DEF Acts
    <3>4. /\ Ran(w)' /\ w \notin failed'
          /\ frame[l - 1].pc = "body" => ~ Said(w)'
      BY <1>5, <1>7, <2>1, <3>1, <3>2
    <3> QED
      BY <2>1, <3>1, <3>2, <3>3, <3>4
  <2>2. CASE /\ l = depth + 1
             /\ \E w \in Row, ctx \in Context :
                 /\ frame'[l].act = w /\ frame'[l - 1].pc = frame[l - 1].pc
                 /\ CalledAtOnce(w, ctx) \/ CalledInRun(w, ctx)
    <3>1. l - 1 = depth
      BY <2>2 DEF Types
    <3> QED
      BY <1>6, <2>2, <3>1
  <2> QED
    BY <1>7, <2>1, <2>2, ActsFrom
<1>8. ASSUME NEW k \in 2 .. depth', NEW l \in 2 .. depth',
             frame'[k].own = 0, frame'[l].own = 0, frame'[k].act = frame'[l].act
      PROVE  k = l
  <2> DEFINE new == \E w \in Row : w = frame'[k].act /\ ~ Ran(w)
  <2>1. (k = depth + 1 <=> new) /\ (l = depth + 1 <=> new)
    <3>1. \A m \in 2 .. depth : m # depth + 1
      BY DEF Types
    <3>2. k = depth + 1 <=> new
      BY <1>7, <1>8, <3>1
    <3>3. l = depth + 1 <=> new
      BY <1>7, <1>8, <3>1
    <3> QED
      BY <3>2, <3>3
  <2>2. CASE k = depth + 1 \/ l = depth + 1
    BY <2>1, <2>2
  <2>3. CASE k # depth + 1 /\ l # depth + 1
    <3>1. /\ k \in 2 .. depth /\ frame[k].own = 0 /\ frame[k].act = frame'[k].act
          /\ l \in 2 .. depth /\ frame[l].own = 0 /\ frame[l].act = frame'[l].act
      BY <1>7, <1>8, <2>3
    <3> QED
      BY <1>8, <3>1 DEF Acts
  <2> QED
    BY <2>2, <2>3
<1>9. ASSUME NEW l \in 2 .. depth', frame'[l].own = 0
      PROVE  /\ Ran(frame[l].act)' /\ frame'[l].act \notin failed'
             /\ frame'[l - 1].pc = "body" => ~ Said(frame[l].act)'
  BY <1>7, <1>9
<1> QED
  BY <1>3, <1>8, <1>9 DEF Acts

\* A run is left alone, calls its next action or gets one back.
LEMMA RunFrom ==
  ASSUME Types, Types', Stack, Step, NEW l \in 1 .. depth, l \in 1 .. depth', frame[l].pc = "run"
  PROVE  \/ /\ frame'[l].todo = frame[l].todo /\ frame'[l].err = frame[l].err
            /\ l = depth <=> l = depth'
            /\ l < depth => frame'[l + 1].act = frame[l + 1].act
         \/ l = depth /\ \E w \in Row, ctx \in Context : CalledInRun(w, ctx)
         \/ l = depth - 1 /\ \E e \in Result : ActionOver(e)
<1> USE TransactionAssumption DEF Level
<1>1. /\ depth \in 0 .. MaxDepth /\ l \in Level /\ depth \in 1 .. depth
      /\ l < depth => l + 1 \in Level /\ l + 1 <= depth
  BY DEF Types
<1> DEFINE Alone == /\ frame'[l].todo = frame[l].todo /\ frame'[l].err = frame[l].err
                    /\ l = depth <=> l = depth'
                    /\ l < depth => frame'[l + 1].act = frame[l + 1].act
<1>2. ASSUME OthersSame(depth), frame[depth].pc # "run", depth' = depth,
             frame'[depth].act = frame[depth].act
      PROVE  Alone
  <2>1. l # depth /\ frame'[l] = frame[l]
    BY <1>1, <1>2 DEF OthersSame
  <2>2. l < depth => frame'[l + 1].act = frame[l + 1].act
    BY <1>1, <1>2 DEF OthersSame
  <2> QED
    BY <1>2, <2>1, <2>2
<1>3. ASSUME Wrote \/ Got \/ \E w \in Row, b \in Tx : Registered(w, b) PROVE Alone
  <2>1. OthersSame(depth) /\ frame[depth].pc = "body" /\ depth' = depth /\ SameBody(depth)
    BY <1>3 DEF Wrote, Got, Registered, OnBody
  <2> QED
    BY <1>2, <2>1 DEF SameBody
<1>4. ASSUME Ended \/ \E t \in Tx : CutOff(t) PROVE Alone
  BY <1>4 DEF Ended, CutOff
<1>5. ASSUME Over PROVE Alone
  BY <1>1, <1>5 DEF Over
<1>6. ASSUME NEW w \in Row, NEW ctx \in Context, CalledAtOnce(w, ctx)
      PROVE  Alone
  <2>1. frame[depth].pc = "body" /\ depth' = depth + 1
    BY <1>6 DEF CalledAtOnce, Called, OnBody
  <2>2. l # depth /\ l < depth
    BY <1>1, <2>1
  <2>3. frame'[l] = frame[l]
    BY <1>1, <1>6, <2>2 DEF CalledAtOnce, Called
  <2>4. frame'[l + 1].act = frame[l + 1].act
    BY <1>1, <1>6, <2>2 DEF CalledAtOnce, Called, SameBody
  <2> QED
    BY <1>1, <2>1, <2>2, <2>3, <2>4
<1>7. ASSUME NEW w \in Row, NEW ctx \in Context, CalledInRun(w, ctx), l # depth
      PROVE  Alone
  <2>1. depth' = depth + 1 /\ l < depth
    BY <1>1, <1>7 DEF CalledInRun, Called
  <2>2. frame'[l] = frame[l]
    BY <1>1, <1>7, <2>1 DEF CalledInRun, Called
  <2>3. frame'[l + 1].act = frame[l + 1].act
    BY <1>1, <1>7, <2>1 DEF CalledInRun, Called, SameBody
  <2> QED
    BY <1>1, <2>1, <2>2, <2>3
<1>8. ASSUME \E d \in Instance : Opened(d) PROVE Alone
  <2>1. frame[depth].pc = "body" /\ depth' = depth + 1 /\ OthersSame(depth + 1)
    BY <1>8 DEF Opened, OnBody
  <2>2. l # depth /\ l < depth
    BY <1>1, <2>1
  <2>3. frame'[l] = frame[l] /\ frame'[l + 1].act = frame[l + 1].act
    BY <1>1, <2>1, <2>2 DEF OthersSame
  <2> QED
    BY <1>1, <2>1, <2>2, <2>3
<1>9. ASSUME \E t \in Tx : Done(t) \/ Committed(t) PROVE Alone
  <2>1. /\ OthersSame(depth) /\ frame[depth].pc # "run" /\ depth' = depth
        /\ frame'[depth].act = frame[depth].act
    BY <1>9 DEF Done, Committed, OnBody
  <2> QED
    BY <1>2, <2>1
<1>10. ASSUME NEW t \in Tx, NEW e, Closed(t, e) PROVE Alone
  <2>1. frame[depth].own # 0 /\ depth' = depth - 1 /\ depth - 1 \in Level
    BY <1>10 DEF Closed, Tx
  <2>2. frame[depth - 1].pc = "body"
    BY <1>1, <2>1 DEF Stack
  <2>3. l # depth /\ l # depth - 1 /\ l < depth - 1
    BY <1>1, <2>1, <2>2
  <2>4. frame'[l] = frame[l]
    BY <1>1, <1>10, <2>3 DEF Closed
  <2>5. frame'[l + 1].act = frame[l + 1].act
    BY <1>1, <1>10, <2>3 DEF Closed, SameBody
  <2> QED
    BY <1>1, <2>1, <2>3, <2>4, <2>5
<1>11. ASSUME \E t \in Tx : NotCommitted(t) \/ RunOver(t) PROVE Alone
  BY <1>10, <1>11 DEF NotCommitted, RunOver
<1>12. ASSUME \E t \in Tx, e \in Result : RolledBack(t, e) PROVE Alone
  BY <1>10, <1>12 DEF RolledBack
<1>13. ASSUME NEW e \in Result, ActionOver(e), l # depth - 1 PROVE Alone
  <2>1. depth' = depth - 1 /\ l < depth - 1
    BY <1>1, <1>13 DEF ActionOver
  <2>2. frame'[l] = frame[l]
    BY <1>1, <1>13, <2>1 DEF ActionOver
  <2>3. frame'[l + 1].act = frame[l + 1].act
    BY <1>1, <1>13, <2>1 DEF ActionOver, SameBody
  <2> QED
    BY <1>1, <2>1, <2>2, <2>3
<1>14. SUFFICES
         \/ Alone
         \/ l = depth /\ \E w \in Row, ctx \in Context : CalledInRun(w, ctx)
         \/ l = depth - 1 /\ \E e \in Result : ActionOver(e)
  OBVIOUS
<1> HIDE DEF Alone
<1> QED
  BY <1>3, <1>4, <1>5, <1>6, <1>7, <1>8, <1>9, <1>11, <1>12, <1>13 DEF Step

\* Where the action on top comes from.
LEMMA ActOf ==
  ASSUME Types, Stack, Acts, Lists, depth \in 2 .. depth, frame[depth].own = 0
  PROVE  \/ ~ Said(frame[depth].act)
         \/ \E u \in Tx, n \in Nat :
                /\ depth - 1 \in 1 .. depth
                /\ u = frame[depth - 1].own /\ frame[depth - 1].pc = "run"
                /\ Progress(depth - 1, tx[u].said, n)
                /\ n \in DOMAIN tx[u].said /\ tx[u].said[n] = frame[depth].act
<1>1. depth - 1 \in 1 .. depth /\ depth - 1 \in Level /\ depth - 1 < depth /\ (depth - 1) + 1 = depth
  BY TransactionAssumption DEF Types, Level
<1>2. CASE frame[depth - 1].pc = "body"
  BY <1>2 DEF Acts
<1>3. CASE frame[depth - 1].pc # "body"
  <2>1. frame[depth - 1].pc = "run" /\ frame[depth - 1].own # 0
    <3>1. frame[depth - 1].pc \in {"off", "body", "commit", "run"}
      BY <1>1 DEF Types, Frame
    <3> QED
      BY <1>1, <1>3, <3>1 DEF Stack
  <2>2. PICK u \in Tx : u = frame[depth - 1].own
    BY <1>1, <2>1 DEF Types, Frame
  <2>3. PICK n \in Nat : Progress(depth - 1, tx[u].said, n)
    BY <1>1, <2>1, <2>2 DEF Lists
  <2>4. PICK said \in Seq(Row) : said = tx[u].said
    BY DEF Types, Boundary
  <2>5. PICK todo \in Seq(Row) : todo = frame[depth - 1].todo
    BY <1>1 DEF Types, Frame
  <2>6. n > 0 /\ Len(said) = n + Len(todo) /\ frame[depth].act = said[n]
    BY <1>1, <2>3, <2>4, <2>5 DEF Progress
  <2>7. n \in DOMAIN said
    BY <2>6
  <2> QED
    BY <1>1, <2>1, <2>2, <2>3, <2>4, <2>6, <2>7
<1> QED
  BY <1>2, <1>3

\* Only its own run runs what was registered with a transaction.
LEMMA RanOfSaid ==
  ASSUME Types, Types', Stack, Entries, Lists, Step,
         NEW t \in Tx, NEW i \in DOMAIN tx[t].said, NEW v \in Row, v = tx[t].said[i],
         ~ Ran(v), Ran(v)'
  PROVE  frame[depth].own = t /\ \E ctx \in Context : CalledInRun(v, ctx)
<1>1. Said(v)
  BY DEF Said
<1>2. PICK ctx \in Context : CalledInRun(v, ctx)
  BY <1>1, RanFrom, Taken
<1>3. PICK u \in Tx, n \in Nat : /\ u = frame[depth].own
                                 /\ n + 1 \in DOMAIN tx[u].said /\ tx[u].said[n + 1] = v
  BY <1>2, NextOfRun
<1>4. u = t
  BY <1>3 DEF Entries
<1> QED
  BY <1>2, <1>3, <1>4

\* Only its own actions fail.
LEMMA FailedOfSaid ==
  ASSUME Types, Stack, Entries, Acts, Lists, Step,
         NEW t \in Tx, NEW i \in DOMAIN tx[t].said,
         tx[t].said[i] \notin failed, tx[t].said[i] \in failed'
  PROVE  /\ \E e \in Result : ActionOver(e)
         /\ depth - 1 \in 1 .. depth
         /\ t = frame[depth - 1].own /\ frame[depth - 1].pc = "run"
         /\ Progress(depth - 1, tx[t].said, i)
<1>1. PICK e \in Result : /\ ActionOver(e) /\ failed' = failed \cup {frame[depth].act}
                          /\ depth \in 2 .. depth /\ frame[depth].own = 0
  BY FailedFrom
<1>2. tx[t].said[i] = frame[depth].act
  BY <1>1
<1>3. Said(frame[depth].act)
  BY <1>2 DEF Said
<1>4. PICK u \in Tx, n \in Nat :
        /\ depth - 1 \in 1 .. depth
        /\ u = frame[depth - 1].own /\ frame[depth - 1].pc = "run"
        /\ Progress(depth - 1, tx[u].said, n)
        /\ n \in DOMAIN tx[u].said /\ tx[u].said[n] = frame[depth].act
  BY <1>1, <1>3, ActOf
<1>5. u = t /\ n = i
  BY <1>2, <1>4 DEF Entries
<1> QED
  BY <1>1, <1>4, <1>5

\* Before the commit everything registered is on the list, and none of it ran.
LEMMA WaitingStep ==
  ASSUME Types, Types', Stack, Entries, Lists, Step,
         NEW l \in 1 .. depth, NEW t \in Tx, t = frame[l].own, frame[l].pc # "run",
         Waiting(t), ~ Committed(t)
  PROVE  Waiting(t)'
<1>1. PICK s \in Seq(Row) : s = tx[t].said
  BY DEF Types, Boundary
<1>2. Len(s) \in Nat /\ DOMAIN s = 1 .. Len(s) /\ \A i \in DOMAIN s : s[i] \in Row
  OBVIOUS
<1>3. tx[t].actions = s /\ \A i \in DOMAIN s : ~ Ran(s[i])
  BY <1>1, <1>2 DEF Waiting
<1>4. \A i \in DOMAIN s : ~ Ran(s[i])'
  <2>1. SUFFICES ASSUME NEW i \in DOMAIN s, Ran(s[i])' PROVE FALSE
    OBVIOUS
  <2>2. frame[depth].own = t /\ \E ctx \in Context : CalledInRun(s[i], ctx)
    BY <1>1, <1>2, <1>3, <2>1, RanOfSaid
  <2>3. frame[depth].pc = "run" /\ depth \in 1 .. depth
    BY <2>2, TransactionAssumption DEF CalledInRun, Level
  <2>4. l = depth
    BY <2>2, <2>3 DEF Stack, Tx
  <2> QED
    BY <2>3, <2>4
<1>5. CASE SameLists(t)
  <2>1. tx'[t].actions = s /\ tx'[t].said = s
    BY <1>1, <1>3, <1>5 DEF SameLists
  <2> QED
    BY <1>2, <1>4, <2>1 DEF Waiting
<1>6. ASSUME NEW w \in Row, Registered(w, t) PROVE Waiting(t)'
  <2>1. /\ tx'[t].actions = Append(s, w) /\ tx'[t].said = Append(s, w) /\ ran' = ran
    BY <1>1, <1>3, <1>6 DEF Registered
  <2>2. ~ Ran(w)'
    BY <1>6, <2>1, Taken, RanSame
  <2>3. /\ Len(Append(s, w)) = Len(s) + 1
        /\ \A i \in 1 .. Len(s) + 1 : Append(s, w)[i] = IF i = Len(s) + 1 THEN w ELSE s[i]
    OBVIOUS
  <2>4. \A i \in 1 .. Len(s) + 1 : i = Len(s) + 1 \/ i \in DOMAIN s
    BY <1>2
  <2>5. \A i \in 1 .. Len(Append(s, w)) : ~ Ran(Append(s, w)[i])'
    BY <1>4, <2>2, <2>3, <2>4
  <2> QED
    BY <2>1, <2>5 DEF Waiting
<1> QED
  BY <1>5, <1>6, ListsFrom

\* A run goes through its list from the front, one action at a time, and the
\* first that fails is its last.
LEMMA ProgressStep ==
  ASSUME Types, Types', Stack, Entries, Acts, Lists, Step,
         NEW l \in 1 .. depth, l \in 1 .. depth', NEW t \in Tx, t = frame[l].own,
         frame[l].pc = "run", tx'[t].said = tx[t].said,
         NEW n \in Nat, Progress(l, tx[t].said, n)
  PROVE  \E m \in Nat : Progress(l, tx[t].said, m)'
<1>1. PICK s \in Seq(Row) : s = tx[t].said
  BY DEF Types, Boundary
<1>2. Len(s) \in Nat /\ DOMAIN s = 1 .. Len(s) /\ \A i \in DOMAIN s : s[i] \in Row
  OBVIOUS
<1>3. l \in Level /\ depth \in 0 .. MaxDepth /\ depth' \in 0 .. MaxDepth
  BY TransactionAssumption DEF Types, Level
<1>4. PICK todo \in Seq(Row) : todo = frame[l].todo
  BY <1>3 DEF Types, Frame
<1>5. /\ Len(s) = n + Len(todo) /\ Len(todo) \in Nat
      /\ \A i \in 1 .. Len(todo) : todo[i] = s[n + i] /\ ~ Ran(s[n + i])
      /\ frame[l].err # "nil" => todo = <<>> /\ l = depth
      /\ frame[l].err = "nil" => \A m \in 1 .. n :
             Ran(s[m]) /\ (m < n \/ l = depth => s[m] \notin failed)
      /\ l < depth => n > 0 /\ frame[l + 1].act = s[n]
  BY <1>1, <1>4 DEF Progress
<1>6. tx'[t].said = s
  BY <1>1
<1>7. ASSUME NEW m \in Nat, Progress(l, s, m)' PROVE \E k \in Nat : Progress(l, tx[t].said, k)'
  BY <1>6, <1>7
<1>8. \A i \in DOMAIN s : Ran(s[i]) => Ran(s[i])'
  BY <1>2, RanStays
<1>9. \A k \in 1 .. depth : frame[k].own = t => k = l
  BY DEF Stack, Tx
<1>10. CASE /\ frame'[l].todo = frame[l].todo /\ frame'[l].err = frame[l].err
            /\ l = depth <=> l = depth'
            /\ l < depth => frame'[l + 1].act = frame[l + 1].act
  <2>1. \A i \in DOMAIN s : ~ Ran(s[i]) => ~ Ran(s[i])'
    <3>1. SUFFICES ASSUME NEW i \in DOMAIN s, ~ Ran(s[i]), Ran(s[i])' PROVE FALSE
      OBVIOUS
    <3>2. frame[depth].own = t /\ \E ctx \in Context : CalledInRun(s[i], ctx)
      BY <1>1, <1>2, <3>1, RanOfSaid
    <3>3. depth' = depth + 1 /\ depth \in 1 .. depth
      BY <1>3, <3>2 DEF CalledInRun, Called
    <3>4. l = depth
      BY <1>9, <3>2, <3>3
    <3> QED
      BY <1>3, <1>10, <3>3, <3>4
  <2>2. \A i \in DOMAIN s : s[i] \notin failed => s[i] \notin failed'
    <3>1. SUFFICES ASSUME NEW i \in DOMAIN s, s[i] \notin failed, s[i] \in failed' PROVE FALSE
      OBVIOUS
    <3>2. /\ \E e \in Result : ActionOver(e)
          /\ depth - 1 \in 1 .. depth /\ t = frame[depth - 1].own
      BY <1>1, <3>1, FailedOfSaid
    <3>3. l = depth - 1 /\ depth' = depth - 1
      BY <1>9, <3>2 DEF ActionOver
    <3> QED
      BY <1>3, <1>10, <3>3
  <2>3. \A i \in 1 .. Len(todo) : n + i \in DOMAIN s
    BY <1>2, <1>5
  <2>4. \A m \in 1 .. n : m \in DOMAIN s
    BY <1>2, <1>5
  <2>5. l < depth' => l < depth
    BY <1>3, <1>10
  <2>6. frame'[l].todo = todo
    BY <1>4, <1>10
  <2>7. \A i \in 1 .. Len(todo) : todo[i] = s[n + i] /\ ~ Ran(s[n + i])'
    BY <1>5, <2>1, <2>3
  <2>8. frame'[l].err # "nil" => todo = <<>> /\ l = depth'
    BY <1>5, <1>10
  <2>9. frame'[l].err = "nil" => \A m \in 1 .. n :
             Ran(s[m])' /\ (m < n \/ l = depth' => s[m] \notin failed')
    BY <1>5, <1>8, <1>10, <2>2, <2>4
  <2>10. l < depth' => n > 0 /\ frame'[l + 1].act = s[n]
    BY <1>5, <1>10, <2>5
  <2>11. Progress(l, s, n)'
    BY <1>5, <2>6, <2>7, <2>8, <2>9, <2>10 DEF Progress
  <2> QED
    BY <1>7, <2>11
<1>11. ASSUME l = depth, NEW w \in Row, NEW ctx \in Context, CalledInRun(w, ctx)
       PROVE  \E m \in Nat : Progress(l, tx[t].said, m)'
  <2>1. /\ todo # <<>> /\ w = Head(todo) /\ frame'[l].todo = Tail(todo)
        /\ frame'[l].err = frame[l].err /\ depth' = l + 1
        /\ frame'[l + 1].act = w /\ failed' = failed /\ ran' = Append(ran, w)
    BY <1>4, <1>11 DEF CalledInRun, Called, IsBody
  <2>2. PICK rest \in Seq(Row) : rest = Tail(todo)
    <3>1. Tail(todo) \in Seq(Row)
      BY <2>1
    <3> QED
      BY <3>1
  <2>3. /\ Len(todo) > 0 /\ w = todo[1] /\ Len(rest) = Len(todo) - 1 /\ Len(rest) \in Nat
        /\ \A i \in 1 .. Len(rest) : rest[i] = todo[i + 1] /\ i + 1 \in 1 .. Len(todo)
    BY <2>1, <2>2
  <2>4. frame[l].err = "nil" /\ w = s[n + 1] /\ n + 1 \in DOMAIN s
    BY <1>2, <1>5, <2>1, <2>3
  <2>5. \A v : Ran(v)' <=> Ran(v) \/ v = w
    BY <2>1, RanMore
  <2>6. \A i, j \in DOMAIN s : s[i] = s[j] => i = j
    BY <1>1 DEF Entries
  <2>7. Len(s) = (n + 1) + Len(rest)
    BY <1>5, <2>3
  <2>8. \A i \in 1 .. Len(rest) : rest[i] = s[(n + 1) + i] /\ ~ Ran(s[(n + 1) + i])'
    <3>1. TAKE i \in 1 .. Len(rest)
    <3>2. i + 1 \in 1 .. Len(todo) /\ n + (i + 1) = (n + 1) + i
      BY <2>3
    <3>3. rest[i] = s[(n + 1) + i] /\ ~ Ran(s[(n + 1) + i])
      BY <1>5, <2>3, <3>2
    <3>4. (n + 1) + i \in DOMAIN s /\ (n + 1) + i # n + 1
      BY <1>2, <2>7, <2>3
    <3>5. s[(n + 1) + i] # w
      BY <2>4, <2>6, <3>4
    <3> QED
      BY <2>5, <3>3, <3>5
  <2>9. \A m \in 1 .. n + 1 : Ran(s[m])' /\ (m < n + 1 => s[m] \notin failed')
    <3>1. TAKE m \in 1 .. n + 1
    <3>2. CASE m = n + 1
      BY <2>4, <2>5, <3>2
    <3>3. CASE m # n + 1
      <4>1. m \in 1 .. n
        BY <3>3
      <4> QED
        BY <1>5, <1>11, <2>1, <2>4, <2>5, <4>1
    <3> QED
      BY <3>2, <3>3
  <2>10. l # depth' /\ frame'[l].err = "nil" /\ n + 1 \in Nat /\ n + 1 > 0
    BY <2>1, <2>4
  <2>11. Progress(l, s, n + 1)'
    BY <2>1, <2>2, <2>4, <2>7, <2>8, <2>9, <2>10 DEF Progress
  <2> QED
    BY <1>7, <2>10, <2>11
<1>12. ASSUME l = depth - 1, NEW e \in Result, ActionOver(e)
       PROVE  \E m \in Nat : Progress(l, tx[t].said, m)'
  <2>1. /\ depth' = l /\ frame'[l].err = Marked(e) /\ frame'[l].todo = Stopped(todo, e)
        /\ ran' = ran /\ frame[depth].own = 0
        /\ failed' = IF e = "nil" THEN failed ELSE failed \cup {frame[depth].act}
    BY <1>4, <1>12 DEF ActionOver
  <2>2. \A v : Ran(v)' <=> Ran(v)
    BY <2>1, RanSame
  <2>3. CASE e # "nil"
    <3>1. frame'[l].todo = <<>> /\ frame'[l].err # "nil"
      BY <2>1, <2>3 DEF Stopped, Marked, IsTxDone
    <3>2. Len(<<>>) = 0
      OBVIOUS
    <3>3. Progress(l, s, Len(s))'
      BY <1>2, <1>3, <2>1, <3>1, <3>2 DEF Progress
    <3> QED
      BY <1>2, <1>7, <3>3
  <2>4. CASE e = "nil"
    <3>1. frame'[l].todo = todo /\ frame'[l].err = "nil" /\ failed' = failed
      BY <2>1, <2>4 DEF Stopped, Marked, IsTxDone
    <3>2. l < depth /\ l + 1 = depth /\ depth \in 2 .. depth /\ l # depth
      BY <1>3, <1>12
    <3>3. frame[l].err = "nil" /\ n > 0 /\ s[n] = frame[depth].act
      BY <1>5, <3>2
    <3>4. s[n] \notin failed
      BY <2>1, <3>2, <3>3 DEF Acts
    <3>5. \A m \in 1 .. n : m < n \/ m = n
      OBVIOUS
    <3>6. \A m \in 1 .. n : Ran(s[m])' /\ s[m] \notin failed'
      BY <1>5, <2>2, <3>1, <3>3, <3>4, <3>5
    <3>7. \A i \in 1 .. Len(todo) : todo[i] = s[n + i] /\ ~ Ran(s[n + i])'
      BY <1>5, <2>2
    <3>8. ~ (l < depth')
      BY <1>3, <2>1
    <3>9. Progress(l, s, n)'
      BY <1>5, <3>1, <3>6, <3>7, <3>8 DEF Progress
    <3> QED
      BY <1>7, <3>9
  <2> QED
    BY <2>3, <2>4
<1> QED
  BY <1>10, <1>11, <1>12, RunFrom

LEMMA ListsStep ==
  ASSUME Types, Types', Stack, NoStaleContext, Fates, Entries, Acts, Lists, Step
  PROVE  Lists'
<1>1. SUFFICES ASSUME NEW l \in 1 .. depth', frame'[l].own # 0
               PROVE  IF frame'[l].pc = "run"
                      THEN \E n \in Nat : Progress(l, tx[frame[l].own].said, n)'
                      ELSE Waiting(frame[l].own)'
  BY DEF Lists
<1>2. PICK t \in Tx : t = frame'[l].own
  BY <1>1, OwnersFrom
<1>3. l \in Level
  BY <1>1, OwnersFrom
<1>4. SUFFICES IF frame'[l].pc = "run"
               THEN \E n \in Nat : Progress(l, tx[t].said, n)'
               ELSE Waiting(t)'
  BY <1>2
<1>5. PICK s \in Seq(Row) : s = tx[t].said
  BY DEF Types, Boundary
<1>6. CASE l \in 1 .. depth /\ t = frame[l].own
  <2>1. frame[l].own # 0
    BY <1>1, <1>2, <1>6
  <2>2. CASE frame[l].pc = "run"
    <3>1. PICK n \in Nat : Progress(l, tx[t].said, n)
      BY <1>6, <2>1, <2>2 DEF Lists
    <3>2. frame'[l].pc = "run"
      BY <1>6, <2>2, RunsOn DEF SameBody
    <3>3. tx'[t].said = tx[t].said
      <4>1. ASSUME NEW w \in Row, Registered(w, t) PROVE FALSE
        <5>1. PICK k \in 1 .. depth : frame[k].own = t /\ frame[k].pc = "body"
          BY <4>1, RegisteredWithBody
        <5>2. k = l
          BY <1>6, <2>1, <5>1 DEF Stack
        <5> QED
          BY <2>2, <5>1, <5>2
      <4> QED
        BY <4>1, SaidFrom
    <3> QED
      BY <1>6, <2>2, <3>1, <3>2, <3>3, ProgressStep
  <2>3. CASE frame[l].pc # "run" /\ ~ Committed(t)
    <3>1. Waiting(t)
      BY <1>6, <2>1, <2>3 DEF Lists
    <3>2. frame'[l].pc # "run"
      BY <1>3, <1>6, <2>3, RunsFrom
    <3> QED
      BY <1>6, <2>3, <3>1, <3>2, WaitingStep
  <2>4. CASE frame[l].pc # "run" /\ Committed(t)
    <3>1. Waiting(t)
      BY <1>6, <2>1, <2>4 DEF Lists
    <3>2. l = depth
      BY <1>6, <2>4, Owner
    <3>3. /\ frame'[l].pc = "run" /\ frame'[l].err = "nil" /\ frame'[l].todo = tx[t].actions
          /\ tx'[t].said = tx[t].said /\ ran' = ran /\ depth' = depth
      BY <2>4, <3>2 DEF Committed
    <3>4. frame'[l].todo = s /\ tx'[t].said = s /\ Len(s) \in Nat
      BY <1>5, <3>1, <3>3 DEF Waiting
    <3>5. \A i \in 1 .. Len(s) : ~ Ran(s[i])'
      BY <1>5, <3>1, <3>3, RanSame DEF Waiting
    <3>6. \A i \in 1 .. Len(s) : 0 + i = i
      OBVIOUS
    <3>7. ~ (l < depth')
      BY <3>2, <3>3 DEF Types
    <3>8. Progress(l, s, 0)'
      BY <3>3, <3>4, <3>5, <3>6, <3>7 DEF Progress
    <3>9. Progress(l, tx[t].said, 0)'
      BY <3>4, <3>8
    <3> QED
      BY <3>3, <3>9
  <2> QED
    BY <2>2, <2>3, <2>4
<1>7. CASE /\ t = opened + 1 /\ frame'[l].pc = "body"
           /\ \E d \in Instance : Opened(d)
  <2>1. tx[t].actions = <<>> /\ tx[t].said = <<>>
    BY <1>7 DEF Fates, Types
  <2>2. tx'[t].actions = <<>> /\ tx'[t].said = <<>>
    BY <1>7, <2>1 DEF Opened, SameLists
  <2>3. Len(<<>>) = 0
    OBVIOUS
  <2>4. Waiting(t)'
    BY <2>2, <2>3 DEF Waiting
  <2> QED
    BY <1>7, <2>4
<1> QED
  BY <1>1, <1>2, <1>6, <1>7, OwnersFrom

-----------------------------------------------------------------------------
(* The order in which the actions run. *)

\* RunInOrder for one of the actions registered with a transaction.
InOrder(t, n) ==
    \A j \in DOMAIN ran : ran[j] = tx[t].said[n] =>
        \A m \in 1 .. n - 1 :
            tx[t].said[m] \notin failed /\ \E i \in 1 .. j - 1 : ran[i] = tx[t].said[m]

AsTold(t, n) ==
    /\ tx[t].answer = "nil" => Ran(tx[t].said[n])
    /\ tx[t].returned = "nil" /\ tx[t].answer \in {"err", "ended"} => ~ Ran(tx[t].said[n])

LEMMA RunInOrderParts ==
  RunInOrder <=> /\ \A i, j \in DOMAIN ran : ran[i] = ran[j] => i = j
                 /\ \A t \in 1 .. opened : \A n \in DOMAIN tx[t].said :
                        InOrder(t, n) /\ AsTold(t, n)
  BY DEF RunInOrder, InOrder, AsTold

\* An action runs after those registered before it, and none of them failed.
LEMMA OrderStep ==
  ASSUME Types, Types', Stack, NoStaleContext, Fates, Entries, Acts, Lists, Step,
         NEW t \in Tx, NEW n \in DOMAIN tx[t].said, tx'[t].said[n] = tx[t].said[n],
         \A m \in 1 .. n - 1 : tx'[t].said[m] = tx[t].said[m],
         InOrder(t, n)
  PROVE  InOrder(t, n)'
<1>1. PICK s \in Seq(Row) : s = tx[t].said
  BY DEF Types, Boundary
<1>2. /\ Len(s) \in Nat /\ DOMAIN s = 1 .. Len(s) /\ \A i \in DOMAIN s : s[i] \in Row
      /\ n \in 1 .. Len(s) /\ \A m \in 1 .. n - 1 : m \in DOMAIN s
  BY <1>1
<1>3. SUFFICES ASSUME NEW j \in DOMAIN ran', ran'[j] = s[n], NEW m \in 1 .. n - 1
               PROVE  s[m] \notin failed' /\ \E i \in 1 .. j - 1 : ran'[i] = s[m]
  BY <1>1 DEF InOrder
<1>4. ran \in Seq(Row) /\ Len(ran) \in Nat /\ DOMAIN ran = 1 .. Len(ran)
  BY DEF Types
<1>5. \A i, k \in DOMAIN s : s[i] = s[k] => i = k
  BY <1>1 DEF Entries
<1>6. /\ \A i \in DOMAIN ran : i \in DOMAIN ran' /\ ran'[i] = ran[i]
      /\ \/ ran' = ran
         \/ \E w \in Row, ctx \in Context :
                /\ CalledAtOnce(w, ctx) \/ CalledInRun(w, ctx)
                /\ DOMAIN ran' = 1 .. Len(ran) + 1 /\ ran'[Len(ran) + 1] = w
  <2>1. ASSUME NEW w \in Row, NEW ctx \in Context, CalledAtOnce(w, ctx) \/ CalledInRun(w, ctx)
        PROVE  /\ \A i \in DOMAIN ran : i \in DOMAIN ran' /\ ran'[i] = ran[i]
               /\ DOMAIN ran' = 1 .. Len(ran) + 1 /\ ran'[Len(ran) + 1] = w
    <3>1. ran' = Append(ran, w)
      BY <2>1 DEF CalledAtOnce, CalledInRun, Called
    <3> QED
      BY <1>4, <3>1
  <2>2. \/ ran' = ran
        \/ \E w \in Row, ctx \in Context : CalledAtOnce(w, ctx) \/ CalledInRun(w, ctx)
    BY DEF Step, Wrote, Got, Over, Ended, Registered, Opened,
       Done, NotCommitted, RunOver, Committed, CutOff, RolledBack, Closed, ActionOver
  <2> QED
    BY <2>1, <2>2
<1>7. CASE j \in DOMAIN ran
  <2>1. ran[j] = s[n]
    BY <1>3, <1>6, <1>7
  <2>2. s[m] \notin failed /\ \E i \in 1 .. j - 1 : ran[i] = s[m]
    BY <1>1, <1>7, <2>1 DEF InOrder
  <2>3. \E i \in 1 .. j - 1 : ran'[i] = s[m]
    <3>1. \A i \in 1 .. j - 1 : i \in DOMAIN ran
      BY <1>4, <1>7
    <3> QED
      BY <1>6, <2>2, <3>1
  <2>4. s[m] \notin failed'
    <3>1. SUFFICES ASSUME s[m] \in failed' PROVE FALSE
      OBVIOUS
    <3>2. Progress(depth - 1, s, m)
      BY <1>1, <1>2, <2>2, <3>1, FailedOfSaid
    <3>3. PICK todo \in Seq(Row) : todo = frame[depth - 1].todo
      <4>1. depth - 1 \in Level
        BY <1>1, <1>2, <2>2, <3>1, FailedOfSaid DEF ActionOver
      <4> QED
        BY <4>1 DEF Types, Frame
    <3>4. /\ Len(s) = m + Len(todo) /\ Len(todo) \in Nat
          /\ \A i \in 1 .. Len(todo) : ~ Ran(s[m + i])
      <4>1. Len(todo) \in Nat
        OBVIOUS
      <4>2. Len(s) = m + Len(frame[depth - 1].todo)
        BY <3>2, Zenon DEF Progress
      <4>3. \A i \in 1 .. Len(frame[depth - 1].todo) : ~ Ran(s[m + i])
        BY <3>2, Zenon DEF Progress
      <4> QED
        BY <3>3, <4>1, <4>2, <4>3, Zenon
    <3>5. n - m \in 1 .. Len(todo) /\ m + (n - m) = n
      BY <1>2, <3>4
    <3>6. ~ Ran(s[n])
      BY <3>4, <3>5
    <3> QED
      BY <1>7, <2>1, <3>6 DEF Ran
  <2> QED
    BY <2>3, <2>4
<1>8. CASE j \notin DOMAIN ran
  <2>1. PICK w \in Row, ctx \in Context :
            /\ CalledAtOnce(w, ctx) \/ CalledInRun(w, ctx)
            /\ DOMAIN ran' = 1 .. Len(ran) + 1 /\ ran'[Len(ran) + 1] = w
    BY <1>3, <1>6, <1>8
  <2>2. j = Len(ran) + 1 /\ s[n] = w
    BY <1>3, <1>4, <1>8, <2>1
  <2>3. CalledInRun(w, ctx)
    <3>1. Said(w)
      BY <1>1, <2>2 DEF Said
    <3> QED
      BY <2>1, <3>1, Taken
  <2>4. PICK u \in Tx, k \in Nat :
            /\ u = frame[depth].own /\ Progress(depth, tx[u].said, k)
            /\ k + 1 \in DOMAIN tx[u].said /\ tx[u].said[k + 1] = w
            /\ frame[depth].err = "nil"
    BY <2>3, NextOfRun
  <2>5. u = t /\ k + 1 = n
    BY <1>1, <2>2, <2>4 DEF Entries
  <2>6. Ran(s[m]) /\ s[m] \notin failed
    <3>1. m \in 1 .. k
      BY <2>5
    <3> QED
      BY <1>1, <2>4, <2>5, <3>1 DEF Progress
  <2>7. failed' = failed
    BY <2>3 DEF CalledInRun, Called
  <2>8. PICK i \in DOMAIN ran : ran[i] = s[m]
    BY <2>6 DEF Ran
  <2>9. i \in 1 .. j - 1 /\ ran'[i] = s[m]
    BY <1>4, <1>6, <2>2, <2>8
  <2> QED
    BY <2>6, <2>7, <2>9
<1> QED
  BY <1>7, <1>8

\* What a caller was told of the actions stays so, and is so when it is told.
LEMMA AsToldStep ==
  ASSUME Types, Types', Stack, NoStaleContext, Fates, Entries, Lists, Step,
         NEW t \in Tx, NEW n \in DOMAIN tx'[t].said,
         n \in DOMAIN tx[t].said => AsTold(t, n)
  PROVE  AsTold(t, n)'
<1>1. PICK s \in Seq(Row) : s = tx[t].said
  BY DEF Types, Boundary
<1>2. Len(s) \in Nat /\ DOMAIN s = 1 .. Len(s) /\ \A i \in DOMAIN s : s[i] \in Row
  OBVIOUS
<1>3. ASSUME tx'[t].answer = "none" PROVE AsTold(t, n)'
  BY <1>3 DEF AsTold
<1>4. ASSUME NEW l \in 1 .. depth, frame[l].own = t PROVE tx[t].answer = "none"
  BY <1>4 DEF Fates, Tx
<1>5. ASSUME NEW w \in Row, Registered(w, t) PROVE AsTold(t, n)'
  <2>1. tx[t].answer = "none"
    BY <1>4, <1>5, RegisteredWithBody
  <2> QED
    BY <1>3, <1>5, <2>1 DEF Registered, SameFate
<1>6. CASE tx'[t].said = s
  <2>1. n \in DOMAIN s /\ s[n] \in Row /\ tx'[t].said[n] = s[n] /\ AsTold(t, n)
    BY <1>1, <1>2, <1>6
  <2>2. SUFFICES /\ tx'[t].answer = "nil" => Ran(s[n])'
                 /\ tx'[t].returned = "nil" /\ tx'[t].answer \in {"err", "ended"} => ~ Ran(s[n])'
    BY <2>1 DEF AsTold
  <2>3. CASE SameFate(t)
    <3>1. tx[t].answer = "nil" => Ran(s[n])'
      BY <1>1, <2>1, RanStays DEF AsTold
    <3>2. ASSUME tx[t].returned = "nil", tx[t].answer \in {"err", "ended"}, Ran(s[n])'
          PROVE  FALSE
      <4>1. ~ Ran(s[n])
        BY <1>1, <2>1, <3>2 DEF AsTold
      <4>2. frame[depth].own = t /\ \E ctx \in Context : CalledInRun(s[n], ctx)
        BY <1>1, <2>1, <3>2, <4>1, RanOfSaid
      <4>3. depth \in 1 .. depth
        BY <4>2, TransactionAssumption DEF CalledInRun, Level
      <4> QED
        BY <1>4, <3>2, <4>2, <4>3
    <3> QED
      BY <2>3, <3>1, <3>2 DEF SameFate
  <2>4. CASE t = opened + 1 /\ \E d \in Instance : Opened(d)
    <3>1. s = <<>>
      BY <1>1, <2>4 DEF Fates, Types
    <3> QED
      BY <1>2, <2>1, <3>1
  <2>5. CASE Done(t) \/ Committed(t)
    <3>1. tx[t].answer = "none"
      BY <1>4, <2>5, Owner
    <3> QED
      BY <2>5, <3>1 DEF Done, Committed
  <2>6. CASE CutOff(t)
    <3>1. tx[t].answer = "none"
      BY <2>6 DEF CutOff, Fates
    <3> QED
      BY <2>6, <3>1 DEF CutOff
  <2>7. CASE RunOver(t)
    <3>1. /\ depth \in 1 .. depth /\ frame[depth].own = t /\ frame[depth].pc = "run"
          /\ frame[depth].todo = <<>> /\ ran' = ran /\ tx'[t].answer = frame[depth].err
      BY <2>7, Owner DEF RunOver, Closed
    <3>2. frame[depth].err \in {"nil", "panic"} \cup IsAfter
      BY <3>1 DEF Fates
    <3>3. PICK k \in Nat : Progress(depth, s, k)
      BY <1>1, <3>1 DEF Lists, Tx
    <3>4. Len(s) = k + 0
      BY <3>1, <3>3 DEF Progress
    <3>5. frame[depth].err = "nil" => Ran(s[n])
      BY <1>2, <2>1, <3>3, <3>4 DEF Progress
    <3> QED
      BY <3>1, <3>2, <3>5, RanSame DEF IsAfter
  <2>8. CASE NotCommitted(t)
    <3>1. /\ depth \in 1 .. depth /\ frame[depth].own = t /\ frame[depth].pc = "commit"
          /\ ran' = ran /\ tx'[t].answer \in {"err", "ended"}
      BY <2>8, Owner DEF NotCommitted, Closed
    <3>2. Waiting(t)
      BY <3>1 DEF Lists, Tx
    <3>3. ~ Ran(s[n])
      BY <1>1, <1>2, <2>1, <3>2 DEF Waiting
    <3> QED
      BY <3>1, <3>3, RanSame
  <2>9. ASSUME NEW e \in Result, RolledBack(t, e)
        PROVE  tx'[t].returned # "nil" /\ tx'[t].answer # "nil"
    BY <2>9 DEF RolledBack, Closed, Told
  <2> QED
    BY <2>3, <2>4, <2>5, <2>6, <2>7, <2>8, <2>9, FatesFrom
<1> QED
  BY <1>1, <1>5, <1>6, SaidFrom

LEMMA RunInOrderStep ==
  ASSUME Types, Types', Stack, NoStaleContext, Fates, Entries, Entries', Acts, Lists, Step,
         RunInOrder
  PROVE  RunInOrder'
<1>1. \A i, j \in DOMAIN ran' : ran'[i] = ran'[j] => i = j
  BY DEF Entries
<1>2. ASSUME NEW t \in 1 .. opened', NEW n \in DOMAIN tx'[t].said
      PROVE  InOrder(t, n)' /\ AsTold(t, n)'
  <2>1. t \in Tx
    BY <1>2, TransactionAssumption DEF Types, Tx
  <2>2. PICK s \in Seq(Row) : s = tx[t].said
    BY <2>1 DEF Types, Boundary
  <2>3. Len(s) \in Nat /\ DOMAIN s = 1 .. Len(s)
    OBVIOUS
  <2>4. ASSUME n \in DOMAIN s PROVE InOrder(t, n) /\ AsTold(t, n)
    <3>1. t \in 1 .. opened
      <4>1. s # <<>>
        BY <2>3, <2>4
      <4> QED
        BY <2>1, <2>2, <4>1 DEF Fates, Types, Tx
    <3> QED
      BY <2>2, <2>4, <3>1, RunInOrderParts
  <2>5. AsTold(t, n)'
    BY <1>2, <2>1, <2>2, <2>4, AsToldStep
  <2>6. ASSUME n \in DOMAIN s, \A m \in DOMAIN s : tx'[t].said[m] = s[m]
        PROVE  InOrder(t, n)'
    <3>1. \A m \in 1 .. n - 1 : m \in DOMAIN s
      BY <2>3, <2>6
    <3> QED
      BY <2>1, <2>2, <2>4, <2>6, <3>1, OrderStep
  <2>7. ASSUME tx'[t].said = s PROVE InOrder(t, n)'
    BY <1>2, <2>6, <2>7
  <2>8. ASSUME NEW w \in Row, Registered(w, t), tx'[t].said = Append(s, w)
        PROVE  InOrder(t, n)'
    <3>1. /\ \A m \in DOMAIN s : tx'[t].said[m] = s[m]
          /\ n \in DOMAIN s \/ tx'[t].said[n] = w
      BY <1>2, <2>3, <2>8
    <3>2. CASE n \in DOMAIN s
      BY <2>6, <3>1, <3>2
    <3>3. CASE tx'[t].said[n] = w
      <4>1. ~ Ran(w)'
        BY <2>1, <2>8, Taken, RanSame DEF Registered
      <4> QED
        BY <3>3, <4>1 DEF InOrder, Ran
    <3> QED
      BY <3>1, <3>2, <3>3
  <2> QED
    BY <2>1, <2>2, <2>5, <2>7, <2>8, SaidFrom
<1> QED
  BY <1>1, <1>2 DEF RunInOrder, InOrder, AsTold


-----------------------------------------------------------------------------
LedgerInv == FateInv /\ Entries /\ Acts /\ Lists /\ RunInOrder

LEMMA LedgerInit == Init => LedgerInv
<1> SUFFICES ASSUME Init PROVE LedgerInv
  OBVIOUS
<1>1. \A t \in Tx : tx[t] = NoBoundary
  BY DEF Init
<1>2. \A t \in Tx : tx[t].said = <<>>
  BY <1>1 DEF NoBoundary
<1>3. depth = 1 /\ opened = 0 /\ 1 \in Level /\ ran = <<>> /\ failed = {}
  BY TransactionAssumption DEF Init, Level
<1>4. frame[1] = Body("body", 0, 0, Background)
  BY <1>3 DEF Init
<1>5. frame[1].own = 0 /\ frame[1].pc = "body" /\ frame[1].wrote = 0
  BY <1>4 DEF Body
<1>6. \A w : ~ Ran(w)
  BY <1>3 DEF Ran
<1>7. \A w : ~ Said(w)
  BY <1>2 DEF Said
<1>8. Entries
  BY <1>2, <1>3, <1>5, <1>6, <1>7 DEF Entries
<1>9. Acts
  BY <1>3 DEF Acts
<1>10. Lists
  BY <1>3, <1>5 DEF Lists
<1>11. RunInOrder
  BY <1>3 DEF RunInOrder
<1> QED
  BY <1>8, <1>9, <1>10, <1>11, FateInit DEF LedgerInv

LEMMA LedgerInvStep == LedgerInv /\ [Next]_vars => LedgerInv'
<1> SUFFICES ASSUME LedgerInv, [Next]_vars PROVE LedgerInv'
  OBVIOUS
<1>1. FateInv'
  BY FateInvStep DEF LedgerInv
<1>2. CASE Next
  <2>1. Types /\ Types' /\ Stack /\ NoStaleContext /\ Fates /\ Step
    BY <1>1, <1>2, Steps DEF LedgerInv, FateInv, StackInv
  <2>2. Entries /\ Acts /\ Lists /\ RunInOrder
    BY DEF LedgerInv
  <2>3. Entries'
    BY <2>1, <2>2, EntriesStep
  <2>4. Acts'
    BY <2>1, <2>2, ActsStep
  <2>5. Lists'
    BY <2>1, <2>2, ListsStep
  <2>6. RunInOrder'
    BY <2>1, <2>2, <2>3, RunInOrderStep
  <2> QED
    BY <1>1, <2>3, <2>4, <2>5, <2>6 DEF LedgerInv
<1>3. CASE UNCHANGED vars
  <2>1. Entries'
    BY <1>3 DEF vars, LedgerInv, Entries, Ran, Said
  <2>2. Acts'
    BY <1>3 DEF vars, LedgerInv, Acts, Ran, Said
  <2>3. Lists'
    <3>1. \A l, n, s : Progress(l, s, n)' <=> Progress(l, s, n)
      BY <1>3 DEF vars, Progress, Ran
    <3>2. \A t : Waiting(t)' <=> Waiting(t)
      BY <1>3 DEF vars, Waiting, Ran
    <3>3. depth' = depth /\ frame' = frame /\ tx' = tx /\ Lists
      BY <1>3 DEF vars, LedgerInv
    <3> QED
      BY <3>1, <3>2, <3>3 DEF Lists
  <2>4. RunInOrder'
    BY <1>3 DEF vars, LedgerInv, RunInOrder, Ran
  <2> QED
    BY <1>1, <2>1, <2>2, <2>3, <2>4 DEF LedgerInv
<1> QED
  BY <1>2, <1>3

LEMMA LedgerInvariant == Spec => []LedgerInv
  BY LedgerInit, LedgerInvStep, PTL DEF Spec

\* No action runs twice; those of a transaction run in the order in which
\* AfterCommit registered them and none after one that failed, all before the
\* caller is told nil and none when the commit was refused or lost to the end
\* of the context, though actions open transactions and register actions of
\* their own (transactionBoundary.run).
THEOREM ActionsRunInOrder == Spec => []RunInOrder
<1>1. LedgerInv => RunInOrder
  BY DEF LedgerInv
<1> QED
  BY <1>1, LedgerInvariant, PTL


-----------------------------------------------------------------------------
(* What is over stays as it is. *)

\* A commit is for good.
LEMMA CommittedStays ==
  ASSUME Types, Stack, Fates, Step, NEW t \in Tx, tx[t].state = "committed"
  PROVE  tx'[t].state = "committed"
<1>1. ASSUME NEW l \in 1 .. depth, frame[l].own = t PROVE frame[l].pc = "run"
  BY <1>1 DEF Fates, Tx
<1>2. CASE SameFate(t)
  BY <1>2 DEF SameFate
<1>3. CASE t = opened + 1
  BY <1>3 DEF Fates, Types
<1>4. CASE Done(t) \/ RunOver(t) \/ Committed(t)
  BY <1>4 DEF Done, RunOver, Committed
<1>5. CASE NotCommitted(t)
  <2>1. depth \in 1 .. depth /\ frame[depth].own = t /\ frame[depth].pc = "commit"
    BY <1>5, Owner DEF NotCommitted
  <2> QED
    BY <1>1, <2>1
<1>6. CASE CutOff(t)
  BY <1>6 DEF CutOff
<1>7. ASSUME NEW e \in Result, RolledBack(t, e) PROVE FALSE
  <2>1. depth \in 1 .. depth /\ frame[depth].own = t /\ frame[depth].pc = "body"
    BY <1>7, Owner DEF RolledBack
  <2> QED
    BY <1>1, <2>1
<1> QED
  BY <1>2, <1>3, <1>4, <1>5, <1>6, <1>7, FatesFrom

\* Its boundary takes no more actions.
LEMMA NoneRegisteredLate ==
  ASSUME Types, Types', Stack, NoStaleContext, Fates, Step, NEW t \in Tx,
         tx[t].state = "committed"
  PROVE  tx'[t].said = tx[t].said
<1>1. ASSUME NEW w \in Row, Registered(w, t) PROVE FALSE
  <2>1. PICK k \in 1 .. depth : frame[k].own = t /\ frame[k].pc = "body"
    BY <1>1, RegisteredWithBody
  <2> QED
    BY <2>1 DEF Fates, Tx
<1> QED
  BY <1>1, SaidFrom

\* A step touches a transaction of the stack, the next one or an open one.
LEMMA ToldStays ==
  ASSUME Types, Stack, NoStaleContext, Fates, Step, NEW t \in Tx, tx[t].answer # "none"
  PROVE  tx'[t] = tx[t]
<1>1. \A l \in 1 .. depth : frame[l].own # t
  BY DEF Fates, Tx
<1>2. tx[t].state # "open" /\ t # opened + 1
  BY DEF Fates, Types
<1>3. CASE Wrote \/ Got \/ Over \/ Ended
  BY <1>3 DEF Wrote, Got, Over, Ended
<1>4. CASE \E e \in Result : ActionOver(e)
  BY <1>4 DEF ActionOver
<1>5. CASE \E w \in Row, ctx \in Context : CalledAtOnce(w, ctx) \/ CalledInRun(w, ctx)
  BY <1>5 DEF CalledAtOnce, CalledInRun, Called
<1>6. ASSUME NEW w \in Row, NEW b \in Tx, Registered(w, b) PROVE tx'[t] = tx[t]
  <2>1. b # t
    BY <1>1, <1>6, RegisteredWithBody
  <2> QED
    BY <1>6, <2>1 DEF Registered, OtherTxSame
<1>7. CASE \E d \in Instance : Opened(d)
  BY <1>2, <1>7 DEF Opened, OtherTxSame
<1>8. ASSUME NEW u \in Tx,
             \/ Done(u) \/ NotCommitted(u) \/ RunOver(u) \/ Committed(u)
             \/ \E e \in Result : RolledBack(u, e)
      PROVE  tx'[t] = tx[t]
  <2>1. u # t
    BY <1>1, <1>8, Owner
  <2>2. OtherTxSame(u)
    BY <1>8 DEF Done, NotCommitted, RunOver, Committed, RolledBack, Closed
  <2> QED
    BY <2>1, <2>2 DEF OtherTxSame
<1>9. ASSUME NEW u \in Tx, CutOff(u) PROVE tx'[t] = tx[t]
  BY <1>2, <1>9 DEF CutOff, OtherTxSame
<1> QED
  BY <1>3, <1>4, <1>5, <1>6, <1>7, <1>8, <1>9 DEF Step

\* No step undoes a commit, registers an action with a boundary whose list was
\* taken, where it would be lost, or touches a transaction whose caller was
\* told (withTransactionBoundary, transactionBoundary.run).
THEOREM OverStaysOver == Spec => SettledForGood
<1> DEFINE Kept == \A t \in Tx :
        /\ tx[t].state = "committed" =>
                tx'[t].state = "committed" /\ tx'[t].said = tx[t].said
        /\ tx[t].answer # "none" => tx'[t] = tx[t]
<1>1. FateInv /\ [Next]_vars => [Kept]_vars
  <2> SUFFICES ASSUME FateInv, Next PROVE Kept
    OBVIOUS
  <2>1. Types /\ Types' /\ Stack /\ NoStaleContext /\ Fates /\ Step
    BY Steps DEF FateInv, StackInv
  <2> QED
    BY <2>1, CommittedStays, NoneRegisteredLate, ToldStays
<1> QED
  BY <1>1, FateInvariant, PTL DEF Spec, SettledForGood

-----------------------------------------------------------------------------
(* The actions and the data they are for. *)

\* Where bodies register for what the innermost transaction wrote, a boundary
\* holds actions for rows of its own transaction only.
OwnRows == \A t \in Tx : \A i \in DOMAIN tx[t].said : row[tx[t].said[i]] = t

\* A row stays with its transaction.
LEMMA RowStays ==
  ASSUME Types, Step, NEW w \in Row, w <= written
  PROVE  row'[w] = row[w]
<1>1. CASE Wrote
  <2>1. w # written + 1
    BY DEF Types, Row
  <2> QED
    BY <1>1, <2>1 DEF Wrote
<1>2. CASE row' = row
  BY <1>2
<1> QED
  BY <1>1, <1>2 DEF Step, Got, Over, Ended, CalledAtOnce, CalledInRun, Called, Registered, Opened,
     Done, NotCommitted, RunOver, Committed, CutOff, RolledBack, Closed, ActionOver

LEMMA OwnRowsStep ==
  ASSUME ~Crossing, Types, Types', Stack, Entries, Step, OwnRows
  PROVE  OwnRows'
<1>1. SUFFICES ASSUME NEW t \in Tx, NEW i \in DOMAIN tx'[t].said
               PROVE  row'[tx'[t].said[i]] = t
  BY DEF OwnRows
<1>2. PICK s \in Seq(Row) : s = tx[t].said
  BY DEF Types, Boundary
<1>3. \A j \in DOMAIN s : s[j] \in Row /\ row'[s[j]] = t
  <2>1. SUFFICES ASSUME NEW j \in DOMAIN s PROVE s[j] \in Row /\ row'[s[j]] = t
    OBVIOUS
  <2>2. s[j] \in Row /\ Said(s[j]) /\ row[s[j]] = t
    BY <1>2 DEF Said, OwnRows
  <2>3. s[j] <= written
    BY <2>2 DEF Entries
  <2> QED
    BY <2>2, <2>3, RowStays
<1>4. CASE tx'[t].said = s
  BY <1>1, <1>3, <1>4
<1>5. ASSUME NEW w \in Row, Registered(w, t), tx'[t].said = Append(s, w)
      PROVE  row'[tx'[t].said[i]] = t
  <2>1. (i \in DOMAIN s /\ tx'[t].said[i] = s[i]) \/ tx'[t].said[i] = w
    BY <1>1, <1>5
  <2>2. row'[w] = t
    BY <1>5 DEF Registered
  <2> QED
    BY <1>3, <2>1, <2>2
<1> QED
  BY <1>2, <1>4, <1>5, SaidFrom

LEMMA DataStep ==
  ASSUME ~Crossing, Types, Types', Stack, NoStaleContext, Fates, Entries, Lists, Step, OwnRows,
         ActionsFollowData
  PROVE  ActionsFollowData'
<1>1. SUFFICES ASSUME NEW w \in Row, Ran(w)' PROVE Durable(w)'
  <2>1. \A i \in DOMAIN ran' : ran'[i] \in Row
    BY DEF Types
  <2> QED
    BY <2>1, <1>1 DEF ActionsFollowData, Ran
<1>2. w <= written /\ Durable(w)
  <2>1. CASE Ran(w)
    BY <2>1 DEF Ran, ActionsFollowData, Entries
  <2>2. ASSUME NEW ctx \in Context, CalledAtOnce(w, ctx) PROVE w <= written /\ Durable(w)
    BY <2>2, Taken DEF CalledAtOnce, Durable
  <2>3. ASSUME NEW ctx \in Context, CalledInRun(w, ctx) PROVE w <= written /\ Durable(w)
    <3>1. PICK t \in Tx, n \in Nat :
            /\ depth \in 1 .. depth /\ t = frame[depth].own
            /\ n + 1 \in DOMAIN tx[t].said /\ tx[t].said[n + 1] = w
      BY <2>3, NextOfRun
    <3>2. row[w] = t
      BY <3>1 DEF OwnRows
    <3>3. tx[t].state = "committed"
      BY <2>3, <3>1 DEF CalledInRun, Fates, Tx
    <3>4. w <= written
      BY <2>3, NextSaid DEF Entries
    <3> QED
      BY <3>2, <3>3, <3>4 DEF Durable
  <2> QED
    BY <1>1, <2>1, <2>2, <2>3, RanFrom
<1>3. row'[w] = row[w] /\ row[w] \in Tx \cup {0}
  BY <1>2, RowStays DEF Types
<1>4. row[w] # 0 => tx'[row[w]].state = "committed"
  BY <1>2, <1>3, CommittedStays DEF Durable
<1> QED
  BY <1>3, <1>4 DEF Durable

DataInv == LedgerInv /\ OwnRows /\ ActionsFollowData

LEMMA DataInvariant == ASSUME ~Crossing PROVE Spec => []DataInv
<1>1. Init => DataInv
  <2>1. SUFFICES ASSUME Init PROVE OwnRows /\ ActionsFollowData
    BY LedgerInit DEF DataInv
  <2>2. \A t \in Tx : tx[t] = NoBoundary
    BY <2>1 DEF Init
  <2>3. \A t \in Tx : tx[t].said = <<>>
    BY <2>2 DEF NoBoundary
  <2>4. ran = <<>>
    BY <2>1 DEF Init
  <2> QED
    BY <2>3, <2>4 DEF OwnRows, ActionsFollowData
<1>2. DataInv /\ [Next]_vars => DataInv'
  <2> SUFFICES ASSUME DataInv, [Next]_vars PROVE DataInv'
    OBVIOUS
  <2>1. LedgerInv'
    BY LedgerInvStep DEF DataInv
  <2>2. CASE Next
    <3>1. /\ Types /\ Types' /\ Stack /\ NoStaleContext /\ Fates /\ Step
          /\ Entries /\ Lists /\ OwnRows /\ ActionsFollowData
      BY <2>2, Steps DEF DataInv, LedgerInv, FateInv, StackInv
    <3> QED
      BY <2>1, <3>1, OwnRowsStep, DataStep DEF DataInv
  <2>3. CASE UNCHANGED vars
    BY <2>1, <2>3 DEF vars, DataInv, OwnRows, ActionsFollowData, Durable
  <2> QED
    BY <2>2, <2>3
<1> QED
  BY <1>1, <1>2, PTL DEF Spec

\* What AfterCommit is for, where bodies register for what the innermost
\* transaction wrote: an action runs only once the row it is for is durable,
\* at any nesting on any number of instances, whatever fails.
THEOREM DataBeforeActions == ASSUME ~Crossing PROVE Spec => []ActionsFollowData
<1>1. DataInv => ActionsFollowData
  BY DEF DataInv
<1> QED
  BY <1>1, DataInvariant, PTL


-----------------------------------------------------------------------------
(* The actions and the commit of their boundary. *)

LEMMA BoundaryStep ==
  ASSUME Types, Types', Stack, NoStaleContext, Fates, Entries, Lists, Step, ActionsFollowBoundary
  PROVE  ActionsFollowBoundary'
<1>1. SUFFICES ASSUME NEW t \in 1 .. opened', NEW n \in DOMAIN tx'[t].said,
                      Ran(tx[t].said[n])'
               PROVE  tx'[t].state = "committed"
  BY DEF ActionsFollowBoundary
<1>2. t \in Tx
  BY <1>1, TransactionAssumption DEF Types, Tx
<1>3. PICK s \in Seq(Row) : s = tx[t].said
  BY <1>2 DEF Types, Boundary
<1>4. Len(s) \in Nat /\ DOMAIN s = 1 .. Len(s)
  OBVIOUS
<1>5. ASSUME n \in DOMAIN s, tx'[t].said[n] = s[n] PROVE tx'[t].state = "committed"
  <2>1. s[n] \in Row /\ Ran(s[n])'
    BY <1>1, <1>5
  <2>2. CASE Ran(s[n])
    <3>1. t \in 1 .. opened
      <4>1. s # <<>>
        BY <1>4, <1>5
      <4> QED
        BY <1>2, <1>3, <4>1 DEF Fates, Types, Tx
    <3>2. tx[t].state = "committed"
      BY <1>3, <1>5, <2>2, <3>1 DEF ActionsFollowBoundary
    <3> QED
      BY <1>2, <3>2, CommittedStays
  <2>3. CASE ~ Ran(s[n])
    <3>1. frame[depth].own = t /\ \E ctx \in Context : CalledInRun(s[n], ctx)
      BY <1>2, <1>3, <1>5, <2>1, <2>3, RanOfSaid
    <3>2. depth \in 1 .. depth /\ frame[depth].pc = "run"
      BY <3>1, TransactionAssumption DEF CalledInRun, Level
    <3>3. tx[t].state = "committed"
      BY <1>2, <3>1, <3>2 DEF Fates, Tx
    <3> QED
      BY <1>2, <3>3, CommittedStays
  <2> QED
    BY <2>2, <2>3
<1>6. CASE tx'[t].said = s
  BY <1>1, <1>5, <1>6
<1>7. ASSUME NEW w \in Row, Registered(w, t), tx'[t].said = Append(s, w)
      PROVE  tx'[t].state = "committed"
  <2>1. (n \in DOMAIN s /\ tx'[t].said[n] = s[n]) \/ tx'[t].said[n] = w
    BY <1>1, <1>4, <1>7
  <2>2. ~ Ran(w)'
    BY <1>2, <1>7, Taken, RanSame DEF Registered
  <2> QED
    BY <1>1, <1>5, <2>1, <2>2
<1> QED
  BY <1>2, <1>3, <1>6, <1>7, SaidFrom

\* An action registered with a boundary runs only once that boundary's
\* transaction has committed, whichever row it is for and also where bodies
\* register across instances (AfterCommit, withTransactionBoundary).
THEOREM ActionsAfterTheirCommit == Spec => []ActionsFollowBoundary
<1>1. Init => ActionsFollowBoundary
  <2>1. Init => 1 .. opened = {}
    BY DEF Init
  <2> QED
    BY <2>1 DEF ActionsFollowBoundary
<1>2. LedgerInv /\ ActionsFollowBoundary /\ [Next]_vars => ActionsFollowBoundary'
  <2> SUFFICES ASSUME LedgerInv, ActionsFollowBoundary, [Next]_vars
               PROVE  ActionsFollowBoundary'
    OBVIOUS
  <2>1. CASE Next
    <3>1. /\ Types /\ Types' /\ Stack /\ NoStaleContext /\ Fates /\ Step
          /\ Entries /\ Lists
      BY <2>1, Steps DEF LedgerInv, FateInv, StackInv
    <3> QED
      BY <3>1, BoundaryStep
  <2>2. CASE UNCHANGED vars
    BY <2>2 DEF vars, ActionsFollowBoundary, Ran
  <2> QED
    BY <2>1, <2>2
<1> QED
  BY <1>1, <1>2, LedgerInvariant, PTL DEF Spec


=============================================================================
