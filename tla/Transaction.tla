---------------------------- MODULE Transaction -----------------------------
(***************************************************************************)
(* Transactions of the database package and the actions they run once they *)
(* have committed, for one request: database.Transaction, TransactionOn    *)
(* and the boundary a write method opens around its hooks, nested in one    *)
(* another on several instances, the context that carries them, AfterCommit*)
(* and the rollback database/sql makes by itself when the context ends.    *)
(*                                                                         *)
(* The request is a stack of bodies: the handler, the functions its         *)
(* transactions run and the actions run after a commit, each of which may  *)
(* do all that a body may.  A transaction the context already carries for   *)
(* an instance is joined, which calls the function in place and is no step *)
(* of its own; a guard that refuses the transaction is a body that returns *)
(* an error at once.  A row stands for what one statement writes, and the  *)
(* action registered for it for whatever must follow it.                   *)
(***************************************************************************)
EXTENDS Naturals, Sequences

CONSTANTS
    Instance,   \* the database instances
    Crossing,   \* whether a body registers actions for rows it wrote elsewhere
                \* than in the innermost transaction
    MaxTx, MaxRow, MaxDepth, MaxFaults  \* the modelling bounds

ASSUME TransactionAssumption ==
    /\ Crossing \in BOOLEAN
    /\ MaxTx \in Nat /\ MaxRow \in Nat /\ MaxFaults \in Nat
    /\ MaxDepth \in Nat \ {0}

VARIABLES
    depth,      \* how many bodies are on the stack, zero once all is over
    frame,      \* the bodies
    opened,     \* how many transactions were opened,
    tx,         \* and each of them
    written,    \* how many rows were written,
    row,        \* and for each of them its transaction, zero for none
    ran,        \* the actions run, by the row they are for,
    failed,     \* and those of them that failed
    ended,      \* whether the context ended
    faults      \* how many commits went wrong

vars == <<depth, frame, opened, tx, written, row, ran, failed, ended, faults>>

-----------------------------------------------------------------------------
Level == 1 .. MaxDepth
Tx    == 1 .. MaxTx
Row   == 1 .. MaxRow

\* What a call returns: nil, an error of its own, the end of the context,
\* sql.ErrTxDone, an error marked ErrAfterCommit, one that is both; or it panics.
Result == {"nil", "err", "ended", "txdone", "after", "after txdone", "panic"}

IsTxDone == {"txdone", "after txdone"}
IsAfter  == {"after", "after txdone"}

\* A context names the transaction open on each instance, and the boundary
\* that collects actions.
Context == [tx : [Instance -> Tx \cup {0}], boundary : Tx \cup {0}]

Background == [tx |-> [d \in Instance |-> 0], boundary |-> 0]

WithTx(ctx, d, t) == [tx |-> [ctx.tx EXCEPT ![d] = t], boundary |-> t]

\* A body: the transaction it is the function of, or the row it is the action
\* for; its context, the last row it wrote, the last error it got, and the
\* actions left to run after its commit.
Frame == [pc : {"off", "body", "commit", "run"}, own : Tx \cup {0}, act : Row \cup {0},
          ctx : Context, wrote : Row \cup {0}, err : Result, todo : Seq(Row)]

Body(pc, t, w, ctx) == [pc |-> pc, own |-> t, act |-> w, ctx |-> ctx, wrote |-> 0,
                        err |-> "nil", todo |-> <<>>]

NoBody == Body("off", 0, 0, Background)

\* A transaction: its state, the actions its boundary holds and all that were
\* ever registered there, what its function returned and what its caller got
\* ("none" before), and whether the end of the context undid it.
Boundary == [state : {"unused", "open", "committed", "undone"}, actions : Seq(Row),
             said : Seq(Row), returned : Result \cup {"none"},
             answer : Result \cup {"none"}, cut : BOOLEAN]

NoBoundary == [state |-> "unused", actions |-> <<>>, said |-> <<>>,
               returned |-> "none", answer |-> "none", cut |-> FALSE]

Top == frame[depth]

\* The body on top can go on: a panic only unwinds.
Running == depth > 0 /\ Top.pc = "body" /\ Top.err # "panic"

Usable(t) == t # 0 => tx[t].state = "open"

Init ==
    /\ depth = 1
    /\ frame = [l \in Level |-> IF l = 1 THEN Body("body", 0, 0, Background) ELSE NoBody]
    /\ opened = 0 /\ tx = [t \in Tx |-> NoBoundary]
    /\ written = 0 /\ row = [w \in Row |-> 0]
    /\ ran = <<>> /\ failed = {}
    /\ ended = FALSE /\ faults = 0

-----------------------------------------------------------------------------
(* What a body does *)

\* A statement on d joins the transaction its context carries for d, and is a
\* transaction of its own without one.
Write(d) ==
    /\ Running /\ ~ended /\ written < MaxRow
    /\ Usable(Top.ctx.tx[d])
    /\ written' = written + 1
    /\ row' = [row EXCEPT ![written + 1] = Top.ctx.tx[d]]
    /\ frame' = [frame EXCEPT ![depth].wrote = written + 1]
    /\ UNCHANGED <<depth, opened, tx, ran, failed, ended, faults>>

WriteFails(d) ==
    /\ Running /\ (ended \/ ~Usable(Top.ctx.tx[d]))
    /\ frame' = [frame EXCEPT ![depth].err =
                    IF Usable(Top.ctx.tx[d]) THEN "ended" ELSE "txdone"]
    /\ UNCHANGED <<depth, opened, tx, written, row, ran, failed, ended, faults>>

\* An action is called with a context, as a body of its own.
Call(w, ctx) ==
    /\ depth < MaxDepth
    /\ depth' = depth + 1
    /\ frame' = [frame EXCEPT ![depth].wrote = 0,
                    ![depth].todo = IF Top.pc = "run" THEN Tail(@) ELSE @,
                    ![depth + 1] = Body("body", 0, w, ctx)]
    /\ ran' = Append(ran, w)

\* AfterCommit for the row last written registers with the innermost boundary,
\* or runs the action at once when there is none.
AfterCommit ==
    LET w == Top.wrote
        b == Top.ctx.boundary
    IN  /\ Running /\ w # 0
        /\ ~Crossing => row[w] = b
        /\ IF b = 0
           THEN Call(w, Top.ctx) /\ UNCHANGED tx
           ELSE /\ tx' = [tx EXCEPT ![b].actions = Append(@, w), ![b].said = Append(@, w)]
                /\ frame' = [frame EXCEPT ![depth].wrote = 0]
                /\ UNCHANGED <<depth, ran>>
        /\ UNCHANGED <<opened, written, row, failed, ended, faults>>

\* A transaction on an instance the context carries none for.
Open(d) ==
    /\ Running /\ ~ended /\ depth < MaxDepth /\ opened < MaxTx
    /\ Top.ctx.tx[d] = 0
    /\ opened' = opened + 1
    /\ tx' = [tx EXCEPT ![opened + 1].state = "open"]
    /\ depth' = depth + 1
    /\ frame' = [frame EXCEPT ![depth + 1] =
                    Body("body", opened + 1, 0, WithTx(Top.ctx, d, opened + 1))]
    /\ UNCHANGED <<written, row, ran, failed, ended, faults>>

\* The transaction could not begin.
OpenFails ==
    /\ Running
    /\ frame' = [frame EXCEPT ![depth].err = IF ended THEN "ended" ELSE "err"]
    /\ UNCHANGED <<depth, opened, tx, written, row, ran, failed, ended, faults>>

\* A body returns, an error it met or one of its own, or panics.
Returns(e) ==
    /\ depth > 0 /\ Top.pc = "body"
    /\ e \in IF Top.err = "panic" THEN {"panic"} ELSE {"nil", "err", "panic", Top.err}

-----------------------------------------------------------------------------
(* What follows a body *)

\* Mutant: the error of the commit is handed on as it is.
ToldRaw(e) == e

\* sql.ErrTxDone under an ended context is the ending.
Told(e) == IF ended /\ e \in IsTxDone THEN "ended" ELSE e

\* withTransactionBoundary returns e to the body below.
Answer(state, cut, e) ==
    /\ tx' = [tx EXCEPT ![Top.own].state = state, ![Top.own].cut = cut, ![Top.own].answer = e]
    /\ frame' = [frame EXCEPT ![depth] = NoBody, ![depth - 1].err = e]
    /\ depth' = depth - 1

\* The handler returns.
HandlerReturns ==
    /\ depth = 1 /\ \E e \in Result : Returns(e)
    /\ depth' = 0
    /\ frame' = [frame EXCEPT ![1] = NoBody]
    /\ UNCHANGED <<opened, tx, written, row, ran, failed, ended, faults>>

\* The function of a transaction returns nil, and the commit is next.
BodyDone ==
    /\ Returns("nil") /\ Top.own # 0
    /\ frame' = [frame EXCEPT ![depth].pc = "commit"]
    /\ tx' = [tx EXCEPT ![Top.own].returned = "nil"]
    /\ UNCHANGED <<depth, opened, written, row, ran, failed, ended, faults>>

\* It returns an error or panics: the transaction is rolled back.
Rollback ==
    /\ depth > 0 /\ Top.own # 0
    /\ \E e \in Result \ {"nil"} :
        /\ Returns(e)
        /\ tx' = [tx EXCEPT ![Top.own].state = "undone", ![Top.own].returned = e,
                    ![Top.own].answer = Told(e)]
        /\ frame' = [frame EXCEPT ![depth] = NoBody, ![depth - 1].err = Told(e)]
        /\ depth' = depth - 1
    /\ UNCHANGED <<opened, written, row, ran, failed, ended, faults>>

Committing == depth > 0 /\ Top.pc = "commit"

\* Mutant: the list stays with the boundary.
CommitKeeps ==
    /\ Committing /\ ~ended
    /\ tx' = [tx EXCEPT ![Top.own].state = "committed"]
    /\ frame' = [frame EXCEPT ![depth].pc = "run", ![depth].err = "nil",
                    ![depth].todo = tx[Top.own].actions]
    /\ UNCHANGED <<depth, opened, written, row, ran, failed, ended, faults>>

\* The list is taken and cleared.
Commit ==
    /\ Committing /\ ~ended
    /\ tx' = [tx EXCEPT ![Top.own].state = "committed", ![Top.own].actions = <<>>]
    /\ frame' = [frame EXCEPT ![depth].pc = "run", ![depth].err = "nil",
                    ![depth].todo = tx[Top.own].actions]
    /\ UNCHANGED <<depth, opened, written, row, ran, failed, ended, faults>>

\* Mutant: the actions run from a defer, whatever became of the commit.
CommitFailsRuns ==
    /\ Committing /\ ~ended /\ faults < MaxFaults
    /\ faults' = faults + 1
    /\ tx' = [tx EXCEPT ![Top.own].state = "undone", ![Top.own].actions = <<>>]
    /\ frame' = [frame EXCEPT ![depth].pc = "run", ![depth].err = "nil",
                    ![depth].todo = tx[Top.own].actions]
    /\ UNCHANGED <<depth, opened, written, row, ran, failed, ended>>

\* The database refuses the commit.
CommitFails ==
    /\ Committing /\ ~ended /\ faults < MaxFaults
    /\ faults' = faults + 1
    /\ Answer("undone", FALSE, "err")
    /\ UNCHANGED <<opened, written, row, ran, failed, ended>>

\* The commit takes place and its answer is lost.
CommitUnheard ==
    /\ Committing /\ ~ended /\ faults < MaxFaults
    /\ faults' = faults + 1
    /\ Answer("committed", FALSE, "err")
    /\ UNCHANGED <<opened, written, row, ran, failed, ended>>

\* A commit after the context ended: that reports the ending, or a transaction
\* done when the rollback came first.
CommitEnded ==
    /\ Committing /\ ended
    /\ Answer("undone", TRUE, Told(IF tx[Top.own].state = "open" THEN "ended" ELSE "txdone"))
    /\ UNCHANGED <<opened, written, row, ran, failed, ended, faults>>

\* Mutant: the actions get the context the function had.
OuterInner == Top.ctx

\* The context from before the boundary opened.
Outer == frame[depth - 1].ctx

\* The next action after the commit.
RunAction ==
    /\ depth > 0 /\ Top.pc = "run" /\ Top.todo # <<>>
    /\ Call(Head(Top.todo), Outer)
    /\ UNCHANGED <<opened, tx, written, row, failed, ended, faults>>

\* Mutant: the rest runs in spite of a failure.
StoppedNever(todo, e) == IF e = "panic" THEN <<>> ELSE todo

\* The first failure stops the rest.
Stopped(todo, e) == IF e = "nil" THEN todo ELSE <<>>

\* The mark is joined to the error of the action, which is still found in it.
Marked(e) ==
    CASE e \in {"nil", "panic"} -> e
      [] e \in IsTxDone -> "after txdone"
      [] OTHER -> "after"

\* An action returns, to the run it is part of or to the AfterCommit that ran
\* it at once.
ActionReturns ==
    LET below == frame[depth - 1]
    IN  /\ depth > 1 /\ Top.own = 0
        /\ \E e \in Result :
            /\ Returns(e)
            /\ frame' = [frame EXCEPT ![depth] = NoBody,
                    ![depth - 1].err = IF below.pc = "run" THEN Marked(e) ELSE e,
                    ![depth - 1].todo = Stopped(@, e)]
            /\ failed' = IF e = "nil" THEN failed ELSE failed \cup {Top.act}
        /\ depth' = depth - 1
        /\ UNCHANGED <<opened, tx, written, row, ran, ended, faults>>

\* All actions ran, or one failed.
RunEnds ==
    /\ depth > 0 /\ Top.pc = "run" /\ Top.todo = <<>>
    /\ Answer("committed", FALSE, Top.err)
    /\ UNCHANGED <<opened, written, row, ran, failed, ended, faults>>

-----------------------------------------------------------------------------
\* The request is cancelled or its time is up ...
ContextEnds ==
    /\ depth > 0 /\ ~ended
    /\ ended' = TRUE
    /\ UNCHANGED <<depth, frame, opened, tx, written, row, ran, failed, faults>>

\* ... and database/sql rolls back, on its own, what is still open.
SqlRollsBack(t) ==
    /\ ended /\ tx[t].state = "open"
    /\ tx' = [tx EXCEPT ![t].state = "undone", ![t].cut = TRUE]
    /\ UNCHANGED <<depth, frame, opened, written, row, ran, failed, ended, faults>>

Next ==
    \/ \E d \in Instance : Write(d) \/ WriteFails(d) \/ Open(d)
    \/ AfterCommit \/ OpenFails
    \/ HandlerReturns \/ BodyDone \/ Rollback
    \/ Commit \/ CommitFails \/ CommitUnheard \/ CommitEnded
    \/ RunAction \/ ActionReturns \/ RunEnds
    \/ ContextEnds \/ \E t \in Tx : SqlRollsBack(t)

Spec == Init /\ [][Next]_vars

-----------------------------------------------------------------------------
(* Properties *)

\* Every variable has its type, and a boundary that has run holds no actions.
TypeOK ==
    /\ depth \in 0 .. MaxDepth /\ opened \in 0 .. MaxTx /\ written \in 0 .. MaxRow
    /\ frame \in [Level -> Frame]
    /\ tx \in [Tx -> Boundary]
    /\ row \in [Row -> Tx \cup {0}]
    /\ ran \in Seq(Row) /\ failed \in SUBSET Row
    /\ ended \in BOOLEAN /\ faults \in 0 .. MaxFaults
    /\ \A l \in Level : frame[l].pc = "run" => tx[frame[l].own].actions = <<>>

Carried(ctx) == ({ctx.tx[d] : d \in Instance} \cup {ctx.boundary}) \ {0}

\* Nothing that runs has a context of a transaction that is over, save for the
\* one database/sql rolled back beneath its function: an action neither writes
\* through a connection that went back to the pool nor registers with a
\* boundary that has run.
NoStaleContext ==
    \A l \in 1 .. depth : frame[l].pc = "body" =>
        \A t \in Carried(frame[l].ctx) :
            \E k \in 1 .. l : frame[k].own = t /\ frame[k].pc = "body"

Durable(w) == row[w] = 0 \/ tx[row[w]].state = "committed"

\* What AfterCommit is for: an action runs only once the row it is for is
\* durable, however the transactions are nested and whatever becomes of them.
ActionsFollowData == \A i \in DOMAIN ran : Durable(ran[i])

Ran(w) == \E i \in DOMAIN ran : ran[i] = w

\* No action runs twice.  Those of a transaction run in the order they were
\* registered and none after one that failed, all of them before the caller is
\* told nil and none when it is told that the transaction failed.
RunInOrder ==
    /\ \A i, j \in DOMAIN ran : ran[i] = ran[j] => i = j
    /\ \A t \in 1 .. opened :
        LET said == tx[t].said
        IN  \A n \in DOMAIN said :
            /\ \A j \in DOMAIN ran : ran[j] = said[n] =>
                \A m \in 1 .. n - 1 :
                    said[m] \notin failed /\ \E i \in 1 .. j - 1 : ran[i] = said[m]
            /\ tx[t].answer = "nil" => Ran(said[n])
            /\ tx[t].returned = "nil" /\ tx[t].answer \in {"err", "ended"} => ~ Ran(said[n])

\* Whichever row it is for, an action registered with a boundary runs only once
\* the transaction of that boundary has committed, never on the word of an
\* outer or an inner one and never after a commit that failed.
ActionsFollowBoundary ==
    \A t \in 1 .. opened : \A n \in DOMAIN tx[t].said :
        Ran(tx[t].said[n]) => tx[t].state = "committed"

\* What the caller of a transaction is told is what became of it: nil and the
\* mark of its own actions mean it committed, and work the end of the context
\* undid is told of that end and not of a transaction done.
AnswersTrue ==
    \A t \in 1 .. opened :
        /\ tx[t].answer = "nil" => tx[t].state = "committed"
        /\ tx[t].answer \in IsAfter /\ tx[t].returned = "nil" => tx[t].state = "committed"
        /\ tx[t].answer = "ended" /\ tx[t].returned = "nil" => tx[t].state = "undone" /\ ended
        /\ tx[t].cut /\ tx[t].returned \in {"nil", "ended"} \cup IsTxDone =>
                tx[t].answer \in {"none", "ended"}

\* What is over stays as it is: nothing undoes a commit or registers with the
\* boundary whose list it took, where the action would be lost, and nothing
\* touches a transaction whose caller was told.
SettledForGood ==
    [][\A t \in Tx :
        /\ tx[t].state = "committed" =>
                tx'[t].state = "committed" /\ tx'[t].said = tx[t].said
        /\ tx[t].answer # "none" => tx'[t] = tx[t]]_vars

=============================================================================
