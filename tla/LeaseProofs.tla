---------------------------- MODULE LeaseProofs ----------------------------
(***************************************************************************)
(* Proofs about the lease protocol, for every set of claims, every horizon *)
(* and every choice of timings that satisfies TimingAssumption.  The step  *)
(* lemmas show that each conjunct of IInv survives every action; the       *)
(* theorems combine them and read the properties off IInv.                 *)
(***************************************************************************)
EXTENDS Lease, TLAPS

\* The bound of one statement never exceeds the local deadline.
LEMMA AttemptBoundFact == AttemptBound \in Nat /\ AttemptBound <= LocalDeadline
  BY TimingAssumption DEF AttemptBound

\* Every step keeps the types, and leaves an answer awaited only where one can come.
LEMMA TypeStep == TypeOK /\ [Next]_vars => TypeOK'
  <1> SUFFICES ASSUME TypeOK, [Next]_vars
               PROVE  TypeOK'
      OBVIOUS
  <1> USE TimingAssumption, HolderAssumption
  <1> USE DEF TypeOK, Row, Statement, Kind, Stage
  <1>1. ASSUME NEW s \in sent, ExecuteClaim(s)  PROVE TypeOK'
      BY <1>1 DEF ExecuteClaim, Executed, Awaited, StatementOf
  <1>2. ASSUME NEW s \in sent, ExecuteInsert(s)  PROVE TypeOK'
      BY <1>2 DEF ExecuteInsert, Executed, Awaited, StatementOf
  <1>3. ASSUME NEW s \in sent, ExecuteRenew(s)  PROVE TypeOK'
      BY <1>3 DEF ExecuteRenew, Executed, Awaited, StatementOf
  <1>4. ASSUME NEW s \in sent, ExecuteRelease(s)  PROVE TypeOK'
      BY <1>4 DEF ExecuteRelease, Executed, Awaited, StatementOf
  <1>5. CASE Tick
      BY <1>5 DEF Tick
  <1>6. ASSUME NEW h \in Holder, Claim(h)  PROVE TypeOK'
      BY <1>6 DEF Claim, Goto, Send
  <1>7. ASSUME NEW h \in Holder, ClaimWon(h)  PROVE TypeOK'
      BY <1>7 DEF ClaimWon, Goto, Forget
  <1>8. ASSUME NEW h \in Holder, ClaimMissed(h)  PROVE TypeOK'
      BY <1>8 DEF ClaimMissed, Goto, Send
  <1>9. ASSUME NEW h \in Holder, ReadTerm(h)  PROVE TypeOK'
      BY <1>9 DEF ReadTerm, Held, NotHeld, Goto, Forget
  <1>10. ASSUME NEW h \in Holder, InsertAnswered(h)  PROVE TypeOK'
      BY <1>10 DEF InsertAnswered, Held, NotHeld, Goto, Forget
  <1>11. ASSUME NEW h \in Holder, ClaimFails(h)  PROVE TypeOK'
      BY <1>11 DEF ClaimFails, NotHeld, Goto, Forget, Claiming
  <1>12. ASSUME NEW h \in Holder, RenewDue(h)  PROVE TypeOK'
      BY <1>12 DEF RenewDue, Lose, Send, Goto, Forget
  <1>13. ASSUME NEW h \in Holder, RenewSucceeds(h)  PROVE TypeOK'
      BY <1>13 DEF RenewSucceeds, AfterAttempt, Lose, Goto, Forget
  <1>14. ASSUME NEW h \in Holder, RenewFails(h)  PROVE TypeOK'
      BY <1>14 DEF RenewFails, AfterAttempt, Lose, Goto, Forget
  <1>15. ASSUME NEW h \in Holder, RenewRefused(h)  PROVE TypeOK'
      BY <1>15 DEF RenewRefused, Lose, Goto, Forget
  <1>16. ASSUME NEW h \in Holder, WorkReturns(h)  PROVE TypeOK'
      BY <1>16 DEF WorkReturns, Goto, Send, Working
  <1>17. ASSUME NEW h \in Holder, ReleaseReturns(h)  PROVE TypeOK'
      BY <1>17 DEF ReleaseReturns, NotHeld, Goto, Forget
  <1>18. ASSUME NEW h \in Holder, FailNow(h)  PROVE TypeOK'
      BY <1>18 DEF FailNow, Goto
  <1>19. ASSUME NEW h \in Holder, Exit(h)  PROVE TypeOK'
      BY <1>19 DEF Exit, NotHeld, Goto, Forget, Alive, Claiming, Working
  <1>20. ASSUME NEW h \in Holder, Pause(h)  PROVE TypeOK'
      BY <1>20 DEF Pause
  <1>21. ASSUME NEW h \in Holder, Resume(h)  PROVE TypeOK'
      BY <1>21 DEF Resume
  <1>22. CASE UNCHANGED vars
      BY <1>22 DEF vars
  <1>23. QED
      BY <1>1, <1>2, <1>3, <1>4, <1>5, <1>6, <1>7, <1>8, <1>9, <1>10, <1>11, <1>12, <1>13, <1>14,
         <1>15, <1>16, <1>17, <1>18, <1>19, <1>20, <1>21, <1>22 DEF Next, Database, Process

\* Statements on their way keep belonging to a claim that waits for them or is past them.
LEMMA SentStep == TypeOK /\ SentInv /\ TypeOK' /\ [Next]_vars => SentInv'
  <1> SUFFICES ASSUME TypeOK, SentInv, TypeOK', [Next]_vars
               PROVE  SentInv'
      OBVIOUS
  <1> USE TimingAssumption, HolderAssumption
  <1> USE DEF TypeOK, Row, Statement, Kind, Stage, SentInv
  <1>1. ASSUME NEW s \in sent, ExecuteClaim(s)  PROVE SentInv'
      BY <1>1 DEF ExecuteClaim, Executed, Awaited, StatementOf
  <1>2. ASSUME NEW s \in sent, ExecuteInsert(s)  PROVE SentInv'
      BY <1>2 DEF ExecuteInsert, Executed, Awaited, StatementOf
  <1>3. ASSUME NEW s \in sent, ExecuteRenew(s)  PROVE SentInv'
      BY <1>3 DEF ExecuteRenew, Executed, Awaited, StatementOf
  <1>4. ASSUME NEW s \in sent, ExecuteRelease(s)  PROVE SentInv'
      BY <1>4 DEF ExecuteRelease, Executed, Awaited, StatementOf
  <1>5. CASE Tick
      BY <1>5 DEF Tick
  <1>6. ASSUME NEW h \in Holder, Claim(h)  PROVE SentInv'
      BY <1>6 DEF Claim, Goto, Send
  <1>7. ASSUME NEW h \in Holder, ClaimWon(h)  PROVE SentInv'
      BY <1>7 DEF ClaimWon, Goto, Forget
  <1>8. ASSUME NEW h \in Holder, ClaimMissed(h)  PROVE SentInv'
      BY <1>8 DEF ClaimMissed, Goto, Send
  <1>9. ASSUME NEW h \in Holder, ReadTerm(h)  PROVE SentInv'
      BY <1>9 DEF ReadTerm, Held, NotHeld, Goto, Forget
  <1>10. ASSUME NEW h \in Holder, InsertAnswered(h)  PROVE SentInv'
      BY <1>10 DEF InsertAnswered, Held, NotHeld, Goto, Forget
  <1>11. ASSUME NEW h \in Holder, ClaimFails(h)  PROVE SentInv'
      BY <1>11 DEF ClaimFails, NotHeld, Goto, Forget, Claiming
  <1>12. ASSUME NEW h \in Holder, RenewDue(h)  PROVE SentInv'
      BY <1>12 DEF RenewDue, Lose, Send, Goto, Forget
  <1>13. ASSUME NEW h \in Holder, RenewSucceeds(h)  PROVE SentInv'
      BY <1>13 DEF RenewSucceeds, AfterAttempt, Lose, Goto, Forget
  <1>14. ASSUME NEW h \in Holder, RenewFails(h)  PROVE SentInv'
      BY <1>14 DEF RenewFails, AfterAttempt, Lose, Goto, Forget
  <1>15. ASSUME NEW h \in Holder, RenewRefused(h)  PROVE SentInv'
      BY <1>15 DEF RenewRefused, Lose, Goto, Forget
  <1>16. ASSUME NEW h \in Holder, WorkReturns(h)  PROVE SentInv'
      BY <1>16 DEF WorkReturns, Goto, Send, Working
  <1>17. ASSUME NEW h \in Holder, ReleaseReturns(h)  PROVE SentInv'
      BY <1>17 DEF ReleaseReturns, NotHeld, Goto, Forget
  <1>18. ASSUME NEW h \in Holder, FailNow(h)  PROVE SentInv'
      BY <1>18 DEF FailNow, Goto
  <1>19. ASSUME NEW h \in Holder, Exit(h)  PROVE SentInv'
      BY <1>19 DEF Exit, NotHeld, Goto, Forget, Alive, Claiming, Working
  <1>20. ASSUME NEW h \in Holder, Pause(h)  PROVE SentInv'
      BY <1>20 DEF Pause
  <1>21. ASSUME NEW h \in Holder, Resume(h)  PROVE SentInv'
      BY <1>21 DEF Resume
  <1>22. CASE UNCHANGED vars
      BY <1>22 DEF vars
  <1>23. QED
      BY <1>1, <1>2, <1>3, <1>4, <1>5, <1>6, <1>7, <1>8, <1>9, <1>10, <1>11, <1>12, <1>13, <1>14,
         <1>15, <1>16, <1>17, <1>18, <1>19, <1>20, <1>21, <1>22 DEF Next, Database, Process

\* A token reaches the row only through its own claim, which runs once.
LEMMA FreshStep == TypeOK /\ SentInv /\ FreshInv /\ TypeOK' /\ [Next]_vars => FreshInv'
  <1> SUFFICES ASSUME TypeOK, SentInv, FreshInv, TypeOK', [Next]_vars
               PROVE  FreshInv'
      OBVIOUS
  <1> USE TimingAssumption, HolderAssumption
  <1> USE DEF TypeOK, Row, Statement, Kind, Stage, SentInv, FreshInv, Unwon
  <1>1. ASSUME NEW s \in sent, ExecuteClaim(s)  PROVE FreshInv'
      BY <1>1 DEF ExecuteClaim, Executed, Awaited, StatementOf
  <1>2. ASSUME NEW s \in sent, ExecuteInsert(s)  PROVE FreshInv'
      BY <1>2 DEF ExecuteInsert, Executed, Awaited, StatementOf
  <1>3. ASSUME NEW s \in sent, ExecuteRenew(s)  PROVE FreshInv'
      BY <1>3 DEF ExecuteRenew, Executed, Awaited, StatementOf
  <1>4. ASSUME NEW s \in sent, ExecuteRelease(s)  PROVE FreshInv'
      BY <1>4 DEF ExecuteRelease, Executed, Awaited, StatementOf
  <1>5. CASE Tick
      BY <1>5 DEF Tick
  <1>6. ASSUME NEW h \in Holder, Claim(h)  PROVE FreshInv'
      BY <1>6 DEF Claim, Goto, Send
  <1>7. ASSUME NEW h \in Holder, ClaimWon(h)  PROVE FreshInv'
      BY <1>7 DEF ClaimWon, Goto, Forget
  <1>8. ASSUME NEW h \in Holder, ClaimMissed(h)  PROVE FreshInv'
      BY <1>8 DEF ClaimMissed, Goto, Send
  <1>9. ASSUME NEW h \in Holder, ReadTerm(h)  PROVE FreshInv'
      BY <1>9 DEF ReadTerm, Held, NotHeld, Goto, Forget
  <1>10. ASSUME NEW h \in Holder, InsertAnswered(h)  PROVE FreshInv'
      BY <1>10 DEF InsertAnswered, Held, NotHeld, Goto, Forget
  <1>11. ASSUME NEW h \in Holder, ClaimFails(h)  PROVE FreshInv'
      BY <1>11 DEF ClaimFails, NotHeld, Goto, Forget, Claiming
  <1>12. ASSUME NEW h \in Holder, RenewDue(h)  PROVE FreshInv'
      BY <1>12 DEF RenewDue, Lose, Send, Goto, Forget
  <1>13. ASSUME NEW h \in Holder, RenewSucceeds(h)  PROVE FreshInv'
      BY <1>13 DEF RenewSucceeds, AfterAttempt, Lose, Goto, Forget
  <1>14. ASSUME NEW h \in Holder, RenewFails(h)  PROVE FreshInv'
      BY <1>14 DEF RenewFails, AfterAttempt, Lose, Goto, Forget
  <1>15. ASSUME NEW h \in Holder, RenewRefused(h)  PROVE FreshInv'
      BY <1>15 DEF RenewRefused, Lose, Goto, Forget
  <1>16. ASSUME NEW h \in Holder, WorkReturns(h)  PROVE FreshInv'
      BY <1>16 DEF WorkReturns, Goto, Send, Working
  <1>17. ASSUME NEW h \in Holder, ReleaseReturns(h)  PROVE FreshInv'
      BY <1>17 DEF ReleaseReturns, NotHeld, Goto, Forget
  <1>18. ASSUME NEW h \in Holder, FailNow(h)  PROVE FreshInv'
      BY <1>18 DEF FailNow, Goto
  <1>19. ASSUME NEW h \in Holder, Exit(h)  PROVE FreshInv'
      BY <1>19 DEF Exit, NotHeld, Goto, Forget, Alive, Claiming, Working
  <1>20. ASSUME NEW h \in Holder, Pause(h)  PROVE FreshInv'
      BY <1>20 DEF Pause
  <1>21. ASSUME NEW h \in Holder, Resume(h)  PROVE FreshInv'
      BY <1>21 DEF Resume
  <1>22. CASE UNCHANGED vars
      BY <1>22 DEF vars
  <1>23. QED
      BY <1>1, <1>2, <1>3, <1>4, <1>5, <1>6, <1>7, <1>8, <1>9, <1>10, <1>11, <1>12, <1>13, <1>14,
         <1>15, <1>16, <1>17, <1>18, <1>19, <1>20, <1>21, <1>22 DEF Next, Database, Process

\* No renewal is recorded before it was attempted, and none in the future.
LEMMA ClockStep == TypeOK /\ ClockInv /\ TypeOK' /\ [Next]_vars => ClockInv'
  <1> SUFFICES ASSUME TypeOK, ClockInv, TypeOK', [Next]_vars
               PROVE  ClockInv'
      OBVIOUS
  <1> USE TimingAssumption, HolderAssumption
  <1> USE DEF TypeOK, Row, Statement, Kind, Stage, ClockInv
  <1>1. ASSUME NEW s \in sent, ExecuteClaim(s)  PROVE ClockInv'
      BY <1>1 DEF ExecuteClaim, Executed, Awaited, StatementOf
  <1>2. ASSUME NEW s \in sent, ExecuteInsert(s)  PROVE ClockInv'
      BY <1>2 DEF ExecuteInsert, Executed, Awaited, StatementOf
  <1>3. ASSUME NEW s \in sent, ExecuteRenew(s)  PROVE ClockInv'
      BY <1>3 DEF ExecuteRenew, Executed, Awaited, StatementOf
  <1>4. ASSUME NEW s \in sent, ExecuteRelease(s)  PROVE ClockInv'
      BY <1>4 DEF ExecuteRelease, Executed, Awaited, StatementOf
  <1>5. CASE Tick
      BY <1>5 DEF Tick
  <1>6. ASSUME NEW h \in Holder, Claim(h)  PROVE ClockInv'
      BY <1>6 DEF Claim, Goto, Send
  <1>7. ASSUME NEW h \in Holder, ClaimWon(h)  PROVE ClockInv'
      BY <1>7 DEF ClaimWon, Goto, Forget
  <1>8. ASSUME NEW h \in Holder, ClaimMissed(h)  PROVE ClockInv'
      BY <1>8 DEF ClaimMissed, Goto, Send
  <1>9. ASSUME NEW h \in Holder, ReadTerm(h)  PROVE ClockInv'
      BY <1>9 DEF ReadTerm, Held, NotHeld, Goto, Forget
  <1>10. ASSUME NEW h \in Holder, InsertAnswered(h)  PROVE ClockInv'
      BY <1>10 DEF InsertAnswered, Held, NotHeld, Goto, Forget
  <1>11. ASSUME NEW h \in Holder, ClaimFails(h)  PROVE ClockInv'
      BY <1>11 DEF ClaimFails, NotHeld, Goto, Forget, Claiming
  <1>12. ASSUME NEW h \in Holder, RenewDue(h)  PROVE ClockInv'
      BY <1>12 DEF RenewDue, Lose, Send, Goto, Forget
  <1>13. ASSUME NEW h \in Holder, RenewSucceeds(h)  PROVE ClockInv'
      BY <1>13 DEF RenewSucceeds, AfterAttempt, Lose, Goto, Forget
  <1>14. ASSUME NEW h \in Holder, RenewFails(h)  PROVE ClockInv'
      BY <1>14 DEF RenewFails, AfterAttempt, Lose, Goto, Forget
  <1>15. ASSUME NEW h \in Holder, RenewRefused(h)  PROVE ClockInv'
      BY <1>15 DEF RenewRefused, Lose, Goto, Forget
  <1>16. ASSUME NEW h \in Holder, WorkReturns(h)  PROVE ClockInv'
      BY <1>16 DEF WorkReturns, Goto, Send, Working
  <1>17. ASSUME NEW h \in Holder, ReleaseReturns(h)  PROVE ClockInv'
      BY <1>17 DEF ReleaseReturns, NotHeld, Goto, Forget
  <1>18. ASSUME NEW h \in Holder, FailNow(h)  PROVE ClockInv'
      BY <1>18 DEF FailNow, Goto
  <1>19. ASSUME NEW h \in Holder, Exit(h)  PROVE ClockInv'
      BY <1>19 DEF Exit, NotHeld, Goto, Forget, Alive, Claiming, Working
  <1>20. ASSUME NEW h \in Holder, Pause(h)  PROVE ClockInv'
      BY <1>20 DEF Pause
  <1>21. ASSUME NEW h \in Holder, Resume(h)  PROVE ClockInv'
      BY <1>21 DEF Resume
  <1>22. CASE UNCHANGED vars
      BY <1>22 DEF vars
  <1>23. QED
      BY <1>1, <1>2, <1>3, <1>4, <1>5, <1>6, <1>7, <1>8, <1>9, <1>10, <1>11, <1>12, <1>13, <1>14,
         <1>15, <1>16, <1>17, <1>18, <1>19, <1>20, <1>21, <1>22 DEF Next, Database, Process

\* The row stays a winner's for LeaseDuration after its last renewal was sent: no
\* claim matches before, no release of it is on its way, and its own renewals only
\* extend it.
LEMMA OwnsStep == TypeOK /\ SentInv /\ ClockInv /\ TermInv /\ OwnsInv /\ TypeOK' /\ [Next]_vars => OwnsInv'
  <1> SUFFICES ASSUME TypeOK, SentInv, ClockInv, TermInv, OwnsInv, TypeOK', [Next]_vars
               PROVE  OwnsInv'
      OBVIOUS
  <1> USE TimingAssumption, HolderAssumption
  <1> USE DEF TypeOK, Row, Statement, Kind, Stage, SentInv, ClockInv, TermInv, OwnsInv, Won, Working
  <1>1. ASSUME NEW s \in sent, ExecuteClaim(s)  PROVE OwnsInv'
      BY <1>1 DEF ExecuteClaim, Executed, Awaited, StatementOf
  <1>2. ASSUME NEW s \in sent, ExecuteInsert(s)  PROVE OwnsInv'
      BY <1>2 DEF ExecuteInsert, Executed, Awaited, StatementOf
  <1>3. ASSUME NEW s \in sent, ExecuteRenew(s)  PROVE OwnsInv'
      BY <1>3 DEF ExecuteRenew, Executed, Awaited, StatementOf
  <1>4. ASSUME NEW s \in sent, ExecuteRelease(s)  PROVE OwnsInv'
      BY <1>4 DEF ExecuteRelease, Executed, Awaited, StatementOf
  <1>5. CASE Tick
      BY <1>5 DEF Tick
  <1>6. ASSUME NEW h \in Holder, Claim(h)  PROVE OwnsInv'
      BY <1>6 DEF Claim, Goto, Send
  <1>7. ASSUME NEW h \in Holder, ClaimWon(h)  PROVE OwnsInv'
      BY <1>7 DEF ClaimWon, Goto, Forget
  <1>8. ASSUME NEW h \in Holder, ClaimMissed(h)  PROVE OwnsInv'
      BY <1>8 DEF ClaimMissed, Goto, Send
  <1>9. ASSUME NEW h \in Holder, ReadTerm(h)  PROVE OwnsInv'
      BY <1>9 DEF ReadTerm, Held, NotHeld, Goto, Forget
  <1>10. ASSUME NEW h \in Holder, InsertAnswered(h)  PROVE OwnsInv'
      BY <1>10 DEF InsertAnswered, Held, NotHeld, Goto, Forget
  <1>11. ASSUME NEW h \in Holder, ClaimFails(h)  PROVE OwnsInv'
      BY <1>11 DEF ClaimFails, NotHeld, Goto, Forget, Claiming
  <1>12. ASSUME NEW h \in Holder, RenewDue(h)  PROVE OwnsInv'
      BY <1>12 DEF RenewDue, Lose, Send, Goto, Forget
  <1>13. ASSUME NEW h \in Holder, RenewSucceeds(h)  PROVE OwnsInv'
      BY <1>13 DEF RenewSucceeds, AfterAttempt, Lose, Goto, Forget
  <1>14. ASSUME NEW h \in Holder, RenewFails(h)  PROVE OwnsInv'
      BY <1>14 DEF RenewFails, AfterAttempt, Lose, Goto, Forget
  <1>15. ASSUME NEW h \in Holder, RenewRefused(h)  PROVE OwnsInv'
      BY <1>15 DEF RenewRefused, Lose, Goto, Forget
  <1>16. ASSUME NEW h \in Holder, WorkReturns(h)  PROVE OwnsInv'
      BY <1>16 DEF WorkReturns, Goto, Send, Working
  <1>17. ASSUME NEW h \in Holder, ReleaseReturns(h)  PROVE OwnsInv'
      BY <1>17 DEF ReleaseReturns, NotHeld, Goto, Forget
  <1>18. ASSUME NEW h \in Holder, FailNow(h)  PROVE OwnsInv'
      BY <1>18 DEF FailNow, Goto
  <1>19. ASSUME NEW h \in Holder, Exit(h)  PROVE OwnsInv'
      BY <1>19 DEF Exit, NotHeld, Goto, Forget, Alive, Claiming, Working
  <1>20. ASSUME NEW h \in Holder, Pause(h)  PROVE OwnsInv'
      BY <1>20 DEF Pause
  <1>21. ASSUME NEW h \in Holder, Resume(h)  PROVE OwnsInv'
      BY <1>21 DEF Resume
  <1>22. CASE UNCHANGED vars
      BY <1>22 DEF vars
  <1>23. QED
      BY <1>1, <1>2, <1>3, <1>4, <1>5, <1>6, <1>7, <1>8, <1>9, <1>10, <1>11, <1>12, <1>13, <1>14,
         <1>15, <1>16, <1>17, <1>18, <1>19, <1>20, <1>21, <1>22 DEF Next, Database, Process

\* A claim that matches takes a term above every handle's.
LEMMA TermStep == TypeOK /\ SentInv /\ TermInv /\ TypeOK' /\ [Next]_vars => TermInv'
  <1> SUFFICES ASSUME TypeOK, SentInv, TermInv, TypeOK', [Next]_vars
               PROVE  TermInv'
      OBVIOUS
  <1> USE TimingAssumption, HolderAssumption
  <1> USE DEF TypeOK, Row, Statement, Kind, Stage, SentInv, TermInv
  <1>1. ASSUME NEW s \in sent, ExecuteClaim(s)  PROVE TermInv'
      BY <1>1 DEF ExecuteClaim, Executed, Awaited, StatementOf
  <1>2. ASSUME NEW s \in sent, ExecuteInsert(s)  PROVE TermInv'
      BY <1>2 DEF ExecuteInsert, Executed, Awaited, StatementOf
  <1>3. ASSUME NEW s \in sent, ExecuteRenew(s)  PROVE TermInv'
      BY <1>3 DEF ExecuteRenew, Executed, Awaited, StatementOf
  <1>4. ASSUME NEW s \in sent, ExecuteRelease(s)  PROVE TermInv'
      BY <1>4 DEF ExecuteRelease, Executed, Awaited, StatementOf
  <1>5. CASE Tick
      BY <1>5 DEF Tick
  <1>6. ASSUME NEW h \in Holder, Claim(h)  PROVE TermInv'
      BY <1>6 DEF Claim, Goto, Send
  <1>7. ASSUME NEW h \in Holder, ClaimWon(h)  PROVE TermInv'
      BY <1>7 DEF ClaimWon, Goto, Forget
  <1>8. ASSUME NEW h \in Holder, ClaimMissed(h)  PROVE TermInv'
      BY <1>8 DEF ClaimMissed, Goto, Send
  <1>9. ASSUME NEW h \in Holder, ReadTerm(h)  PROVE TermInv'
      BY <1>9 DEF ReadTerm, Held, NotHeld, Goto, Forget
  <1>10. ASSUME NEW h \in Holder, InsertAnswered(h)  PROVE TermInv'
      BY <1>10 DEF InsertAnswered, Held, NotHeld, Goto, Forget
  <1>11. ASSUME NEW h \in Holder, ClaimFails(h)  PROVE TermInv'
      BY <1>11 DEF ClaimFails, NotHeld, Goto, Forget, Claiming
  <1>12. ASSUME NEW h \in Holder, RenewDue(h)  PROVE TermInv'
      BY <1>12 DEF RenewDue, Lose, Send, Goto, Forget
  <1>13. ASSUME NEW h \in Holder, RenewSucceeds(h)  PROVE TermInv'
      BY <1>13 DEF RenewSucceeds, AfterAttempt, Lose, Goto, Forget
  <1>14. ASSUME NEW h \in Holder, RenewFails(h)  PROVE TermInv'
      BY <1>14 DEF RenewFails, AfterAttempt, Lose, Goto, Forget
  <1>15. ASSUME NEW h \in Holder, RenewRefused(h)  PROVE TermInv'
      BY <1>15 DEF RenewRefused, Lose, Goto, Forget
  <1>16. ASSUME NEW h \in Holder, WorkReturns(h)  PROVE TermInv'
      BY <1>16 DEF WorkReturns, Goto, Send, Working
  <1>17. ASSUME NEW h \in Holder, ReleaseReturns(h)  PROVE TermInv'
      BY <1>17 DEF ReleaseReturns, NotHeld, Goto, Forget
  <1>18. ASSUME NEW h \in Holder, FailNow(h)  PROVE TermInv'
      BY <1>18 DEF FailNow, Goto
  <1>19. ASSUME NEW h \in Holder, Exit(h)  PROVE TermInv'
      BY <1>19 DEF Exit, NotHeld, Goto, Forget, Alive, Claiming, Working
  <1>20. ASSUME NEW h \in Holder, Pause(h)  PROVE TermInv'
      BY <1>20 DEF Pause
  <1>21. ASSUME NEW h \in Holder, Resume(h)  PROVE TermInv'
      BY <1>21 DEF Resume
  <1>22. CASE UNCHANGED vars
      BY <1>22 DEF vars
  <1>23. QED
      BY <1>1, <1>2, <1>3, <1>4, <1>5, <1>6, <1>7, <1>8, <1>9, <1>10, <1>11, <1>12, <1>13, <1>14,
         <1>15, <1>16, <1>17, <1>18, <1>19, <1>20, <1>21, <1>22 DEF Next, Database, Process

\* A released row is not extended: a renewal needs the lease unexpired.
LEMMA ReleaseStep == TypeOK /\ SentInv /\ ClockInv /\ TermInv /\ ReleaseInv /\ TypeOK' /\ [Next]_vars => ReleaseInv'
  <1> SUFFICES ASSUME TypeOK, SentInv, ClockInv, TermInv, ReleaseInv, TypeOK', [Next]_vars
               PROVE  ReleaseInv'
      OBVIOUS
  <1> USE TimingAssumption, HolderAssumption
  <1> USE DEF TypeOK, Row, Statement, Kind, Stage, SentInv, ClockInv, TermInv, ReleaseInv,
     VerifyPasses
  <1>1. ASSUME NEW s \in sent, ExecuteClaim(s)  PROVE ReleaseInv'
      BY <1>1 DEF ExecuteClaim, Executed, Awaited, StatementOf
  <1>2. ASSUME NEW s \in sent, ExecuteInsert(s)  PROVE ReleaseInv'
      BY <1>2 DEF ExecuteInsert, Executed, Awaited, StatementOf
  <1>3. ASSUME NEW s \in sent, ExecuteRenew(s)  PROVE ReleaseInv'
      BY <1>3 DEF ExecuteRenew, Executed, Awaited, StatementOf
  <1>4. ASSUME NEW s \in sent, ExecuteRelease(s)  PROVE ReleaseInv'
      BY <1>4 DEF ExecuteRelease, Executed, Awaited, StatementOf
  <1>5. CASE Tick
      BY <1>5 DEF Tick
  <1>6. ASSUME NEW h \in Holder, Claim(h)  PROVE ReleaseInv'
      BY <1>6 DEF Claim, Goto, Send
  <1>7. ASSUME NEW h \in Holder, ClaimWon(h)  PROVE ReleaseInv'
      BY <1>7 DEF ClaimWon, Goto, Forget
  <1>8. ASSUME NEW h \in Holder, ClaimMissed(h)  PROVE ReleaseInv'
      BY <1>8 DEF ClaimMissed, Goto, Send
  <1>9. ASSUME NEW h \in Holder, ReadTerm(h)  PROVE ReleaseInv'
      BY <1>9 DEF ReadTerm, Held, NotHeld, Goto, Forget
  <1>10. ASSUME NEW h \in Holder, InsertAnswered(h)  PROVE ReleaseInv'
      BY <1>10 DEF InsertAnswered, Held, NotHeld, Goto, Forget
  <1>11. ASSUME NEW h \in Holder, ClaimFails(h)  PROVE ReleaseInv'
      BY <1>11 DEF ClaimFails, NotHeld, Goto, Forget, Claiming
  <1>12. ASSUME NEW h \in Holder, RenewDue(h)  PROVE ReleaseInv'
      BY <1>12 DEF RenewDue, Lose, Send, Goto, Forget
  <1>13. ASSUME NEW h \in Holder, RenewSucceeds(h)  PROVE ReleaseInv'
      BY <1>13 DEF RenewSucceeds, AfterAttempt, Lose, Goto, Forget
  <1>14. ASSUME NEW h \in Holder, RenewFails(h)  PROVE ReleaseInv'
      BY <1>14 DEF RenewFails, AfterAttempt, Lose, Goto, Forget
  <1>15. ASSUME NEW h \in Holder, RenewRefused(h)  PROVE ReleaseInv'
      BY <1>15 DEF RenewRefused, Lose, Goto, Forget
  <1>16. ASSUME NEW h \in Holder, WorkReturns(h)  PROVE ReleaseInv'
      BY <1>16 DEF WorkReturns, Goto, Send, Working
  <1>17. ASSUME NEW h \in Holder, ReleaseReturns(h)  PROVE ReleaseInv'
      BY <1>17 DEF ReleaseReturns, NotHeld, Goto, Forget
  <1>18. ASSUME NEW h \in Holder, FailNow(h)  PROVE ReleaseInv'
      BY <1>18 DEF FailNow, Goto
  <1>19. ASSUME NEW h \in Holder, Exit(h)  PROVE ReleaseInv'
      BY <1>19 DEF Exit, NotHeld, Goto, Forget, Alive, Claiming, Working
  <1>20. ASSUME NEW h \in Holder, Pause(h)  PROVE ReleaseInv'
      BY <1>20 DEF Pause
  <1>21. ASSUME NEW h \in Holder, Resume(h)  PROVE ReleaseInv'
      BY <1>21 DEF Resume
  <1>22. CASE UNCHANGED vars
      BY <1>22 DEF vars
  <1>23. QED
      BY <1>1, <1>2, <1>3, <1>4, <1>5, <1>6, <1>7, <1>8, <1>9, <1>10, <1>11, <1>12, <1>13, <1>14,
         <1>15, <1>16, <1>17, <1>18, <1>19, <1>20, <1>21, <1>22 DEF Next, Database, Process

\* Time does not pass a due timer of a prompt process, and inside its deadlines the row
\* is still the holder's.
LEMMA PromptStep == TypeOK /\ ClockInv /\ OwnsInv /\ PromptInv /\ TypeOK' /\ [Next]_vars => PromptInv'
  <1> SUFFICES ASSUME TypeOK, ClockInv, OwnsInv, PromptInv, TypeOK', [Next]_vars
               PROVE  PromptInv'
      OBVIOUS
  <1> USE TimingAssumption, HolderAssumption, AttemptBoundFact
  <1> USE DEF TypeOK, Row, Statement, Kind, Stage, ClockInv, OwnsInv, Won, PromptInv, Running,
     Claiming, Working
  <1>1. ASSUME NEW s \in sent, ExecuteClaim(s)  PROVE PromptInv'
      BY <1>1 DEF ExecuteClaim, Executed, Awaited, StatementOf
  <1>2. ASSUME NEW s \in sent, ExecuteInsert(s)  PROVE PromptInv'
      BY <1>2 DEF ExecuteInsert, Executed, Awaited, StatementOf
  <1>3. ASSUME NEW s \in sent, ExecuteRenew(s)  PROVE PromptInv'
      BY <1>3 DEF ExecuteRenew, Executed, Awaited, StatementOf
  <1>4. ASSUME NEW s \in sent, ExecuteRelease(s)  PROVE PromptInv'
      BY <1>4 DEF ExecuteRelease, Executed, Awaited, StatementOf
  <1>5. CASE Tick
      BY <1>5 DEF Tick, Due, NextRenewal, AttemptEnds, MinOf
  <1>6. ASSUME NEW h \in Holder, Claim(h)  PROVE PromptInv'
      BY <1>6 DEF Claim, Goto, Send
  <1>7. ASSUME NEW h \in Holder, ClaimWon(h)  PROVE PromptInv'
      BY <1>7 DEF ClaimWon, Goto, Forget
  <1>8. ASSUME NEW h \in Holder, ClaimMissed(h)  PROVE PromptInv'
      BY <1>8 DEF ClaimMissed, Goto, Send
  <1>9. ASSUME NEW h \in Holder, ReadTerm(h)  PROVE PromptInv'
      BY <1>9 DEF ReadTerm, Held, NotHeld, Goto, Forget
  <1>10. ASSUME NEW h \in Holder, InsertAnswered(h)  PROVE PromptInv'
      BY <1>10 DEF InsertAnswered, Held, NotHeld, Goto, Forget
  <1>11. ASSUME NEW h \in Holder, ClaimFails(h)  PROVE PromptInv'
      BY <1>11 DEF ClaimFails, NotHeld, Goto, Forget, Claiming
  <1>12. ASSUME NEW h \in Holder, RenewDue(h)  PROVE PromptInv'
      BY <1>12 DEF RenewDue, Lose, Send, Goto, Forget
  <1>13. ASSUME NEW h \in Holder, RenewSucceeds(h)  PROVE PromptInv'
      BY <1>13 DEF RenewSucceeds, AfterAttempt, Lose, Goto, Forget
  <1>14. ASSUME NEW h \in Holder, RenewFails(h)  PROVE PromptInv'
      BY <1>14 DEF RenewFails, AfterAttempt, Lose, Goto, Forget
  <1>15. ASSUME NEW h \in Holder, RenewRefused(h)  PROVE PromptInv'
      BY <1>15 DEF RenewRefused, Lose, Goto, Forget
  <1>16. ASSUME NEW h \in Holder, WorkReturns(h)  PROVE PromptInv'
      BY <1>16 DEF WorkReturns, Goto, Send, Working
  <1>17. ASSUME NEW h \in Holder, ReleaseReturns(h)  PROVE PromptInv'
      BY <1>17 DEF ReleaseReturns, NotHeld, Goto, Forget
  <1>18. ASSUME NEW h \in Holder, FailNow(h)  PROVE PromptInv'
      BY <1>18 DEF FailNow, Goto
  <1>19. ASSUME NEW h \in Holder, Exit(h)  PROVE PromptInv'
      BY <1>19 DEF Exit, NotHeld, Goto, Forget, Alive, Claiming, Working
  <1>20. ASSUME NEW h \in Holder, Pause(h)  PROVE PromptInv'
      BY <1>20 DEF Pause
  <1>21. ASSUME NEW h \in Holder, Resume(h)  PROVE PromptInv'
      BY <1>21 DEF Resume
  <1>22. CASE UNCHANGED vars
      BY <1>22 DEF vars
  <1>23. QED
      BY <1>1, <1>2, <1>3, <1>4, <1>5, <1>6, <1>7, <1>8, <1>9, <1>10, <1>11, <1>12, <1>13, <1>14,
         <1>15, <1>16, <1>17, <1>18, <1>19, <1>20, <1>21, <1>22 DEF Next, Database, Process

-----------------------------------------------------------------------------
\* IInv is inductive, so it holds in every reachable state.
THEOREM Invariance == Spec => []IInv
  <1>1. Init => IInv
      BY TimingAssumption, HolderAssumption, AttemptBoundFact
      DEF Init, IInv, TypeOK, Row, Stage, SentInv, FreshInv, Unwon, ClockInv, OwnsInv, Won,
          Working, TermInv, ReleaseInv, VerifyPasses, PromptInv, Claiming
  <1>2. IInv /\ [Next]_vars => IInv'
      BY TypeStep, SentStep, FreshStep, ClockStep, OwnsStep, TermStep, ReleaseStep, PromptStep
      DEF IInv
  <1>3. QED
      BY <1>1, <1>2, PTL DEF Spec

\* Types hold: no caller is left waiting for a statement it no longer has.
THEOREM TypeCorrectness == Spec => []TypeOK
  BY Invariance, PTL DEF IInv

\* A claim in charge owns an unexpired row: its deadline comes before the expiry its
\* last renewal wrote.
LEMMA InChargeOwns ==
    ASSUME IInv, NEW h \in Holder, InCharge(h)
    PROVE  VerifyPasses(h) /\ term[h] = row.term
  <1>1. now < last[h] + LeaseDuration /\ Won(h)
      BY TimingAssumption DEF IInv, TypeOK, InCharge, Won, Working
  <1>2. row.holder = h /\ row.expires > now
      BY <1>1, TimingAssumption DEF IInv, TypeOK, Row, OwnsInv
  <1>3. QED
      BY <1>2 DEF IInv, TermInv, InCharge, VerifyPasses

\* Transactions of a holder in charge pass the guard.
THEOREM Verification == Spec => []InChargePassesVerify
  <1>1. IInv => InChargePassesVerify
      BY InChargeOwns DEF InChargePassesVerify
  <1>2. QED
      BY <1>1, Invariance, PTL

\* At most one claim is in charge: the row has one holder.
THEOREM MutualExclusion == Spec => []OneInCharge
  <1>1. IInv => OneInCharge
      BY InChargeOwns DEF OneInCharge, VerifyPasses
  <1>2. QED
      BY <1>1, Invariance, PTL

\* The claim in charge carries the highest term on any handle.
THEOREM Fencing == Spec => []InChargeFences
  <1>1. ASSUME IInv, NEW h \in Holder, NEW k \in Holder, InCharge(h), k # h
        PROVE  term[k] < term[h]
    <2>1. row.holder = h /\ term[h] = row.term
        BY <1>1, InChargeOwns DEF VerifyPasses
    <2>2. row.term # 0
        BY <1>1, <2>1, HolderAssumption DEF IInv, TermInv
    <2>3. term[k] <= row.term /\ term[k] # row.term
        BY <1>1, <2>1, <2>2 DEF IInv, TermInv
    <2>4. QED
        BY <1>1, <2>1, <2>3 DEF IInv, TypeOK, Row
  <1>2. IInv => InChargeFences
      BY <1>1 DEF InChargeFences
  <1>3. QED
      BY <1>2, Invariance, PTL

\* A successful release is final.
THEOREM ReleaseFinal == Spec => []ReleasedStaysFree
  <1>1. IInv => ReleasedStaysFree
      BY DEF IInv, ReleaseInv, ReleasedStaysFree
  <1>2. QED
      BY <1>1, Invariance, PTL

\* A prompt holder hears of a loss from its own deadline, never from the database.
THEOREM PromptSafety == Spec => []PromptNeverRefused
  <1>1. ASSUME IInv, NEW h \in Holder, pace[h] = "prompt", stage[h] = "reading"
        PROVE  row.holder = h
    <2>1. now <= last[h] + AttemptBound
        BY <1>1 DEF IInv, PromptInv, Claiming
    <2>2. now < last[h] + LeaseDuration
        BY <1>1, <2>1, AttemptBoundFact, TimingAssumption DEF IInv, TypeOK
    <2>3. QED
        BY <1>1, <2>2 DEF IInv, OwnsInv, Won
  <1>2. IInv => PromptNeverRefused
      BY <1>1 DEF IInv, PromptInv, PromptNeverRefused
  <1>3. QED
      BY <1>2, Invariance, PTL

\* Work of prompt processes overlaps only where one of them is failing for it.
THEOREM PromptExclusion == Spec => []PromptWorkAlone
  <1> DEFINE Over(l) == \/ stage[l] = "failing"
                        \/ stage[l] = "lost" /\ now >= lostAt[l] + StepDownGrace
  <1>1. ASSUME IInv, NEW l \in Holder, pace[l] = "prompt", stage[l] \in Working, ~Over(l)
        PROVE  row.holder = l
    <2>1. now < last[l] + LeaseDuration
        BY <1>1, TimingAssumption DEF IInv, TypeOK, PromptInv, Working
    <2>2. QED
        BY <1>1, <2>1 DEF IInv, OwnsInv, Won
  <1>2. IInv => PromptWorkAlone
      BY <1>1 DEF PromptWorkAlone
  <1>3. QED
      BY <1>2, Invariance, PTL

-----------------------------------------------------------------------------
\* The mapped owner is nobody or the row's holder.
LEMMA OwnerFact ==
    ASSUME IInv
    PROVE  \/ Owner = NoHolder /\ \A h \in Holder : ~InCharge(h)
           \/ Owner \in Holder /\ InCharge(Owner) /\ Owner = row.holder /\ row.expires > now
  <1>1. CASE \E h \in Holder : InCharge(h)
    <2>1. Owner \in Holder /\ InCharge(Owner)
        BY <1>1 DEF Owner
    <2>2. QED
        BY <2>1, InChargeOwns DEF VerifyPasses
  <1>2. CASE ~ \E h \in Holder : InCharge(h)
      BY <1>2 DEF Owner
  <1>3. QED
      BY <1>1, <1>2

\* The same, as a fact of every state.
LEMMA OwnerIsRowHolder == IInv => Owner \in {NoHolder, row.holder}
  BY OwnerFact

\* A claim or an insert changes the row only while nobody is in charge, and puts
\* nobody in charge itself.
LEMMA WinStep ==
    ASSUME IInv, IInv', NEW s \in sent, ExecuteClaim(s) \/ ExecuteInsert(s),
           row' # row
    PROVE  Abstract!Win(s.by)
  <1>1. /\ row'.holder = s.by /\ row'.term = row.term + 1
        /\ row.expires <= now \/ row.term = 0
        /\ UNCHANGED <<now, stage, last>>
      BY DEF ExecuteClaim, ExecuteInsert, Executed, IInv, TypeOK, Row
  <1>2. Owner = NoHolder /\ \A h \in Holder : ~InCharge(h)
    <2>1. ~(Owner \in Holder /\ Owner = row.holder /\ row.expires > now)
        BY <1>1, HolderAssumption DEF IInv, TermInv, TypeOK, Row
    <2>2. QED
        BY <2>1, OwnerFact
  <1>3. Owner' = NoHolder
      BY <1>1, <1>2 DEF Owner, InCharge
  <1>4. s.by # row.holder
      BY DEF ExecuteClaim, ExecuteInsert, IInv, FreshInv
  <1>5. QED
      BY <1>1, <1>2, <1>3, <1>4 DEF Abstract!Win

\* The lease protocol implements the abstract one-holder lease.
THEOREM Refinement == Spec => ImplementsOneHolder
  <1>1. Init => Abstract!Init
    <2>1. ASSUME Init PROVE \A h \in Holder : ~InCharge(h)
        BY <2>1 DEF Init, InCharge
    <2>2. QED
        BY <2>1 DEF Init, Abstract!Init, Owner
  <1>2. IInv /\ IInv' /\ [Next]_vars => [Abstract!Next]_(Abstract!vars)
    <2> SUFFICES ASSUME IInv, IInv', [Next]_vars
                 PROVE  [Abstract!Next]_(Abstract!vars)
        OBVIOUS
    <2>1. CASE row'.holder = row.holder /\ row'.term = row.term
      <3>1. Owner \in {NoHolder, row.holder}
          BY OwnerIsRowHolder
      <3>2. (Owner \in {NoHolder, row.holder})'
          BY OwnerIsRowHolder, PTL
      <3>3. QED
          BY <2>1, <3>1, <3>2 DEF Abstract!Next, Abstract!TakeCharge, Abstract!StepDown, Abstract!vars
    <2>2. CASE \E s \in sent : row' # row /\ (ExecuteClaim(s) \/ ExecuteInsert(s))
      <3>1. PICK s \in sent : row' # row /\ (ExecuteClaim(s) \/ ExecuteInsert(s))
          BY <2>2
      <3>2. Abstract!Win(s.by) /\ s.by \in Holder
          BY <3>1, WinStep DEF IInv, TypeOK, Statement
      <3>3. QED
          BY <3>2 DEF Abstract!Next
    <2>3. \/ row'.holder = row.holder /\ row'.term = row.term
          \/ \E s \in sent : row' # row /\ (ExecuteClaim(s) \/ ExecuteInsert(s))
      <3>1. ASSUME NEW s \in sent, ExecuteRenew(s) \/ ExecuteRelease(s)
            PROVE  row'.holder = row.holder /\ row'.term = row.term
          BY <3>1 DEF ExecuteRenew, ExecuteRelease, IInv, TypeOK, Row
      <3>2. ASSUME NEW s \in sent, ExecuteClaim(s) \/ ExecuteInsert(s), row' = row
            PROVE  row'.holder = row.holder /\ row'.term = row.term
          BY <3>2
      <3>3. ASSUME Tick \/ (\E h \in Holder : Process(h)) \/ UNCHANGED vars
            PROVE  row' = row
          BY <3>3 DEF Tick, Process, Claim, ClaimWon, ClaimMissed, ReadTerm, InsertAnswered,
             ClaimFails, RenewDue, RenewSucceeds, RenewFails, AfterAttempt, RenewRefused,
             WorkReturns, ReleaseReturns, FailNow, Exit, Pause, Resume, Held, NotHeld, vars
      <3>4. QED
          BY <3>1, <3>2, <3>3 DEF Next, Database
    <2>4. QED
        BY <2>1, <2>2, <2>3
  <1>3. QED
      BY <1>1, <1>2, Invariance, PTL DEF Spec, ImplementsOneHolder, Abstract!Spec

=============================================================================
