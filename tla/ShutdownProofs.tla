--------------------------- MODULE ShutdownProofs ---------------------------
(***************************************************************************)
(* The safety of Shutdown for any components, any start order that has the *)
(* providers first and any number of signals.  The temporal properties     *)
(* stay with TLC.                                                          *)
(***************************************************************************)
EXTENDS Shutdown, TLAPS

\* Phases before the teardown, and the cleanups before Stop.
Before == {"bootstrap", "ready", "waiting", "seeding", "seeded", "starting",
           "serving", "leaving", "draining"}
Early  == {"none", "listeners", "lifecycle"}

\* Run is past its registration of stopLifecycle.
InRun == {"waiting", "seeding", "seeded", "starting", "serving", "leaving",
          "draining", "cleaning", "bounded", "exited", "gaveUp"}

\* What Run returns and what failed.
Reported ==
    /\ phase \in Left /\ err = "nil" => failure = "none"
    /\ err # "nil" => broke \/ phase \in {"seeded", "killed"}
    /\ failure # "none" \/ failing \/ failedNow = "lease" => broke
    /\ failedNow = "lease" => failing \/ failure # "none"

\* The teardown starts after everything else and unwinds in its order.
Ordered ==
    /\ phase \in Before => unwinding = "none"
    /\ phase = "exited" => unwinding = "done"
    /\ phase \in InRun => "lifecycle" \in stack
    /\ unwinding \in Early => stopping = {}
    /\ unwinding \in {"stop", "clients", "done"} => running = {} /\ ~ process
    /\ unwinding \in {"clients", "done"} => stopping = {}

\* Who holds what: a client is open only while Stop has still to close it, and
\* work that Stop no longer waits for has returned or was given up.
Held ==
    /\ \A p \in Provider :
          /\ client[p] = "open" => p \in running \cup stopping
          /\ unwinding \in Early => client[p] \in {"none", "open"}
    /\ \A w \in Worker : work[w] = "running" =>
          /\ unwinding \in Early => w \in running
          /\ unwinding \notin Early => w \in stopping \/ StopContextEnded

ProcessInv ==
    /\ TypeOK
    /\ Reported
    /\ Ordered
    /\ Held
    /\ ProvidersOutliveWork

-----------------------------------------------------------------------------
(* Types: the flags apart from the rest, as the provers want them.         *)

Flags ==
    /\ process \in BOOLEAN /\ failing \in BOOLEAN /\ starting \in BOOLEAN
    /\ sigCh \in BOOLEAN /\ watcher \in BOOLEAN /\ window \in BOOLEAN
    /\ hurried \in BOOLEAN /\ broke \in BOOLEAN

Places ==
    /\ phase \in Phase
    /\ err \in {"nil", "start", "listener"} \cup (Reason \ {"none"})
    /\ running \subseteq Component /\ stopping \subseteq Component
    /\ work \in [Worker -> {"idle", "running", "returned"}]
    /\ client \in [Provider -> {"none", "open", "closing", "closed"}]
    /\ failure \in Reason /\ failedNow \in Reason
    /\ listen \in {"none", "start", "both", "channel"}
    /\ unwinding \in Cleanup \cup {"none", "stop", "done"}
    /\ stack \subseteq Cleanup
    /\ signals \in 0..MaxSignals

\* TypeOK is the two together.
LEMMA TypeParts == TypeOK <=> Flags /\ Places
  BY DEF TypeOK, Flags, Places

\* Every step keeps the flags Boolean.
LEMMA FlagsStep == ASSUME Flags, Next PROVE Flags'
<1>1. CASE Startup
  BY <1>1, ZenonT(60)
  DEF Startup, StartProvider, StartWorker, SeedReturns, BootstrapFails,
      ProvidersUp, EnterRun, TablesReady, TablesFail, ReadOutcome,
      WorkerStartFails, Serve, Clean, Flags, failures, signaled, teardown
<1>2. CASE Run
  BY <1>2, ZenonT(60)
  DEF Run, AwaitShutdown, CancelProcess, AwaitDrain, Unwound, BoundTeardown,
      GiveUp, Clean, Flags, failures, signaled, teardown
<1>3. CASE Teardown
  BY <1>3, ZenonT(60)
  DEF Teardown, StopListeners, StopLifecycle, WindowOver, Stopped, StopWorker,
      CloseProvider, StopProvider, Unwinds, Flags, failures, signaled,
      teardown
<1>4. CASE Others
  BY <1>4, ZenonT(60)
  DEF Others, ProviderCloses, WorkReturns, FailNow, FailNowFails, Signal,
      SecondSignal, CloseClients, Fail, AbandonWaits, Unwinds, Alive, Flags,
      failures, signaled, teardown
<1> QED
  BY <1>1, <1>2, <1>3, <1>4 DEF Next

\* Every step keeps the rest in its sets.
LEMMA PlacesStep == ASSUME Places, Next PROVE Places'
<1> USE SignalAssumption
    DEF Places, Phase, Reason, Cleanup, Component, failures, signaled, teardown
<1>1. ASSUME NEW p \in Provider, StartProvider(p) PROVE Places'
  BY <1>1 DEF StartProvider, NextOf
<1>2. CASE BootstrapFails
  BY <1>2 DEF BootstrapFails
<1>3. CASE ProvidersUp
  BY <1>3 DEF ProvidersUp
<1>4. CASE EnterRun
  BY <1>4 DEF EnterRun
<1>5. CASE TablesReady
  BY <1>5 DEF TablesReady
<1>6. CASE TablesFail
  BY <1>6 DEF TablesFail, Clean
<1>7. ASSUME NEW e \in {"nil", "start"}, SeedReturns(e) PROVE Places'
  BY <1>7 DEF SeedReturns
<1>8. CASE ReadOutcome
  BY <1>8 DEF ReadOutcome, Clean
<1>9. ASSUME NEW w \in Worker, StartWorker(w) PROVE Places'
  BY <1>9 DEF StartWorker, NextOf
<1>10. CASE WorkerStartFails
  BY <1>10 DEF WorkerStartFails, Clean
<1>11. CASE Serve
  BY <1>11 DEF Serve
<1>12. CASE AwaitShutdown
  BY <1>12 DEF AwaitShutdown
<1>13. CASE CancelProcess
  BY <1>13 DEF CancelProcess
<1>14. CASE AwaitDrain
  BY <1>14 DEF AwaitDrain, Clean
<1>15. CASE Unwound
  BY <1>15 DEF Unwound, ExitError
<1>16. CASE BoundTeardown
  BY <1>16 DEF BoundTeardown
<1>17. CASE GiveUp
  BY <1>17 DEF GiveUp, ExitError
<1>18. CASE StopListeners
  BY <1>18 DEF StopListeners
<1>19. CASE StopLifecycle
  BY <1>19 DEF StopLifecycle
<1>20. CASE WindowOver
  BY <1>20 DEF WindowOver
<1>21. ASSUME NEW w \in Worker, StopWorker(w) PROVE Places'
  BY <1>21 DEF StopWorker
<1>22. ASSUME NEW p \in Provider, CloseProvider(p) PROVE Places'
  BY <1>22 DEF CloseProvider
<1>23. ASSUME NEW p \in Provider, ProviderCloses(p) PROVE Places'
  BY <1>23 DEF ProviderCloses
<1>24. ASSUME NEW p \in Provider, StopProvider(p) PROVE Places'
  BY <1>24 DEF StopProvider
<1>25. CASE Stopped
  BY <1>25 DEF Stopped
<1>26. CASE CloseClients
  BY <1>26 DEF CloseClients
<1>27. ASSUME NEW w \in Worker, WorkReturns(w) PROVE Places'
  BY <1>27 DEF WorkReturns, Fail
<1>28. ASSUME NEW w \in Worker, FailNow(w) PROVE Places'
  BY <1>28 DEF FailNow
<1>29. CASE FailNowFails
  BY <1>29 DEF FailNowFails, Fail
<1>30. CASE Signal
  BY <1>30 DEF Signal
<1>31. CASE SecondSignal
  BY <1>31 DEF SecondSignal, AbandonWaits
<1> QED
  BY Next, <1>1, <1>2, <1>3, <1>4, <1>5, <1>6, <1>7, <1>8, <1>9, <1>10, <1>11,
     <1>12, <1>13, <1>14, <1>15, <1>16, <1>17, <1>18, <1>19, <1>20, <1>21,
     <1>22, <1>23, <1>24, <1>25, <1>26, <1>27, <1>28, <1>29, <1>30, <1>31
  DEF Next, Startup, Run, Teardown, Others

-----------------------------------------------------------------------------
(* The inductive invariant.                                                *)

\* Run still returns what failed, and only that.
LEMMA ReportedStep == ASSUME ProcessInv, Next PROVE Reported'
<1> USE RankAssumption
    DEF ProcessInv, TypeOK, Reported, Ordered, Held, ProvidersOutliveWork,
        Phase, Reason, Cleanup, Component, failures, signaled, teardown, Left
<1>1. CASE Startup
  BY <1>1, SMTT(60)
  DEF Startup, StartProvider, StartWorker, SeedReturns, BootstrapFails,
      ProvidersUp, EnterRun, TablesReady, TablesFail, ReadOutcome,
      WorkerStartFails, Serve, NextOf, Clean
<1>2. CASE Run
  BY <1>2, SMTT(60)
  DEF Run, AwaitShutdown, CancelProcess, AwaitDrain, Unwound, BoundTeardown,
      GiveUp, Clean, ExitError
<1>3. CASE Teardown
  BY <1>3, SMTT(60)
  DEF Teardown, StopListeners, StopLifecycle, WindowOver, Stopped, StopWorker,
      CloseProvider, StopProvider, Unwinds, LastOf, ProviderDone,
      StopContextEnded
<1>4. CASE Others
  BY <1>4, SMTT(60)
  DEF Others, ProviderCloses, WorkReturns, FailNow, FailNowFails, Signal,
      SecondSignal, CloseClients, Fail, AbandonWaits, Unwinds, Alive, Gone
<1> QED
  BY <1>1, <1>2, <1>3, <1>4 DEF Next

\* The teardown keeps its order.
LEMMA OrderedStep == ASSUME ProcessInv, Next PROVE Ordered'
<1> USE RankAssumption
    DEF ProcessInv, TypeOK, Reported, Ordered, Held, ProvidersOutliveWork,
        Phase, Reason, Cleanup, Component, failures, signaled, teardown, Before,
        Early, InRun, Left
<1>1. CASE Startup
  BY <1>1, SMTT(60)
  DEF Startup, StartProvider, StartWorker, SeedReturns, BootstrapFails,
      ProvidersUp, EnterRun, TablesReady, TablesFail, ReadOutcome,
      WorkerStartFails, Serve, NextOf, Clean
<1>2. CASE Run
  BY <1>2, SMTT(60)
  DEF Run, AwaitShutdown, CancelProcess, AwaitDrain, Unwound, BoundTeardown,
      GiveUp, Clean, ExitError
<1>3. CASE Teardown
  BY <1>3, SMTT(60)
  DEF Teardown, StopListeners, StopLifecycle, WindowOver, Stopped, StopWorker,
      CloseProvider, StopProvider, Unwinds, LastOf, ProviderDone,
      StopContextEnded
<1>4. CASE Others
  BY <1>4, SMTT(60)
  DEF Others, ProviderCloses, WorkReturns, FailNow, FailNowFails, Signal,
      SecondSignal, CloseClients, Fail, AbandonWaits, Unwinds, Alive, Gone
<1> QED
  BY <1>1, <1>2, <1>3, <1>4 DEF Next

\* Nothing open or running escapes Stop.
LEMMA HeldStep == ASSUME ProcessInv, Next PROVE Held'
<1> USE RankAssumption
    DEF ProcessInv, TypeOK, Reported, Ordered, Held, ProvidersOutliveWork,
        Phase, Reason, Cleanup, Component, failures, signaled, teardown, Before,
        Early, InRun, StopContextEnded
<1>1. CASE Startup
  BY <1>1, SMTT(60)
  DEF Startup, StartProvider, StartWorker, SeedReturns, BootstrapFails,
      ProvidersUp, EnterRun, TablesReady, TablesFail, ReadOutcome,
      WorkerStartFails, Serve, NextOf, Clean
<1>2. CASE Run
  BY <1>2, SMTT(60)
  DEF Run, AwaitShutdown, CancelProcess, AwaitDrain, Unwound, BoundTeardown,
      GiveUp, Clean, ExitError
<1>3. CASE Teardown
  BY <1>3, SMTT(60)
  DEF Teardown, StopListeners, StopLifecycle, WindowOver, Stopped, StopWorker,
      CloseProvider, StopProvider, Unwinds, LastOf, ProviderDone,
      StopContextEnded
<1>4. CASE Others
  BY <1>4, SMTT(60)
  DEF Others, ProviderCloses, WorkReturns, FailNow, FailNowFails, Signal,
      SecondSignal, CloseClients, Fail, AbandonWaits, Unwinds, Alive, Gone
<1> QED
  BY <1>1, <1>2, <1>3, <1>4 DEF Next

\* Providers are still closed after their users.
LEMMA OutliveStep == ASSUME ProcessInv, Next PROVE ProvidersOutliveWork'
<1> USE RankAssumption
    DEF ProcessInv, TypeOK, Reported, Ordered, Held, ProvidersOutliveWork,
        Phase, Reason, Cleanup, Component, failures, signaled, teardown, Before,
        Early, StopContextEnded
<1>1. CASE Startup
  BY <1>1, SMTT(60)
  DEF Startup, StartProvider, StartWorker, SeedReturns, BootstrapFails,
      ProvidersUp, EnterRun, TablesReady, TablesFail, ReadOutcome,
      WorkerStartFails, Serve, NextOf, Clean
<1>2. CASE Run
  BY <1>2, SMTT(60)
  DEF Run, AwaitShutdown, CancelProcess, AwaitDrain, Unwound, BoundTeardown,
      GiveUp, Clean, ExitError
<1>3. CASE Teardown
  BY <1>3, SMTT(60)
  DEF Teardown, StopListeners, StopLifecycle, WindowOver, Stopped, StopWorker,
      CloseProvider, StopProvider, Unwinds, LastOf, ProviderDone,
      StopContextEnded
<1>4. CASE Others
  BY <1>4, SMTT(60)
  DEF Others, ProviderCloses, WorkReturns, FailNow, FailNowFails, Signal,
      SecondSignal, CloseClients, Fail, AbandonWaits, Unwinds, Alive, Gone
<1> QED
  BY <1>1, <1>2, <1>3, <1>4 DEF Next

\* The invariant holds as the process starts.
LEMMA InitInv == Init => ProcessInv
<1>1. Init => Flags
  BY Zenon DEF Init, Flags
<1>2. Init => Places
  BY SignalAssumption DEF Init, Places, Phase, Reason, Cleanup, Component
<1>3. Init => Reported /\ Ordered /\ Held /\ ProvidersOutliveWork
  BY DEF Init, Reported, Ordered, Held, ProvidersOutliveWork, Left, Before, Early, InRun
<1> QED
  BY <1>1, <1>2, <1>3, TypeParts DEF ProcessInv

\* Every step preserves it.
LEMMA StepInv == ProcessInv /\ [Next]_vars => ProcessInv'
<1>1. ASSUME ProcessInv, Next PROVE ProcessInv'
  <2>1. Flags /\ Places
    BY <1>1, TypeParts DEF ProcessInv
  <2>2. Flags' /\ Places'
    BY <1>1, <2>1, FlagsStep, PlacesStep
  <2>3. TypeOK'
    BY <2>2, TypeParts, PTL
  <2> QED
    BY <1>1, <2>3, ReportedStep, OrderedStep, HeldStep, OutliveStep DEF ProcessInv
<1>2. ASSUME ProcessInv, UNCHANGED vars PROVE ProcessInv'
  <2> USE DEF vars
  <2>1. TypeOK'
    BY <1>2 DEF ProcessInv, TypeOK
  <2>2. Reported' /\ Ordered'
    BY <1>2 DEF ProcessInv, Reported, Ordered
  <2>3. Held' /\ ProvidersOutliveWork'
    BY <1>2 DEF ProcessInv, Held, ProvidersOutliveWork, StopContextEnded
  <2> QED
    BY <2>1, <2>2, <2>3 DEF ProcessInv
<1> QED
  BY <1>1, <1>2

\* ProcessInv holds throughout the life of the process.
THEOREM ProcessInvariance == Spec => []ProcessInv
<1> QED
  BY InitInv, StepInv, PTL DEF Spec

-----------------------------------------------------------------------------
(* What it gives.                                                          *)

\* TypeOK: the state of the process stays well formed.
THEOREM ProcessTypeCorrectness == Spec => []TypeOK
<1>1. ProcessInv => TypeOK
  BY DEF ProcessInv
<1> QED
  BY <1>1, ProcessInvariance, PTL

\* FailureIsReported: Run never returns nil over a recorded failure, whatever
\* awaitShutdown picked and whenever the failure came.
THEOREM FailureReporting == Spec => []FailureIsReported
<1>1. ProcessInv => FailureIsReported
  BY DEF ProcessInv, Reported, FailureIsReported
<1> QED
  BY <1>1, ProcessInvariance, PTL

\* SignalsExitClean: signals alone never make Run fail (AbandonWaits).
THEOREM CleanSignals == Spec => []SignalsExitClean
<1>1. ProcessInv => SignalsExitClean
  BY DEF ProcessInv, Reported, SignalsExitClean, Left
<1> QED
  BY <1>1, ProcessInvariance, PTL

\* FailNowIsReported: a process that failed now leaves with an error, or is gone
\* between the two calls of FailNow.
THEOREM FailNowReporting == Spec => []FailNowIsReported
<1>1. ProcessInv => FailNowIsReported
  BY DEF ProcessInv, Reported, FailNowIsReported
<1> QED
  BY <1>1, ProcessInvariance, PTL

\* ProvidersOutliveWork: Stop closes a provider under running work only once it
\* has given up on the work.
THEOREM ProvidersLast == Spec => []ProvidersOutliveWork
<1>1. ProcessInv => ProvidersOutliveWork
  BY DEF ProcessInv
<1> QED
  BY <1>1, ProcessInvariance, PTL

\* StartedAreStopped: a teardown that ran to its end closed every provider and
\* asked every worker to return, whatever way Run took.
THEOREM NothingLeftRunning == Spec => []StartedAreStopped
<1>1. ProcessInv => StartedAreStopped
  BY DEF ProcessInv, Ordered, Held, StartedAreStopped
<1> QED
  BY <1>1, ProcessInvariance, PTL
=============================================================================
