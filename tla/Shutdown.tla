------------------------------ MODULE Shutdown ------------------------------
(***************************************************************************)
(* The life of one process: bootstrap.Bootstrap and bootstrap.Run, the     *)
(* component lifecycle of internal/lifecycle and the long-running work of  *)
(* the component package.                                                  *)
(*                                                                         *)
(* Run goes through its phases on one goroutine while the workers run, end *)
(* too early or lose a lease on theirs, a watcher reads a second signal,   *)
(* and clean unwinds the cleanup stack on another.  A provider's Stop, a   *)
(* worker and the close of a backbone client may never return; the stop    *)
(* window and the bound on a teardown that failed now always run out.      *)
(* Components start in name order within their stage, providers first, so  *)
(* Rank is the start order.  MaxSignals bounds the signals sent.           *)
(***************************************************************************)
EXTENDS Naturals

CONSTANTS
    Provider,   \* the components of StageProvider
    Worker,     \* the components of StageComponent, each with its work
    Rank,       \* the start order
    MaxSignals  \* the modelling bound of the signals

Component == Provider \cup Worker

ASSUME RankAssumption ==
    /\ Provider \cap Worker = {}
    /\ Rank \in [Component -> Nat]
    /\ \A c, d \in Component : Rank[c] = Rank[d] => c = d
    /\ \A p \in Provider, w \in Worker : Rank[p] < Rank[w]

ASSUME SignalAssumption == MaxSignals \in Nat

VARIABLES
    phase,      \* where the main goroutine is
    err,        \* what Run is about to return
    running,    \* the components started and not handed to Stop
    work,       \* the goroutine of each worker
    client,     \* the client a provider holds
    process,    \* whether the process context has not ended
    failure,    \* the cause of lifecycle.Failure
    failedNow,  \* the cause of lifecycle.FailedNow
    failing,    \* a FailNow between its two calls
    listen,     \* which channels the signals go to
    starting,   \* whether the start's context ended by a signal
    sigCh,      \* whether a signal sits in the channel of awaitShutdown
    watcher,    \* the goroutine that reads a second signal
    unwinding,  \* the cleanup the teardown is at
    stack,      \* the cleanups registered
    stopping,   \* the components Stop has still to stop
    window,     \* whether the context of Stop has time left
    signals,    \* how many signals were sent
    hurried,    \* whether a signal came once the process was leaving
    broke       \* whether anything failed

vars == <<phase, err, running, work, client, process, failure, failedNow,
          failing, listen, starting, sigCh, watcher, unwinding, stack, stopping,
          window, signals, hurried, broke>>

\* What the main goroutine's own phases leave alone.
failures == <<failure, failedNow, failing>>
signaled == <<starting, sigCh, signals, hurried>>
teardown == <<unwinding, stopping, window>>

-----------------------------------------------------------------------------
\* "bootstrap" and "ready" are inside Bootstrap; "waiting" to "serving" lead
\* Run to awaitShutdown; "leaving" to "bounded" lead it out.
Phase == {"bootstrap", "ready", "waiting", "seeding", "seeded", "starting",
          "serving", "leaving", "draining", "cleaning", "bounded",
          "exited", "gaveUp", "died", "killed"}

Gone    == {"exited", "gaveUp", "died", "killed"}
Left    == {"exited", "gaveUp"}                     \* through Run's return
Leaving == {"leaving", "draining", "cleaning", "bounded"}

\* The cleanups, in the order they are registered: redis and otel, the
\* lifecycle, the listeners.
Cleanup == {"clients", "lifecycle", "listeners"}

Alive == phase \notin Gone

Init ==
    /\ phase = "bootstrap"
    /\ err = "nil"
    /\ running = {}
    /\ work = [w \in Worker |-> "idle"]
    /\ client = [p \in Provider |-> "none"]
    /\ process = TRUE
    /\ failure = "none" /\ failedNow = "none" /\ failing = FALSE
    /\ listen = "none" /\ starting = FALSE /\ sigCh = FALSE /\ watcher = FALSE
    /\ unwinding = "none" /\ stack = {} /\ stopping = {} /\ window = TRUE
    /\ signals = 0 /\ hurried = FALSE /\ broke = FALSE

\* Fail: the first failure is the reason.
Fail(reason) == failure' = IF failure = "none" THEN reason ELSE failure

-----------------------------------------------------------------------------
(* Starting: lifecycle.Start takes the stage's components in name order.   *)

\* The component of the stage that is next.
NextOf(Stage, c) ==
    /\ c \in Stage \ running
    /\ \A d \in Stage \ running : Rank[c] <= Rank[d]

StartProvider(p) ==
    /\ phase = "bootstrap"
    /\ NextOf(Provider, p)
    /\ client'  = [client EXCEPT ![p] = "open"]
    /\ running' = running \cup {p}
    /\ UNCHANGED <<phase, err, work, process, failures, listen, signaled,
                   watcher, teardown, stack, broke>>

\* Any step of Bootstrap fails: RunOrDie ends the process on the spot.
BootstrapFails ==
    /\ phase \in {"bootstrap", "ready"}
    /\ phase' = "died"
    /\ broke' = TRUE
    /\ UNCHANGED <<err, running, work, client, process, failures, listen,
                   signaled, watcher, teardown, stack>>

\* The providers are up; the backbone clients register their cleanup.
ProvidersUp ==
    /\ phase = "bootstrap"
    /\ Provider \subseteq running
    /\ phase' = "ready"
    /\ stack' = {"clients"}
    /\ UNCHANGED <<err, running, work, client, process, failures, listen,
                   signaled, watcher, teardown, broke>>

\* A mutant of EnterRun: stopLifecycle is registered later.
EnterRunBare ==
    /\ phase = "ready"
    /\ phase' = "waiting"
    /\ UNCHANGED <<err, running, work, client, process, failures, listen,
                   signaled, watcher, teardown, stack, broke>>

\* Run registers stopLifecycle before anything can fail.
EnterRun ==
    /\ phase = "ready"
    /\ phase' = "waiting"
    /\ stack' = stack \cup {"lifecycle"}
    /\ UNCHANGED <<err, running, work, client, process, failures, listen,
                   signaled, watcher, teardown, broke>>

\* The deferred clean: the stack is unwound on a goroutine of its own.
Clean(e) ==
    /\ err' = e
    /\ phase' = "cleaning"
    /\ unwinding' = IF "listeners" \in stack THEN "listeners"
                    ELSE IF "lifecycle" \in stack THEN "lifecycle" ELSE "clients"
    /\ UNCHANGED <<stopping, window>>

\* The last module and table barrier.
TablesReady ==
    /\ phase = "waiting"
    /\ phase' = "seeding"
    /\ listen' = "start"
    /\ UNCHANGED <<err, running, work, client, process, failures, signaled,
                   watcher, teardown, stack, broke>>

TablesFail ==
    /\ phase = "waiting"
    /\ Clean("start")
    /\ broke' = TRUE
    /\ UNCHANGED <<running, work, client, process, failures, listen, signaled,
                   watcher, stack>>

\* Serialized returns: the hooks ran, one failed, or the start's context ended
\* the wait or the hooks.  Then awaitShutdown's channel takes the signals too.
SeedReturns(e) ==
    /\ phase = "seeding"
    /\ phase' = "seeded"
    /\ err' = e
    /\ listen' = "both"
    /\ UNCHANGED <<running, work, client, process, failures, signaled, watcher,
                   teardown, stack, broke>>

\* The start's outcome is read, then its watch stops.
ReadOutcome ==
    /\ phase = "seeded"
    /\ listen' = "channel"
    /\ \/ /\ starting
          /\ Clean("nil")
          /\ UNCHANGED broke
       \/ /\ ~ starting /\ err # "nil"
          /\ Clean(err)
          /\ broke' = TRUE
       \/ /\ ~ starting /\ err = "nil"
          /\ phase' = "starting"
          /\ UNCHANGED <<err, teardown, broke>>
    /\ UNCHANGED <<running, work, client, process, failures, signaled, watcher,
                   stack>>

StartWorker(w) ==
    /\ phase = "starting"
    /\ NextOf(Worker, w)
    /\ work' = [work EXCEPT ![w] = "running"]
    /\ running' = running \cup {w}
    /\ UNCHANGED <<phase, err, client, process, failures, listen, signaled,
                   watcher, teardown, stack, broke>>

WorkerStartFails ==
    /\ phase = "starting"
    /\ ~ Worker \subseteq running
    /\ Clean("start")
    /\ broke' = TRUE
    /\ UNCHANGED <<running, work, client, process, failures, listen, signaled,
                   watcher, stack>>

Serve ==
    /\ phase = "starting"
    /\ Worker \subseteq running
    /\ phase' = "serving"
    /\ stack' = stack \cup {"listeners"}
    /\ UNCHANGED <<err, running, work, client, process, failures, listen,
                   signaled, watcher, teardown, broke>>

-----------------------------------------------------------------------------
(* Leaving.                                                                *)

\* awaitShutdown: a signal, a listener failing or a component failing, at
\* random between those that are ready.  The watch for a second signal starts
\* as it returns.
AwaitShutdown ==
    /\ phase = "serving"
    /\ phase' = "leaving"
    /\ watcher' = TRUE
    /\ \/ sigCh /\ sigCh' = FALSE /\ UNCHANGED <<err, broke>>
       \/ err' = "listener" /\ broke' = TRUE /\ UNCHANGED sigCh
       \/ failure # "none" /\ err' = failure /\ UNCHANGED <<sigCh, broke>>
    /\ UNCHANGED <<running, work, client, process, failures, listen, starting,
                   signals, hurried, teardown, stack>>

\* Readiness goes down and the process context ends.
CancelProcess ==
    /\ phase = "leaving"
    /\ phase' = "draining"
    /\ process' = FALSE
    /\ UNCHANGED <<err, running, work, client, failures, listen, signaled,
                   watcher, teardown, stack, broke>>

\* awaitDrain: the delay passes, or the process fails now.
AwaitDrain ==
    /\ phase = "draining"
    /\ Clean(err)
    /\ UNCHANGED <<running, work, client, process, failures, listen, signaled,
                   watcher, stack, broke>>

\* The mutants of ExitError: the failure is not looked at again, and a
\* failure context that has not ended is taken for a reason.
ExitErrorEarly == err
ExitErrorCause == IF err = "nil" THEN failure ELSE err

\* Run's deferred function: a failure that arrived since is what it returns.
ExitError == IF err = "nil" /\ failure # "none" THEN failure ELSE err

\* clean returns once the stack is unwound ...
Unwound ==
    /\ phase \in {"cleaning", "bounded"}
    /\ unwinding = "done"
    /\ phase' = "exited"
    /\ err' = ExitError
    /\ UNCHANGED <<running, work, client, process, failures, listen, signaled,
                   watcher, teardown, stack, broke>>

\* A mutant of what follows: only a failure bounds the teardown.
BoundTeardownOnFailure ==
    /\ phase = "cleaning"
    /\ failure # "none"
    /\ phase' = "bounded"
    /\ UNCHANGED <<err, running, work, client, process, failures, listen,
                   signaled, watcher, teardown, stack, broke>>

\* ... or, once the process failed now, when failNowTimeout has passed.
BoundTeardown ==
    /\ phase = "cleaning"
    /\ failedNow # "none"
    /\ phase' = "bounded"
    /\ UNCHANGED <<err, running, work, client, process, failures, listen,
                   signaled, watcher, teardown, stack, broke>>

GiveUp ==
    /\ phase = "bounded"
    /\ unwinding # "done"
    /\ phase' = "gaveUp"
    /\ err' = ExitError
    /\ UNCHANGED <<running, work, client, process, failures, listen, signaled,
                   watcher, teardown, stack, broke>>

-----------------------------------------------------------------------------
(* The teardown: runCleanups, most recent first.                           *)

Unwinds(cleanup) == phase \in {"cleaning", "bounded"} /\ unwinding = cleanup

\* stopTogether and the servers stopped with it: each within its window.
StopListeners ==
    /\ Unwinds("listeners")
    /\ unwinding' = "lifecycle"
    /\ UNCHANGED <<phase, err, running, work, client, process, failures, listen,
                   signaled, watcher, stack, stopping, window, broke>>

\* stopLifecycle: the process context ends and Stop takes the running list.
StopLifecycle ==
    /\ Unwinds("lifecycle")
    /\ unwinding' = "stop"
    /\ process' = FALSE
    /\ stopping' = running
    /\ running' = {}
    /\ UNCHANGED <<phase, err, work, client, failures, listen, signaled,
                   watcher, stack, window, broke>>

\* StopTimeout has passed.
WindowOver ==
    /\ Unwinds("stop")
    /\ window
    /\ window' = FALSE
    /\ UNCHANGED <<phase, err, running, work, client, process, failures, listen,
                   signaled, watcher, stack, unwinding, stopping, broke>>

\* A mutant of LastOf: the components stop in the order they started.
FirstOf(c) ==
    /\ c \in stopping
    /\ \A d \in stopping : Rank[c] <= Rank[d]

\* The component Stop is at: the one started last.
LastOf(c) ==
    /\ c \in stopping
    /\ \A d \in stopping : Rank[d] <= Rank[c]

\* stopOne of a worker: its context ends with the window or the moment the
\* process fails now.
StopContextEnded == ~ window \/ failedNow # "none"

\* component.stop: Await the work for as long as the context allows.
StopWorker(w) ==
    /\ Unwinds("stop")
    /\ LastOf(w)
    /\ work[w] # "running" \/ StopContextEnded
    /\ stopping' = stopping \ {w}
    /\ UNCHANGED <<phase, err, running, work, client, process, failures, listen,
                   signaled, watcher, stack, unwinding, window, broke>>

\* awaitProviderStop runs the provider's Stop on a goroutine of its own.
CloseProvider(p) ==
    /\ Unwinds("stop")
    /\ LastOf(p)
    /\ client[p] = "open"
    /\ client' = [client EXCEPT ![p] = "closing"]
    /\ UNCHANGED <<phase, err, running, work, process, failures, listen,
                   signaled, watcher, stack, teardown, broke>>

\* The provider's Stop returns, if it does.
ProviderCloses(p) ==
    /\ Alive
    /\ client[p] = "closing"
    /\ client' = [client EXCEPT ![p] = "closed"]
    /\ UNCHANGED <<phase, err, running, work, process, failures, listen,
                   signaled, watcher, stack, teardown, broke>>

\* A mutant of ProviderDone: the close is waited for however long it takes.
ProviderDoneClosed(p) == client[p] = "closed"

\* The select of awaitProviderStop: the Stop returned, or the window ended.
ProviderDone(p) == client[p] = "closed" \/ (client[p] = "closing" /\ ~ window)

StopProvider(p) ==
    /\ Unwinds("stop")
    /\ LastOf(p)
    /\ ProviderDone(p)
    /\ stopping' = stopping \ {p}
    /\ UNCHANGED <<phase, err, running, work, client, process, failures, listen,
                   signaled, watcher, stack, unwinding, window, broke>>

Stopped ==
    /\ Unwinds("stop")
    /\ stopping = {}
    /\ unwinding' = "clients"
    /\ UNCHANGED <<phase, err, running, work, client, process, failures, listen,
                   signaled, watcher, stack, stopping, window, broke>>

\* The backbone clients close, if they do, and the log writers after them.
CloseClients ==
    /\ Unwinds("clients")
    /\ unwinding' = "done"
    /\ UNCHANGED <<phase, err, running, work, client, process, failures, listen,
                   signaled, watcher, stack, stopping, window, broke>>

-----------------------------------------------------------------------------
(* The other goroutines, and the operator.                                 *)

\* work.run: before the process began to stop, any return is a failure.
WorkReturns(w) ==
    /\ Alive
    /\ work[w] = "running"
    /\ work' = [work EXCEPT ![w] = "returned"]
    /\ IF process THEN Fail("work") /\ broke' = TRUE
                  ELSE UNCHANGED <<failure, broke>>
    /\ UNCHANGED <<phase, err, running, client, process, failedNow, failing,
                   listen, signaled, watcher, stack, teardown>>

\* FailNow, as a worker's lost lease calls it: first the waits end ...
FailNow(w) ==
    /\ Alive
    /\ work[w] = "running"
    /\ ~ failing /\ failedNow # "lease"
    /\ failedNow' = IF failedNow = "none" THEN "lease" ELSE failedNow
    /\ failing' = TRUE
    /\ broke' = TRUE
    /\ UNCHANGED <<phase, err, running, work, client, process, failure, listen,
                   signaled, watcher, stack, teardown>>

\* A mutant of what follows: the second call is missing.
FailNowForgets ==
    /\ Alive
    /\ failing
    /\ failing' = FALSE
    /\ UNCHANGED <<phase, err, running, work, client, process, failure,
                   failedNow, listen, signaled, watcher, stack, teardown, broke>>

\* ... and then the process fails.
FailNowFails ==
    /\ Alive
    /\ failing
    /\ Fail("lease")
    /\ failing' = FALSE
    /\ UNCHANGED <<phase, err, running, work, client, process, failedNow, listen,
                   signaled, watcher, stack, teardown, broke>>

\* SIGINT or SIGTERM: without a channel it kills the process, and a channel
\* that already holds one drops it.
Signal ==
    /\ Alive
    /\ signals < MaxSignals
    /\ signals' = signals + 1
    /\ hurried' = (hurried \/ phase \in Leaving)
    /\ phase' = IF listen = "none" THEN "killed" ELSE phase
    /\ starting' = (starting \/ listen \in {"start", "both"})
    /\ sigCh' = (sigCh \/ listen \in {"both", "channel"})
    /\ UNCHANGED <<err, running, work, client, process, failures, listen,
                   watcher, stack, teardown, broke>>

\* A mutant of AbandonWaits: hurrying the shutdown along fails it.
AbandonWaitsFails ==
    /\ failedNow' = IF failedNow = "none" THEN "signal" ELSE failedNow
    /\ Fail("signal")

\* AbandonWaits ends the waits and fails nothing.
AbandonWaits ==
    /\ failedNow' = IF failedNow = "none" THEN "signal" ELSE failedNow
    /\ UNCHANGED failure

\* The watcher reads a second signal.
SecondSignal ==
    /\ Alive
    /\ watcher /\ sigCh
    /\ watcher' = FALSE
    /\ sigCh' = FALSE
    /\ AbandonWaits
    /\ UNCHANGED <<phase, err, running, work, client, process, failing, listen,
                   starting, signals, hurried, stack, teardown, broke>>

-----------------------------------------------------------------------------
\* The main goroutine past the point where only it decides, and the teardown's.
Run ==
    \/ AwaitShutdown \/ CancelProcess \/ AwaitDrain
    \/ Unwound \/ BoundTeardown \/ GiveUp

Teardown ==
    \/ StopListeners \/ StopLifecycle \/ WindowOver \/ Stopped
    \/ \E w \in Worker : StopWorker(w)
    \/ \E p \in Provider : CloseProvider(p) \/ StopProvider(p)

Startup ==
    \/ \E p \in Provider : StartProvider(p)
    \/ \E w \in Worker : StartWorker(w)
    \/ \E e \in {"nil", "start"} : SeedReturns(e)
    \/ BootstrapFails \/ ProvidersUp \/ EnterRun \/ TablesReady \/ TablesFail
    \/ ReadOutcome \/ WorkerStartFails \/ Serve

Others ==
    \/ \E p \in Provider : ProviderCloses(p)
    \/ \E w \in Worker : WorkReturns(w) \/ FailNow(w)
    \/ FailNowFails \/ Signal \/ SecondSignal \/ CloseClients

Next == Startup \/ Run \/ Teardown \/ Others

\* Goroutines that can go on do; awaitShutdown returns only on a cause; what
\* a worker, a provider's Stop and a client's Close do is theirs.
Fairness ==
    /\ WF_vars(CancelProcess \/ AwaitDrain \/ Unwound \/ BoundTeardown \/ GiveUp)
    /\ WF_vars(StopListeners \/ StopLifecycle)
    /\ WF_vars(\/ Stopped
               \/ \E w \in Worker : StopWorker(w)
               \/ \E p \in Provider : CloseProvider(p) \/ StopProvider(p))
    /\ WF_vars(WindowOver)
    /\ WF_vars(SecondSignal)

Spec == Init /\ [][Next]_vars /\ Fairness

-----------------------------------------------------------------------------
(* Properties.                                                             *)

Reason == {"none", "work", "lease", "signal"}

\* The state of the process is well formed.
TypeOK ==
    /\ phase \in Phase
    /\ err \in {"nil", "start", "listener"} \cup (Reason \ {"none"})
    /\ running \subseteq Component /\ stopping \subseteq Component
    /\ work \in [Worker -> {"idle", "running", "returned"}]
    /\ client \in [Provider -> {"none", "open", "closing", "closed"}]
    /\ process \in BOOLEAN /\ failing \in BOOLEAN /\ starting \in BOOLEAN
    /\ sigCh \in BOOLEAN /\ watcher \in BOOLEAN /\ window \in BOOLEAN
    /\ hurried \in BOOLEAN /\ broke \in BOOLEAN
    /\ failure \in Reason /\ failedNow \in Reason
    /\ listen \in {"none", "start", "both", "channel"}
    /\ unwinding \in Cleanup \cup {"none", "stop", "done"}
    /\ stack \subseteq Cleanup
    /\ signals \in 0..MaxSignals

\* Run returns nil only when no failure was recorded, though awaitShutdown may
\* have picked a signal over a failure that was ready with it, and a failure
\* may have come during the drain or the teardown.
FailureIsReported == phase \in Left /\ err = "nil" => failure = "none"

\* Signals alone, however many and whenever they come, never make Run fail: a
\* process that left with an error had something fail in it (AbandonWaits).
SignalsExitClean == phase \in Left /\ err # "nil" => broke

\* A process that failed now leaves with an error, unless it was gone between
\* the two calls FailNow makes.
FailNowIsReported ==
    phase \in Left /\ err = "nil" /\ failedNow = "lease" => failing

\* Providers close after their users: one starts to close while a worker's
\* work still runs only when the shutdown has given up on the work, its window
\* over or the process failing now (Stop, stopOne).
ProvidersOutliveWork ==
    \A p \in Provider, w \in Worker :
        client[p] \in {"closing", "closed"} /\ work[w] = "running"
            => StopContextEnded

\* Whatever way Run takes, a start that failed halfway included, a teardown
\* that was not given up has closed every provider that was started, and asked
\* every worker to return.
StartedAreStopped ==
    phase = "exited" =>
        /\ \A p \in Provider : client[p] # "open"
        /\ ~ process
        /\ running = {} /\ stopping = {}

\* A process that leaves is gone, even if workers and the Stop of providers
\* never return, unless a backbone client's Close holds the teardown
\* (awaitProviderStop, stopOne, StopTimeout).
ShutdownEnds == (phase \in Leaving) ~> (phase \in Gone \/ unwinding = "clients")

\* A signal that comes once a serving process is leaving ends it, whatever
\* hangs (AbandonWaits, failNowTimeout).
HurryEnds == (hurried /\ "listeners" \in stack) ~> (phase \in Gone)

\* What Run's documentation says of a second signal: it drops the waits, so
\* the process goes.  Here the first one came while the process was starting.
SecondSignalEnds == (starting /\ hurried) ~> (phase \in Gone)
=============================================================================
