--------------------------- MODULE InProcessSweep ---------------------------
(***************************************************************************)
(* demo.measure_inprocess: one phase of the sweep that drives the real     *)
(* AdmissionController and MockEngine without a server.  run_phase issues  *)
(* one_request tasks on a schedule, cancels the ones that are not done     *)
(* right after the last arrival, gathers them all and builds a report.     *)
(*                                                                         *)
(* one_request leaves its loop over engine.generate() with a break: the    *)
(* generator is dropped at the final chunk, suspended at its yield, and    *)
(* the event loop's finaliser closes it some ticks after the lease has     *)
(* been released.                                                          *)
(***************************************************************************)
EXTENDS AdmissionController   \* one controller per phase; Tasks in issue order

CONSTANT MaxTokens            \* args.max_tokens

ASSUME IssueOrderAssumption == Tasks = 1 .. Cardinality(Tasks)
ASSUME TokensAssumption == MaxTokens \in Nat \ {0}   \* what MockEngine assumes

VARIABLES gen, emitted, active,   \* the phase's MockEngine
          driver,   \* where run_phase stands
          issued,   \* tasks it has created
          found,    \* where its cancel() found a request
          result    \* what a task returned or raised

\* Request ids are unique in a phase, and nobody calls abort().
Engine == INSTANCE MockEngine
            WITH Requests <- Tasks, Ids <- Tasks,
                 idOf <- [r \in Tasks |-> r], aborted <- {}

engineState == <<gen, emitted, active>>
phaseState == <<driver, issued, found>>
sweepVars == <<admissionVars, engineState, result, phaseState>>

SweepInit ==
    /\ AdmissionInit
    /\ Engine!EngineInit
    /\ driver = "arriving"
    /\ issued = 0
    /\ found = [r \in Tasks |-> "not cancelled"]
    /\ result = [r \in Tasks |-> "none"]

-----------------------------------------------------------------------------
(* one_request *)

\* The coroutine returns an Outcome, or ends with CancelledError.
Returns(r, how) == result' = [result EXCEPT ![r] = how]

\* acquire() suspends, or asyncio signals a task that waits in it.
Queues(r) ==
    /\ Enqueue(r) \/ SuspendAgain(r) \/ QueueTimer(r)
    /\ UNCHANGED <<engineState, result>>

\* acquire() raises: an AdmissionError makes an Outcome, 429 or 503.
IsRefused(r) ==
    /\ RejectFull(r) \/ RejectQueued(r)
    /\ Returns(r, IF outcome'[r] = "cancel" THEN "cancelled" ELSE "shed")
    /\ UNCHANGED engineState

\* acquire() returns, and the loop runs up to the engine's first sleep.
Streams(r) ==
    /\ AdmitNow(r) \/ AdmitQueued(r)
    /\ Engine!Start(r)
    /\ UNCHANGED result

\* cancel() has made the tasks ready in one run.  The sleep of a request that
\* is admitted by then is longer than the tick in which they all run.
CancellationsDelivered ==
    \A r \in Tasks : signal[r] = "cancel" => fut[r] # "pending"

\* The engine's sleep ends; a request cancelled in it sees nothing of that.
Wakes(r) ==
    /\ task[r] = "holding" /\ Engine!Asleep(r)
    /\ found[r] # "streaming" /\ CancellationsDelivered
    /\ emitted' = [emitted EXCEPT ![r] = @ + 1]

NextToken(r) ==
    /\ Wakes(r) /\ emitted'[r] < MaxTokens
    /\ Engine!Goes(r, "decoding")
    /\ UNCHANGED <<admissionVars, result, active>>

\* The last token, the final chunk, break, and the finally.
Completes(r) ==
    /\ Wakes(r) /\ emitted'[r] = MaxTokens
    /\ Engine!Goes(r, "final")
    /\ LeaseRelease(r)
    /\ Returns(r, "ok")
    /\ UNCHANGED active

\* Mutant: lease.release() is not in a finally.
MutInterruptedKeepsLease(r) ==
    /\ found[r] = "streaming" /\ result[r] = "none"
    /\ Engine!Close(r)
    /\ UNCHANGED admissionVars
    /\ Returns(r, "cancelled")

\* CancelledError inside the engine's sleep: its finally, then this one.
IsInterrupted(r) ==
    /\ found[r] = "streaming" /\ result[r] = "none"
    /\ Engine!Close(r)
    /\ LeaseRelease(r)
    /\ Returns(r, "cancelled")

\* A task that is cancelled before its first run never runs.
NeverStarts(r) ==
    /\ found[r] = "created" /\ result[r] = "none"
    /\ Returns(r, "cancelled")
    /\ UNCHANGED <<admissionVars, engineState>>

\* What the event loop runs on its own, sleeps and queue timers included.
RequestRuns(r) ==
    /\ \/ /\ r <= issued /\ found[r] # "created"
          /\ Queues(r) \/ IsRefused(r) \/ Streams(r)
       \/ NextToken(r) \/ Completes(r) \/ IsInterrupted(r) \/ NeverStarts(r)
    /\ UNCHANGED phaseState

\* The finaliser's aclose(): GeneratorExit at the yield of the final chunk.
Finalise(r) ==
    /\ gen[r] = "final"
    /\ Engine!Close(r)
    /\ UNCHANGED <<admissionVars, result, phaseState>>

-----------------------------------------------------------------------------
(* run_phase *)

\* Mutant: only the tasks that have begun are cancelled.
MutUnfinishedBegun == {r \in 1 .. issued' : result[r] = "none" /\ task[r] # "idle"}

\* The tasks that are not done().
Unfinished == {r \in 1 .. issued' : result[r] = "none"}

\* t.cancel() for all of them: a task that waits in acquire() is signalled.
CancelTail ==
    /\ found' = [r \in Tasks |->
                   IF r \notin Unfinished THEN "not cancelled"
                   ELSE CASE task[r] = "waiting" -> "queued"
                          [] task[r] = "holding" -> "streaming"
                          [] task[r] = "idle" -> "created"]
    /\ signal' = [r \in Tasks |-> IF found'[r] = "queued" THEN "cancel" ELSE signal[r]]
    /\ fut' = [r \in Tasks |->
                 IF direct /\ found'[r] = "queued" /\ fut[r] = "pending"
                 THEN "cancelled" ELSE fut[r]]

\* A run of run_phase from one sleep to the next: it issues whatever is due,
\* more than one task if it is late.  The loop is left as soon as the next
\* arrival would be too late, in the same run that issues the last one (here
\* at the latest when Tasks are used up).
Arrivals(n, last) ==
    /\ driver = "arriving"
    /\ n > issued \/ (n = issued /\ n = 0 /\ last)
    /\ n = Cardinality(Tasks) => last
    /\ issued' = n
    /\ IF last
       THEN driver' = "closing" /\ CancelTail
       ELSE driver' = driver /\ UNCHANGED <<found, signal, fut>>
    /\ UNCHANGED <<direct, value, waiters, task, books, closed, idle, closing,
                   engineState, result>>

\* Mutant: gather() is not awaited.
MutGatherAtOnce ==
    /\ driver = "closing"
    /\ driver' = "reported"
    /\ Engine!EngineShutdown
    /\ UNCHANGED <<admissionVars, engineState, result, issued, found>>

\* Mutant: without return_exceptions a cancelled task's CancelledError passes.
MutGatherRaises ==
    /\ driver = "closing"
    /\ \A r \in 1 .. issued : result[r] \in {"ok", "shed"}
    /\ driver' = "reported"
    /\ Engine!EngineShutdown
    /\ UNCHANGED <<admissionVars, engineState, result, issued, found>>

\* gather() returns; the engine is shut down and the report is built.
Settle ==
    /\ driver = "closing"
    /\ \A r \in 1 .. issued : result[r] # "none"
    /\ driver' = "reported"
    /\ Engine!EngineShutdown
    /\ UNCHANGED <<admissionVars, engineState, result, issued, found>>

\* The tasks the report counts as in flight.
InFlightAtClose == {r \in 1 .. issued : result[r] \notin {"ok", "shed"}}

-----------------------------------------------------------------------------
Arrive == \E n \in 0 .. Cardinality(Tasks), last \in BOOLEAN : Arrivals(n, last)

SweepNext ==
    \/ \E r \in Tasks : RequestRuns(r) \/ Finalise(r)
    \/ Arrive \/ Settle

SweepSpec == SweepInit /\ [][SweepNext]_sweepVars

\* Ready tasks run, the engine's sleeps end and the schedule comes to its end;
\* no queue timer has to fire.
SweepFairness ==
    /\ \A r \in Tasks : WF_sweepVars(RequestRuns(r) /\ ~QueueTimer(r))
    /\ WF_sweepVars(Arrive)
    /\ WF_sweepVars(Settle)

SweepFairSpec == SweepSpec /\ SweepFairness

-----------------------------------------------------------------------------
(* Properties *)

Abandoned == {r \in Tasks : gen[r] = "final"}

\* The slots bound the engine's load but for generations the break has left
\* behind: while one waits for the finaliser its slot may be taken already.
LoadIsSlotsAndAbandoned == active = inFlight + Cardinality(Abandoned)

\* A report is built only when the phase has come to rest: nothing holds a
\* slot or waits for one, and server_stats counts what the tasks saw, each
\* under its own reason, whenever in the phase they saw it.
ReportOfPhaseAtRest ==
    driver = "reported" =>
       /\ inFlight = 0 /\ queued = 0 /\ value = Capacity
       /\ stats.completed = Cardinality({r \in Tasks : result[r] = "ok"})
                             + Cardinality({r \in Tasks : found[r] = "streaming"})
       /\ stats.queue_full + stats.timeout = Cardinality({r \in Tasks : result[r] = "shed"})

\* Every arrival is offered to the server but those whose task is cancelled
\* before its first run; the last arrival of a phase always is one of them,
\* and all of them are reported as in flight at close.
UnofferedArrivals ==
    driver = "reported" /\ issued > 0 =>
       LET unoffered == {r \in 1 .. issued : outcome[r] = "none"} IN
       /\ issued \in unoffered
       /\ unoffered \subseteq InFlightAtClose
       /\ stats.admitted + stats.queue_full + stats.timeout
            + Cardinality(With("cancel")) = issued - Cardinality(unoffered)

Survivors == {r \in Tasks : found[r] = "queued" /\ outcome[r] = "admitted"}

\* A queued request outlives the cancellation of the tail only if wait_for is
\* the older one and a cancelled holder's slot was handed to it in that tick:
\* at most one per slot, and none of those that were not queued yet.
SurvivorsFit ==
    /\ Cardinality(Survivors) <= IF direct THEN 0 ELSE Capacity
    /\ \A r \in Tasks : found[r] \in {"created", "streaming"} => result[r] \in {"none", "cancelled"}

\* run_phase returns, survivors or not, even if no queue timer ever fires.
PhaseSettles == <>(driver = "reported")

=============================================================================
