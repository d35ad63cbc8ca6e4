# Formal model of llmserve

A verification development for `src/` : TLA+ modules for the parts of the
service that run concurrently, TLC configurations that check them on small
instances, and TLAPS proofs of their safety properties for every number of
requests, every limit and every text.

The service is a single-process asyncio program.  Nothing in it runs in
parallel; everything that is hard comes from what happens **between two
suspensions**: a future is completed in one tick and its task notices in a
later one, and a timeout, a disconnect, a shutdown or another request may come
in between.  All modules therefore take one *run of the event loop from one
suspension to the next* as their atomic step.

## 1. Inventory

| Component (source) | State it keeps | Operations | What is hard about it |
|---|---|---|---|
| **Fair semaphore** (`llmserve/admission.py`, `FairSemaphore`) | `_value`, `_waiters` (deque of futures) | `acquire(timeout)`, `release`, `fail_all` | a grant and the granted task's next run are different ticks; timeout or cancellation in between; dead futures in the deque |
| **Admission controller** (`admission.py`, `AdmissionController`, `Lease`) | `_in_flight`, `_queued`, `_closed`, `_idle`, `stats`, gauges handed to `on_change` | `acquire`, `Lease.release`, `stop_accepting`, `wait_for_idle`, `close` | five ways out of `acquire`, each with its own bookkeeping; shutdown against grants already made; the idle event against late admissions |
| **Request path** (`routes/completions.py`, `service.py`, `streaming.py`) | one lease, one `LatencyRecorder` and three nested generators per request | `generate_blocking`, `generate_stream`, `with_keepalive`, the response | the client may vanish at every suspension, while an item is pulled, ready, or being sent; deadlines; keep-alives that race items |
| **Mock engine** (`engine/mock.py`) | `_active`, `_aborted`, one generator per request | `generate`, `abort`, `shutdown` | `abort` names a request id the client may have chosen, and comes after the generator's `finally` |
| **Server lifecycle** (`app.py`, `routes/health.py`) | the lifespan, readiness, `engine_up` | start-up, `POST /admin/drain`, shutdown | close, drain, running requests and engine shutdown in one order |
| **Load-test harness** (`loadtest/harness.py`, `loadtest/__main__.py`) | workers, shared budget, deadline, outcomes, reports of earlier levels | sweep, warm-up, closed loop, open loop, report, exit code | a budget shared across awaits; late answers; what an exception does to a report, and to the reports before it |
| **In-process sweep** (`demo/measure_inprocess.py`) | the arrival schedule, one task per request, a controller and an engine per phase | `one_request`, `run_phase` | the tail is cancelled in one tick; `break` out of the engine's generator; what the report counts |
| **vLLM adapter** (`engine/vllm_engine.py`) | the engine handle, characters sent | `generate`, `abort`, `shutdown`, under both of the service's functions | cumulative outputs into deltas; an `abort` that awaits and is itself cancelled |
| Text helpers (`engine/base.py`, `loadtest/harness.py`) | none | `apply_stop_sequences`, `estimate_tokens`, `percentile` | stop sequences across deltas; percentiles of few values |
| Settings (`config.py`) | none after start-up | `from_env`, `validate` | coercion |
| Latency figures, metrics (`streaming.py`, `harness.py`, `metrics.py`) | a recorder at each end, Prometheus registry | `on_token`, `finish`, `_one_request`, `_summarise`, `_observe_end` | two ends that measure the same stream |
| Wire formats, errors, logging, entry points, other demo files, scripts | none | – | – |

How they interact: the ASGI server calls a route; the route calls
`service.admit`, which awaits `AdmissionController.acquire` and returns a
`Lease`; the route then awaits `generate_blocking`, or returns a streaming
response whose body is `with_keepalive(generate_stream(...))`; both iterate
over the engine's `generate` and call the engine's `abort` when they give up;
every way out ends in `lease.release()` and `_observe_end`.  `Lease.release`
calls the controller, which calls the semaphore, which completes the future of
the next waiter.  The lifespan calls `close()` and then `engine.shutdown()`.
The demo's sweep drives the controller and the mock engine directly, with a
`one_request` of its own in the place of the route.

What makes each part correct, in a sentence:

- semaphore: no permit is lost, made up, idle while somebody waits, or handed
  out of turn;
- controller: every counter, gauge and event tells the truth after every way
  out; the two limits hold; a shutdown leaves nobody waiting and ends;
- path: every generation runs under a lease, and every response that has begun
  ends in exactly one release and one observation; frames reach the client once
  and in step;
- server: the engine's load is bounded by `max_concurrent`, and the engine
  outlives the requests the shutdown waits for;
- vLLM adapter: deltas add up to the text, and no way out leaves vLLM
  generating for nobody;
- figures: no stop sequence goes out, and times at both ends add up;
- harness: every request and every unit of the budget is accounted for, and the
  exit code tells whether any of them failed;
- in-process sweep: a phase ends at rest whatever its tail was doing, and what it
  reports fits what the controller counted.

## 2. Modules

```
FifoPermits            what the semaphore promises
   ^ implemented by
FairSemaphore          the deque, the futures, the event loop
   ^ EXTENDS
AdmissionController    acquire, release, drain, close
   ^ EXTENDS                                    MockEngine
Server ------- INSTANCE --------> RequestPath --EXTENDS--^
InProcessSweep         the demo's phase; EXTENDS AdmissionController, INSTANCE MockEngine
VLLMStream             a request on the other engine, whose abort() suspends
MeasuredStream         what a stream says, and its times at both ends
LoadHarness            the client side: workers, budget, deadline, reports, exit code

FairSemaphoreProofs, AdmissionControllerProofs, RequestPathProofs, ServerProofs,
InProcessSweepProofs, VLLMStreamProofs, MeasuredStreamProofs, LoadHarnessProofs
                       theorems
MCServer, MCMeasuredStream
                       instances for TLC (a symmetry set, a vocabulary)
```

**FairSemaphore.** A task's future is the task's name in `waiters`, its state is
`fut`.  `AcquireNow`/`AcquireWait` are `acquire` up to its first suspension,
`GiveBack` is `release` with the whole loop of `_wake`, `FailAll` is `fail_all`.
`Resume` is the waiting task's next run: it returns, hands the permit back,
raises, or suspends again.  `TimerFires` and `CancelTask` are what asyncio does
to a waiting task.  asyncio does that in two ways, and the rigid
variable `direct`, chosen in `Init`, says which: since Python 3.12 `wait_for` awaits the future in
the task itself, up to 3.11 it wakes the task, returns the future's result if
there is one and otherwise cancels the future and suspends again.
`docs/deployment.md` admits both and the Dockerfile uses 3.11, so everything is
checked and proved for both.

**FifoPermits** is its abstract specification: the set of those who stand in line,
the order in which they came (`before`, a relation), and the holders.  A permit
given back goes at once to the first in line.  A caller holds a permit from the
moment its future is granted, which is what makes the implementation work: nobody
can take it in the ticks before the task runs.  In the refinement the line is
`Pending`, the callers with a pending future, and `before` is `DequeOrder`, the
order of their futures in the deque, whatever dead futures lie between them.

**AdmissionController** adds the controller around each semaphore step.
`acquire` is cut at its one suspension: `RejectClosed`, `RejectFull`,
`AdmitNow` and `Enqueue` before it, `AdmitQueued`, `RejectQueued` and
`SuspendAgain` after it; the `finally` that decrements `_queued` and the
`_notify` are part of each.  `Close` is the call of `close()`, `IdleWaitRuns`,
`CloseReturns` and `DrainTimeout` how it ends.  `awaited` is a history variable:
the requests that were running when `close()` was called and still are.  Each
request asks once.
`total_queue_wait_s`, a duration, is left out.

**MockEngine** gives the runs of `generate` from one suspension to the next:
`Start`, `Text`, `Sleep`, `Final`, `Leave`.  The consumer decides when they
happen, so it has no specification of its own.  Delays are the scheduler's
business; which word comes, and whether it completes a stop sequence, is a
choice.  The rigid variable `idOf`, chosen in `Init`, maps requests to
request ids and need not be injective: the middleware takes the client's
`X-Request-Id`.

**RequestPath** is one request after admission.  `StartBlocking`,
`CollectToken`, `CollectLast`, `CollectBreaks` are `generate_blocking`;
`StartStream` to `Finalise` are a streaming response with its three generators,
`BuildFails` and `ReleaseUnbuilt` one that could not be built: the handler's
`except` branch gives the slot back, calls no `_observe_end` and raises
(`frames` in `generate_stream`, `pull` the task of `with_keepalive`, `conn` the
server).  `Unwind` is the tear-down of all three at once, by a cancellation
(`HangUpWaiting`) or by the generator finaliser (`HangUpSending`, `Finalise`).
`ShutDownEngine`
lets the engine be shut down at any time; `Server` says when.
Three remarks on the abstraction:

- up to Python 3.11 `wait_for` starts the blocking path's `_drain` one tick
  after the call; nothing else looks at the request in that tick and the step is
  not separate;
- a pull always starts before a cancellation can reach `with_keepalive`
  waiting for it, because the pull's task was made ready first;
- `stream_keepalive_s <= 0` is `KeepAlive = FALSE`: no comments, otherwise the
  same.

The ASGI server and Starlette are not part of the repository; they are modelled
as the choice to go on, to cancel, or to drop the response at every suspension.

**Server** composes the two: `Begins` makes an admission and the first run of
the path one step, `GoesOn` a path step that gives its lease back and the
controller's `_release` one step.  A handler whose response cannot be built gets
from the exception to its `release()` without giving up the event loop; the two
are separate actions, and nothing else takes a step in between (`Raising`).  `LifespanExit` runs `close()` and, in the run
in which it returns, the engine's shutdown.  uvicorn starts the shutdown of the
lifespan when connections are closed or its own timeout has passed, so requests
may be in any state then.

**VLLMStream** is `generate_stream` or `generate_blocking` on `VLLMEngine`.  With this engine `abort()`
and, through it, `aclose()` suspend inside `except` and `finally` blocks, where
the response may be cancelled again; in `RequestPath` they never do.  `gen` and
`body` are the places where the two generators are suspended, `Catch` and
`Finally` the common tails of `generate_stream`'s ways out, `AbortReturns` and
`Cancel` the two ends of an `abort()`.  vLLM is a sequence that produces
cumulative outputs and may run ahead of the adapter.  What it raises inside its
own `abort()` is swallowed by the adapter; it means that the sequence has ended
already and is no case of its own.  Keep-alives and the server are abstracted to
"resume, close at a yield, cancel at an await".  Requests share the engine
handle only, so one request is enough.

The blocking path is `body = "collecting"`, then `"handling"` while one of its
`except` blocks awaits `abort()`.  `asyncio.wait_for` runs the loop over
`generate()`, and a signal that comes while the adapter's own `abort()` is
pending does different things in its two versions: since Python 3.12 it cuts
that `abort()` short, up to 3.11 `wait_for` leaves its inner task to itself, which
ends the `abort()` later (`LeftAbortReturns`).  The model has both in one
next-state relation, because what holds, holds for either.  `Expire` is the timer:
before anything else, in the middle of an `abort()` after an exception of vLLM, or
after a cancellation.  In the older version the `aclose()` in the `finally` of
`generate_blocking` finds the generator running and raises; the account is
closed by then, and the caller releases the lease in any case.

**MeasuredStream** follows the text and the clock of one stream.  `NextWord` is
an iteration of the mock's loop with `Cut` for `apply_stop_sequences`;
`OnToken` and `Finish` are the server's `LatencyRecorder`, `GotDelta` to
`ClientTimeout` the client's `_one_request`, `wire` the frames between them,
`Percentile` and `Summarise` the report's.  A text is a sequence of `Characters`,
because stop sequences are looked for in it; no stop sequence is empty, because
`apply_stop_sequences` skips those; time is a number of ticks, and
percentiles are in hundredths of a tick, so that the interpolation is exact.

`Percentile` is the harness's, `DemoPercentile` the one the demo keeps for itself;
`Ordered` is Python's `sorted`, by a permutation that puts the values in order.

**LoadHarness** is a sweep of `Levels` phases.  A phase is a warm-up, a closed
loop (`NextTurn` is the top of a worker's loop, with the deadline and the budget)
or an open loop (`Fire`, `StopFiring`, `ArrivalReply`), and the report;
`BuildReport` goes on to the next level as `run_sweep` does.  A reply is one of
the classes `_one_request` tells apart.  A body that is no JSON raises out of
`_one_request` (`WorkerRaises`) or out of `_fetch_stats` (`StatsRaise`) and ends
the sweep.  `Stalls` is a reply that goes on with keep-alive comments only:
`timeout_s` is httpx's, which bounds the time between two reads, and
`_one_request` skips the comments.  `ExitCode` is that of `loadtest.__main__`; `hard` is a history
variable it is compared with.

**InProcessSweep** is one phase of `demo.measure_inprocess`: the actions of
`AdmissionController` for `acquire` and `release`, the runs of `MockEngine` for
the engine, and `run_phase` as a process of its own (`Arrivals`, `Settle`).
`Tasks` are numbers, in the order in which tasks are created.  Three points need
care:

- `break` at the final chunk leaves the engine's generator suspended at that
  yield.  `Completes` releases the lease; `Finalise`, the event loop's
  finaliser, closes the generator later;
- `t.cancel()` for every task that is not done happens in the run of `run_phase`
  that creates the last task.  `CancelTail` tells the tasks it finds apart:
  waiting in `acquire()` (a signal to the semaphore, as in `FairSemaphore`),
  asleep in the engine (`IsInterrupted`), or not started (`NeverStarts`);
- all of them become ready in that one run, so they run before any sleep that
  begins later can end (`CancellationsDelivered`): a request that survives its
  cancellation streams only after everybody else has seen theirs.

There is no clock: which outcomes fall into the window that is scored, and the
report's rates, are left out, and what is checked holds for all outcomes.

## 3. Runs

A run marked † lets TLC find the property violated: it shows a disagreement
between the code and something the repository says (section 6).

| Run | Instance | Checks |
|---|---|---|
| `Semaphore` | 4 tasks, 2 permits, both versions of `wait_for` | `TypeOK`, `PermitsConserved`, `NoIdlePermit`, `DequeMatchesFutures`, `ArrivalOrder`, `ImplementsFifoPermits`, `NoStarvation` |
| `Admission` | 4 requests, 2 slots, a queue of 1, both versions | `AdmissionTypeOK`, `BooksBalance`, `VerdictsCounted`, `LimitsHold`, `ClosedQueueEmpty`, `DrainOutlivesRunning`, `NoNewOwnerAfterClose`, `EveryQueuedRequestAnswered`, `CloseEnds` |
| `RequestPath` | 2 requests, 3 tokens, every choice of ids from two | `EngineLoadHeldByLeases`, `AccountedOnce`, `BackpressureAndDelivery`, `CutShortByNamesake`, `StartedStreamsEnd` |
| `Server` | 3 requests under one id, 1 slot, a queue of 1, 1 token, both versions, symmetry | `EngineLoadBounded`, `EverySlotExplained`, `EngineOutlivesRequests` |
| `LoadHarness` | 2 levels, 3 workers, or up to 4 arrivals, budget 4 or none, warm-up or none | `RequestsAccounted`, `BudgetShared`, `ReportComplete`, `ExitCodeTells`, `PhaseEnds` |
| `InProcessSweep` | 5 arrivals, 1 slot, a queue of 2, 2 tokens, both versions | `LoadIsSlotsAndAbandoned`, `ReportOfPhaseAtRest`, `UnofferedArrivals`, `SurvivorsFit`, `PhaseSettles` |
| `VLLMStream` | texts of up to 4 characters, vLLM at most 2 outputs ahead, 3 cancellations | `DeltasAddUp`, `NothingLeftRunning`, `UncancelledFreed` |
| `MeasuredStream` | up to 4 words, any of 3 stop sequences, 5 clock ticks | `StopsHonoured`, `FiguresAddUp`, `PercentilesHold` |
| `AdmissionDrained` † | 2 requests, 1 slot | `DrainedMeansIdle` |
| `PathAbort` † | 2 requests, ids from two | `AbortStaysHome` |
| `PathLeak` † | 2 requests, ids from two | `ReleasedOnEveryExit` |
| `VLLMLeak` † | as `VLLMStream`, 2 cancellations | `FinallyReleases` |

Why the bounds are enough.

- *Semaphore*: two permits and four tasks give two holders and two waiters, so
  that a grant skips a dead future, a hand-back wakes the next one, and somebody
  arrives meanwhile.  Tasks come back for ever, so every history of the deque
  of that size occurs.  The safety properties are also proved for every size.
- *Admission*: four requests fill two slots and the queue and leave one to be
  shed, or to arrive after a close.  Requests ask once, because
  the counters would otherwise grow without bound; a task that asks again is a
  different request.  The safety properties are also proved for every size.  No symmetry, because of the two liveness properties.
- *RequestPath*: requests touch each other only through `_aborted` and
  `_active`, which two of them show; three tokens give a first, a middle
  and a last one.
- *Server*: one slot and a queue of one make the third request be shed,
  queued, or late; the numbers of tokens are explored in `RequestPath`.  Keep-alives and engine failures, explored in `RequestPath`,
  are off; all requests have one id, so that an abort reaches whom it can.
- *LoadHarness*: a budget of four among three workers makes the last unit
  contended; `Bound` limits the requests of a loop without a budget to four, and
  a worker that may not issue another waits for the deadline.  Two levels make
  an earlier report and a later one.
- *VLLMStream*: an output brings none, one or two characters, so four of them
  give several deltas, skipped outputs and two outputs read in one go; three
  cancellations start an `abort()`, cut it short or leave it behind, and hit the
  handler's own.  A fourth adds no state.
- *InProcessSweep*: with one slot and a queue of two, five arrivals give a
  holder, two waiters, a shed request and one that never starts, all met by the
  cancellation at once; there are more waiters than slots to hand on, so that the
  older `wait_for` could let too many through; two tokens give a sleep before and
  after the first one.
- *MeasuredStream*: four words give three gaps, and percentiles of one, two and
  three values; the stop sequences lie inside a word, across two words, and
  overlap; the deadline of two ticks passes before or after any delta.

Deadlock is not checked in `RequestPath`, `Server`, `VLLMStream` (and their †
runs), `MeasuredStream`, `LoadHarness` and `InProcessSweep`: a behaviour ends when all requests are over or the report is built.

### Fairness

- *Semaphore* (`Fairness`): a task that can run runs (asyncio runs every ready
  task), and a holder gives its permit back.  No timer has to fire.
- *Admission* (`AdmissionFairness`): ready tasks run and timers fire (`queue_timeout_s` and
  `drain_timeout_s` are finite).  **No fairness on `LeaseRelease`**: a
  generation may run for ever, which is exactly when these two properties count.
- *RequestPath* (`PathFairness`): sleeps end, ready tasks run, and a client that does not hang up
  reads what it is sent.  Nothing makes a client hang up, a deadline pass or
  `EngineRaises` happen.  The client has to read: a client that keeps its
  connection open and never reads keeps its slot, because the deadline is looked
  at after a chunk only (`service.py:187`).
- *LoadHarness* (`HarnessFairness`): requests end unless they are stalled, and
  the deadline of a loop comes.  httpx gives up on a reply that goes quiet
  (`harness.py:323`), so a request ends as long as its engine goes on or the
  connection says nothing.  It does not bound the request as a whole: the
  server's keep-alive comments (`streaming.py:62`) start its timeout anew and
  `_one_request` skips them (`harness.py:193`), so a stalled request need not
  end, and `PhaseEnds` names it as the one thing that keeps a sweep open.
- *InProcessSweep* (`SweepFairness`): ready tasks run, the engine's sleeps end, the
  schedule comes to its end.  The fairness leaves `QueueTimer` out: no queue timer
  has to fire, and the finaliser does not have to run.

All of it is weak fairness.

## 4. Proofs

Every theorem is about the specification without fairness, for every value of
the constants.  `FairSemaphoreProofs`, `AdmissionControllerProofs` and
`ServerProofs` hold for any finite set of tasks, any capacity of at least one
(`__init__` refuses less), any `max_queue_size` and either version of `wait_for`;
the modules on generations also assume a `max_tokens` of at least one
(`MaxTokensAssumption`, `TokensAssumption`; the schema refuses less, and the demo's
default is 64).  Nothing else is assumed but what
is named below.  Each of the inductive invariants below was checked by
TLC first.

**Semaphore.**  None of the properties is inductive.  The invariant `IInv`
collects

- `TypeOK`;
- the deque: no task twice, every future in it pending or cancelled, every
  pending future in it;
- the link between a task and its future: a task has a future if and only if it
  waits, and a signal only if it waits;
- `PermitsConserved` and `NoIdlePermit`.

The heart is the lemma on `GiveBack`: a release with `NoIdlePermit` starts from
`value = 0` or an empty deque, so `Popped` finds the first live future or runs
through the deque; in the first case exactly one future is granted and `value`
stays, in the second all futures were dead and `value` grows by one.  Both keep
`PermitsConserved` and `NoIdlePermit`.  `ServedInArrivalOrder` follows from the
same lemma, step by step: what is granted is a prefix of the live futures.

| Theorem | Property |
|---|---|
| `TypeCorrect` | `TypeOK` |
| `PermitsAreConserved` | `PermitsConserved` |
| `NoPermitIdles` | `NoIdlePermit` |
| `DequeIsSound` | `DequeMatchesFutures` |
| `ServedInArrivalOrder` | `ArrivalOrder` |
| `SemaphoreIsFifo` | `ImplementsFifoPermits` |
| `PlaceInLineAdvances` | – |
| `SignalsDieWithTheWait` | – |

`SemaphoreIsFifo` is the refinement, step by step.  What has to be shown each time
is how the deque's order of live callers changes: a caller that comes joins it at
the end, one that gives up leaves it, and a release takes away its first, because
`Popped` drops a prefix of the deque of which only the last future was live.

`PlaceInLineAdvances` is the measure behind `NoStarvation`: while a task waits,
nobody gets in front of it, and every permit given back takes away somebody who
is.  `SignalsDieWithTheWait`: a timeout or cancellation meant for one `acquire()`
never reaches the caller's next one, although the older `wait_for` keeps it
pending over a second suspension.

**Admission.**  `ImplementsFairSemaphore` proves `AdmissionSpec => Spec`: each
action of the controller is a semaphore step or leaves the semaphore alone.  So
`IInv` holds inside the controller, and its own invariant `AInv` only adds what
the controller keeps: the books, the verdict counters, the queue limit,
no pending future once closed (`ClosedNothingPending`), verdicts that fit the
tasks (`OutcomesMatchTasks`: no verdict while a task waits, "admitted" while it
holds), a signal behind every cancelled future (`CancelledIsSignalled`), and
`AwaitedRun`: those a `close()` waits for are running, and there are none when the
event it waits for has been set.
The counters are compared with cardinalities of sets of requests;
each step moves at most one request from one set to another, which is what the
lemmas on `Cardinality` are for.

| Theorem | Property |
|---|---|
| `ImplementsFairSemaphore` | – |
| `AdmissionTypeCorrect` | `AdmissionTypeOK` |
| `BooksAlwaysBalance` | `BooksBalance` |
| `VerdictsAreCounted` | `VerdictsCounted` |
| `LimitsAlwaysHold` | `LimitsHold` |
| `NobodyWaitsAfterClose` | `ClosedQueueEmpty` |
| `DrainWaits` | `DrainOutlivesRunning` |
| `SlotsAreFifo` | `ImplementsFifoPermits` |
| `ClosedLetsNobodyIn` | `NoNewOwnerAfterClose` |
| `RefusedLeavesNothing` | – |
| `OneAnswer` | – |
| `EveryAdmissionStepAdvances` | – |
| `AdmissionIsBounded` | – |

`RefusedLeavesNothing` and `OneAnswer` are about the ways out of `acquire`: a
request that was turned away owns no permit, no future and no place in the deque,
and no verdict is ever taken back.  `ClosedLetsNobodyIn` says what `close()` can
be relied on for: closing is for good, and from then on the owners of slots, those
with a grant their tasks have not seen included, only become fewer.

**Request path** (any finite set of requests, shared ids or not, any
`max_tokens` of at least one, with or without keep-alives and failures).  `EveryEndAccounted`
covers every way out of `create_completion` and of the generators under it, the
response that could not be built included: that one, and no other, gives its slot
back without being observed.  A
request touches another only through `_active` and `_aborted`, and the first
four theorems do not need the latter.  So the invariant is one statement per request, `Local(r)`, and one
about all of them, `active = Cardinality(Load)`.  `Local` goes through the places
`frames` can be in and says what the engine's generator, the pull, the
connection and the two token counts can be there; most of it is needed only
because the tear-down `Unwind` can come at any of them.  The lemma `Combine`
lifts a step of one request to the invariant: the others keep `Local` because
nothing of theirs is touched, and `Load` changes by at most that request.  Each
action then has four obligations (types, `Local(r)'`, the change of load, the
others untouched).

| Theorem | Property |
|---|---|
| `PathTyped` | – |
| `LoadIsLeased` | `EngineLoadHeldByLeases` |
| `EveryEndAccounted` | `AccountedOnce` |
| `DeliveryKeepsUp` | `BackpressureAndDelivery` |
| `OnlyNamesakesAbort` | `CutShortByNamesake` |
| `OwnIdsStayHome` | `AbortStaysHome`, if no two requests share an id |
| `OnlyBodilessLeak` | – |
| `LeakedForGood` | – |
| `EveryStepAdvances` | – |
| `StepsAreBounded` | – |

`OnlyNamesakesAbort` and `OwnIdsStayHome` rest on an invariant of their own, `AbortsExplained`: an id in
`_aborted` got there by a request that has given up and whose own generator is
done, and a generator that was cut short found its id there.  So the abort of a
request never reaches its own generation; it can only reach a namesake's.  The
run `PathAbort` shows that it does; `OwnIdsStayHome` (`PathSpec /\ OwnIds =>
[]AbortStaysHome`) says that shared ids are the only way.

`OnlyBodilessLeak` is the same for the run `PathLeak`: a response that ends
without giving its slot back was dropped between its header and the first item of
its body, nothing was generated for it and no outcome was observed.
`LeakedForGood`: such a slot never comes back.

**Server.**  `ImplementsAdmission` proves `ServerSpec => AdmissionSpec`: whatever
requests, drains and the lifespan do, the controller takes only its own steps, so
that everything above holds in the server, the order of service included.  The
path is summed up by what one of its steps may do to leases and generations
(`PathStepEffect`: it moves one request, keeps its lease or gives it back, and
puts in or takes out at most its own generation).  The invariant `SInv` is `AInv`,
the part of the path's places that matters for load, the link between the two
halves (`SlotIsLease`: a request holds a lease exactly if the controller counts it
as running, and has had one exactly if it was admitted), and how far the lifespan
has come against `close()` (`LifespanMatchesClose`).  `EverySlotAccountedFor` puts
the halves together with the path's own invariant: a held lease is in use or lost
with a body that never began (`HeldUsedOrLost`), so the controller's conserved
permits are the free ones, those handed over, those in use and the lost ones.

| Theorem | Property |
|---|---|
| `ImplementsAdmission` | – |
| `ServedFirstComeFirstServed` | `ImplementsFifoPermits` |
| `LoadStaysBounded` | `EngineLoadBounded` |
| `EverySlotAccountedFor` | `EverySlotExplained` |
| `EngineIsNotPulledAway` | `EngineOutlivesRequests` |
| `ImplementsPath` | – |
| `LeaksAddUp` | – |
| `LeaksEatCapacity` | – |
| `LeakedServerAdmitsNobody` | – |
| `LeakSpoilsDrain` | – |

`ImplementsPath` is the other half of the composition: every behaviour of the
server is one of `PathSpec` for its requests, the shutdown of the engine included.
The server INSTANCEs the path, and `tlapm` cannot cite the theorems of an
instanced module; the refinement is what carries them over.

The four about leaks say what the leak of `PathLeak` costs a server: leaked slots
only become more, they and the permits that can still be handed out are together
at most `max_concurrent`, a server that has leaked as many as it has slots admits
nobody ever again, and a `close()` that waits for a leaked slot never comes out
drained.

**In-process sweep** (any number of arrivals, slots and tokens, either version of
`wait_for`).  The controller's invariant is carried over, through `CancelTail` as
well, which sends many signals in one step.  On top of it `SweepInv` has the story
of each request (`Story`: what its result, its generator and the place in which
the cancellation found it say of one another), what the phase has created and
closed (`PhaseFits`), and who may outlive the cancellation (`HeirsFit`): those
found in the queue who get a permit all the same.  They number at most `Capacity`,
because as long as cancellations are being delivered each of them owns a permit.

| Theorem | Property |
|---|---|
| `LoadIsAlwaysExplained` | `LoadIsSlotsAndAbandoned` |
| `SurvivorsAlwaysFit` | `SurvivorsFit` |
| `ReportedPhaseIsAtRest` | `ReportOfPhaseAtRest` |
| `UnofferedAreReported` | `UnofferedArrivals` |
| `EveryPhaseStepAdvances` | – |
| `PhaseIsBounded` | – |

**vLLM adapter** (any length of text, any backlog, any number of
cancellations).  `NothingLeftRunning` says that two `abort()` calls have to be
cut short before vLLM is left running.  What makes it inductive is
`SurvivedAborts`: a sequence that still runs has survived every abort issued so
far, so each of them was cut short, and how many were issued can be read off
from where the request stands.  `Backlog` (the outputs not yet read grow, from
the text read last to the whole) gives `DeltasAddUp`.

| Theorem | Property |
|---|---|
| `DeltasAlwaysAddUp` | `DeltasAddUp` |
| `VLLMIsStopped` | `NothingLeftRunning` |
| `SlotAndAccountTogether` | `UncancelledFreed` |
| `OnlyCutCloseLeaks` | – |
| `ClosedForGood` | – |

`OnlyCutCloseLeaks` says when the run `VLLMLeak` happens: the slot is lost in one
way only, by a cancellation while `generate_stream`'s `finally` awaits `aclose()`.
`ClosedForGood`: what a request ended with is final, whatever an `abort()` that
`wait_for` has left to itself does later.

**Measured stream** (any vocabulary, any stop sequences of at least one character,
any `max_tokens`, timeout and clock).  `StreamInv` has four parts.

- `TextFits`: where the generator stands and what that says of the words drawn,
  the text yielded and the deltas sent; no stop sequence lies in what was sent.
  The lemma behind it is `WhatGoesOut`: cutting at the *earliest* stop sequence
  leaves a text without any, and a text that had none can be extended only by what
  lies before the cut.
- `OnTheWay`: what the client has got and the delta frames on the wire make up
  what was sent.  It is stated by the places at which the sent text was cut into
  frames (`Marks`), so that frames that come and go only lengthen or shorten that
  list.
- `FramesFit`: which frames can be on the wire, in which order, and how many
  tokens they carry.
- `ServerClock`, `ClientClock` and `GapsFit`: no time lies in the future, each end
  has one gap less than tokens, and the gaps add up.

Sums and sorting are about lists of any length.  Induction being out of the
prover's reach, the lemmas that need one (`SumsExist`, `RunningSumsAreSums`,
`SortExists`) argue by the least counterexample: `LeastNatural`, from the
well-foundedness of `<`, gives the shortest list for which the claim fails, and
one element less refutes it.  `SortExists` builds the permutation by inserting
each new value before the first larger one.  A percentile then lies
between two neighbours of the sorted list (`PercentileLies`), and counting below
and above it is counting places (`CountedInOrder`).

| Theorem | Property |
|---|---|
| `StopsAlwaysHonoured` | `StopsHonoured` |
| `FiguresAlwaysAddUp` | `FiguresAddUp` |
| `PercentilesAlwaysHold` | `PercentilesHold` |

**Load test** (any finite non-empty set of workers, any budget and bound, any
number of levels).  The invariant adds to the properties who takes no part
(`Bystanders`: arrivals in a closed loop, workers in an open one, arrivals not
fired yet), why a worker has stopped (`Budgets`: the deadline has passed or the
budget is used up, and both last), and where a failure is booked before the last
report exists (`Failures`: in an earlier report or in the outcomes of the phase
that runs).  `NamesAssumption` keeps the names of workers and arrivals apart.  A reply
that stalls changes none of this; it is a step of its own in the measure, so that
each issued request can stall at most once.

| Theorem | Property |
|---|---|
| `EveryRequestAccounted` | `RequestsAccounted` |
| `BudgetIsShared` | `BudgetShared` |
| `ReportsComplete` | `ReportComplete` |
| `ExitCodeIsRight` | `ExitCodeTells` |
| `EverySweepStepAdvances` | – |
| `SweepIsBounded` | – |

**Towards liveness.**  The prover does neither fairness nor ENABLED, but the part
of a liveness argument that usually goes wrong is the measure, and that is a safety
property.  For each liveness property there is a theorem that no step puts anybody
back and that every step brings somebody nearer to the end, for all values of the
constants.  Where the measure is bounded, behaviours are finite: neither a grant, a
second suspension, a handed-back permit nor a tail of cancellations can go round
in circles.

| Liveness property | Measure | Theorems |
|---|---|---|
| `NoStarvation` | the callers in front of a waiting one | `PlaceInLineAdvances` |
| `EveryQueuedRequestAnswered`, `CloseEnds` | `AskWay(r)`, at most 6, and `CloserWay`, at most 5 | `EveryAdmissionStepAdvances`, `AdmissionIsBounded` |
| `StartedStreamsEnd` | a rank of each request, at most `40 * MaxTokens + 155`; a keep-alive comment may leave it as it is | `EveryStepAdvances`, `StepsAreBounded` |
| `PhaseEnds` | the loops left, and in a loop the steps left, stalls included | `EverySweepStepAdvances`, `SweepIsBounded` |
| `PhaseSettles` | `Way(r)`, at most `MaxTokens + 7`, and `PhaseWay`, at most one per arrival and two | `EveryPhaseStepAdvances`, `PhaseIsBounded` |

What is left to the runs is that fairness keeps taking these steps until the end
is the one the property names.

**Findings.**  Each of the four † runs has theorems that say exactly when it
happens: `PathLeak` `OnlyBodilessLeak`, `LeakedForGood` and the leaks of the
server; `PathAbort` `OnlyNamesakesAbort` and `OwnIdsStayHome`; `AdmissionDrained`
`ClosedLetsNobodyIn`; `VLLMLeak` `OnlyCutCloseLeaks`.

**Only model-checked:** the six liveness properties themselves.

## 5. Not modelled

- **vLLM itself** beyond its outputs.
- **The levels of the in-process sweep**: `_main` makes a new controller and
  engine for each and carries nothing over but the finished report.
- **`estimate_tokens`**: a length divided by four, used for `usage` figures only.
- **Settings**: evaluated once before anything runs; what `validate()` enforces
  appears as assumptions on the constants.
- **Durations** outside `MeasuredStream` (histograms, `total_queue_wait_s`,
  throughput): the other models have no clock, a deadline is an action.
- **Readiness and listing endpoints**: they read state.
- **Command lines, tables, charts, JSON files**, `demo/live_traffic.py` (the open
  loop of the harness again, with rows on a terminal), schemas, errors,
  logging, scripts: no state of the service and no order that matters to it.

## 6. Where the code and its documentation disagree

1. `AdmissionDrained`: `close()` looks at `_in_flight` (`admission.py:319`),
   which does not include requests whose permit has been granted but whose task
   has not run.  It returns `True` and such a request is admitted afterwards.
   What does hold is proved: from the close on nobody new comes to
   own a slot, by a grant or otherwise (`NoNewOwnerAfterClose`, proved as
   `ClosedLetsNobodyIn`).
2. `PathAbort`: an `abort()` that comes after the generator's `finally` leaves the
   id in `_aborted` for good.  A later request under the same `X-Request-Id`
   ends at once with no text.  Its own request never sees it
   (`CutShortByNamesake`, proved): the mock's `abort` is effective only across
   requests.
3. `PathLeak`: a streaming response that is dropped before its body is asked for
   has started no generator, so no `finally` releases the lease.  It is the only
   way to lose a slot here (`OnlyBodilessLeak`); one slot less is left for every
   such response (`LeaksEatCapacity`), until nobody is admitted any more
   (`LeakedServerAdmitsNobody`).
4. `VLLMLeak`: on the vLLM adapter `aclose()` in the `finally` of
   `generate_stream` awaits an `abort()` when the stream has timed out.  A
   client that closes its connection after `[DONE]`, as clients do, cancels
   that await, and `lease.release()` and `_observe_end` behind it never run: the
   slot is lost.  It is lost in no other way (`OnlyCutCloseLeaks`).  While nothing is cancelled, all is given back
   (`UncancelledFreed`), and vLLM itself does not go on (`NothingLeftRunning`).

Others were met while modelling and have no run of their own.

- A queued request failed by `stop_accepting()` is counted in
  `rejected_shutdown` there (`admission.py:301`) and again when its task raises
  (`admission.py:251`), while `rejections_total` counts it once
  (`StopAccepting` and `RejectQueued` both add to `stats.shutdown`).
- Up to Python 3.11 a waiter cancelled in the tick of its grant keeps the permit
  and goes on, because `wait_for` drops the cancellation (`ReturnGranted`); the
  docstring at `admission.py:67` says that the permit is handed back.
- `_queued` counts requests that were granted a permit or gave up until their
  tasks run, so that a request is shed with places free (`RejectFull` with fewer
  than `MaxQueue` futures in `Live`); `docs/architecture.md:66` says that the
  queue is full then.
- `generated_tokens_total` counts tokens "generated and delivered to clients"
  (`metrics.py:88`), but `_account` counts a token when the engine yields it, so
  a blocking request that times out (`service.py:124`) has its tokens counted
  and delivers none; and it counts deltas, which on vLLM need not be tokens.
- A streaming response that cannot be built gives its slot back
  (`completions.py:167`, `completions.py:253`) but is not observed, so that a
  request that was admitted and has ended is missing from `requests_total`,
  "Requests that were admitted and reached a terminal state." (`metrics.py:27`)
  (`ReleaseUnbuilt`; `AccountedOnce` and `EverySlotExplained` count it).
- The load test's `timeout_s` does not bound a request: while an engine stalls,
  keep-alive comments keep the connection from timing out on either side, the
  phase waits in `gather` and the sweep has no other end (`Stalls`, `PhaseEnds`).
- A stream that the server cuts at its deadline ends with `[DONE]`, and
  `_one_request` books it as a success (`harness.py:222`).
- A blocking request on vLLM that is cancelled while its handler awaits
  `abort()` never shows up in `requests_total` (`service.py:129`); its slot is
  given back.
- `_fetch_stats` catches httpx errors only (`harness.py:307`).  A `/stats` that is
  no JSON, or a malformed body in a closed loop, ends a sweep and loses the
  reports of all earlier levels.  In an open loop the arrival that raises is in
  no outcome and leaves the exit code at 0.
- The in-process sweep means to "score only what resolved inside the measurement
  window" (`measure_inprocess.py:193`), but it cancels the tail when the last
  arrival is created, up to one interarrival time before `duration_s`; what
  would have resolved between the two is not scored.
- The last arrival of each phase is cancelled before its task first runs
  (`UnofferedArrivals`): it counts in `arrivals_in_window`, the offered rate, and
  in `in_flight_at_close`, but no controller ever saw it.
- Up to Python 3.11 as many queued requests as there are slots outlive that
  cancellation (`SurvivorsFit`) and stream to their end after the close, which
  is what the cancellation is there to avoid.
- Because of the `break`, `engine.active` may exceed `max_concurrent` for as long
  as the finaliser takes (`LoadIsSlotsAndAbandoned` counts exactly by how much).

## 7. Plan

Done: the modules of section 2, in that order (admission first, because every
request depends on it; then the path, whose exits must all give the slot back;
then their composition; then the harness), a theorem for every safety property
the passing runs check, the refinements of both halves of the server, the measures
behind the liveness properties, and for each finding the theorem that bounds it.

Next:

1. `VLLMStream` and `RequestPath` meet the same abstract specification of a
   request (lease, observation, generation), so that `Server` could be stated for
   either engine.
2. `Settings.from_env` and `validate`: that what they accept meets the
   assumptions of the modules.
