------------------------ MODULE AdmissionController ------------------------
(***************************************************************************)
(* llmserve.admission.AdmissionController: acquire(), Lease.release(),     *)
(* stop_accepting() and close(), on top of FairSemaphore.  Each request    *)
(* asks for admission once; its outcome is the verdict it got.             *)
(*                                                                         *)
(* Every action of the controller contains the semaphore step the code     *)
(* takes in the same run of the event loop (see ImplementsFairSemaphore in *)
(* AdmissionControllerProofs).                                             *)
(***************************************************************************)
EXTENDS FairSemaphore   \* _sem: Tasks are the request tasks, Capacity is max_concurrent

CONSTANT MaxQueue       \* max_queue_size, >= 0 by Settings.validate

ASSUME MaxQueueAssumption == MaxQueue \in Nat

VARIABLES inFlight,   \* _in_flight
          queued,     \* _queued
          closed,     \* _closed
          idle,       \* _idle.is_set()
          stats,      \* AdmissionStats
          gauges,     \* the last <<in_flight, queued>> handed to on_change
          outcome,    \* verdict each request got
          closer,     \* the call of close()
          awaited     \* history: requests running when close() was called, still running

books == <<inFlight, queued, stats, gauges, outcome>>
closing == <<closer, awaited>>
admissionVars == <<vars, books, closed, idle, closing>>

Verdicts == {"admitted", "queue_full", "timeout", "shutdown", "cancel"}

Counters == {"admitted", "completed", "queue_full", "timeout", "shutdown",
             "peakQueued", "peakInFlight"}

AdmissionTypeOK ==
    /\ TypeOK
    /\ inFlight \in Nat /\ queued \in Nat
    /\ closed \in BOOLEAN /\ idle \in BOOLEAN
    /\ stats \in [Counters -> Nat]
    /\ gauges \in Nat \X Nat
    /\ outcome \in [Tasks -> Verdicts \union {"none"}]
    /\ closer \in {"open", "scheduled", "registered", "signalled",
                   "satisfied", "drained", "timed_out"}
    /\ awaited \subseteq Tasks

AdmissionInit ==
    /\ Init
    /\ inFlight = 0 /\ queued = 0
    /\ closed = FALSE /\ idle = TRUE
    /\ stats = [c \in Counters |-> 0]
    /\ gauges = <<0, 0>>
    /\ outcome = [r \in Tasks |-> "none"]
    /\ closer = "open" /\ awaited = {}

-----------------------------------------------------------------------------
(* Bookkeeping shared by the operations *)

Larger(m, n) == IF m < n THEN n ELSE m

\* The requests that hold a lease.
Running == {r \in Tasks : task[r] = "holding"}

Verdict(r, v) == outcome' = [outcome EXCEPT ![r] = v]

\* _notify after the last assignment of an operation.
Notify == gauges' = <<inFlight', queued'>>

QueuePeak(s) == [s EXCEPT !.peakQueued = Larger(@, queued + 1)]

\* The tail of acquire() once the semaphore has returned.
Admit(r, s) ==
    /\ inFlight' = inFlight + 1
    /\ idle' = FALSE
    /\ stats' = [s EXCEPT !.admitted = @ + 1,
                          !.peakInFlight = Larger(@, inFlight + 1)]
    /\ Verdict(r, "admitted")

-----------------------------------------------------------------------------
(* acquire() *)

Arriving(r) == task[r] = "idle" /\ outcome[r] = "none"

\* Mutant: > for >=.
MutQueueFullLate == value = 0 /\ queued > MaxQueue

QueueFull == value = 0 /\ queued >= MaxQueue

RejectClosed(r) ==
    /\ Arriving(r) /\ closed
    /\ stats' = [stats EXCEPT !.shutdown = @ + 1]
    /\ Verdict(r, "shutdown")
    /\ UNCHANGED <<vars, inFlight, queued, closed, idle, gauges, closing>>

RejectFull(r) ==
    /\ Arriving(r) /\ ~closed /\ QueueFull
    /\ stats' = [stats EXCEPT !.queue_full = @ + 1]
    /\ Verdict(r, "queue_full")
    /\ UNCHANGED <<vars, inFlight, queued, closed, idle, gauges, closing>>

\* Mutant: the finally runs without the increment.
MutAdmitNowUnbalanced(r) ==
    /\ Arriving(r) /\ ~closed /\ ~QueueFull
    /\ AcquireNow(r)
    /\ Admit(r, QueuePeak(stats))
    /\ queued' = queued - 1
    /\ UNCHANGED <<closed, closing>>
    /\ Notify

\* The semaphore has a permit: the request is queued and dequeued in one go.
AdmitNow(r) ==
    /\ Arriving(r) /\ ~closed /\ ~QueueFull
    /\ AcquireNow(r)
    /\ Admit(r, QueuePeak(stats))
    /\ UNCHANGED <<queued, closed, closing>>
    /\ Notify

Enqueue(r) ==
    /\ Arriving(r) /\ ~closed /\ ~QueueFull
    /\ AcquireWait(r)
    /\ queued' = queued + 1
    /\ stats' = QueuePeak(stats)
    /\ UNCHANGED <<inFlight, closed, idle, outcome, closing>>
    /\ Notify

\* The semaphore's acquire() returned: finally, then the admission itself.
AdmitQueued(r) ==
    /\ ReturnGranted(r)
    /\ queued' = queued - 1
    /\ Admit(r, stats)
    /\ UNCHANGED <<closed, closing>>
    /\ Notify

\* Mutant: a cancellation is counted as a timeout.
MutRejectCountsCancel(r) ==
    /\ HandBack(r) \/ RaiseOut(r)
    /\ queued' = queued - 1
    /\ stats' = [stats EXCEPT ![IF Raises(r) = "cancel" THEN "timeout" ELSE Raises(r)] = @ + 1]
    /\ Verdict(r, Raises(r))
    /\ UNCHANGED <<inFlight, closed, idle, closing>>
    /\ Notify

\* Mutant: the decrement is not in a finally.
MutRejectStaysQueued(r) ==
    /\ HandBack(r) \/ RaiseOut(r)
    /\ stats' = IF Raises(r) = "cancel" THEN stats
                ELSE [stats EXCEPT ![Raises(r)] = @ + 1]
    /\ Verdict(r, Raises(r))
    /\ UNCHANGED <<inFlight, queued, closed, idle, closing>>
    /\ Notify

\* The semaphore's acquire() raised: count the reason (a cancellation has
\* none), then finally.
RejectQueued(r) ==
    /\ HandBack(r) \/ RaiseOut(r)
    /\ queued' = queued - 1
    /\ stats' = IF Raises(r) = "cancel" THEN stats
                ELSE [stats EXCEPT ![Raises(r)] = @ + 1]
    /\ Verdict(r, Raises(r))
    /\ UNCHANGED <<inFlight, closed, idle, closing>>
    /\ Notify

SuspendAgain(r) ==
    CancelFuture(r) /\ UNCHANGED <<books, closed, idle, closing>>

\* Mutant: acquire() without its timeout.
MutNoQueueTimer(r) == FALSE /\ UNCHANGED admissionVars

QueueTimer(r) ==
    TimerFires(r) /\ UNCHANGED <<books, closed, idle, closing>>

CancelRequest(r) ==
    CancelTask(r) /\ UNCHANGED <<books, closed, idle, closing>>

-----------------------------------------------------------------------------
(* Lease.release() *)

\* A lease is released when its request holds no permit any more, and
\* releasing it again does nothing; setting _idle wakes a registered close().
LeaseRelease(r) ==
    /\ Release(r)
    /\ inFlight' = inFlight - 1
    /\ stats' = [stats EXCEPT !.completed = @ + 1]
    /\ idle' = (idle \/ inFlight' = 0)
    /\ closer' = IF inFlight' = 0 /\ closer = "registered"
                 THEN "signalled" ELSE closer
    /\ awaited' = awaited \ {r}
    /\ UNCHANGED <<queued, closed, outcome>>
    /\ Notify

-----------------------------------------------------------------------------
(* stop_accepting(), wait_for_idle() and close() *)

\* Mutant: the queue is left alone.
MutStopKeepsQueue == closed' = TRUE /\ UNCHANGED <<vars, stats>>

StopAccepting ==
    /\ closed' = TRUE
    /\ \/ closed /\ UNCHANGED <<vars, stats>>
       \/ /\ ~closed
          /\ FailAll
          /\ stats' = [stats EXCEPT !.shutdown = @ + Cardinality(Live)]

\* POST /admin/drain.
Drain ==
    /\ StopAccepting
    /\ UNCHANGED <<inFlight, queued, idle, gauges, outcome, closing>>

\* Mutant: drained as soon as the queue is empty.
MutCloseIgnoresRunning ==
    /\ closer = "open"
    /\ StopAccepting
    /\ closer' = IF queued = 0 THEN "drained"
                 ELSE IF direct THEN "registered" ELSE "scheduled"
    /\ awaited' = Running
    /\ UNCHANGED <<inFlight, queued, idle, gauges, outcome>>

\* The lifespan calls close() once.  Up to Python 3.11 wait_for runs
\* _idle.wait() in a task of its own, which starts one tick later.
Close ==
    /\ closer = "open"
    /\ StopAccepting
    /\ closer' = IF inFlight = 0 THEN "drained"
                 ELSE IF direct THEN "registered" ELSE "scheduled"
    /\ awaited' = Running
    /\ UNCHANGED <<inFlight, queued, idle, gauges, outcome>>

\* The task of _idle.wait() looks at the event, or comes back from its future.
IdleWaitRuns ==
    /\ ~direct
    /\ \/ closer = "scheduled"
          /\ closer' = IF idle THEN "satisfied" ELSE "registered"
       \/ closer = "signalled" /\ closer' = "satisfied"
    /\ UNCHANGED <<vars, books, closed, idle, awaited>>

\* A future the event has completed stays completed when _idle is cleared.
CloseReturns ==
    /\ closer = IF direct THEN "signalled" ELSE "satisfied"
    /\ closer' = "drained"
    /\ UNCHANGED <<vars, books, closed, idle, awaited>>

\* Mutant: wait_for_idle() without its timeout.
MutNoDrainTimeout == FALSE /\ UNCHANGED admissionVars

DrainTimeout ==
    /\ closer \in {"scheduled", "registered", "signalled"}
    /\ closer' = "timed_out"
    /\ UNCHANGED <<vars, books, closed, idle, awaited>>

-----------------------------------------------------------------------------
AcquireResumes(r) == AdmitQueued(r) \/ RejectQueued(r) \/ SuspendAgain(r)

RequestStep(r) ==
    \/ RejectClosed(r) \/ RejectFull(r) \/ AdmitNow(r) \/ Enqueue(r)
    \/ AcquireResumes(r) \/ QueueTimer(r) \/ CancelRequest(r)
    \/ LeaseRelease(r)

CloseStep == Close \/ IdleWaitRuns \/ CloseReturns \/ DrainTimeout

AdmissionNext == (\E r \in Tasks : RequestStep(r)) \/ Drain \/ CloseStep

AdmissionSpec == AdmissionInit /\ [][AdmissionNext]_admissionVars

\* Timers fire and ready tasks run.  A lease may be held for ever: nothing
\* here makes a generation end.
AdmissionFairness ==
    /\ \A r \in Tasks :
          WF_admissionVars(AcquireResumes(r)) /\ WF_admissionVars(QueueTimer(r))
    /\ WF_admissionVars(IdleWaitRuns)
    /\ WF_admissionVars(CloseReturns)
    /\ WF_admissionVars(DrainTimeout)

AdmissionFairSpec == AdmissionSpec /\ AdmissionFairness

-----------------------------------------------------------------------------
(* Properties *)

With(v) == {r \in Tasks : outcome[r] = v}
Queueing == {r \in Tasks : task[r] = "waiting"}

\* The counters agree with the requests they count, the idle event with the
\* in-flight count, and the gauges on /metrics with both, after every exit
\* path of acquire() and every release.
BooksBalance ==
    /\ inFlight = Cardinality(Running)
    /\ queued = Cardinality(Queueing)
    /\ inFlight + stats.completed = stats.admitted
    /\ idle <=> inFlight = 0
    /\ gauges = <<inFlight, queued>>

\* Every verdict but a shutdown is counted exactly once under its reason.
VerdictsCounted ==
    /\ stats.admitted = Cardinality(With("admitted"))
    /\ stats.queue_full = Cardinality(With("queue_full"))
    /\ stats.timeout = Cardinality(With("timeout"))

\* The two limits the controller exists for: requests running, counting those
\* whose permit is on its way to them, and requests queued.
LimitsHold ==
    /\ Cardinality(Owners) <= Capacity
    /\ queued <= MaxQueue

\* Once closed, nobody is left waiting for a permit that will not come.
ClosedQueueEmpty == closed => Live = {}

\* Closing is for good, and from then on nobody comes to own a slot: no permit
\* is handed out, be it to a newcomer or, by a release or a hand-back, to a
\* request still in the queue.  Whoever is admitted later had its permit
\* handed over before the close.
NoNewOwnerAfterClose ==
    [][closed => closed' /\ Owners' \subseteq Owners]_admissionVars

\* A queued request gets its verdict even if no lease is ever given back.
EveryQueuedRequestAnswered ==
    \A r \in Tasks : task[r] = "waiting" ~> outcome[r] # "none"

\* close() returns, drained or not, however long generations run.
CloseEnds == closer # "open" ~> closer \in {"drained", "timed_out"}

\* A close() that reports a clean drain outlived every request that was
\* running when it was called.
DrainOutlivesRunning == closer = "drained" => awaited = {}

-----------------------------------------------------------------------------
(* What the repository says and the code does not do *)

\* admission.py:315: close() is "Stop admitting, reject anything queued, and
\* wait for in-flight work".
DrainedMeansIdle == closer = "drained" => inFlight = 0

=============================================================================
