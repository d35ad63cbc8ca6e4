--------------------- MODULE AdmissionControllerProofs ---------------------
(***************************************************************************)
(* Proofs about AdmissionController for any finite set of requests and any *)
(* limits.  The controller is shown to drive its semaphore only through    *)
(* the semaphore's own steps, so what FairSemaphoreProofs establishes      *)
(* holds of it; the controller's books are proved on top of that.          *)
(***************************************************************************)
EXTENDS AdmissionController, FairSemaphoreProofs

-----------------------------------------------------------------------------
(* The controller implements its semaphore *)

LEMMA AdmissionStepIsSemaphoreStep == [AdmissionNext]_admissionVars => [Next]_vars
<1> SUFFICES ASSUME [AdmissionNext]_admissionVars PROVE [Next]_vars
  OBVIOUS
<1>1. ASSUME NEW r \in Tasks, RequestStep(r) PROVE TaskStep(r) \/ UNCHANGED vars
  BY <1>1 DEF RequestStep, RejectClosed, RejectFull, AdmitNow, Enqueue,
     AcquireResumes, AdmitQueued, RejectQueued, SuspendAgain, QueueTimer,
     CancelRequest, LeaseRelease, TaskStep, Resume
<1>2. CASE Drain \/ Close
  BY <1>2 DEF Drain, Close, StopAccepting, Next
<1>3. CASE IdleWaitRuns \/ CloseReturns \/ DrainTimeout
  BY <1>3 DEF IdleWaitRuns, CloseReturns, DrainTimeout
<1>4. CASE UNCHANGED admissionVars
  BY <1>4 DEF admissionVars
<1> QED BY <1>1, <1>2, <1>3, <1>4 DEF AdmissionNext, CloseStep, Next

\* Whatever the controller does, its semaphore behaves as FairSemaphore says.
THEOREM ImplementsFairSemaphore == AdmissionSpec => Spec
<1>1. AdmissionInit => Init
  BY DEF AdmissionInit
<1> QED BY <1>1, AdmissionStepIsSemaphoreStep, PTL DEF AdmissionSpec, Spec

\* The controller's slots are handed out first come, first served.
THEOREM SlotsAreFifo == AdmissionSpec => ImplementsFifoPermits
BY ImplementsFairSemaphore, SemaphoreIsFifo, PTL

-----------------------------------------------------------------------------
(* The inductive invariant of the books *)

USE DEF closing

\* A queued request has no verdict yet, a running one was admitted.
OutcomesMatchTasks ==
    \A r \in Tasks : /\ task[r] = "waiting" => outcome[r] = "none"
                     /\ task[r] = "holding" => outcome[r] = "admitted"

\* A future is only ever cancelled on behalf of a signal, so acquire() always
\* has a reason to raise.
CancelledIsSignalled ==
    \A r \in Tasks : fut[r] = "cancelled" => signal[r] # "none"

\* After stop_accepting() no future is pending.
ClosedNothingPending == closed => \A r \in Tasks : fut[r] # "pending"

\* What close() still waits for runs, and the idle event does not come before.
AwaitedRun ==
    /\ awaited \subseteq Running
    /\ closer \in {"open", "signalled", "satisfied", "drained"} => awaited = {}

AInv ==
    /\ IInv
    /\ AdmissionTypeOK
    /\ OutcomesMatchTasks
    /\ CancelledIsSignalled
    /\ BooksBalance
    /\ VerdictsCounted
    /\ queued <= MaxQueue
    /\ ClosedNothingPending
    /\ AwaitedRun

LEMMA Counting ==
    ASSUME NEW S, S \subseteq Tasks, NEW r \in Tasks
    PROVE  /\ Cardinality(S) \in Nat
           /\ r \notin S => Cardinality(S \union {r}) = Cardinality(S) + 1
           /\ r \in S => Cardinality(S \ {r}) = Cardinality(S) - 1
<1>1. IsFiniteSet(S)
  BY TasksAssumption, FS_Subset
<1> QED BY <1>1, FS_CardinalityType, FS_AddElement, FS_RemoveElement

\* A request that gets its verdict joins exactly the requests with that one.
LEMMA VerdictJoins ==
    ASSUME AInv, NEW r \in Tasks, outcome[r] = "none",
           NEW v \in Verdicts, Verdict(r, v)
    PROVE  /\ outcome' \in [Tasks -> Verdicts \union {"none"}]
           /\ Cardinality(With(v)') = Cardinality(With(v)) + 1
           /\ \A w \in Verdicts : w # v => With(w)' = With(w)
<1> USE DEF AInv, AdmissionTypeOK, Verdict, With
<1>1. v # "none"
  BY DEF Verdicts
<1>2. outcome' \in [Tasks -> Verdicts \union {"none"}]
  OBVIOUS
<1>3. outcome'[r] = v /\ \A u \in Tasks : u # r => outcome'[u] = outcome[u]
  OBVIOUS
<1>4. With(v)' = With(v) \union {r} /\ r \notin With(v)
  BY <1>1, <1>3
<1>5. \A w \in Verdicts : w # v => With(w)' = With(w)
  BY <1>3 DEF Verdicts
<1>6. With(v) \subseteq Tasks
  OBVIOUS
<1> HIDE DEF With
<1> QED BY <1>2, <1>4, <1>5, <1>6, Counting

\* Where a task goes, the sets of running and queued requests follow.
LEMMA TaskMoves ==
    ASSUME TypeOK, NEW r \in Tasks, NEW to \in {"idle", "waiting", "holding"},
           to # task[r], task' = [task EXCEPT ![r] = to]
    PROVE  /\ Cardinality(Running') = IF to = "holding" THEN Cardinality(Running) + 1
                                      ELSE IF task[r] = "holding"
                                      THEN Cardinality(Running) - 1
                                      ELSE Cardinality(Running)
           /\ Cardinality(Queueing') = IF to = "waiting" THEN Cardinality(Queueing) + 1
                                       ELSE IF task[r] = "waiting"
                                       THEN Cardinality(Queueing) - 1
                                       ELSE Cardinality(Queueing)
<1> USE DEF TypeOK
<1>1. task'[r] = to /\ \A u \in Tasks : u # r => task'[u] = task[u]
  OBVIOUS
<1>2. Running' = IF to = "holding" THEN Running \union {r} ELSE Running \ {r}
  BY <1>1 DEF Running
<1>3. Queueing' = IF to = "waiting" THEN Queueing \union {r} ELSE Queueing \ {r}
  BY <1>1 DEF Queueing
<1>4. /\ r \in Running <=> task[r] = "holding"
      /\ r \in Queueing <=> task[r] = "waiting"
      /\ Running \subseteq Tasks /\ Queueing \subseteq Tasks
  BY DEF Running, Queueing
<1>5. /\ r \notin Running => Running \ {r} = Running
      /\ r \notin Queueing => Queueing \ {r} = Queueing
  OBVIOUS
<1>6. /\ Cardinality(Running) \in Nat
      /\ r \notin Running => Cardinality(Running \union {r}) = Cardinality(Running) + 1
      /\ r \in Running => Cardinality(Running \ {r}) = Cardinality(Running) - 1
  BY <1>4, Counting
<1>7. /\ Cardinality(Queueing) \in Nat
      /\ r \notin Queueing => Cardinality(Queueing \union {r}) = Cardinality(Queueing) + 1
      /\ r \in Queueing => Cardinality(Queueing \ {r}) = Cardinality(Queueing) - 1
  BY <1>4, Counting
<1> HIDE DEF TypeOK
<1>8. Cardinality(Running') = IF to = "holding" THEN Cardinality(Running) + 1
                              ELSE IF task[r] = "holding"
                              THEN Cardinality(Running) - 1
                              ELSE Cardinality(Running)
  <2>1. CASE to = "holding"
    BY <2>1, <1>2, <1>4, <1>6
  <2>2. CASE to # "holding" /\ task[r] = "holding"
    BY <2>2, <1>2, <1>4, <1>6
  <2>3. CASE to # "holding" /\ task[r] # "holding"
    BY <2>3, <1>2, <1>4, <1>5
  <2> QED BY <2>1, <2>2, <2>3
<1>9. Cardinality(Queueing') = IF to = "waiting" THEN Cardinality(Queueing) + 1
                               ELSE IF task[r] = "waiting"
                               THEN Cardinality(Queueing) - 1
                               ELSE Cardinality(Queueing)
  BY <1>3, <1>4, <1>5, <1>7
<1> QED BY <1>8, <1>9

\* The sizes the books are compared with are natural numbers.
LEMMA SizesAreNat ==
    /\ Cardinality(Running) \in Nat
    /\ Cardinality(Queueing) \in Nat
    /\ \A v \in Verdicts : Cardinality(With(v)) \in Nat
<1>1. IsFiniteSet(Running) /\ IsFiniteSet(Queueing)
  BY TasksAssumption, FS_Subset DEF Running, Queueing
<1>2. ASSUME NEW v \in Verdicts PROVE IsFiniteSet(With(v))
  BY TasksAssumption, FS_Subset DEF With
<1> QED BY <1>1, <1>2, FS_CardinalityType

\* A waiting task is one of those counted as queued, a holder of those running.
LEMMA TaskIsCounted ==
    ASSUME NEW r \in Tasks
    PROVE  /\ task[r] = "waiting" => Cardinality(Queueing) > 0
           /\ task[r] = "holding" => Cardinality(Running) > 0
<1>1. IsFiniteSet(Running) /\ IsFiniteSet(Queueing)
  BY TasksAssumption, FS_Subset DEF Running, Queueing
<1>2. ASSUME task[r] = "waiting" PROVE Queueing # {}
  BY <1>2 DEF Queueing
<1>3. ASSUME task[r] = "holding" PROVE Running # {}
  BY <1>3 DEF Running
<1> QED BY <1>1, <1>2, <1>3, SizesAreNat, FS_EmptySet

LEMMA SemaphoreStepKeepsSignals ==
    ASSUME IInv, CancelledIsSignalled, [Next]_vars
    PROVE  CancelledIsSignalled'
<1> USE DEF CancelledIsSignalled
<1>0. TypeOK /\ FuturesMatchTasks /\ DequeMatchesFutures
  BY DEF IInv
<1>1. ASSUME NEW t \in Tasks, TaskStep(t), ~Release(t), ~HandBack(t)
      PROVE  CancelledIsSignalled'
  BY <1>0, <1>1 DEF TypeOK, TaskStep, Resume, AcquireNow, AcquireWait, TimerFires,
     CancelTask, Interrupt, ReturnGranted, CancelFuture, RaiseOut, Ends, Signalled
<1>2. ASSUME NEW t \in Tasks, Release(t) \/ HandBack(t)
      PROVE  CancelledIsSignalled'
  <2>1. GiveBack(t) /\ \A u \in Tasks : u # t => signal'[u] = signal[u]
    BY <1>0, <1>2 DEF Release, HandBack, Ends, TypeOK
  <2>2. \A u \in Tasks : fut'[u] = "cancelled" => u # t /\ fut[u] = "cancelled"
    BY <2>1 DEF GiveBack
  <2> QED BY <2>1, <2>2
<1>3. CASE FailAll
  BY <1>3 DEF FailAll
<1>4. CASE UNCHANGED vars
  BY <1>4 DEF vars
<1> QED BY <1>1, <1>2, <1>3, <1>4 DEF Next, TaskStep, Resume

\* Only a new waiter makes a future pending.
LEMMA OnlyAcquirePends ==
    ASSUME IInv, [Next]_vars, \A t \in Tasks : ~AcquireWait(t)
    PROVE  \A u \in Tasks : fut'[u] = "pending" => fut[u] = "pending"
<1>0. TypeOK
  BY DEF IInv
<1>1. ASSUME NEW t \in Tasks, TaskStep(t)
      PROVE  \A u \in Tasks : fut'[u] = "pending" => fut[u] = "pending"
  BY <1>0, <1>1 DEF TypeOK, TaskStep, Resume, AcquireNow, TimerFires, CancelTask,
     Interrupt, ReturnGranted, CancelFuture, RaiseOut, Release, HandBack, GiveBack
<1>2. CASE FailAll
  BY <1>2 DEF FailAll
<1>3. CASE UNCHANGED vars
  BY <1>3 DEF vars
<1> QED BY <1>1, <1>2, <1>3 DEF Next

-----------------------------------------------------------------------------
(* Every step keeps the books *)

Accounts ==
    /\ AdmissionTypeOK
    /\ OutcomesMatchTasks
    /\ BooksBalance
    /\ VerdictsCounted
    /\ queued <= MaxQueue

\* The part of AdmissionTypeOK that is not the semaphore's.
LEMMA RejectAtOnceKeepsAccounts ==
    ASSUME AInv, TypeOK', NEW r \in Tasks, RejectClosed(r) \/ RejectFull(r)
    PROVE  Accounts'
<1>0. PICK v \in {"shutdown", "queue_full"} :
         /\ task[r] = "idle" /\ outcome[r] = "none"
         /\ stats' = [stats EXCEPT ![v] = @ + 1]
         /\ Verdict(r, v)
         /\ UNCHANGED <<vars, inFlight, queued, closed, idle, gauges, closing>>
  <2>1. CASE RejectClosed(r)
    BY <2>1 DEF RejectClosed, Arriving
  <2>2. CASE RejectFull(r)
    BY <2>2 DEF RejectFull, Arriving
  <2> QED BY <2>1, <2>2
<1>1. /\ outcome' \in [Tasks -> Verdicts \union {"none"}]
      /\ Cardinality(With(v)') = Cardinality(With(v)) + 1
      /\ \A w \in Verdicts : w # v => With(w)' = With(w)
  <2>1. v \in Verdicts
    BY DEF Verdicts
  <2> QED BY <2>1, <1>0, VerdictJoins
<1>2. stats \in [Counters -> Nat] /\ v \in Counters
  BY DEF AInv, AdmissionTypeOK, Counters
<1>3. /\ stats' \in [Counters -> Nat]
      /\ \A c \in Counters : stats'[c] = IF c = v THEN stats[c] + 1 ELSE stats[c]
  BY <1>0, <1>2
<1>4. AdmissionTypeOK'
  BY <1>0, <1>1, <1>3 DEF AInv, AdmissionTypeOK
<1>5. OutcomesMatchTasks'
  BY <1>0 DEF AInv, OutcomesMatchTasks, AdmissionTypeOK, Verdict, vars
<1>6. BooksBalance'
  <2>1. stats'.admitted = stats.admitted /\ stats'.completed = stats.completed
    BY <1>3 DEF Counters
  <2> QED BY <2>1, <1>0 DEF AInv, BooksBalance, Running, Queueing, vars
<1>7. VerdictsCounted'
  <2>1. \A c \in {"admitted", "queue_full", "timeout"} :
           stats'[c] = IF c = v THEN stats[c] + 1 ELSE stats[c]
    BY <1>3 DEF Counters
  <2>2. \A c \in {"admitted", "queue_full", "timeout"} :
           Cardinality(With(c)') = IF c = v THEN Cardinality(With(c)) + 1
                                   ELSE Cardinality(With(c))
    BY <1>1 DEF Verdicts
  <2> QED BY <2>1, <2>2 DEF AInv, VerdictsCounted
<1> QED BY <1>0, <1>4, <1>5, <1>6, <1>7 DEF Accounts, AInv

\* Both ways into execution: at once, and out of the queue.
LEMMA AdmitKeepsAccounts ==
    ASSUME AInv, TypeOK', NEW r \in Tasks, AdmitNow(r) \/ AdmitQueued(r)
    PROVE  Accounts'
<1> DEFINE s == IF task[r] = "waiting" THEN stats ELSE QueuePeak(stats)
           q == IF task[r] = "waiting" THEN queued - 1 ELSE queued
<1>0. /\ task[r] \in {"idle", "waiting"} /\ task' = [task EXCEPT ![r] = "holding"]
      /\ inFlight' = inFlight + 1 /\ idle' = FALSE
      /\ stats' = [s EXCEPT !.admitted = @ + 1,
                            !.peakInFlight = Larger(@, inFlight + 1)]
      /\ queued' = q /\ gauges' = <<inFlight', queued'>>
      /\ outcome[r] = "none" /\ Verdict(r, "admitted")
      /\ UNCHANGED <<closed, closing>>
  BY DEF AdmitNow, AdmitQueued, AcquireNow, ReturnGranted, Arriving, Ends, Admit,
     Notify, AInv, OutcomesMatchTasks
<1>1. /\ outcome' \in [Tasks -> Verdicts \union {"none"}]
      /\ Cardinality(With("admitted")') = Cardinality(With("admitted")) + 1
      /\ \A w \in Verdicts : w # "admitted" => With(w)' = With(w)
  BY <1>0, VerdictJoins DEF Verdicts
<1>2. /\ Cardinality(Running') = Cardinality(Running) + 1
      /\ Cardinality(Queueing') = IF task[r] = "waiting"
                                  THEN Cardinality(Queueing) - 1 ELSE Cardinality(Queueing)
  BY <1>0, TaskMoves DEF AInv, AdmissionTypeOK
<1>3. /\ inFlight \in Nat /\ queued \in Nat /\ stats \in [Counters -> Nat]
      /\ inFlight = Cardinality(Running) /\ queued = Cardinality(Queueing)
  BY DEF AInv, AdmissionTypeOK, BooksBalance
<1>4. q \in Nat /\ q <= queued /\ q = Cardinality(Queueing')
  BY <1>2, <1>3, <1>0, SizesAreNat, TaskIsCounted
<1>5. /\ s \in [Counters -> Nat]
      /\ \A c \in Counters : c # "peakQueued" => s[c] = stats[c]
  BY <1>3 DEF QueuePeak, Larger, Counters
<1> HIDE DEF s, q
<1>6. /\ stats' \in [Counters -> Nat]
      /\ stats'.admitted = stats.admitted + 1
      /\ \A c \in {"completed", "queue_full", "timeout"} : stats'[c] = stats[c]
  <2>1. Larger(s.peakInFlight, inFlight + 1) \in Nat
    BY <1>3, <1>5 DEF Larger, Counters
  <2> DEFINE peak == Larger(s.peakInFlight, inFlight + 1)
             more == s.admitted + 1
  <2>2. more \in Nat /\ stats' = [s EXCEPT !.admitted = more, !.peakInFlight = peak]
    BY <1>0, <1>5 DEF Counters
  <2> HIDE DEF peak, more
  <2>3. /\ stats' \in [Counters -> Nat]
        /\ \A c \in Counters \ {"admitted", "peakInFlight"} : stats'[c] = s[c]
        /\ stats'["admitted"] = more
    BY <2>1, <2>2, <1>5 DEF Counters, peak
  <2> QED BY <2>2, <2>3, <1>5 DEF Counters, more
<1>7. AdmissionTypeOK'
  <2>1. inFlight' \in Nat /\ queued' \in Nat /\ gauges' \in Nat \X Nat
    BY <1>0, <1>3, <1>4
  <2> QED BY <2>1, <1>0, <1>1, <1>6 DEF AInv, AdmissionTypeOK
<1>8. OutcomesMatchTasks'
  BY <1>0 DEF AInv, OutcomesMatchTasks, AdmissionTypeOK, TypeOK, Verdict
<1>9. BooksBalance'
  <2>1. inFlight' + stats'.completed = stats'.admitted
    BY <1>0, <1>3, <1>6 DEF AInv, BooksBalance, Counters
  <2> QED BY <2>1, <1>0, <1>2, <1>3, <1>4 DEF BooksBalance
<1>10. VerdictsCounted'
  BY <1>1, <1>6 DEF AInv, VerdictsCounted, Verdicts
<1>11. queued' <= MaxQueue
  BY <1>0, <1>3, <1>4, MaxQueueAssumption DEF AInv
<1> QED BY <1>7, <1>8, <1>9, <1>10, <1>11 DEF Accounts

LEMMA EnqueueKeepsAccounts ==
    ASSUME AInv, TypeOK', NEW r \in Tasks, Enqueue(r)
    PROVE  Accounts'
<1>0. /\ task[r] = "idle" /\ task' = [task EXCEPT ![r] = "waiting"]
      /\ outcome[r] = "none" /\ queued' = queued + 1
      /\ stats' = QueuePeak(stats) /\ gauges' = <<inFlight', queued'>>
      /\ UNCHANGED <<inFlight, closed, idle, outcome, closing>>
  BY DEF Enqueue, AcquireWait, Arriving, Notify
<1>1. /\ Cardinality(Running') = Cardinality(Running)
      /\ Cardinality(Queueing') = Cardinality(Queueing) + 1
  BY <1>0, TaskMoves DEF AInv, AdmissionTypeOK
<1>2. inFlight \in Nat /\ queued \in Nat /\ stats \in [Counters -> Nat]
  BY DEF AInv, AdmissionTypeOK
<1>3. /\ stats' \in [Counters -> Nat]
      /\ \A c \in Counters \ {"peakQueued"} : stats'[c] = stats[c]
  <2>1. Larger(stats.peakQueued, queued + 1) \in Nat
    BY <1>2 DEF Larger, Counters
  <2> QED BY <2>1, <1>0, <1>2 DEF QueuePeak, Counters
<1>4. AdmissionTypeOK'
  <2>1. queued' \in Nat /\ gauges' \in Nat \X Nat
    BY <1>0, <1>2
  <2> QED BY <2>1, <1>0, <1>3 DEF AInv, AdmissionTypeOK
<1>5. OutcomesMatchTasks'
  BY <1>0 DEF AInv, OutcomesMatchTasks, AdmissionTypeOK, TypeOK
<1>6. BooksBalance'
  <2>1. stats'.admitted = stats.admitted /\ stats'.completed = stats.completed
    BY <1>3 DEF Counters
  <2> QED BY <2>1, <1>0, <1>1 DEF AInv, BooksBalance
<1>7. VerdictsCounted'
  <2>1. \A c \in {"admitted", "queue_full", "timeout"} : stats'[c] = stats[c]
    BY <1>3 DEF Counters
  <2> QED BY <2>1, <1>0 DEF AInv, VerdictsCounted, With
<1>8. queued' <= MaxQueue
  <2>1. value = 0
    BY DEF AInv, IInv, NoIdlePermit, TypeOK, Enqueue, AcquireWait
  <2>2. ~(queued >= MaxQueue)
    BY <2>1 DEF Enqueue, QueueFull
  <2> QED BY <2>2, <1>0, <1>2, MaxQueueAssumption
<1> QED BY <1>4, <1>5, <1>6, <1>7, <1>8 DEF Accounts

LEMMA RejectQueuedKeepsAccounts ==
    ASSUME AInv, TypeOK', NEW r \in Tasks, RejectQueued(r)
    PROVE  Accounts'
<1>0. /\ task[r] = "waiting" /\ task' = [task EXCEPT ![r] = "idle"]
      /\ outcome[r] = "none" /\ queued' = queued - 1
      /\ gauges' = <<inFlight', queued'>>
      /\ UNCHANGED <<inFlight, closed, idle, closing>>
  BY DEF RejectQueued, HandBack, RaiseOut, Ends, Notify, AInv, OutcomesMatchTasks
<1>1. PICK v \in {"shutdown", "timeout", "cancel"} :
         /\ Verdict(r, v)
         /\ stats' = IF v = "cancel" THEN stats ELSE [stats EXCEPT ![v] = @ + 1]
  <2>1. Raises(r) \in {"shutdown", "timeout", "cancel"}
    BY DEF RejectQueued, HandBack, RaiseOut, Raises, Signalled, AInv,
       CancelledIsSignalled, AdmissionTypeOK, TypeOK
  <2> QED BY <2>1 DEF RejectQueued
<1>2. /\ outcome' \in [Tasks -> Verdicts \union {"none"}]
      /\ Cardinality(With(v)') = Cardinality(With(v)) + 1
      /\ \A w \in Verdicts : w # v => With(w)' = With(w)
  <2>1. v \in Verdicts
    BY DEF Verdicts
  <2> QED BY <2>1, <1>0, <1>1, VerdictJoins
<1>3. /\ Cardinality(Running') = Cardinality(Running)
      /\ Cardinality(Queueing') = Cardinality(Queueing) - 1
  BY <1>0, TaskMoves DEF AInv, AdmissionTypeOK
<1>4. /\ inFlight \in Nat /\ queued \in Nat /\ queued > 0
      /\ stats \in [Counters -> Nat]
  BY <1>0, TaskIsCounted DEF AInv, AdmissionTypeOK, BooksBalance
<1>5. /\ stats' \in [Counters -> Nat]
      /\ \A c \in {"admitted", "completed", "queue_full", "timeout"} :
            stats'[c] = IF c = v THEN stats[c] + 1 ELSE stats[c]
  <2>1. CASE v = "cancel"
    BY <2>1, <1>1, <1>4
  <2>2. CASE v # "cancel"
    <3>1. v \in Counters /\ {"admitted", "completed", "queue_full", "timeout"} \subseteq Counters
      BY <2>2 DEF Counters
    <3> QED BY <3>1, <2>2, <1>1, <1>4
  <2> QED BY <2>1, <2>2
<1>6. AdmissionTypeOK'
  <2>1. queued' \in Nat /\ gauges' \in Nat \X Nat
    BY <1>0, <1>4
  <2> QED BY <2>1, <1>0, <1>2, <1>5 DEF AInv, AdmissionTypeOK
<1>7. OutcomesMatchTasks'
  BY <1>0, <1>1 DEF AInv, OutcomesMatchTasks, AdmissionTypeOK, TypeOK, Verdict
<1>8. BooksBalance'
  BY <1>0, <1>3, <1>5 DEF AInv, BooksBalance
<1>9. VerdictsCounted'
  <2>1. \A c \in {"admitted", "queue_full", "timeout"} :
           Cardinality(With(c)') = IF c = v THEN Cardinality(With(c)) + 1
                                   ELSE Cardinality(With(c))
    BY <1>2 DEF Verdicts
  <2> QED BY <2>1, <1>5 DEF AInv, VerdictsCounted
<1>10. queued' <= MaxQueue
  BY <1>0, <1>4, MaxQueueAssumption DEF AInv
<1> QED BY <1>6, <1>7, <1>8, <1>9, <1>10 DEF Accounts

LEMMA LeaseReleaseKeepsAccounts ==
    ASSUME AInv, TypeOK', NEW r \in Tasks, LeaseRelease(r)
    PROVE  Accounts'
<1>0. /\ task[r] = "holding" /\ task' = [task EXCEPT ![r] = "idle"]
      /\ inFlight' = inFlight - 1
      /\ stats' = [stats EXCEPT !.completed = @ + 1]
      /\ idle' = (idle \/ inFlight' = 0)
      /\ closer' = IF inFlight' = 0 /\ closer = "registered" THEN "signalled" ELSE closer
      /\ awaited' = awaited \ {r}
      /\ gauges' = <<inFlight', queued'>>
      /\ UNCHANGED <<queued, closed, outcome>>
  BY DEF LeaseRelease, Release, Notify
<1>1. /\ Cardinality(Running') = Cardinality(Running) - 1
      /\ Cardinality(Queueing') = Cardinality(Queueing)
  BY <1>0, TaskMoves DEF AInv, AdmissionTypeOK
<1>2. /\ inFlight \in Nat /\ inFlight > 0 /\ queued \in Nat
      /\ stats \in [Counters -> Nat]
  BY <1>0, TaskIsCounted DEF AInv, AdmissionTypeOK, BooksBalance
<1>3. /\ stats' \in [Counters -> Nat]
      /\ stats'.completed = stats.completed + 1
      /\ \A c \in {"admitted", "queue_full", "timeout"} : stats'[c] = stats[c]
  BY <1>0, <1>2 DEF Counters
<1>4. AdmissionTypeOK'
  <2>1. inFlight' \in Nat /\ gauges' \in Nat \X Nat /\ idle' \in BOOLEAN
    BY <1>0, <1>2
  <2> QED BY <2>1, <1>0, <1>3 DEF AInv, AdmissionTypeOK
<1>5. OutcomesMatchTasks'
  BY <1>0 DEF AInv, OutcomesMatchTasks, AdmissionTypeOK, TypeOK
<1>6. BooksBalance'
  <2>1. inFlight' + stats'.completed = stats'.admitted
    <3>1. stats.completed \in Nat
      BY <1>2 DEF Counters
    <3> QED BY <3>1, <1>0, <1>2, <1>3 DEF AInv, BooksBalance
  <2>2. idle' <=> inFlight' = 0
    <3>1. inFlight # 0
      BY <1>2
    <3>2. ~idle
      BY <3>1 DEF AInv, BooksBalance
    <3> QED BY <3>2, <1>0, Zenon
  <2> QED BY <2>1, <2>2, <1>0, <1>1 DEF AInv, BooksBalance
<1>7. VerdictsCounted'
  BY <1>0, <1>3 DEF AInv, VerdictsCounted, With
<1> QED BY <1>0, <1>4, <1>5, <1>6, <1>7 DEF Accounts, AInv

\* The steps that leave every task where it is and every verdict as it was.
LEMMA OtherStepsKeepAccounts ==
    ASSUME AInv, TypeOK', UNCHANGED <<task, inFlight, queued, gauges, outcome, idle>>,
           closed' \in BOOLEAN,
           closer' \in {"open", "scheduled", "registered", "signalled",
                       "satisfied", "drained", "timed_out"},
           awaited' \subseteq Tasks,
           \/ UNCHANGED stats
           \/ \E n \in Nat : stats' = [stats EXCEPT !.shutdown = @ + n]
    PROVE  Accounts'
<1>1. /\ stats' \in [Counters -> Nat]
      /\ \A c \in {"admitted", "completed", "queue_full", "timeout"} : stats'[c] = stats[c]
  BY DEF AInv, AdmissionTypeOK, Counters
<1>2. AdmissionTypeOK'
  BY <1>1 DEF AInv, AdmissionTypeOK
<1>3. OutcomesMatchTasks'
  BY DEF AInv, OutcomesMatchTasks
<1>4. BooksBalance'
  BY <1>1 DEF AInv, BooksBalance, Running, Queueing
<1>5. VerdictsCounted'
  BY <1>1 DEF AInv, VerdictsCounted, With
<1> QED BY <1>2, <1>3, <1>4, <1>5 DEF Accounts, AInv

-----------------------------------------------------------------------------
(* The invariant and the theorems *)

LEMMA AdmissionInitAInv == AdmissionInit => AInv
<1> SUFFICES ASSUME AdmissionInit PROVE AInv
  OBVIOUS
<1> USE DEF AdmissionInit
<1>1. IInv
  BY InitIInv
<1>2. AdmissionTypeOK
  BY <1>1 DEF AdmissionTypeOK, IInv, Counters, Verdicts
<1>3. OutcomesMatchTasks /\ CancelledIsSignalled /\ ClosedNothingPending
  BY DEF OutcomesMatchTasks, CancelledIsSignalled, ClosedNothingPending, Init
<1>7. AwaitedRun
  BY DEF AwaitedRun
<1>4. BooksBalance
  <2>1. Running = {} /\ Queueing = {}
    BY DEF Running, Queueing, Init
  <2>2. stats.completed = 0 /\ stats.admitted = 0
    BY DEF Counters
  <2> QED BY <2>1, <2>2, FS_EmptySet DEF BooksBalance
<1>5. VerdictsCounted
  <2>1. \A v \in Verdicts : With(v) = {}
    BY DEF With, Verdicts
  <2>2. With("admitted") = {} /\ With("queue_full") = {} /\ With("timeout") = {}
    BY <2>1 DEF Verdicts
  <2>3. stats.admitted = 0 /\ stats.queue_full = 0 /\ stats.timeout = 0
    BY DEF Counters
  <2> QED BY <2>2, <2>3, FS_EmptySet DEF VerdictsCounted
<1>6. queued <= MaxQueue
  BY MaxQueueAssumption
<1> QED BY <1>1, <1>2, <1>3, <1>4, <1>5, <1>6, <1>7 DEF AInv

LEMMA StepKeepsAccounts ==
    ASSUME AInv, TypeOK', AdmissionNext
    PROVE  Accounts'
<1>1. ASSUME NEW r \in Tasks, RequestStep(r) PROVE Accounts'
  <2>1. CASE RejectClosed(r) \/ RejectFull(r)
    BY <2>1, RejectAtOnceKeepsAccounts
  <2>2. CASE AdmitNow(r) \/ AdmitQueued(r)
    BY <2>2, AdmitKeepsAccounts
  <2>3. CASE Enqueue(r)
    BY <2>3, EnqueueKeepsAccounts
  <2>4. CASE RejectQueued(r)
    BY <2>4, RejectQueuedKeepsAccounts
  <2>5. CASE SuspendAgain(r) \/ QueueTimer(r) \/ CancelRequest(r)
    BY <2>5, OtherStepsKeepAccounts DEF SuspendAgain, QueueTimer, CancelRequest, books,
       CancelFuture, TimerFires, CancelTask, Interrupt, AInv, AdmissionTypeOK
  <2>6. CASE LeaseRelease(r)
    BY <2>6, LeaseReleaseKeepsAccounts
  <2> QED BY <1>1, <2>1, <2>2, <2>3, <2>4, <2>5, <2>6 DEF RequestStep, AcquireResumes
<1>2. CASE Drain \/ Close
  <2>1. /\ UNCHANGED <<task, inFlight, queued, gauges, outcome, idle>>
        /\ closed' = TRUE
    BY <1>2 DEF Drain, Close, StopAccepting, FailAll, vars
  <2>2. /\ closer' \in {"open", "scheduled", "registered", "signalled",
                       "satisfied", "drained", "timed_out"}
        /\ awaited' \subseteq Tasks
    BY <1>2 DEF Drain, Close, Running, AInv, AdmissionTypeOK
  <2>3. \/ UNCHANGED stats
        \/ \E n \in Nat : stats' = [stats EXCEPT !.shutdown = @ + n]
    <3>1. IsFiniteSet(Live) /\ Cardinality(Live) \in Nat
      <4>1. Live \subseteq 1 .. Len(waiters) /\ Len(waiters) \in Nat
        BY LenProperties DEF AInv, AdmissionTypeOK, TypeOK, Live
      <4>2. IsFiniteSet(1 .. Len(waiters))
        BY <4>1, FS_Interval
      <4> QED BY <4>1, <4>2, FS_Subset, FS_CardinalityType
    <3> QED BY <3>1, <1>2 DEF Drain, Close, StopAccepting
  <2> QED BY <2>1, <2>2, <2>3, OtherStepsKeepAccounts
<1>3. CASE IdleWaitRuns \/ CloseReturns \/ DrainTimeout
  BY <1>3, OtherStepsKeepAccounts DEF IdleWaitRuns, CloseReturns, DrainTimeout, books,
     vars, AInv, AdmissionTypeOK
<1> QED BY <1>1, <1>2, <1>3 DEF AdmissionNext, CloseStep

\* Where no request is counted, none runs.
LEMMA NobodyCounted ==
    Cardinality(Running) = 0 => Running = {}
<1>1. IsFiniteSet(Running)
  BY TasksAssumption, FS_Subset DEF Running
<1> QED BY <1>1, FS_EmptySet

\* No request leaves what close() waits for without its release, and where the
\* event is set nobody runs.
LEMMA StepKeepsAwaited ==
    ASSUME AInv, AdmissionTypeOK', BooksBalance', [AdmissionNext]_admissionVars
    PROVE  AwaitedRun'
<1>1. inFlight = 0 => Running = {}
  BY NobodyCounted DEF AInv, BooksBalance, AdmissionTypeOK, TypeOK
<1>2. inFlight' = 0 => Running' = {}
  <2>1. Running' \subseteq Tasks
    BY DEF Running
  <2>2. IsFiniteSet(Running')
    BY <2>1, TasksAssumption, FS_Subset
  <2> QED BY <2>2, FS_EmptySet DEF BooksBalance
<1>3. ASSUME Running \subseteq Running', UNCHANGED closing
      PROVE  AwaitedRun'
  BY <1>3 DEF AInv, AwaitedRun
<1>4. ASSUME NEW r \in Tasks, RequestStep(r), ~LeaseRelease(r)
      PROVE  AwaitedRun'
  <2>1. UNCHANGED closing
    BY <1>4 DEF RequestStep, RejectClosed, RejectFull, AdmitNow, Enqueue, AcquireResumes,
       AdmitQueued, RejectQueued, SuspendAgain, QueueTimer, CancelRequest
  <2>2. \A q \in Tasks : task[q] = "holding" => task'[q] = "holding"
    BY <1>4 DEF RequestStep, RejectClosed, RejectFull, AdmitNow, Enqueue, AcquireResumes,
       AdmitQueued, RejectQueued, SuspendAgain, QueueTimer, CancelRequest, vars,
       AcquireNow, AcquireWait, ReturnGranted, HandBack, RaiseOut, Ends, CancelFuture,
       TimerFires, CancelTask, Interrupt, AInv, AdmissionTypeOK, TypeOK
  <2> QED BY <2>1, <2>2, <1>3 DEF Running
<1>5. ASSUME NEW r \in Tasks, LeaseRelease(r)
      PROVE  AwaitedRun'
  <2>1. /\ task' = [task EXCEPT ![r] = "idle"]
        /\ awaited' = awaited \ {r}
        /\ closer' = IF inFlight' = 0 /\ closer = "registered" THEN "signalled" ELSE closer
    BY <1>5 DEF LeaseRelease, Release
  <2>2. Running' = Running \ {r}
    BY <2>1 DEF Running, AInv, AdmissionTypeOK, TypeOK
  <2>3. awaited' \subseteq Running' /\ awaited' \subseteq awaited
    BY <2>1, <2>2 DEF AInv, AwaitedRun
  <2>4. CASE closer' = closer
    BY <2>3, <2>4 DEF AInv, AwaitedRun
  <2>5. CASE inFlight' = 0
    BY <2>3, <2>5, <1>2 DEF AwaitedRun
  <2> QED BY <2>1, <2>4, <2>5
<1>6. CASE Drain
  BY <1>6, <1>3 DEF Drain, StopAccepting, FailAll, vars, Running
<1>7. CASE Close
  <2>1. /\ awaited' = Running /\ closer' \in {"drained", "registered", "scheduled"}
        /\ closer' = "drained" => inFlight = 0
        /\ UNCHANGED task
    BY <1>7 DEF Close, StopAccepting, FailAll, vars
  <2> QED BY <2>1, <1>1 DEF AwaitedRun, Running
<1>8. CASE IdleWaitRuns \/ CloseReturns \/ DrainTimeout
  <2>1. /\ UNCHANGED <<awaited, task>>
        /\ \/ closer \in {"signalled", "satisfied"}
           \/ idle /\ closer' = "satisfied"
           \/ closer' \in {"registered", "timed_out"}
    BY <1>8 DEF IdleWaitRuns, CloseReturns, DrainTimeout, vars
  <2>2. idle => awaited = {}
    BY <1>1 DEF AInv, AwaitedRun, BooksBalance
  <2> QED BY <2>1, <2>2 DEF AInv, AwaitedRun, Running
<1>9. CASE UNCHANGED admissionVars
  BY <1>9, <1>3 DEF admissionVars, vars, Running
<1> QED BY <1>4, <1>5, <1>6, <1>7, <1>8, <1>9 DEF AdmissionNext, CloseStep

LEMMA AdmissionNextKeepsAInv == AInv /\ [AdmissionNext]_admissionVars => AInv'
<1> SUFFICES ASSUME AInv, [AdmissionNext]_admissionVars PROVE AInv'
  OBVIOUS
<1>1. [Next]_vars
  BY AdmissionStepIsSemaphoreStep
<1>2. IInv' /\ TypeOK'
  BY <1>1, NextKeepsIInv DEF AInv, IInv
<1>3. CancelledIsSignalled'
  BY <1>1, SemaphoreStepKeepsSignals DEF AInv
<1>4. Accounts'
  <2>1. CASE AdmissionNext
    BY <2>1, <1>2, StepKeepsAccounts
  <2>2. CASE UNCHANGED admissionVars
    BY <2>2, <1>2, OtherStepsKeepAccounts DEF admissionVars, vars, books, AInv, AdmissionTypeOK
  <2> QED BY <2>1, <2>2
<1>5. ClosedNothingPending'
  <2> SUFFICES ASSUME closed', NEW u \in Tasks, fut'[u] = "pending" PROVE FALSE
    BY DEF ClosedNothingPending
  <2>1. CASE closed
    <3>1. \A t \in Tasks : ~AcquireWait(t)
      <4> SUFFICES ASSUME NEW t \in Tasks, AcquireWait(t) PROVE FALSE
        OBVIOUS
      <4>1. task[t] = "idle" /\ task'[t] = "waiting"
        BY DEF AcquireWait, AInv, AdmissionTypeOK, TypeOK
      <4> QED BY <4>1, <2>1 DEF admissionVars, vars, AdmissionNext, RequestStep, CloseStep,
         RejectClosed, RejectFull, AdmitNow, Enqueue, AcquireResumes, AdmitQueued,
         RejectQueued, SuspendAgain, QueueTimer, CancelRequest, LeaseRelease, Drain, Close,
         StopAccepting, FailAll, IdleWaitRuns, CloseReturns, DrainTimeout, AcquireNow,
         ReturnGranted, HandBack, RaiseOut, CancelFuture, TimerFires, CancelTask, Interrupt,
         Release, Ends, AInv, AdmissionTypeOK, TypeOK
    <3>2. fut[u] = "pending"
      BY <3>1, <1>1, OnlyAcquirePends DEF AInv
    <3> QED BY <3>2, <2>1 DEF AInv, ClosedNothingPending
  <2>2. CASE ~closed
    <3>1. FailAll
      BY <2>2 DEF admissionVars, AdmissionNext, RequestStep, CloseStep,
         RejectClosed, RejectFull, AdmitNow, Enqueue, AcquireResumes, AdmitQueued,
         RejectQueued, SuspendAgain, QueueTimer, CancelRequest, LeaseRelease, Drain, Close,
         StopAccepting, IdleWaitRuns, CloseReturns, DrainTimeout
    <3>2. fut[u] = "pending"
      BY <3>1 DEF FailAll
    <3>3. PICK i \in DOMAIN waiters : waiters[i] = u
      BY <3>2 DEF AInv, IInv, DequeMatchesFutures
    <3> QED BY <3>1, <3>2, <3>3 DEF FailAll, Live
  <2> QED BY <2>1, <2>2
<1>6. AwaitedRun'
  BY <1>4, StepKeepsAwaited DEF Accounts
<1> QED BY <1>2, <1>3, <1>4, <1>5, <1>6 DEF AInv, Accounts

LEMMA AdmissionInvariantHolds == AdmissionSpec => []AInv
BY AdmissionInitAInv, AdmissionNextKeepsAInv, PTL DEF AdmissionSpec

\* The state of the controller keeps its types.
THEOREM AdmissionTypeCorrect == AdmissionSpec => []AdmissionTypeOK
<1>1. AInv => AdmissionTypeOK
  BY DEF AInv
<1> QED BY <1>1, AdmissionInvariantHolds, PTL

\* In-flight, queued, idle event, counters and gauges agree after every exit
\* path of acquire() and every release.
THEOREM BooksAlwaysBalance == AdmissionSpec => []BooksBalance
<1>1. AInv => BooksBalance
  BY DEF AInv
<1> QED BY <1>1, AdmissionInvariantHolds, PTL

\* Admissions, queue-full and timeout rejections are each counted once.
THEOREM VerdictsAreCounted == AdmissionSpec => []VerdictsCounted
<1>1. AInv => VerdictsCounted
  BY DEF AInv
<1> QED BY <1>1, AdmissionInvariantHolds, PTL

\* Neither limit is ever exceeded, for any limits and any number of requests.
THEOREM LimitsAlwaysHold == AdmissionSpec => []LimitsHold
<1>1. AInv => LimitsHold
  BY OwnersFinite DEF AInv, IInv, TypeOK, PermitsConserved, LimitsHold
<1> QED BY <1>1, AdmissionInvariantHolds, PTL

\* stop_accepting() leaves nobody waiting, and nobody waits later on.
THEOREM NobodyWaitsAfterClose == AdmissionSpec => []ClosedQueueEmpty
<1>1. AInv => ClosedQueueEmpty
  <2> SUFFICES ASSUME AInv, closed, NEW i \in Live PROVE FALSE
    BY DEF ClosedQueueEmpty
  <2>1. waiters[i] \in Tasks /\ fut[waiters[i]] = "pending"
    BY ElementOfSeq, LenProperties DEF Live, AInv, AdmissionTypeOK, TypeOK
  <2> QED BY <2>1 DEF AInv, ClosedNothingPending
<1> QED BY <1>1, AdmissionInvariantHolds, PTL

\* A close() that reports a clean drain has outlived every request that was
\* running when it was called, whoever was admitted, released or cancelled
\* meanwhile.
THEOREM DrainWaits == AdmissionSpec => []DrainOutlivesRunning
<1>1. AInv => DrainOutlivesRunning
  BY DEF AInv, AwaitedRun, DrainOutlivesRunning
<1> QED BY <1>1, AdmissionInvariantHolds, PTL

\* Once closed, nobody comes to own a permit: neither by admission nor in
\* the queue.
LEMMA ClosedStep ==
    ASSUME AInv, [AdmissionNext]_admissionVars, closed
    PROVE  closed' /\ Owners' \subseteq Owners
<1>1. closed'
  BY DEF admissionVars, AdmissionNext, RequestStep, CloseStep, RejectClosed, RejectFull,
     AdmitNow, Enqueue, AcquireResumes, AdmitQueued, RejectQueued, SuspendAgain,
     QueueTimer, CancelRequest, LeaseRelease, Drain, Close, StopAccepting, IdleWaitRuns,
     CloseReturns, DrainTimeout
<1>2. ASSUME NEW u \in Tasks, AcquireNow(u) PROVE FALSE
  <2>1. task[u] = "idle" /\ task'[u] = "holding"
    BY <1>2 DEF AcquireNow, AInv, AdmissionTypeOK, TypeOK
  <2> QED BY <2>1 DEF admissionVars, vars, AdmissionNext, RequestStep, CloseStep,
     RejectClosed, RejectFull, AdmitNow, Enqueue, AcquireResumes, AdmitQueued,
     RejectQueued, SuspendAgain, QueueTimer, CancelRequest, LeaseRelease, Drain, Close,
     StopAccepting, FailAll, IdleWaitRuns, CloseReturns, DrainTimeout, AcquireWait,
     ReturnGranted, HandBack, RaiseOut, CancelFuture, TimerFires, CancelTask, Interrupt,
     Release, Ends, AInv, AdmissionTypeOK, TypeOK
<1>3. ASSUME NEW u \in Tasks, u \in Owners', u \notin Owners PROVE FALSE
  <2>1. [Next]_vars /\ IInv
    BY AdmissionStepIsSemaphoreStep DEF AInv
  <2>2. fut[u] = "pending" \/ AcquireNow(u)
    BY <1>3, <2>1, NewOwners
  <2> QED BY <1>2, <2>2 DEF AInv, ClosedNothingPending
<1> QED BY <1>1, <1>3 DEF Owners

\* Closing is for good, and from then on the set of requests that own a slot
\* only shrinks.  So whoever still runs after a clean drain (what the run
\* AdmissionDrained finds) had its permit handed over before the close, and
\* there are at most as many of them as slots.
THEOREM ClosedLetsNobodyIn == AdmissionSpec => NoNewOwnerAfterClose
<1>1. AInv /\ [AdmissionNext]_admissionVars =>
         [closed => closed' /\ Owners' \subseteq Owners]_admissionVars
  BY ClosedStep
<1> QED
  BY <1>1, AdmissionInvariantHolds, PTL DEF AdmissionSpec, NoNewOwnerAfterClose

\* A request that was turned away, whether at once, in the queue, by its
\* timeout, by a cancellation in the tick of its grant or by the shutdown, has
\* left nothing behind: no permit, no future, no place in the deque.
THEOREM RefusedLeavesNothing ==
    AdmissionSpec => [](\A r \in Tasks : outcome[r] \notin {"none", "admitted"} =>
                           /\ r \notin Owners /\ fut[r] = "none" /\ signal[r] = "none"
                           /\ \A i \in DOMAIN waiters : waiters[i] # r)
<1>1. ASSUME AInv, SignalsWait, NEW r \in Tasks, outcome[r] \notin {"none", "admitted"}
      PROVE  /\ r \notin Owners /\ fut[r] = "none" /\ signal[r] = "none"
             /\ \A i \in DOMAIN waiters : waiters[i] # r
  <2>1. task[r] = "idle"
    BY <1>1 DEF AInv, OutcomesMatchTasks, AdmissionTypeOK, TypeOK
  <2>2. fut[r] = "none" /\ signal[r] = "none"
    BY <1>1, <2>1 DEF AInv, IInv, FuturesMatchTasks, SignalsWait
  <2>3. \A i \in DOMAIN waiters : waiters[i] # r
    BY <1>1, <2>2 DEF AInv, IInv, DequeMatchesFutures
  <2> QED BY <2>1, <2>2, <2>3 DEF Owners
<1>2. AInv /\ SignalsWait =>
         \A r \in Tasks : outcome[r] \notin {"none", "admitted"} =>
            /\ r \notin Owners /\ fut[r] = "none" /\ signal[r] = "none"
            /\ \A i \in DOMAIN waiters : waiters[i] # r
  BY <1>1
<1> QED
  BY <1>2, AdmissionInvariantHolds, ImplementsFairSemaphore, SignalsDieWithTheWait, PTL

\* A request gets one answer: nobody is admitted after having been refused,
\* or refused after having been admitted.
THEOREM OneAnswer ==
    AdmissionSpec => [][\A r \in Tasks : outcome[r] # "none" => outcome'[r] = outcome[r]]_admissionVars
<1>1. ASSUME AInv, AdmissionNext, NEW r \in Tasks, outcome[r] # "none"
      PROVE  outcome'[r] = outcome[r]
  <2>1. ASSUME NEW p \in Tasks, RequestStep(p)
        PROVE  outcome'[r] = outcome[r]
    <3>1. CASE RejectClosed(p) \/ RejectFull(p) \/ AdmitNow(p)
      BY <1>1, <3>1 DEF RejectClosed, RejectFull, AdmitNow, Arriving, Admit, Verdict,
         AInv, AdmissionTypeOK
    <3>2. CASE AdmitQueued(p) \/ RejectQueued(p)
      <4>1. task[p] = "waiting"
        BY <3>2 DEF AdmitQueued, ReturnGranted, RejectQueued, HandBack, RaiseOut
      <4>2. p # r
        BY <1>1, <4>1 DEF AInv, OutcomesMatchTasks
      <4>3. Verdict(p, "admitted") \/ Verdict(p, Raises(p))
        BY <3>2 DEF AdmitQueued, Admit, RejectQueued
      <4> QED BY <1>1, <4>2, <4>3 DEF Verdict, AInv, AdmissionTypeOK
    <3>3. CASE \/ Enqueue(p) \/ SuspendAgain(p) \/ QueueTimer(p)
               \/ CancelRequest(p) \/ LeaseRelease(p)
      BY <3>3 DEF Enqueue, SuspendAgain, QueueTimer, CancelRequest, LeaseRelease, books
    <3> QED BY <2>1, <3>1, <3>2, <3>3 DEF RequestStep, AcquireResumes
  <2>2. CASE Drain \/ CloseStep
    BY <2>2 DEF Drain, CloseStep, Close, IdleWaitRuns, CloseReturns, DrainTimeout, books
  <2> QED BY <1>1, <2>1, <2>2 DEF AdmissionNext
<1>2. AInv /\ [AdmissionNext]_admissionVars =>
         [\A r \in Tasks : outcome[r] # "none" => outcome'[r] = outcome[r]]_admissionVars
  BY <1>1
<1> QED BY <1>2, AdmissionInvariantHolds, PTL DEF AdmissionSpec

-----------------------------------------------------------------------------
(* No request and no close() goes round in circles *)

\* A permit given back may be handed to others, and does nothing else to them.
LEMMA GiveBackOthers ==
    ASSUME AInv, NEW r \in Tasks, fut[r] # "pending", GiveBack(r)
    PROVE  /\ fut'[r] = "none"
           /\ \A q \in Tasks \ {r} :
                 fut'[q] = fut[q] \/ (fut[q] = "pending" /\ fut'[q] = "granted")
<1>1. \A q \in Granted(value + 1) : fut[q] = "pending"
  BY DEF Granted, LiveUpTo, Live
<1> QED BY <1>1 DEF GiveBack

\* What a request still has to do, in steps.
AskWay(r) ==
    IF task[r] = "holding" THEN 1
    ELSE IF task[r] = "waiting"
         THEN 2 + (IF fut[r] = "pending" THEN 1 ELSE 0)
                + (IF signal[r] = "none" THEN 2 ELSE IF signal[r] = "timeout" THEN 1 ELSE 0)
    ELSE IF outcome[r] = "none" THEN 6 ELSE 0

\* What close() still has to do.
CloserWay ==
    IF closer = "open" THEN 5
    ELSE IF closer = "scheduled" THEN 4
    ELSE IF closer = "registered" THEN 3
    ELSE IF closer = "signalled" THEN 2
    ELSE IF closer = "satisfied" THEN 1
    ELSE 0

LEMMA WaysAre == CloserWay \in 0 .. 5 /\ \A r \in Tasks : AskWay(r) \in 0 .. 6
BY DEF AskWay, CloserWay

\* The same in the next state.
LEMMA NextWaysAre == CloserWay' \in 0 .. 5 /\ \A r \in Tasks : AskWay(r)' \in 0 .. 6
BY DEF AskWay, CloserWay

\* Request q is not put back by a step that is not its own.
Yields(q) ==
    /\ task'[q] = task[q] /\ outcome'[q] = outcome[q] /\ signal'[q] = signal[q]
    /\ fut'[q] = fut[q] \/ (fut[q] = "pending" /\ fut'[q] # "pending")

LEMMA YieldsIsNoStepBack ==
    ASSUME NEW q \in Tasks, Yields(q)
    PROVE  AskWay(q)' <= AskWay(q)
BY DEF Yields, AskWay

\* acquire() up to its first suspension.
LEMMA AskFalls ==
    ASSUME AInv, NEW r \in Tasks,
           RejectClosed(r) \/ RejectFull(r) \/ AdmitNow(r) \/ Enqueue(r)
    PROVE  AskWay(r)' < AskWay(r) /\ \A q \in Tasks \ {r} : Yields(q)
<1> USE DEF AInv, AdmissionTypeOK, TypeOK
<1>1. task[r] = "idle" /\ outcome[r] = "none"
  BY DEF RejectClosed, RejectFull, AdmitNow, Enqueue, Arriving
<1>2. \/ task'[r] = "idle" /\ outcome'[r] # "none"
      \/ task'[r] = "holding"
      \/ task'[r] = "waiting"
  BY <1>1 DEF RejectClosed, RejectFull, AdmitNow, Enqueue, AcquireNow, AcquireWait, Verdict,
     vars
<1>3. \A q \in Tasks \ {r} : Yields(q)
  BY DEF RejectClosed, RejectFull, AdmitNow, Enqueue, AcquireNow, AcquireWait, Admit, Verdict,
     vars, Yields
<1> QED BY <1>1, <1>2, <1>3 DEF AskWay

\* A waiting task: a signal, one more suspension, or the end of the wait.
LEMMA WaitFalls ==
    ASSUME AInv, NEW r \in Tasks, AcquireResumes(r) \/ QueueTimer(r) \/ CancelRequest(r)
    PROVE  AskWay(r)' < AskWay(r) /\ \A q \in Tasks \ {r} : Yields(q)
<1> USE DEF AInv, AdmissionTypeOK, TypeOK
<1>1. task[r] = "waiting" /\ outcome[r] = "none"
  BY DEF AcquireResumes, AdmitQueued, ReturnGranted, RejectQueued, HandBack, RaiseOut,
     SuspendAgain, CancelFuture, QueueTimer, TimerFires, CancelRequest, CancelTask, Interrupt,
     OutcomesMatchTasks
<1>2. CASE AdmitQueued(r)
  <2>1. task'[r] = "holding"
    BY <1>2 DEF AdmitQueued, ReturnGranted, Ends
  <2>2. \A q \in Tasks \ {r} : Yields(q)
    BY <1>2 DEF AdmitQueued, ReturnGranted, Ends, Admit, Verdict, Yields
  <2> QED BY <1>1, <2>1, <2>2 DEF AskWay
<1>3. CASE RejectQueued(r)
  <2>1. task'[r] = "idle" /\ outcome' = [outcome EXCEPT ![r] = Raises(r)]
        /\ signal' = [signal EXCEPT ![r] = "none"] /\ task' = [task EXCEPT ![r] = "idle"]
    BY <1>3 DEF RejectQueued, HandBack, RaiseOut, Ends, Verdict
  <2>2. Raises(r) # "none"
    BY <1>3 DEF RejectQueued, HandBack, RaiseOut, Raises, Signalled, CancelledIsSignalled
  <2>3. \A q \in Tasks \ {r} : fut'[q] = fut[q] \/ (fut[q] = "pending" /\ fut'[q] = "granted")
    <3>1. CASE HandBack(r)
      BY <3>1, GiveBackOthers DEF HandBack
    <3>2. CASE RaiseOut(r)
      BY <3>2 DEF RaiseOut
    <3> QED BY <3>1, <3>2, <1>3 DEF RejectQueued
  <2>4. \A q \in Tasks \ {r} : Yields(q)
    BY <2>1, <2>3 DEF Yields
  <2>5. outcome'[r] # "none"
    BY <2>1, <2>2
  <2> QED BY <1>1, <2>1, <2>4, <2>5 DEF AskWay
<1>4. CASE SuspendAgain(r) \/ QueueTimer(r) \/ CancelRequest(r)
  <2>1. /\ task'[r] = "waiting"
        /\ \/ fut[r] = "pending" /\ fut'[r] = "cancelled" /\ signal'[r] = signal[r]
           \/ /\ \/ signal[r] = "none" /\ signal'[r] = "timeout"
                 \/ signal[r] # "cancel" /\ signal'[r] = "cancel"
              /\ fut'[r] = fut[r] \/ (fut[r] = "pending" /\ fut'[r] = "cancelled")
    BY <1>1, <1>4 DEF SuspendAgain, CancelFuture, QueueTimer, TimerFires, CancelRequest,
       CancelTask, Interrupt
  <2>2. \A q \in Tasks \ {r} : Yields(q)
    BY <1>4 DEF SuspendAgain, CancelFuture, QueueTimer, TimerFires, CancelRequest, CancelTask,
       Interrupt, books, Yields
  <2> QED BY <1>1, <2>1, <2>2 DEF AskWay
<1> QED BY <1>2, <1>3, <1>4 DEF AcquireResumes

LEMMA ReleaseFalls ==
    ASSUME AInv, NEW r \in Tasks, LeaseRelease(r)
    PROVE  /\ AskWay(r)' < AskWay(r) /\ \A q \in Tasks \ {r} : Yields(q)
           /\ UNCHANGED closed /\ CloserWay' <= CloserWay
<1> USE DEF AInv, AdmissionTypeOK, TypeOK
<1>1. /\ task[r] = "holding" /\ outcome[r] = "admitted"
      /\ task' = [task EXCEPT ![r] = "idle"] /\ GiveBack(r) /\ UNCHANGED <<signal, outcome, closed>>
      /\ closer' = closer \/ (closer = "registered" /\ closer' = "signalled")
  BY DEF LeaseRelease, Release, OutcomesMatchTasks
<1>2. fut[r] # "pending"
  BY <1>1 DEF IInv, FuturesMatchTasks
<1>3. \A q \in Tasks \ {r} : fut'[q] = fut[q] \/ (fut[q] = "pending" /\ fut'[q] = "granted")
  BY <1>1, <1>2, GiveBackOthers
<1>4. \A q \in Tasks \ {r} : Yields(q)
  BY <1>1, <1>3 DEF Yields
<1>5. AskWay(r) = 1 /\ AskWay(r)' = 0
  BY <1>1 DEF AskWay
<1>6. CloserWay' <= CloserWay
  BY <1>1 DEF CloserWay
<1> QED BY <1>1, <1>4, <1>5, <1>6

\* No way gets longer and closing is for good; one of them gets shorter, or the
\* controller is closed.
AdmissionProgress ==
    /\ \A r \in Tasks : AskWay(r)' <= AskWay(r)
    /\ CloserWay' <= CloserWay
    /\ closed => closed'
    /\ \/ \E r \in Tasks : AskWay(r)' < AskWay(r)
       \/ CloserWay' < CloserWay
       \/ ~closed /\ closed'

LEMMA RequestProgress ==
    ASSUME AInv, NEW r \in Tasks, RequestStep(r)
    PROVE  AdmissionProgress
<1>1. AskWay(r)' < AskWay(r) /\ \A q \in Tasks \ {r} : Yields(q)
  BY AskFalls, WaitFalls, ReleaseFalls DEF RequestStep
<1>2. CloserWay' <= CloserWay /\ UNCHANGED closed
  <2>1. CASE LeaseRelease(r)
    BY <2>1, ReleaseFalls
  <2>2. CASE ~LeaseRelease(r)
    <3>1. UNCHANGED <<closed, closer>>
      BY <2>2 DEF RequestStep, RejectClosed, RejectFull, AdmitNow, Enqueue, AcquireResumes,
         AdmitQueued, RejectQueued, SuspendAgain, QueueTimer, CancelRequest
    <3>2. CloserWay' = CloserWay
      BY <3>1 DEF CloserWay
    <3> QED BY <3>1, <3>2, WaysAre
  <2> QED BY <2>1, <2>2
<1>3. AskWay(r)' <= AskWay(r)
  BY <1>1, WaysAre, NextWaysAre
<1> QED BY <1>1, <1>2, <1>3, YieldsIsNoStepBack DEF AdmissionProgress

LEMMA CloseProgress ==
    ASSUME AInv, Drain \/ CloseStep, ~UNCHANGED admissionVars
    PROVE  AdmissionProgress
<1>1. \A q \in Tasks : Yields(q)
  BY DEF Drain, CloseStep, Close, StopAccepting, FailAll, Live, IdleWaitRuns, CloseReturns,
     DrainTimeout, books, vars, Yields, AInv, AdmissionTypeOK, TypeOK
<1>2. closed => closed'
  BY DEF Drain, CloseStep, Close, StopAccepting, IdleWaitRuns, CloseReturns, DrainTimeout
<1>3. CASE Drain
  <2>1. ~closed /\ closed' /\ closer' = closer
    BY <1>3 DEF Drain, StopAccepting, admissionVars, books
  <2>2. CloserWay' = CloserWay
    BY <2>1 DEF CloserWay
  <2>3. CloserWay' <= CloserWay
    BY <2>2, WaysAre
  <2> QED BY <1>1, <2>1, <2>3, YieldsIsNoStepBack DEF AdmissionProgress
<1>4. CASE CloseStep
  <2>1. CloserWay' < CloserWay
    BY <1>4 DEF CloseStep, Close, IdleWaitRuns, CloseReturns, DrainTimeout, CloserWay
  <2>2. CloserWay' <= CloserWay
    BY <2>1, WaysAre, NextWaysAre
  <2> QED BY <1>1, <1>2, <2>1, <2>2, YieldsIsNoStepBack DEF AdmissionProgress
<1> QED BY <1>3, <1>4

\* The safety half of EveryQueuedRequestAnswered and CloseEnds, for any number
\* of requests: no step of the controller, a grant, a signal, a drain or one of
\* close() included, puts a request or the shutdown back, and each of them
\* brings one of them nearer to its end.
THEOREM EveryAdmissionStepAdvances == AdmissionSpec => [][AdmissionProgress]_admissionVars
<1>1. AInv /\ [AdmissionNext]_admissionVars => [AdmissionProgress]_admissionVars
  BY RequestProgress, CloseProgress DEF AdmissionNext
<1> QED BY <1>1, AdmissionInvariantHolds, PTL DEF AdmissionSpec

\* ... a request in at most six steps and close() in at most five.
THEOREM AdmissionIsBounded ==
    AdmissionSpec => [](CloserWay \in 0 .. 5 /\ \A r \in Tasks : AskWay(r) \in 0 .. 6)
BY WaysAre, PTL

=============================================================================
