--------------------------- MODULE FairSemaphore ---------------------------
(***************************************************************************)
(* llmserve.admission.FairSemaphore, the FIFO counting semaphore under the *)
(* admission controller, driven by asyncio tasks.                          *)
(*                                                                         *)
(* A step is what runs between two suspensions of the event loop.  A task  *)
(* that has to wait parks one future in the deque; granting or failing the *)
(* future and the task noticing it are different steps, and a queue        *)
(* timeout or a cancellation may come between them.                        *)
(*                                                                         *)
(* direct tells the two ways asyncio delivers that signal apart:           *)
(*   TRUE   the task awaits the future itself (timeout=None, or            *)
(*          asyncio.wait_for since Python 3.12): a pending future is       *)
(*          cancelled on the spot, a done one lets the signal be raised    *)
(*          when the task runs again;                                      *)
(*   FALSE  asyncio.wait_for up to Python 3.11: the signal only wakes the  *)
(*          task, which returns the future's result if there is one and    *)
(*          otherwise cancels the future and suspends a second time.       *)
(***************************************************************************)
EXTENDS Naturals, Sequences, FiniteSets, SequencesExt, FiniteSetsExt

CONSTANTS Tasks,         \* asyncio tasks that call acquire() and release()
          Capacity       \* the constructor's value

ASSUME TasksAssumption == IsFiniteSet(Tasks)
ASSUME CapacityAssumption == Capacity \in Nat \ {0}   \* __init__ raises below 1

VARIABLES direct,   \* how this Python's asyncio delivers signals; never changes
          value,    \* _value: permits free to take
          waiters,  \* _waiters: the deque, each future named by its task
          fut,      \* state of the future each task parked
          signal,   \* timeout or cancellation delivered to a waiting task
          task      \* where each task stands with respect to acquire()

vars == <<direct, value, waiters, fut, signal, task>>

TypeOK ==
    /\ direct \in BOOLEAN
    /\ value \in Nat
    /\ waiters \in Seq(Tasks)
    /\ fut \in [Tasks -> {"none", "pending", "granted", "failed", "cancelled"}]
    /\ signal \in [Tasks -> {"none", "timeout", "cancel"}]
    /\ task \in [Tasks -> {"idle", "waiting", "holding"}]

Init ==
    /\ direct \in BOOLEAN
    /\ value = Capacity
    /\ waiters = <<>>
    /\ fut = [t \in Tasks |-> "none"]
    /\ signal = [t \in Tasks |-> "none"]
    /\ task = [t \in Tasks |-> "idle"]

-----------------------------------------------------------------------------
(* The deque *)

\* Positions of the deque whose future nobody has completed.
Live == {i \in DOMAIN waiters : fut[waiters[i]] = "pending"}

LiveUpTo(n) == {i \in Live : i <= n}

\* _wake with v permits pops until v futures are granted or the deque is
\* empty; futures that are already done are popped and skipped.
Popped(v) ==
    Min({n \in 0 .. Len(waiters) :
            Cardinality(LiveUpTo(n)) = v \/ n = Len(waiters)})

\* Mutant: popping from the right.
MutGrantedLast(v) ==
    {waiters[i] : i \in {j \in Live : Cardinality({k \in Live : k >= j}) <= v}}

Granted(v) == {waiters[i] : i \in LiveUpTo(Popped(v))}

\* Mutant: release() without _wake().
MutGiveBackNoWake(t) ==
    /\ value' = value + 1
    /\ waiters' = waiters
    /\ fut' = [fut EXCEPT ![t] = "none"]

\* Mutant: _wake() forgets _value -= 1.
MutGiveBackKeepsPermit(t) ==
    LET v == value + 1 IN
    /\ value' = v
    /\ waiters' = SubSeq(waiters, Popped(v) + 1, Len(waiters))
    /\ fut' = [u \in Tasks |-> IF u \in Granted(v) THEN "granted"
                               ELSE IF u = t THEN "none" ELSE fut[u]]

\* release(), called for a permit that task t gives up.
GiveBack(t) ==
    LET v == value + 1 IN
    /\ value' = v - Cardinality(Granted(v))
    /\ waiters' = SubSeq(waiters, Popped(v) + 1, Len(waiters))
    /\ fut' = [u \in Tasks |-> IF u \in Granted(v) THEN "granted"
                               ELSE IF u = t THEN "none" ELSE fut[u]]

\* Mutant: the future stays in the deque.
MutDiscardNothing(t) == UNCHANGED waiters

\* _discard: drop t's future from the deque unless it was popped already.
Discard(t) ==
    IF \E i \in DOMAIN waiters : waiters[i] = t
    THEN waiters' = RemoveAt(waiters, CHOOSE i \in DOMAIN waiters : waiters[i] = t)
    ELSE UNCHANGED waiters

-----------------------------------------------------------------------------
(* acquire() up to its first suspension, and release() *)

\* Mutant: the permit count is not looked at.
MutAcquireUnchecked(t) ==
    /\ task[t] = "idle"
    /\ waiters = <<>>
    /\ value' = value - 1
    /\ task' = [task EXCEPT ![t] = "holding"]
    /\ UNCHANGED <<direct, waiters, fut, signal>>

AcquireNow(t) ==
    /\ task[t] = "idle"
    /\ value > 0 /\ waiters = <<>>
    /\ value' = value - 1
    /\ task' = [task EXCEPT ![t] = "holding"]
    /\ UNCHANGED <<direct, waiters, fut, signal>>

\* Mutant: appendleft for append.
MutAcquireInFront(t) ==
    /\ task[t] = "idle"
    /\ ~(value > 0 /\ waiters = <<>>)
    /\ waiters' = <<t>> \o waiters
    /\ fut' = [fut EXCEPT ![t] = "pending"]
    /\ task' = [task EXCEPT ![t] = "waiting"]
    /\ UNCHANGED <<direct, value, signal>>

AcquireWait(t) ==
    /\ task[t] = "idle"
    /\ ~(value > 0 /\ waiters = <<>>)
    /\ waiters' = Append(waiters, t)
    /\ fut' = [fut EXCEPT ![t] = "pending"]
    /\ task' = [task EXCEPT ![t] = "waiting"]
    /\ UNCHANGED <<direct, value, signal>>

Release(t) ==
    /\ task[t] = "holding"
    /\ GiveBack(t)
    /\ task' = [task EXCEPT ![t] = "idle"]
    /\ UNCHANGED <<direct, signal>>

\* Mutant: the deque is cleared, its futures are never completed.
MutFailNobody ==
    /\ waiters' = <<>>
    /\ UNCHANGED <<direct, value, fut, signal, task>>

\* fail_all: every queued future gets the exception, the deque is emptied.
FailAll ==
    /\ waiters' = <<>>
    /\ fut' = [t \in Tasks |->
                 IF \E i \in Live : waiters[i] = t THEN "failed" ELSE fut[t]]
    /\ UNCHANGED <<direct, value, signal, task>>

-----------------------------------------------------------------------------
(* The event loop: signals to a waiting task, and its next run *)

Interrupt(t, s) ==
    /\ task[t] = "waiting"
    /\ signal' = [signal EXCEPT ![t] = s]
    /\ fut' = IF direct /\ fut[t] = "pending"
              THEN [fut EXCEPT ![t] = "cancelled"] ELSE fut
    /\ UNCHANGED <<direct, value, waiters, task>>

TimerFires(t) == signal[t] = "none" /\ Interrupt(t, "timeout")

\* A cancellation outranks a timeout that has not been acted on yet.
CancelTask(t) == signal[t] # "cancel" /\ Interrupt(t, "cancel")

Signalled(t) == signal[t] # "none"

\* acquire() ends for t: the task stops waiting and forgets its future.
Ends(t, where) ==
    /\ task' = [task EXCEPT ![t] = where]
    /\ signal' = [signal EXCEPT ![t] = "none"]

\* Mutant: a grant counts whatever else has happened.
MutReturnSignalled(t) ==
    /\ task[t] = "waiting" /\ fut[t] = "granted"
    /\ fut' = [fut EXCEPT ![t] = "none"]
    /\ Ends(t, "holding")
    /\ UNCHANGED <<direct, value, waiters>>

\* wait_for up to 3.11 finds the future granted and swallows the signal.
ReturnGranted(t) ==
    /\ task[t] = "waiting" /\ fut[t] = "granted"
    /\ ~(direct /\ Signalled(t))
    /\ fut' = [fut EXCEPT ![t] = "none"]
    /\ Ends(t, "holding")
    /\ UNCHANGED <<direct, value, waiters>>

\* Mutant: no hand-back.
MutHandBackLost(t) ==
    /\ task[t] = "waiting" /\ fut[t] = "granted"
    /\ direct /\ Signalled(t)
    /\ fut' = [fut EXCEPT ![t] = "none"]
    /\ Ends(t, "idle")
    /\ UNCHANGED <<direct, value, waiters>>

\* The permit was granted in the tick the task gave up: hand it back.
HandBack(t) ==
    /\ task[t] = "waiting" /\ fut[t] = "granted"
    /\ direct /\ Signalled(t)
    /\ GiveBack(t)
    /\ Ends(t, "idle")
    /\ UNCHANGED direct

\* wait_for up to 3.11 cancels the future and suspends once more.
CancelFuture(t) ==
    /\ task[t] = "waiting" /\ fut[t] = "pending"
    /\ ~direct /\ Signalled(t)
    /\ fut' = [fut EXCEPT ![t] = "cancelled"]
    /\ UNCHANGED <<direct, value, waiters, signal, task>>

\* acquire() raises: its future was failed, or cancelled.
RaiseOut(t) ==
    /\ task[t] = "waiting" /\ fut[t] \in {"failed", "cancelled"}
    /\ Discard(t)
    /\ fut' = [fut EXCEPT ![t] = "none"]
    /\ Ends(t, "idle")
    /\ UNCHANGED <<direct, value>>

\* What RaiseOut and HandBack raise.
Raises(t) ==
    IF fut[t] = "failed" /\ ~(direct /\ Signalled(t))
    THEN "shutdown" ELSE signal[t]

Resume(t) == ReturnGranted(t) \/ HandBack(t) \/ CancelFuture(t) \/ RaiseOut(t)

-----------------------------------------------------------------------------
TaskStep(t) ==
    \/ AcquireNow(t) \/ AcquireWait(t) \/ Release(t)
    \/ TimerFires(t) \/ CancelTask(t)
    \/ Resume(t)

Next == (\E t \in Tasks : TaskStep(t)) \/ FailAll

Spec == Init /\ [][Next]_vars

\* The event loop runs every ready task, and whoever holds a permit gives it
\* back some time.  Nothing obliges a timer to fire or a task to be cancelled.
Fairness == \A t \in Tasks : WF_vars(Resume(t)) /\ WF_vars(Release(t))

FairSpec == Spec /\ Fairness

-----------------------------------------------------------------------------
(* Properties *)

Owners == {t \in Tasks : task[t] = "holding" \/ fut[t] = "granted"}

\* No permit is ever lost or made up, whichever way acquire() ends: the free
\* permits and the owned ones, handed over but not yet noticed included, add
\* up to the capacity.  (The hand-back on acquire()'s exception path.)
PermitsConserved == value + Cardinality(Owners) = Capacity

\* A free permit and a queued future never coexist, so nobody waits for a
\* release that has already happened.  (_wake against acquire()'s fast path.)
NoIdlePermit == value > 0 => waiters = <<>>

\* The deque holds no task twice; a future is in it while it is pending and
\* only a cancelled one may linger until its task has run _discard.
DequeMatchesFutures ==
    /\ \A i, j \in DOMAIN waiters : waiters[i] = waiters[j] => i = j
    /\ \A i \in DOMAIN waiters : fut[waiters[i]] \in {"pending", "cancelled"}
    /\ \A t \in Tasks : fut[t] = "pending" => \E i \in DOMAIN waiters : waiters[i] = t

\* A queued future of t stands before one of u.
Ahead(t, u) ==
    \E i, j \in Live : i < j /\ waiters[i] = t /\ waiters[j] = u

\* Permits go out strictly in arrival order: no waiter is granted one while
\* an earlier one still waits, and no arrival takes one past a waiter.
ArrivalOrder ==
    [][/\ \A t, u \in Tasks :
             Ahead(t, u) /\ fut'[u] = "granted" => fut'[t] # "pending"
       /\ \A t \in Tasks :
             task[t] = "idle" /\ task'[t] = "holding" => Live = {}]_vars

\* No starvation: while holders keep giving permits back, every call of
\* acquire() ends, however many others arrive and give up meanwhile.
NoStarvation == \A t \in Tasks : task[t] = "waiting" ~> task[t] # "waiting"

\* What FifoPermits sees: in line are the tasks whose futures are pending, in
\* the order of the deque; a permit is owned from the moment it is handed over.
Pending == {t \in Tasks : fut[t] = "pending"}

DequeOrder == {p \in Tasks \X Tasks : Ahead(p[1], p[2])}

Fifo == INSTANCE FifoPermits
          WITH Callers <- Tasks, Permits <- Capacity,
               line <- Pending, before <- DequeOrder, holders <- Owners

\* The semaphore, with its deque, futures, signals and second suspensions,
\* implements FifoPermits.
ImplementsFifoPermits == Fifo!Spec

=============================================================================
