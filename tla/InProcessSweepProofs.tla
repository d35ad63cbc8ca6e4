------------------------ MODULE InProcessSweepProofs ------------------------
(***************************************************************************)
(* Proofs about InProcessSweep for any number of tasks, slots, queue       *)
(* places and tokens, and both versions of asyncio.wait_for.               *)
(*                                                                         *)
(* Every step of a request is one of the admission controller's, and so is *)
(* none at all of run_phase but the cancellation of the tail, which        *)
(* signals many tasks at once: it is shown to keep AInv by itself.         *)
(***************************************************************************)
EXTENDS InProcessSweep, AdmissionControllerProofs

-----------------------------------------------------------------------------
(* The inductive invariant of a phase *)

SweepTyped ==
    /\ gen \in [Tasks -> {"none", "prefill", "decoding", "final", "ended"}]
    /\ emitted \in [Tasks -> Nat]
    /\ active \in Nat
    /\ driver \in {"arriving", "closing", "reported"}
    /\ issued \in 0 .. Cardinality(Tasks)
    /\ found \in [Tasks -> {"not cancelled", "queued", "streaming", "created"}]
    /\ result \in [Tasks -> {"none", "ok", "shed", "cancelled"}]

\* What a task has returned, given the verdict its request got and where the
\* cancellation of the tail found it.
ResultFits(r) ==
    /\ task[r] # "idle" => result[r] = "none"
    /\ task[r] = "idle" /\ outcome[r] = "none" =>
         result[r] = "none" \/ (result[r] = "cancelled" /\ found[r] = "created")
    /\ task[r] = "idle" /\ outcome[r] = "admitted" =>
         result[r] = "ok" \/ (result[r] = "cancelled" /\ found[r] = "streaming")
    /\ outcome[r] \in {"queue_full", "timeout"} => result[r] = "shed"
    /\ outcome[r] = "cancel" => result[r] = "cancelled"

\* What a cancelled task may still become.
FoundFits(r) ==
    /\ found[r] = "created" => task[r] = "idle" /\ outcome[r] = "none"
    /\ found[r] = "streaming" => outcome[r] = "admitted" /\ result[r] \in {"none", "cancelled"}
    /\ found[r] = "queued" /\ outcome[r] = "none" => task[r] = "waiting" /\ signal[r] = "cancel"
    /\ found[r] = "queued" /\ direct => outcome[r] # "admitted"
    /\ signal[r] = "cancel" => found[r] = "queued"

Story(r) ==
    /\ r > issued => task[r] = "idle" /\ outcome[r] = "none" /\ result[r] = "none"
                     /\ found[r] = "not cancelled"
    /\ driver = "arriving" => found[r] = "not cancelled"
    /\ task[r] = "holding" <=> Engine!Asleep(r)
    /\ outcome[r] # "shutdown" /\ fut[r] # "failed"
    /\ ResultFits(r)
    /\ FoundFits(r)

\* The phase as a whole: the last task issued is cancelled before its first
\* run, and a report waits for every task.
PhaseFits ==
    /\ driver # "arriving" /\ issued > 0 => found[issued] = "created"
    /\ driver = "reported" => \A r \in 1 .. issued : result[r] # "none"

\* Those of the cancelled queue that got hold of a slot, or will.  As long as
\* cancellations are on their way none of them can have given it back.
Heirs == {r \in Tasks : /\ found[r] = "queued"
                        /\ outcome[r] = "admitted" \/ fut[r] = "granted"}

HeirsFit ==
    /\ Cardinality(Heirs) <= Capacity
    /\ ~CancellationsDelivered => Heirs \subseteq Owners

SweepInv ==
    /\ SweepTyped
    /\ \A r \in Tasks : Story(r)
    /\ PhaseFits
    /\ HeirsFit
    /\ LoadIsSlotsAndAbandoned

-----------------------------------------------------------------------------
(* The controller in a phase *)

LEMMA RequestIsAdmissionStep ==
    ASSUME NEW r \in Tasks, RequestRuns(r) \/ Finalise(r)
    PROVE  [AdmissionNext]_admissionVars
<1>1. RequestStep(r) \/ UNCHANGED admissionVars
  BY DEF RequestRuns, Finalise, Queues, IsRefused, Streams, NextToken, Completes,
     IsInterrupted, NeverStarts, RequestStep, AcquireResumes
<1> QED BY <1>1 DEF AdmissionNext

\* cancel() for the whole tail: many Interrupts in one step.
LEMMA CancelTailKeepsAInv ==
    ASSUME AInv, SweepTyped, CancelTail,
           UNCHANGED <<direct, value, waiters, task, books, closed, idle, closing>>
    PROVE  AInv'
<1> USE DEF AInv, AdmissionTypeOK, TypeOK
<1>1. UNCHANGED <<inFlight, queued, stats, gauges, outcome, closer, awaited>>
  BY DEF books, closing
<1>2. /\ signal' \in [Tasks -> {"none", "timeout", "cancel"}]
      /\ fut' \in [Tasks -> {"none", "pending", "granted", "failed", "cancelled"}]
  BY DEF CancelTail
<1>3. \A t \in Tasks : \/ fut'[t] = fut[t]
                       \/ fut[t] = "pending" /\ fut'[t] = "cancelled" /\ signal'[t] = "cancel"
  BY DEF CancelTail
<1>4. \A t \in Tasks : signal'[t] = signal[t] \/ signal'[t] = "cancel"
  BY DEF CancelTail
<1>5. AdmissionTypeOK'
  BY <1>1, <1>2
<1>6. FuturesMatchTasks'
  BY <1>3 DEF IInv, FuturesMatchTasks
<1>7. DequeMatchesFutures'
  <2>1. \A i \in DOMAIN waiters : waiters[i] \in Tasks
    BY ElementOfSeq, LenProperties
  <2> QED BY <2>1, <1>3 DEF IInv, DequeMatchesFutures
<1>8. NoIdlePermit'
  BY DEF IInv, NoIdlePermit
<1>9. PermitsConserved'
  <2>1. Owners' = Owners
    BY <1>3 DEF Owners
  <2> QED BY <2>1, SameOwners
<1>10. IInv'
  BY <1>5, <1>6, <1>7, <1>8, <1>9 DEF IInv
<1>11. CancelledIsSignalled'
  BY <1>3, <1>4 DEF CancelledIsSignalled
<1>12. OutcomesMatchTasks' /\ BooksBalance' /\ VerdictsCounted'
  BY <1>1 DEF OutcomesMatchTasks, BooksBalance, VerdictsCounted, Running, Queueing, With
<1>13. ClosedNothingPending'
  BY <1>3 DEF ClosedNothingPending
<1>14. AwaitedRun'
  BY <1>1 DEF AwaitedRun, Running
<1> QED BY <1>1, <1>5, <1>10, <1>11, <1>12, <1>13, <1>14

LEMMA SweepNextKeepsAInv ==
    ASSUME AInv, SweepTyped, [SweepNext]_sweepVars
    PROVE  AInv'
<1>1. ASSUME UNCHANGED admissionVars PROVE AInv'
  BY <1>1, AdmissionNextKeepsAInv
<1>2. ASSUME NEW n \in 0 .. Cardinality(Tasks), NEW last \in BOOLEAN, Arrivals(n, last)
      PROVE  AInv'
  <2>1. CASE last
    BY <2>1, <1>2, CancelTailKeepsAInv DEF Arrivals
  <2>2. CASE ~last
    BY <2>2, <1>2, <1>1 DEF Arrivals, admissionVars, vars
  <2> QED BY <2>1, <2>2
<1>3. CASE Settle \/ UNCHANGED sweepVars
  BY <1>1, <1>3 DEF Settle, sweepVars
<1>4. ASSUME NEW r \in Tasks, RequestRuns(r) \/ Finalise(r) PROVE AInv'
  BY <1>4, RequestIsAdmissionStep, AdmissionNextKeepsAInv
<1> QED BY <1>2, <1>3, <1>4 DEF SweepNext, Arrive

-----------------------------------------------------------------------------
(* What a step of one request does *)

\* The others: a permit given back may be handed to one of them.
OthersQueue(r) ==
    \A q \in Tasks \ {r} :
       /\ task'[q] = task[q] /\ outcome'[q] = outcome[q] /\ signal'[q] = signal[q]
       /\ fut'[q] = fut[q] \/ (fut[q] = "pending" /\ fut'[q] = "granted")

OthersRun(r) ==
    \A q \in Tasks \ {r} : gen'[q] = gen[q] /\ result'[q] = result[q]

\* Load, slots and generations left behind move together.
LoadMoves(r) ==
    \/ /\ active' = active /\ inFlight' = inFlight
       /\ gen'[r] = "final" <=> gen[r] = "final"
    \/ /\ active' = active + 1 /\ inFlight' = inFlight + 1
       /\ gen'[r] # "final" /\ gen[r] # "final"
    \/ /\ active' = active /\ inFlight' = inFlight - 1 /\ inFlight > 0
       /\ gen'[r] = "final" /\ gen[r] # "final"
    \/ /\ active' = active - 1 /\ inFlight' = inFlight - 1 /\ inFlight > 0
       /\ gen'[r] # "final" /\ gen[r] # "final"
    \/ /\ active' = active - 1 /\ inFlight' = inFlight
       /\ gen'[r] # "final" /\ gen[r] = "final"

TypedStep ==
    /\ gen' \in [Tasks -> {"none", "prefill", "decoding", "final", "ended"}]
    /\ emitted' \in [Tasks -> Nat]
    /\ result' \in [Tasks -> {"none", "ok", "shed", "cancelled"}]

\* A cancelled request does not come to a slot it had no permit for, and
\* keeps the one it has while cancellations are on their way.
HeirStep(r) ==
    r \in Heirs' => r \in Heirs /\ (~CancellationsDelivered => r \in Owners')

\* No request comes to a cancellation that is still on its way.
SignalStep(r) ==
    signal'[r] = "cancel" /\ fut'[r] = "pending" => signal[r] = "cancel" /\ fut[r] = "pending"

Effect(r) ==
    /\ TypedStep
    /\ UNCHANGED <<direct, driver, issued, found>>
    /\ OthersQueue(r) /\ OthersRun(r)
    /\ LoadMoves(r)
    /\ Story(r)'
    /\ HeirStep(r) /\ SignalStep(r)
    /\ result[r] # "none" => result'[r] # "none"

LEMMA IssuedIsCounted ==
    ASSUME SweepTyped, NEW r \in Tasks, r <= issued
    PROVE  ~(r > issued)
<1>1. r \in 1 .. Cardinality(Tasks)
  BY IssueOrderAssumption
<1>2. Cardinality(Tasks) \in Nat
  BY TasksAssumption, FS_CardinalityType
<1>3. issued \in 0 .. Cardinality(Tasks)
  BY DEF SweepTyped
<1>4. r \in Int /\ issued \in Int
  BY <1>1, <1>2, <1>3
<1> QED BY <1>4

LEMMA QueuesEffect ==
    ASSUME AInv, SweepInv, NEW r \in Tasks, r <= issued, found[r] # "created",
           Queues(r), UNCHANGED phaseState, direct' = direct
    PROVE  Effect(r)
<1>0. Story(r) /\ ~(r > issued)
  BY IssuedIsCounted DEF SweepInv
<1>1. UNCHANGED <<gen, emitted, active, result, driver, issued, found>>
  BY DEF Queues, engineState, phaseState
<1>2. TypedStep /\ OthersRun(r)
  BY <1>1 DEF TypedStep, OthersRun, SweepInv, SweepTyped
<1>3. CASE Enqueue(r)
  <2>1. /\ task[r] = "idle" /\ outcome[r] = "none" /\ UNCHANGED <<signal, outcome, inFlight>>
        /\ task' = [task EXCEPT ![r] = "waiting"] /\ fut' = [fut EXCEPT ![r] = "pending"]
    BY <1>3 DEF Enqueue, Arriving, AcquireWait
  <2>2. task'[r] = "waiting" /\ fut'[r] = "pending" /\ OthersQueue(r)
    BY <2>1 DEF OthersQueue, AInv, AdmissionTypeOK, TypeOK
  <2>3. ~Engine!Asleep(r)
    BY <1>0, <2>1 DEF Story
  <2>4. ResultFits(r)'
    BY <1>0, <1>1, <2>1, <2>2 DEF Story, ResultFits
  <2>5. FoundFits(r)'
    BY <1>0, <1>1, <2>1, <2>2 DEF Story, FoundFits
  <2>6. Story(r)'
    BY <1>0, <1>1, <2>1, <2>2, <2>3, <2>4, <2>5 DEF Story, Engine!Asleep
  <2>7. HeirStep(r)
    BY <1>1, <2>1, <2>2 DEF HeirStep, Heirs
  <2>8. SignalStep(r)
    BY <1>0, <2>1 DEF SignalStep, Story, FoundFits
  <2> QED BY <1>1, <1>2, <2>1, <2>2, <2>6, <2>7, <2>8 DEF Effect, LoadMoves
<1>4. CASE SuspendAgain(r) \/ QueueTimer(r)
  <2>1. /\ task[r] = "waiting" /\ UNCHANGED <<task, outcome, inFlight>>
        /\ \/ signal' = signal
           \/ signal[r] = "none" /\ signal' = [signal EXCEPT ![r] = "timeout"]
        /\ fut' = fut \/ (fut[r] = "pending" /\ fut' = [fut EXCEPT ![r] = "cancelled"])
    BY <1>4 DEF SuspendAgain, QueueTimer, CancelFuture, TimerFires, Interrupt, books
  <2>2. /\ OthersQueue(r)
        /\ signal'[r] = signal[r] \/ (signal[r] = "none" /\ signal'[r] = "timeout")
        /\ fut'[r] = fut[r] \/ (fut[r] = "pending" /\ fut'[r] = "cancelled")
    BY <2>1 DEF OthersQueue, AInv, AdmissionTypeOK, TypeOK
  <2>3. ResultFits(r)'
    BY <1>0, <1>1, <2>1 DEF Story, ResultFits
  <2>4. FoundFits(r)'
    BY <1>0, <1>1, <2>1, <2>2 DEF Story, FoundFits
  <2>5. Story(r)'
    BY <1>0, <1>1, <2>1, <2>2, <2>3, <2>4 DEF Story, Engine!Asleep
  <2>6. HeirStep(r)
    <3> SUFFICES ASSUME r \in Heirs' PROVE r \in Heirs /\ (~CancellationsDelivered => r \in Owners')
      BY DEF HeirStep
    <3>1. r \in Heirs /\ (outcome'[r] = "admitted" \/ fut'[r] = "granted")
      BY <1>1, <2>1, <2>2 DEF Heirs
    <3>2. outcome[r] = "none"
      BY <2>1 DEF AInv, OutcomesMatchTasks
    <3> QED BY <3>1, <3>2, <2>1 DEF Owners
  <2> QED BY <1>1, <1>2, <2>1, <2>2, <2>5, <2>6 DEF Effect, SignalStep, LoadMoves
<1> QED BY <1>3, <1>4 DEF Queues

LEMMA RefusedEffect ==
    ASSUME AInv, SweepInv, NEW r \in Tasks, r <= issued, found[r] # "created",
           IsRefused(r), UNCHANGED phaseState, direct' = direct
    PROVE  Effect(r)
<1> USE DEF AInv, AdmissionTypeOK, TypeOK, SweepInv, SweepTyped
<1>0. Story(r) /\ ~(r > issued)
  BY IssuedIsCounted
<1>1. /\ UNCHANGED <<gen, emitted, active, driver, issued, found, inFlight>>
      /\ result' = [result EXCEPT ![r] = IF outcome'[r] = "cancel" THEN "cancelled" ELSE "shed"]
  BY DEF IsRefused, Returns, engineState, phaseState, RejectFull, RejectQueued
<1>2. CASE RejectFull(r)
  <2>1. /\ UNCHANGED <<task, fut, signal>>
        /\ task[r] = "idle" /\ outcome[r] = "none"
        /\ outcome' = [outcome EXCEPT ![r] = "queue_full"]
    BY <1>2 DEF RejectFull, Arriving, Verdict, vars
  <2>2. OthersQueue(r) /\ OthersRun(r)
    BY <1>1, <2>1 DEF OthersQueue, OthersRun
  <2>3. outcome'[r] = "queue_full" /\ result'[r] = "shed"
    BY <1>1, <2>1
  <2> HIDE DEF AInv, AdmissionTypeOK, TypeOK, SweepInv, SweepTyped
  <2>6. ResultFits(r)'
    BY <1>0, <1>1, <2>1, <2>3 DEF Story, ResultFits
  <2>7. FoundFits(r)'
    BY <1>0, <1>1, <2>1, <2>3 DEF Story, FoundFits
  <2>4. Story(r)'
    BY <1>0, <1>1, <2>1, <2>3, <2>6, <2>7 DEF Story, Engine!Asleep
  <2>5. HeirStep(r)
    <3>1. found'[r] # "queued"
      BY <1>0, <1>1, <2>1 DEF Story, FoundFits
    <3> QED BY <3>1 DEF HeirStep, Heirs
  <2>8. TypedStep
    BY <1>1, <2>3 DEF TypedStep, SweepInv, SweepTyped
  <2>9. LoadMoves(r) /\ SignalStep(r)
    BY <1>1, <2>1 DEF LoadMoves, SignalStep
  <2>10. result'[r] # "none"
    BY <2>3
  <2> QED BY <1>1, <2>2, <2>4, <2>5, <2>8, <2>9, <2>10 DEF Effect
<1>3. CASE RejectQueued(r)
  <2>1. /\ task[r] = "waiting" /\ task' = [task EXCEPT ![r] = "idle"]
        /\ signal' = [signal EXCEPT ![r] = "none"]
        /\ outcome' = [outcome EXCEPT ![r] = Raises(r)]
    BY <1>3 DEF RejectQueued, HandBack, RaiseOut, Ends, Verdict
  <2>2. Raises(r) = signal[r] /\ signal[r] \in {"timeout", "cancel"}
    BY <1>0, <1>3 DEF Story, RejectQueued, HandBack, RaiseOut, Raises, Signalled,
       CancelledIsSignalled
  <2>3. /\ fut'[r] = "none"
        /\ \A q \in Tasks \ {r} :
              fut'[q] = fut[q] \/ (fut[q] = "pending" /\ fut'[q] = "granted")
    <3>1. CASE HandBack(r)
      BY <3>1, GiveBackOthers DEF HandBack
    <3>2. CASE RaiseOut(r)
      BY <3>2 DEF RaiseOut
    <3> QED BY <3>1, <3>2, <1>3 DEF RejectQueued
  <2>4. /\ task'[r] = "idle" /\ signal'[r] = "none" /\ outcome'[r] = signal[r]
        /\ \A q \in Tasks \ {r} : /\ task'[q] = task[q] /\ outcome'[q] = outcome[q]
                                  /\ signal'[q] = signal[q]
    <3>1. outcome'[r] = signal[r] /\ \A q \in Tasks \ {r} : outcome'[q] = outcome[q]
      BY <2>1, <2>2
    <3>2. task'[r] = "idle" /\ \A q \in Tasks \ {r} : task'[q] = task[q]
      BY <2>1
    <3>3. signal'[r] = "none" /\ \A q \in Tasks \ {r} : signal'[q] = signal[q]
      BY <2>1
    <3> QED BY <3>1, <3>2, <3>3
  <2>5. /\ result'[r] = IF signal[r] = "cancel" THEN "cancelled" ELSE "shed"
        /\ \A q \in Tasks \ {r} : result'[q] = result[q]
    BY <1>1, <2>4
  <2>6. outcome[r] = "none"
    BY <2>1 DEF OutcomesMatchTasks
  <2> HIDE DEF AInv, AdmissionTypeOK, TypeOK, SweepInv, SweepTyped
  <2>7. OthersQueue(r) /\ OthersRun(r)
    BY <1>1, <2>3, <2>4, <2>5 DEF OthersQueue, OthersRun
  <2>8. ~Engine!Asleep(r)
    BY <1>0, <2>1 DEF Story
  <2>9. ResultFits(r)'
    BY <2>2, <2>4, <2>5 DEF ResultFits
  <2>10. FoundFits(r)'
    <3>1. found'[r] = found[r]
      BY <1>1
    <3>2. FoundFits(r)
      BY <1>0 DEF Story
    <3> QED BY <3>1, <3>2, <2>1, <2>2, <2>4, <2>6 DEF FoundFits
  <2>11. Story(r)'
    BY <1>0, <1>1, <2>2, <2>3, <2>4, <2>8, <2>9, <2>10 DEF Story, Engine!Asleep
  <2>12. HeirStep(r)
    BY <2>2, <2>3, <2>4 DEF HeirStep, Heirs
  <2>13. TypedStep
    BY <1>1, <2>5 DEF TypedStep, SweepInv, SweepTyped
  <2>14. result'[r] # "none"
    BY <2>5
  <2> QED BY <1>1, <2>3, <2>7, <2>11, <2>12, <2>13, <2>14 DEF Effect, SignalStep, LoadMoves
<1> QED BY <1>2, <1>3 DEF IsRefused

LEMMA StreamsEffect ==
    ASSUME AInv, SweepInv, NEW r \in Tasks, r <= issued, found[r] # "created",
           Streams(r), UNCHANGED phaseState, direct' = direct
    PROVE  Effect(r)
<1>0. Story(r) /\ ~(r > issued)
  BY IssuedIsCounted DEF SweepInv
<1>1. /\ UNCHANGED <<emitted, result, driver, issued, found>>
      /\ gen[r] = "none" /\ gen' = [gen EXCEPT ![r] = "prefill"]
      /\ active' = active + 1 /\ inFlight' = inFlight + 1
      /\ task' = [task EXCEPT ![r] = "holding"]
      /\ outcome' = [outcome EXCEPT ![r] = "admitted"]
  BY DEF Streams, phaseState, Engine!Start, Engine!Goes, AdmitNow, AdmitQueued,
     AcquireNow, ReturnGranted, Ends, Admit, Verdict
<1>2. /\ outcome[r] = "none"
      /\ \/ task[r] = "idle" /\ UNCHANGED <<fut, signal>>
         \/ /\ task[r] = "waiting" /\ fut[r] = "granted" /\ ~(direct /\ signal[r] # "none")
            /\ fut' = [fut EXCEPT ![r] = "none"] /\ signal' = [signal EXCEPT ![r] = "none"]
  <2>1. CASE AdmitNow(r)
    BY <2>1 DEF AdmitNow, AcquireNow, Arriving
  <2>2. CASE AdmitQueued(r)
    BY <2>2 DEF AdmitQueued, ReturnGranted, Ends, Signalled, AInv, OutcomesMatchTasks
  <2> QED BY <2>1, <2>2 DEF Streams
<1>3. /\ task'[r] = "holding" /\ \A q \in Tasks \ {r} : task'[q] = task[q]
      /\ outcome'[r] = "admitted" /\ \A q \in Tasks \ {r} : outcome'[q] = outcome[q]
      /\ gen'[r] = "prefill" /\ \A q \in Tasks \ {r} : gen'[q] = gen[q]
  BY <1>1 DEF AInv, AdmissionTypeOK, TypeOK, SweepInv, SweepTyped
<1>4. /\ fut'[r] = fut[r] \/ fut'[r] = "none"
      /\ signal'[r] = "none" \/ signal'[r] = signal[r]
      /\ \A q \in Tasks \ {r} : fut'[q] = fut[q] /\ signal'[q] = signal[q]
  BY <1>2 DEF AInv, AdmissionTypeOK, TypeOK
<1>5. OthersQueue(r) /\ OthersRun(r)
  BY <1>1, <1>3, <1>4 DEF OthersQueue, OthersRun
<1>12. result[r] = "none" /\ found[r] # "streaming"
  BY <1>0, <1>2 DEF Story, ResultFits, FoundFits
<1>7. ResultFits(r)'
  BY <1>1, <1>3, <1>12 DEF ResultFits
<1>8. FoundFits(r)'
  <2>1. FoundFits(r) /\ found'[r] = found[r]
    BY <1>0, <1>1 DEF Story
  <2> QED BY <2>1, <1>2, <1>3, <1>4, <1>12 DEF FoundFits
<1>9. Story(r)'
  BY <1>0, <1>1, <1>3, <1>4, <1>7, <1>8 DEF Story, Engine!Asleep
<1>10. HeirStep(r)
  <2> SUFFICES ASSUME found[r] = "queued" PROVE r \in Heirs /\ r \in Owners'
    BY <1>1 DEF HeirStep, Heirs
  <2>1. task[r] = "waiting"
    BY <1>0, <1>2 DEF Story, FoundFits
  <2> QED BY <2>1, <1>2, <1>3 DEF Heirs, Owners
<1>11. TypedStep
  BY <1>1 DEF TypedStep, SweepInv, SweepTyped
<1> QED BY <1>1, <1>3, <1>4, <1>5, <1>9, <1>10, <1>11, <1>12 DEF Effect, SignalStep, LoadMoves

\* Giving the slot back, by a request that streams.
LEMMA LeaseReleaseMoves ==
    ASSUME AInv, NEW r \in Tasks, LeaseRelease(r)
    PROVE  /\ task[r] = "holding" /\ outcome[r] = "admitted"
           /\ task'[r] = "idle" /\ outcome' = outcome
           /\ signal' = signal /\ fut'[r] = "none"
           /\ inFlight' = inFlight - 1 /\ inFlight > 0
           /\ OthersQueue(r)
<1> USE DEF AInv, AdmissionTypeOK, TypeOK
<1>1. /\ task[r] = "holding" /\ task' = [task EXCEPT ![r] = "idle"]
      /\ GiveBack(r) /\ UNCHANGED <<signal, outcome>>
      /\ inFlight' = inFlight - 1
  BY DEF LeaseRelease, Release
<1>2. fut[r] = "none"
  BY <1>1 DEF IInv, FuturesMatchTasks
<1>3. /\ fut'[r] = "none"
      /\ \A q \in Tasks \ {r} :
            fut'[q] = fut[q] \/ (fut[q] = "pending" /\ fut'[q] = "granted")
  BY <1>1, <1>2, GiveBackOthers
<1>4. inFlight > 0
  BY <1>1, TaskIsCounted DEF BooksBalance
<1> QED BY <1>1, <1>3, <1>4 DEF OthersQueue, OutcomesMatchTasks

LEMMA TokenEffect ==
    ASSUME AInv, SweepInv, NEW r \in Tasks, NextToken(r), UNCHANGED phaseState, direct' = direct
    PROVE  Effect(r)
<1> USE DEF AInv, AdmissionTypeOK, TypeOK, SweepInv, SweepTyped
<1>0. Story(r)
  OBVIOUS
<1>1. /\ UNCHANGED <<task, fut, signal, outcome, inFlight>>
      /\ UNCHANGED <<result, active, driver, issued, found>>
      /\ gen[r] \in {"prefill", "decoding"} /\ gen' = [gen EXCEPT ![r] = "decoding"]
      /\ emitted' = [emitted EXCEPT ![r] = @ + 1]
  BY DEF NextToken, Wakes, Engine!Asleep, Engine!Goes, admissionVars, vars, books,
     phaseState
<1>5. emitted[r] + 1 \in Nat
  <2>1. emitted[r] \in Nat
    OBVIOUS
  <2> HIDE DEF SweepInv, SweepTyped
  <2> QED BY <2>1, SMT
<1>6. TypedStep
  BY <1>1, <1>5 DEF TypedStep
<1>7. gen'[r] = "decoding" /\ \A q \in Tasks \ {r} : gen'[q] = gen[q]
  BY <1>1
<1>8. OthersQueue(r) /\ OthersRun(r)
  BY <1>1, <1>7 DEF OthersQueue, OthersRun
<1>9. LoadMoves(r)
  BY <1>1, <1>7 DEF LoadMoves
<1>2. OthersQueue(r) /\ OthersRun(r) /\ TypedStep /\ LoadMoves(r)
  BY <1>6, <1>8, <1>9
<1>3. Story(r)'
  BY <1>0, <1>1 DEF Story, ResultFits, FoundFits, Engine!Asleep
<1>4. HeirStep(r)
  BY <1>1 DEF HeirStep, Heirs, HeirsFit, Owners
<1> QED BY <1>1, <1>2, <1>3, <1>4 DEF Effect, SignalStep

LEMMA CompletesEffect ==
    ASSUME AInv, SweepInv, NEW r \in Tasks, Completes(r), UNCHANGED phaseState, direct' = direct
    PROVE  Effect(r)
<1> USE DEF SweepInv, SweepTyped
<1>0. Story(r)
  OBVIOUS
<1>1. /\ task[r] = "holding" /\ outcome[r] = "admitted"
      /\ task'[r] = "idle" /\ outcome' = outcome
      /\ signal' = signal /\ fut'[r] = "none"
      /\ inFlight' = inFlight - 1 /\ inFlight > 0
      /\ OthersQueue(r)
  BY LeaseReleaseMoves DEF Completes
<1>2. /\ UNCHANGED <<active, driver, issued, found>>
      /\ found[r] # "streaming" /\ CancellationsDelivered
      /\ gen[r] \in {"prefill", "decoding"} /\ gen' = [gen EXCEPT ![r] = "final"]
      /\ emitted' = [emitted EXCEPT ![r] = @ + 1]
      /\ result' = [result EXCEPT ![r] = "ok"]
  BY DEF Completes, Wakes, Engine!Asleep, Engine!Goes, Returns, phaseState
<1>6. emitted[r] + 1 \in Nat
  <2>1. emitted[r] \in Nat
    OBVIOUS
  <2> HIDE DEF SweepInv, SweepTyped
  <2> QED BY <2>1, SMT
<1>7. TypedStep
  BY <1>2, <1>6 DEF TypedStep
<1>8. /\ gen'[r] = "final" /\ \A q \in Tasks \ {r} : gen'[q] = gen[q]
      /\ result'[r] = "ok" /\ \A q \in Tasks \ {r} : result'[q] = result[q]
  BY <1>2
<1>9. OthersRun(r) /\ LoadMoves(r)
  BY <1>1, <1>2, <1>8 DEF OthersRun, LoadMoves
<1>3. OthersRun(r) /\ TypedStep /\ LoadMoves(r) /\ result'[r] = "ok"
  BY <1>7, <1>8, <1>9
<1>4. Story(r)'
  BY <1>0, <1>1, <1>2, <1>3 DEF Story, ResultFits, FoundFits, Engine!Asleep
<1>5. HeirStep(r)
  BY <1>1, <1>2 DEF HeirStep, Heirs
<1> QED BY <1>1, <1>2, <1>3, <1>4, <1>5 DEF Effect, SignalStep

LEMMA InterruptedEffect ==
    ASSUME AInv, SweepInv, NEW r \in Tasks, IsInterrupted(r), UNCHANGED phaseState, direct' = direct
    PROVE  Effect(r)
<1> USE DEF SweepInv, SweepTyped
<1>0. Story(r)
  OBVIOUS
<1>1. /\ task[r] = "holding" /\ outcome[r] = "admitted"
      /\ task'[r] = "idle" /\ outcome' = outcome
      /\ signal' = signal /\ fut'[r] = "none"
      /\ inFlight' = inFlight - 1 /\ inFlight > 0
      /\ OthersQueue(r)
  BY LeaseReleaseMoves DEF IsInterrupted
<1>2. /\ UNCHANGED <<emitted, driver, issued, found>>
      /\ found[r] = "streaming"
      /\ active' = active - 1 /\ gen' = [gen EXCEPT ![r] = "ended"]
      /\ result' = [result EXCEPT ![r] = "cancelled"]
  BY DEF IsInterrupted, Engine!Close, Engine!Leave, Engine!Goes, Returns, phaseState
<1>3. gen[r] \in {"prefill", "decoding"}
  BY <1>0, <1>1 DEF Story, Engine!Asleep
<1>4. OthersRun(r) /\ TypedStep /\ LoadMoves(r) /\ result'[r] = "cancelled"
  BY <1>1, <1>2, <1>3 DEF OthersRun, TypedStep, LoadMoves
<1>5. Story(r)'
  BY <1>0, <1>1, <1>2, <1>4 DEF Story, ResultFits, FoundFits, Engine!Asleep
<1>6. HeirStep(r)
  BY <1>1, <1>2 DEF HeirStep, Heirs
<1> QED BY <1>1, <1>2, <1>4, <1>5, <1>6 DEF Effect, SignalStep

LEMMA NeverStartsEffect ==
    ASSUME AInv, SweepInv, NEW r \in Tasks, NeverStarts(r), UNCHANGED phaseState, direct' = direct
    PROVE  Effect(r)
<1> USE DEF AInv, AdmissionTypeOK, TypeOK, SweepInv, SweepTyped
<1>0. Story(r)
  OBVIOUS
<1>1. /\ UNCHANGED <<task, fut, signal, outcome, inFlight>>
      /\ UNCHANGED <<gen, emitted, active, driver, issued, found>>
      /\ found[r] = "created" /\ result' = [result EXCEPT ![r] = "cancelled"]
  BY DEF NeverStarts, Returns, admissionVars, vars, books, engineState, phaseState
<1>2. OthersQueue(r) /\ OthersRun(r) /\ TypedStep /\ LoadMoves(r) /\ result'[r] = "cancelled"
  BY <1>1 DEF OthersQueue, OthersRun, TypedStep, LoadMoves
<1>3. Story(r)'
  BY <1>0, <1>1, <1>2 DEF Story, ResultFits, FoundFits, Engine!Asleep
<1>4. HeirStep(r)
  BY <1>1 DEF HeirStep, Heirs
<1> QED BY <1>1, <1>2, <1>3, <1>4 DEF Effect, SignalStep

LEMMA FinaliseEffect ==
    ASSUME AInv, SweepInv, NEW r \in Tasks, Finalise(r), direct' = direct
    PROVE  Effect(r)
<1> USE DEF AInv, AdmissionTypeOK, TypeOK, SweepInv, SweepTyped
<1>0. Story(r)
  OBVIOUS
<1>1. /\ UNCHANGED <<task, fut, signal, outcome, inFlight>>
      /\ UNCHANGED <<emitted, result, driver, issued, found>>
      /\ gen[r] = "final" /\ gen' = [gen EXCEPT ![r] = "ended"] /\ active' = active - 1
  BY DEF Finalise, Engine!Close, Engine!Leave, Engine!Goes, admissionVars, vars, books, phaseState
<1>2. OthersQueue(r) /\ OthersRun(r) /\ TypedStep /\ LoadMoves(r)
  BY <1>1 DEF OthersQueue, OthersRun, TypedStep, LoadMoves
<1>3. Story(r)'
  BY <1>0, <1>1 DEF Story, ResultFits, FoundFits, Engine!Asleep
<1>4. HeirStep(r)
  BY <1>1 DEF HeirStep, Heirs, HeirsFit, Owners
<1> QED BY <1>1, <1>2, <1>3, <1>4 DEF Effect, SignalStep

LEMMA RequestEffect ==
    ASSUME AInv, SweepInv, NEW r \in Tasks, RequestRuns(r) \/ Finalise(r)
    PROVE  Effect(r)
<1>1. direct' = direct
  BY RequestIsAdmissionStep, AdmissionStepIsSemaphoreStep, VersionStays
<1> QED
  BY <1>1, QueuesEffect, RefusedEffect, StreamsEffect, TokenEffect, CompletesEffect,
     InterruptedEffect, NeverStartsEffect, FinaliseEffect DEF RequestRuns

-----------------------------------------------------------------------------
(* The invariant is inductive *)

LEMMA OthersStory ==
    ASSUME SweepInv, NEW r \in Tasks, Effect(r), NEW q \in Tasks \ {r}
    PROVE  Story(q)'
<1>1. /\ task'[q] = task[q] /\ outcome'[q] = outcome[q] /\ signal'[q] = signal[q]
      /\ fut'[q] = fut[q] \/ fut'[q] = "granted"
      /\ gen'[q] = gen[q] /\ result'[q] = result[q]
      /\ driver' = driver /\ issued' = issued /\ found'[q] = found[q]
      /\ direct' = direct
  BY DEF Effect, OthersQueue, OthersRun
<1>2. Story(q)
  BY DEF SweepInv
<1>3. ResultFits(q)'
  BY <1>1, <1>2 DEF Story, ResultFits
<1>4. FoundFits(q)'
  BY <1>1, <1>2 DEF Story, FoundFits
<1> QED BY <1>1, <1>2, <1>3, <1>4 DEF Story, Engine!Asleep

\* Whoever owns a permit is one of at most Capacity.
LEMMA FitsBesideOwners ==
    ASSUME AInv', Heirs' \subseteq Owners'
    PROVE  HeirsFit'
<1>1. Owners' \subseteq Tasks
  BY DEF Owners
<1>2. IsFiniteSet(Owners')
  BY <1>1, TasksAssumption, FS_Subset
<1>3. /\ Cardinality(Owners') \in Nat /\ Cardinality(Heirs') \in Nat
      /\ Cardinality(Heirs') <= Cardinality(Owners')
  BY <1>2, FS_Subset, FS_CardinalityType
<1>4. value' \in Nat /\ value' + Cardinality(Owners') = Capacity
  BY DEF AInv, IInv, TypeOK, PermitsConserved
<1>5. Cardinality(Heirs') <= Capacity
  BY <1>3, <1>4, CapacityAssumption
<1> QED BY <1>5 DEF HeirsFit

LEMMA EffectKeepsHeirs ==
    ASSUME AInv, AInv', SweepInv, NEW r \in Tasks, Effect(r)
    PROVE  HeirsFit'
<1>1. ASSUME NEW q \in Tasks \ {r}
      PROVE  /\ task'[q] = task[q] /\ outcome'[q] = outcome[q] /\ signal'[q] = signal[q]
             /\ fut'[q] = fut[q] \/ (fut[q] = "pending" /\ fut'[q] = "granted")
  BY DEF Effect, OthersQueue
<1>2. found' = found /\ HeirStep(r) /\ SignalStep(r)
  BY DEF Effect
<1>3. CASE ~CancellationsDelivered
  <2>1. Heirs \subseteq Owners
    BY <1>3 DEF SweepInv, HeirsFit
  <2>2. ASSUME NEW q \in Heirs', q # r PROVE q \in Owners'
    <3>1. q \in Tasks \ {r} /\ found[q] = "queued"
          /\ (outcome'[q] = "admitted" \/ fut'[q] = "granted")
      BY <2>2, <1>2 DEF Heirs
    <3>2. CASE fut'[q] = "granted"
      BY <3>1, <3>2 DEF Owners
    <3>3. CASE fut'[q] # "granted"
      <4>1. q \in Heirs /\ fut[q] # "granted"
        BY <3>1, <3>3, <1>1 DEF Heirs
      <4>2. task[q] = "holding"
        BY <4>1, <2>1 DEF Owners
      <4> QED BY <3>1, <4>2, <1>1 DEF Owners
    <3> QED BY <3>2, <3>3
  <2>3. r \in Heirs' => r \in Owners'
    BY <1>2, <1>3 DEF HeirStep
  <2> QED BY <2>2, <2>3, FitsBesideOwners
<1>4. CASE CancellationsDelivered
  <2>1. CancellationsDelivered'
    <3> SUFFICES ASSUME NEW q \in Tasks, signal'[q] = "cancel", fut'[q] = "pending"
                 PROVE  FALSE
      BY DEF CancellationsDelivered
    <3>1. signal[q] = "cancel" /\ fut[q] = "pending"
      BY <1>1, <1>2 DEF SignalStep
    <3> QED BY <3>1, <1>4 DEF CancellationsDelivered
  <2>2. ASSUME NEW q \in Heirs', q # r PROVE q \in Heirs
    <3>1. q \in Tasks \ {r} /\ found[q] = "queued"
          /\ (outcome'[q] = "admitted" \/ fut'[q] = "granted")
      BY <2>2, <1>2 DEF Heirs
    <3>2. CASE fut[q] = "pending" /\ fut'[q] = "granted"
      <4>1. outcome[q] = "none"
        BY <3>1, <3>2 DEF AInv, OutcomesMatchTasks, IInv, FuturesMatchTasks
      <4>2. signal[q] = "cancel"
        BY <3>1, <4>1 DEF SweepInv, Story, FoundFits
      <4> QED BY <4>2, <3>1, <3>2, <1>4 DEF CancellationsDelivered
    <3>3. CASE fut'[q] = fut[q]
      BY <3>1, <3>3, <1>1 DEF Heirs
    <3> QED BY <3>1, <3>2, <3>3, <1>1
  <2>3. Heirs' \subseteq Heirs
    BY <2>2, <1>2 DEF HeirStep
  <2>4. IsFiniteSet(Heirs)
    BY TasksAssumption, FS_Subset DEF Heirs
  <2>5. /\ Cardinality(Heirs') \in Nat /\ Cardinality(Heirs) \in Nat
        /\ Cardinality(Heirs') <= Cardinality(Heirs)
    BY <2>3, <2>4, FS_Subset, FS_CardinalityType
  <2>6. Cardinality(Heirs) <= Capacity
    BY DEF SweepInv, HeirsFit
  <2>7. Cardinality(Heirs') <= Capacity
    BY <2>5, <2>6, CapacityAssumption
  <2> QED BY <2>1, <2>7 DEF HeirsFit
<1> QED BY <1>3, <1>4

LEMMA EffectKeepsLoad ==
    ASSUME AInv, AInv', SweepInv, NEW r \in Tasks, Effect(r)
    PROVE  LoadIsSlotsAndAbandoned' /\ active' \in Nat
<1>1. \A q \in Tasks \ {r} : gen'[q] = gen[q]
  BY DEF Effect, OthersRun
<1>2. Abandoned' = IF gen'[r] = "final" THEN Abandoned \union {r} ELSE Abandoned \ {r}
  BY <1>1 DEF Abandoned
<1>3. (r \in Abandoned <=> gen[r] = "final") /\ Abandoned \subseteq Tasks
  BY DEF Abandoned
<1>4. /\ Cardinality(Abandoned) \in Nat
      /\ r \notin Abandoned => Cardinality(Abandoned \union {r}) = Cardinality(Abandoned) + 1
      /\ r \in Abandoned => Cardinality(Abandoned \ {r}) = Cardinality(Abandoned) - 1
  BY <1>3, Counting
<1>5. /\ r \in Abandoned => Abandoned \union {r} = Abandoned
      /\ r \notin Abandoned => Abandoned \ {r} = Abandoned
  OBVIOUS
<1>6. Cardinality(Abandoned') =
         IF gen'[r] = "final" THEN IF gen[r] = "final" THEN Cardinality(Abandoned)
                                   ELSE Cardinality(Abandoned) + 1
         ELSE IF gen[r] = "final" THEN Cardinality(Abandoned) - 1
              ELSE Cardinality(Abandoned)
  <2>1. CASE gen'[r] = "final" /\ gen[r] = "final"
    BY <2>1, <1>2, <1>3, <1>5
  <2>2. CASE gen'[r] = "final" /\ gen[r] # "final"
    BY <2>2, <1>2, <1>3, <1>4
  <2>3. CASE gen'[r] # "final" /\ gen[r] = "final"
    BY <2>3, <1>2, <1>3, <1>4
  <2>4. CASE gen'[r] # "final" /\ gen[r] # "final"
    BY <2>4, <1>2, <1>3, <1>5
  <2> QED BY <2>1, <2>2, <2>3, <2>4
<1>7. /\ inFlight \in Nat /\ active \in Nat
      /\ active = inFlight + Cardinality(Abandoned)
  BY DEF AInv, AdmissionTypeOK, SweepInv, SweepTyped, LoadIsSlotsAndAbandoned
<1>8. LoadMoves(r)
  BY DEF Effect
<1> DEFINE a == Cardinality(Abandoned)
           b == Cardinality(Abandoned')
<1>9. a \in Nat /\ active = inFlight + a
      /\ b = IF gen'[r] = "final" THEN IF gen[r] = "final" THEN a ELSE a + 1
             ELSE IF gen[r] = "final" THEN a - 1 ELSE a
  BY <1>4, <1>6, <1>7
<1>10. inFlight' \in Nat /\ b \in Nat
  <2>1. Abandoned' \subseteq Tasks
    BY DEF Abandoned
  <2>2. IsFiniteSet(Abandoned')
    BY <2>1, TasksAssumption, FS_Subset
  <2> QED BY <2>2, FS_CardinalityType DEF AInv, AdmissionTypeOK
<1> HIDE DEF a, b
<1>11. active' = inFlight' + b
  BY <1>7, <1>8, <1>9 DEF LoadMoves
<1>12. active' \in Nat
  <2>1. \A i, j \in Nat : i + j \in Nat
    OBVIOUS
  <2> QED BY <2>1, <1>10, <1>11, Zenon
<1> QED BY <1>11, <1>12 DEF LoadIsSlotsAndAbandoned, b

\* The tasks issued are some of the tasks.
LEMMA IssuedAreTasks ==
    ASSUME issued \in 0 .. Cardinality(Tasks)
    PROVE  issued \in Nat /\ 1 .. issued \subseteq Tasks
<1>1. Cardinality(Tasks) \in Nat /\ Tasks = 1 .. Cardinality(Tasks)
  BY TasksAssumption, FS_CardinalityType, IssueOrderAssumption
<1> DEFINE n == Cardinality(Tasks)
<1>2. n \in Nat /\ issued \in 0 .. n
  BY <1>1
<1>3. Tasks = 1 .. n
  BY <1>1
<1> HIDE DEF n
<1> QED BY <1>2, <1>3

LEMMA EffectKeepsSweepInv ==
    ASSUME AInv, AInv', SweepInv, NEW r \in Tasks, Effect(r)
    PROVE  SweepInv'
<1>1. \A q \in Tasks : Story(q)'
  BY OthersStory DEF Effect
<1>2. UNCHANGED <<driver, issued, found>>
  BY DEF Effect
<1>3. SweepTyped'
  BY <1>2, EffectKeepsLoad DEF Effect, TypedStep, SweepInv, SweepTyped
<1>4. PhaseFits'
  <2>1. 1 .. issued \subseteq Tasks
    BY IssuedAreTasks DEF SweepInv, SweepTyped
  <2>2. \A q \in Tasks : result[q] # "none" => result'[q] # "none"
    BY DEF Effect, OthersRun
  <2> QED BY <1>2, <2>1, <2>2 DEF SweepInv, PhaseFits
<1> QED BY <1>1, <1>3, <1>4, EffectKeepsHeirs, EffectKeepsLoad DEF SweepInv

\* Time passes, tasks are issued, the report is built.
LEMMA QuietKeepsSweepInv ==
    ASSUME SweepInv,
           UNCHANGED <<direct, task, fut, signal, outcome, inFlight, gen, emitted, active,
                       found, result>>,
           issued' \in 0 .. Cardinality(Tasks), issued' >= issued,
           \/ driver' = driver /\ (issued' = issued \/ driver = "arriving")
           \/ /\ driver = "closing" /\ driver' = "reported" /\ issued' = issued
              /\ \A q \in 1 .. issued : result[q] # "none"
    PROVE  SweepInv'
<1>1. ASSUME NEW q \in Tasks PROVE Story(q)'
  <2>1. Story(q)
    BY DEF SweepInv
  <2>2. q > issued' => q > issued
    <3>1. Cardinality(Tasks) \in Nat /\ Tasks = 1 .. Cardinality(Tasks)
      BY TasksAssumption, FS_CardinalityType, IssueOrderAssumption
    <3>2. issued \in 0 .. Cardinality(Tasks) /\ q \in 1 .. Cardinality(Tasks)
      BY <3>1 DEF SweepInv, SweepTyped
    <3>3. issued \in Int /\ issued' \in Int /\ q \in Int
      BY <3>1, <3>2
    <3> QED BY <3>3
  <2>3. driver' = "arriving" => driver = "arriving"
    OBVIOUS
  <2>4. ResultFits(q)' /\ FoundFits(q)'
    BY <2>1 DEF Story, ResultFits, FoundFits
  <2> QED BY <2>1, <2>2, <2>3, <2>4 DEF Story, Engine!Asleep
<1>2. SweepTyped'
  BY DEF SweepInv, SweepTyped
<1>3. PhaseFits'
  BY DEF SweepInv, PhaseFits
<1>4. HeirsFit' /\ LoadIsSlotsAndAbandoned'
  BY DEF SweepInv, HeirsFit, Heirs, Owners, CancellationsDelivered, LoadIsSlotsAndAbandoned,
     Abandoned
<1> QED BY <1>1, <1>2, <1>3, <1>4 DEF SweepInv

\* The last arrivals, and cancel() for the whole tail.
LEMMA TailKeepsSweepInv ==
    ASSUME AInv, AInv', SweepInv, NEW n \in 0 .. Cardinality(Tasks), Arrivals(n, TRUE)
    PROVE  SweepInv'
<1>1. /\ driver = "arriving" /\ driver' = "closing" /\ CancelTail
      /\ n > issued \/ n = 0
      /\ issued' = n
      /\ UNCHANGED <<direct, task, outcome, inFlight, gen, emitted, active, result>>
  BY DEF Arrivals, books, engineState
<1>2. Cardinality(Tasks) \in Nat /\ Tasks = 1 .. Cardinality(Tasks) /\ n \in Nat
      /\ issued \in 0 .. Cardinality(Tasks)
  <2>1. Cardinality(Tasks) \in Nat /\ Tasks = 1 .. Cardinality(Tasks)
    BY TasksAssumption, FS_CardinalityType, IssueOrderAssumption
  <2>2. n \in Nat
    BY <2>1
  <2>3. issued \in 0 .. Cardinality(Tasks)
    BY DEF SweepInv, SweepTyped
  <2> QED BY <2>1, <2>2, <2>3
<1>3. ASSUME NEW q \in Tasks
      PROVE  /\ q \in 1 .. n /\ result[q] = "none" =>
                  found'[q] = CASE task[q] = "waiting" -> "queued"
                                [] task[q] = "holding" -> "streaming"
                                [] task[q] = "idle" -> "created"
             /\ ~(q \in 1 .. n /\ result[q] = "none") => found'[q] = "not cancelled"
             /\ signal'[q] = IF found'[q] = "queued" THEN "cancel" ELSE signal[q]
             /\ fut'[q] = fut[q] \/ fut'[q] = "cancelled"
  BY <1>1 DEF CancelTail, Unfinished
<1>4. ASSUME NEW q \in Tasks
      PROVE  /\ task[q] \in {"idle", "waiting", "holding"}
             /\ outcome[q] \in {"none", "admitted", "queue_full", "timeout", "shutdown", "cancel"}
             /\ task[q] = "waiting" => outcome[q] = "none"
             /\ task[q] = "holding" => outcome[q] = "admitted"
  BY DEF AInv, AdmissionTypeOK, TypeOK, Verdicts, OutcomesMatchTasks
<1>5. ASSUME NEW q \in Tasks
      PROVE  Story(q) /\ found[q] = "not cancelled" /\ signal[q] # "cancel"
  BY <1>1 DEF SweepInv, Story, FoundFits
<1>6. ASSUME NEW q \in Tasks PROVE Story(q)'
  <2>1. q > n => q \notin 1 .. n /\ task[q] = "idle" /\ outcome[q] = "none" /\ result[q] = "none"
    <3> SUFFICES ASSUME q > n
                 PROVE  q \notin 1 .. n /\ task[q] = "idle" /\ outcome[q] = "none"
                        /\ result[q] = "none"
      OBVIOUS
    <3>1. q \in Int /\ issued \in Nat
      BY <1>2
    <3>2. q > issued \/ (n = 0 /\ q > 0)
      BY <3>1, <1>1, <1>2
    <3>3. q > issued
      BY <3>1, <3>2, <1>1, <1>2 DEF Arrivals
    <3>4. q \notin 1 .. n
      BY <1>2, <3>1
    <3> QED BY <3>3, <3>4, <1>5 DEF Story
  <2>2. ResultFits(q)'
    BY <1>1, <1>5 DEF Story, ResultFits
  <2>3. CASE q \in 1 .. n /\ result[q] = "none"
    <3>1. found'[q] = CASE task[q] = "waiting" -> "queued"
                        [] task[q] = "holding" -> "streaming"
                        [] task[q] = "idle" -> "created"
      BY <2>3, <1>3
    <3>2. task[q] = "idle" => outcome[q] = "none"
      BY <2>3, <1>4, <1>5 DEF Story, ResultFits
    <3>3. /\ task'[q] = task[q] /\ outcome'[q] = outcome[q] /\ result'[q] = result[q]
          /\ signal'[q] = IF found'[q] = "queued" THEN "cancel" ELSE signal[q]
      BY <1>1, <1>3
    <3>4. FoundFits(q)'
      <4>1. CASE task[q] = "waiting"
        BY <4>1, <3>1, <3>3, <1>4, <1>5, <2>3 DEF FoundFits
      <4>2. CASE task[q] = "holding"
        BY <4>2, <3>1, <3>3, <1>4, <1>5, <2>3 DEF FoundFits
      <4>3. CASE task[q] = "idle"
        BY <4>3, <3>1, <3>2, <3>3, <1>4, <1>5, <2>3 DEF FoundFits
      <4> QED BY <4>1, <4>2, <4>3, <1>4
    <3> QED BY <1>1, <1>3, <1>5, <2>1, <2>2, <2>3, <3>4 DEF Story, Engine!Asleep
  <2>4. CASE ~(q \in 1 .. n /\ result[q] = "none")
    <3>1. found'[q] = "not cancelled" /\ signal'[q] # "cancel"
      BY <2>4, <1>3, <1>5
    <3>2. FoundFits(q)'
      BY <3>1 DEF FoundFits
    <3> QED BY <1>1, <1>3, <1>5, <2>1, <2>2, <3>1, <3>2 DEF Story, Engine!Asleep
  <2> QED BY <2>3, <2>4
<1>7. SweepTyped'
  <2>1. found' \in [Tasks -> {"not cancelled", "queued", "streaming", "created"}]
    <3> DEFINE f(q) == IF q \notin Unfinished THEN "not cancelled"
                       ELSE CASE task[q] = "waiting" -> "queued"
                              [] task[q] = "holding" -> "streaming"
                              [] task[q] = "idle" -> "created"
    <3>1. found' = [q \in Tasks |-> f(q)]
      BY <1>1 DEF CancelTail
    <3>2. \A q \in Tasks : f(q) \in {"not cancelled", "queued", "streaming", "created"}
      BY <1>4
    <3> HIDE DEF f
    <3> QED BY <3>1, <3>2
  <2> QED BY <1>1, <2>1 DEF SweepInv, SweepTyped
<1>8. PhaseFits'
  <2> SUFFICES ASSUME n > 0 PROVE found'[n] = "created"
    BY <1>1 DEF PhaseFits
  <2>1. n \in Tasks /\ n \in 1 .. n
    BY <1>2
  <2>2. n > issued
    BY <1>1
  <2>3. task[n] = "idle" /\ result[n] = "none"
    BY <2>1, <2>2, <1>5 DEF Story
  <2> QED BY <2>1, <2>3, <1>3
<1>9. HeirsFit'
  <2> SUFFICES ASSUME NEW q \in Heirs' PROVE q \in Owners'
    BY FitsBesideOwners
  <2>1. q \in Tasks /\ found'[q] = "queued" /\ (outcome[q] = "admitted" \/ fut'[q] = "granted")
    BY <1>1 DEF Heirs
  <2>2. task[q] = "waiting"
    BY <2>1, <1>3, <1>4
  <2>3. fut'[q] = "granted"
    BY <2>1, <2>2, <1>4
  <2> QED BY <2>1, <2>3 DEF Owners
<1>10. LoadIsSlotsAndAbandoned'
  BY <1>1 DEF SweepInv, LoadIsSlotsAndAbandoned, Abandoned
<1> QED BY <1>6, <1>7, <1>8, <1>9, <1>10 DEF SweepInv

LEMMA SweepInitInv == SweepInit => AInv /\ SweepInv
<1> SUFFICES ASSUME SweepInit PROVE AInv /\ SweepInv
  OBVIOUS
<1>1. AInv
  BY AdmissionInitAInv DEF SweepInit
<1>2. /\ gen = [r \in Tasks |-> "none"] /\ emitted = [r \in Tasks |-> 0] /\ active = 0
      /\ driver = "arriving" /\ issued = 0
      /\ found = [r \in Tasks |-> "not cancelled"] /\ result = [r \in Tasks |-> "none"]
      /\ task = [r \in Tasks |-> "idle"] /\ fut = [r \in Tasks |-> "none"]
      /\ signal = [r \in Tasks |-> "none"] /\ outcome = [r \in Tasks |-> "none"]
      /\ inFlight = 0
  BY DEF SweepInit, AdmissionInit, Init, Engine!EngineInit
<1>3. SweepTyped
  <2>1. Cardinality(Tasks) \in Nat
    BY TasksAssumption, FS_CardinalityType
  <2>2. \A n \in Nat : 0 \in 0 .. n
    OBVIOUS
  <2>3. issued \in 0 .. Cardinality(Tasks)
    BY <2>1, <2>2, <1>2, Zenon
  <2> QED BY <2>3, <1>2 DEF SweepTyped
<1>4. ASSUME NEW r \in Tasks PROVE Story(r)
  BY <1>2 DEF Story, ResultFits, FoundFits, Engine!Asleep
<1>5. PhaseFits
  BY <1>2 DEF PhaseFits
<1>6. HeirsFit
  <2>1. Heirs = {}
    BY <1>2 DEF Heirs
  <2> QED BY <2>1, FS_EmptySet, CapacityAssumption DEF HeirsFit
<1>7. LoadIsSlotsAndAbandoned
  <2>1. Abandoned = {}
    BY <1>2 DEF Abandoned
  <2>2. Cardinality(Abandoned) = 0
    BY <2>1, FS_EmptySet
  <2>3. active = 0 /\ inFlight = 0
    BY <1>2
  <2> QED BY <2>2, <2>3 DEF LoadIsSlotsAndAbandoned
<1> QED BY <1>1, <1>3, <1>4, <1>5, <1>6, <1>7 DEF SweepInv

LEMMA SweepNextKeepsInv ==
    AInv /\ SweepInv /\ [SweepNext]_sweepVars => AInv' /\ SweepInv'
<1> SUFFICES ASSUME AInv, SweepInv, [SweepNext]_sweepVars PROVE AInv' /\ SweepInv'
  OBVIOUS
<1>1. AInv'
  BY SweepNextKeepsAInv DEF SweepInv
<1>2. ASSUME NEW r \in Tasks, RequestRuns(r) \/ Finalise(r) PROVE SweepInv'
  BY <1>1, <1>2, RequestEffect, EffectKeepsSweepInv
<1>3. issued \in 0 .. Cardinality(Tasks) /\ Cardinality(Tasks) \in Nat
  BY TasksAssumption, FS_CardinalityType DEF SweepInv, SweepTyped
<1>4. issued >= issued
  BY <1>3
<1>5. CASE UNCHANGED sweepVars
  <2>1. UNCHANGED <<direct, task, fut, signal, outcome, inFlight, gen, emitted, active,
                    found, result, issued, driver>>
    BY <1>5 DEF sweepVars, admissionVars, vars, books, engineState, phaseState
  <2>2. issued' = issued /\ driver' = driver
    BY <2>1
  <2>3. issued' \in 0 .. Cardinality(Tasks) /\ issued' >= issued
    BY <2>2, <1>3, <1>4
  <2> QED BY <1>1, <2>1, <2>2, <2>3, QuietKeepsSweepInv
<1>6. CASE Settle
  <2>1. UNCHANGED <<direct, task, fut, signal, outcome, inFlight, gen, emitted, active,
                    found, result, issued>>
    BY <1>6 DEF Settle, admissionVars, vars, books, engineState
  <2>2. /\ driver = "closing" /\ driver' = "reported" /\ issued' = issued
        /\ \A q \in 1 .. issued : result[q] # "none"
    BY <1>6 DEF Settle
  <2>3. issued' \in 0 .. Cardinality(Tasks) /\ issued' >= issued
    BY <2>2, <1>3, <1>4
  <2> QED BY <1>1, <2>1, <2>2, <2>3, QuietKeepsSweepInv
<1>7. ASSUME NEW n \in 0 .. Cardinality(Tasks), NEW last \in BOOLEAN, Arrivals(n, last)
      PROVE  SweepInv'
  <2>1. CASE last
    BY <1>1, <1>7, <2>1, TailKeepsSweepInv
  <2>2. CASE ~last
    <3>1. n >= issued
      BY <1>3, <1>7 DEF Arrivals
    <3> QED BY <1>7, <2>2, <3>1, QuietKeepsSweepInv DEF Arrivals, books, engineState
  <2> QED BY <2>1, <2>2
<1> QED BY <1>1, <1>2, <1>5, <1>6, <1>7 DEF SweepNext, Arrive

LEMMA SweepInvariantHolds == SweepSpec => [](AInv /\ SweepInv)
BY SweepInitInv, SweepNextKeepsInv, PTL DEF SweepSpec

-----------------------------------------------------------------------------
(* The theorems *)

\* The engine's load is the slots in use and the generations the break has
\* left to the finaliser, whatever is cancelled when.
THEOREM LoadIsAlwaysExplained == SweepSpec => []LoadIsSlotsAndAbandoned
<1>1. SweepInv => LoadIsSlotsAndAbandoned
  BY DEF SweepInv
<1> QED BY <1>1, SweepInvariantHolds, PTL

\* At most one queued request per slot outlives the cancellation of the tail,
\* none with the newer wait_for, and none that was not queued.
THEOREM SurvivorsAlwaysFit == SweepSpec => []SurvivorsFit
<1>1. AInv /\ SweepInv => SurvivorsFit
  <2> SUFFICES ASSUME AInv, SweepInv PROVE SurvivorsFit
    OBVIOUS
  <2>1. Survivors \subseteq Heirs
    BY DEF Survivors, Heirs
  <2>2. IsFiniteSet(Heirs)
    BY TasksAssumption, FS_Subset DEF Heirs
  <2>3. /\ Cardinality(Survivors) \in Nat /\ Cardinality(Heirs) \in Nat
        /\ Cardinality(Survivors) <= Cardinality(Heirs)
    BY <2>1, <2>2, FS_Subset, FS_CardinalityType
  <2>4. Cardinality(Heirs) <= Capacity
    BY DEF SweepInv, HeirsFit
  <2>5. Cardinality(Survivors) <= Capacity
    BY <2>3, <2>4, CapacityAssumption
  <2>6. ASSUME direct PROVE Cardinality(Survivors) <= 0
    <3>1. Survivors = {}
      BY <2>6 DEF Survivors, SweepInv, Story, FoundFits
    <3> QED BY <3>1, FS_EmptySet
  <2>7. ASSUME NEW r \in Tasks, found[r] \in {"created", "streaming"}
        PROVE  result[r] \in {"none", "cancelled"}
    BY <2>7 DEF SweepInv, Story, FoundFits, ResultFits
  <2> QED BY <2>5, <2>6, <2>7 DEF SurvivorsFit
<1> QED BY <1>1, SweepInvariantHolds, PTL

LEMMA DisjointUnion ==
    ASSUME NEW S, NEW T, S \subseteq Tasks, T \subseteq Tasks, S \cap T = {}
    PROVE  /\ Cardinality(S) \in Nat /\ Cardinality(T) \in Nat
           /\ Cardinality(S \union T) = Cardinality(S) + Cardinality(T)
<1>1. IsFiniteSet(S) /\ IsFiniteSet(T)
  BY TasksAssumption, FS_Subset
<1>2. Cardinality(S) \in Nat /\ Cardinality(T) \in Nat
  BY <1>1, FS_CardinalityType
<1>3. Cardinality(S \union T) = Cardinality(S) + Cardinality(T) - Cardinality(S \cap T)
  BY <1>1, FS_Union
<1>4. Cardinality(S \cap T) = 0
  BY FS_EmptySet
<1> QED BY <1>2, <1>3, <1>4

\* Once the report is built no request runs, waits or owns a permit.
LEMMA ReportedAtRest ==
    ASSUME AInv, SweepInv, driver = "reported"
    PROVE  /\ \A r \in Tasks : /\ task[r] = "idle" /\ outcome[r] # "shutdown"
                               /\ outcome[r] # "none" => result[r] # "none"
           /\ inFlight = 0 /\ queued = 0 /\ value = Capacity
<1>1. Cardinality(Tasks) \in Nat /\ Tasks = 1 .. Cardinality(Tasks)
  BY TasksAssumption, FS_CardinalityType, IssueOrderAssumption
<1>2. ASSUME NEW r \in Tasks
      PROVE  /\ task[r] = "idle" /\ outcome[r] # "shutdown"
             /\ outcome[r] # "none" => result[r] # "none"
  <2>1. Story(r)
    BY DEF SweepInv
  <2>2. r \in 1 .. issued \/ r > issued
    <3>1. issued \in 0 .. Cardinality(Tasks) /\ r \in 1 .. Cardinality(Tasks)
      BY <1>1 DEF SweepInv, SweepTyped
    <3>2. issued \in Int /\ r \in Int /\ r >= 1
      BY <1>1, <3>1
    <3> QED BY <3>2
  <2>3. CASE r > issued
    BY <2>1, <2>3 DEF Story
  <2>4. CASE r \in 1 .. issued
    BY <2>1, <2>4 DEF Story, ResultFits, SweepInv, PhaseFits
  <2> QED BY <2>2, <2>3, <2>4
<1>3. Running = {} /\ Queueing = {}
  BY <1>2 DEF Running, Queueing
<1>4. Owners = {}
  BY <1>2 DEF Owners, AInv, IInv, FuturesMatchTasks
<1>5. value \in Nat /\ value + Cardinality(Owners) = Capacity
  BY DEF AInv, IInv, TypeOK, PermitsConserved
<1>6. inFlight = Cardinality(Running) /\ queued = Cardinality(Queueing)
  BY DEF AInv, BooksBalance
<1>7. value = Capacity
  <2>1. Cardinality(Owners) = 0
    BY <1>4, FS_EmptySet
  <2> QED BY <2>1, <1>5
<1> QED BY <1>2, <1>3, <1>6, <1>7, FS_EmptySet

\* A report is built only when nothing runs or waits, and server_stats then
\* counts what the tasks saw.
THEOREM ReportedPhaseIsAtRest == SweepSpec => []ReportOfPhaseAtRest
<1>1. AInv /\ SweepInv => ReportOfPhaseAtRest
  <2> SUFFICES ASSUME AInv, SweepInv, driver = "reported" PROVE ReportOfPhaseAtRest
    BY DEF ReportOfPhaseAtRest
  <2> DEFINE ok == {r \in Tasks : result[r] = "ok"}
             cut == {r \in Tasks : found[r] = "streaming"}
             shed == {r \in Tasks : result[r] = "shed"}
  <2>1. ASSUME NEW r \in Tasks
        PROVE  /\ outcome[r] \in {"none", "admitted", "queue_full", "timeout", "cancel"}
               /\ task[r] = "idle" /\ (outcome[r] # "none" => result[r] # "none")
               /\ ResultFits(r) /\ FoundFits(r)
    BY ReportedAtRest DEF SweepInv, Story, AInv, AdmissionTypeOK, Verdicts
  <2>2. With("admitted") = ok \union cut /\ ok \cap cut = {}
    BY <2>1 DEF With, ResultFits, FoundFits
  <2>3. shed = With("queue_full") \union With("timeout")
    BY <2>1 DEF With, ResultFits
  <2>4. With("queue_full") \cap With("timeout") = {}
    BY DEF With
  <2>5. ok \subseteq Tasks /\ cut \subseteq Tasks
        /\ With("queue_full") \subseteq Tasks /\ With("timeout") \subseteq Tasks
    BY DEF With
  <2> HIDE DEF ok, cut, shed
  <2>6. Cardinality(With("admitted")) = Cardinality(ok) + Cardinality(cut)
    BY <2>2, <2>5, DisjointUnion
  <2>7. Cardinality(shed) = Cardinality(With("queue_full")) + Cardinality(With("timeout"))
    BY <2>3, <2>4, <2>5, DisjointUnion
  <2>8. /\ inFlight + stats.completed = stats.admitted
        /\ stats.admitted = Cardinality(With("admitted"))
        /\ stats.queue_full = Cardinality(With("queue_full"))
        /\ stats.timeout = Cardinality(With("timeout"))
        /\ stats.completed \in Nat
    BY DEF AInv, AdmissionTypeOK, BooksBalance, VerdictsCounted, Counters
  <2>9. inFlight = 0 /\ queued = 0 /\ value = Capacity
    BY ReportedAtRest
  <2>10. stats.completed = stats.admitted
    BY <2>8, <2>9
  <2> QED BY <2>6, <2>7, <2>8, <2>9, <2>10 DEF ReportOfPhaseAtRest, ok, cut, shed
<1> QED BY <1>1, SweepInvariantHolds, PTL

\* Only tasks that never ran go uncounted by the server, the last arrival of
\* the phase among them, and the report counts all of them as in flight.
THEOREM UnofferedAreReported == SweepSpec => []UnofferedArrivals
<1>1. AInv /\ SweepInv => UnofferedArrivals
  <2> SUFFICES ASSUME AInv, SweepInv, driver = "reported", issued > 0 PROVE UnofferedArrivals
    BY DEF UnofferedArrivals
  <2> DEFINE unoffered == {r \in 1 .. issued : outcome[r] = "none"}
             full == With("queue_full")
             late == With("timeout")
             gone == With("cancel")
             in == With("admitted")
  <2>1. issued \in Nat /\ 1 .. issued \subseteq Tasks
    BY IssuedAreTasks DEF SweepInv, SweepTyped
  <2>2. ASSUME NEW r \in Tasks
        PROVE  /\ outcome[r] \in {"none", "admitted", "queue_full", "timeout", "cancel"}
               /\ task[r] = "idle" /\ Story(r)
    BY ReportedAtRest DEF SweepInv, AInv, AdmissionTypeOK, Verdicts
  <2>3. ASSUME NEW r \in Tasks, outcome[r] # "none" PROVE r \in 1 .. issued
    <3>1. Cardinality(Tasks) \in Nat /\ Tasks = 1 .. Cardinality(Tasks)
      BY TasksAssumption, FS_CardinalityType, IssueOrderAssumption
    <3>2. r \in Int /\ r >= 1
      BY <3>1
    <3>3. ~(r > issued)
      BY <2>2, <2>3 DEF Story
    <3> QED BY <3>2, <3>3, <2>1
  <2>4. issued \in unoffered
    <3>1. issued \in 1 .. issued /\ issued \in Tasks
      BY <2>1
    <3>2. found[issued] = "created"
      BY DEF SweepInv, PhaseFits
    <3> QED BY <3>1, <3>2, <2>2 DEF Story, FoundFits
  <2>5. unoffered \subseteq InFlightAtClose
    <3> SUFFICES ASSUME NEW r \in unoffered PROVE result[r] \notin {"ok", "shed"}
      BY DEF InFlightAtClose
    <3> QED BY <2>1, <2>2 DEF Story, ResultFits
  <2>6. 1 .. issued = unoffered \union (in \union (full \union (late \union gone)))
    <3>1. ASSUME NEW r \in 1 .. issued
          PROVE  r \in unoffered \/ r \in in \/ r \in full \/ r \in late \/ r \in gone
      BY <2>1, <2>2 DEF With
    <3>2. in \union (full \union (late \union gone)) \subseteq 1 .. issued
      BY <2>3 DEF With
    <3> QED BY <3>1, <3>2
  <2>7. /\ late \cap gone = {}
        /\ full \cap (late \union gone) = {}
        /\ in \cap (full \union (late \union gone)) = {}
        /\ unoffered \cap (in \union (full \union (late \union gone))) = {}
    BY DEF With
  <2>8. /\ unoffered \subseteq Tasks /\ in \subseteq Tasks /\ full \subseteq Tasks
        /\ late \subseteq Tasks /\ gone \subseteq Tasks
    BY <2>1 DEF With
  <2>9. Cardinality(1 .. issued) = issued
    BY <2>1, FS_Interval
  <2>10. /\ stats.admitted = Cardinality(in)
         /\ stats.queue_full = Cardinality(full)
         /\ stats.timeout = Cardinality(late)
    BY DEF AInv, VerdictsCounted
  <2> HIDE DEF unoffered, full, late, gone, in
  <2>11. /\ Cardinality(late) \in Nat /\ Cardinality(gone) \in Nat
         /\ Cardinality(late \union gone) = Cardinality(late) + Cardinality(gone)
    BY <2>7, <2>8, DisjointUnion
  <2>12. /\ Cardinality(full) \in Nat
         /\ Cardinality(full \union (late \union gone))
              = Cardinality(full) + Cardinality(late \union gone)
    <3>1. late \union gone \subseteq Tasks
      BY <2>8
    <3> QED BY <3>1, <2>7, <2>8, DisjointUnion
  <2>13. /\ Cardinality(in) \in Nat
         /\ Cardinality(in \union (full \union (late \union gone)))
              = Cardinality(in) + Cardinality(full \union (late \union gone))
    <3>1. full \union (late \union gone) \subseteq Tasks
      BY <2>8
    <3> QED BY <3>1, <2>7, <2>8, DisjointUnion
  <2>14. /\ Cardinality(unoffered) \in Nat
         /\ Cardinality(1 .. issued)
              = Cardinality(unoffered)
                 + Cardinality(in \union (full \union (late \union gone)))
    <3>1. in \union (full \union (late \union gone)) \subseteq Tasks
      BY <2>8
    <3> QED BY <3>1, <2>6, <2>7, <2>8, DisjointUnion
  <2>15. Cardinality(in) + Cardinality(full) + Cardinality(late) + Cardinality(gone)
            = issued - Cardinality(unoffered)
    BY <2>1, <2>9, <2>11, <2>12, <2>13, <2>14
  <2> QED BY <2>4, <2>5, <2>10, <2>15 DEF UnofferedArrivals, unoffered, gone
<1> QED BY <1>1, SweepInvariantHolds, PTL

-----------------------------------------------------------------------------
(* No phase goes round in circles *)

\* What a request still has to do, in steps.
Way(r) ==
    IF result[r] # "none" THEN (IF gen[r] = "final" THEN 1 ELSE 0)
    ELSE IF task[r] = "holding" THEN 2 + (MaxTokens - emitted[r])
    ELSE IF task[r] = "waiting"
         THEN MaxTokens + 3 + (IF fut[r] = "pending" THEN 1 ELSE 0)
              + (IF signal[r] = "none" THEN 2 ELSE IF signal[r] = "timeout" THEN 1 ELSE 0)
    ELSE MaxTokens + 7

\* What run_phase still has to do.
PhaseWay ==
    (Cardinality(Tasks) - issued)
      + (IF driver = "arriving" THEN 2 ELSE IF driver = "closing" THEN 1 ELSE 0)

\* A sleeping generator has a token to come, and one that was left at its
\* final chunk has come to the end of its request.
Tokens(r) ==
    /\ emitted[r] \in 0 .. MaxTokens
    /\ gen[r] = "none" => emitted[r] = 0
    /\ Engine!Asleep(r) => emitted[r] < MaxTokens
    /\ gen[r] = "final" => result[r] = "ok"

TokensFit == \A r \in Tasks : Tokens(r)

LEMMA MaxTokensIs == MaxTokens \in Nat /\ MaxTokens >= 1
BY TokensAssumption

LEMMA WayIs ==
    ASSUME SweepInv, TokensFit, NEW r \in Tasks
    PROVE  Way(r) \in 0 .. MaxTokens + 7
<1>1. emitted[r] \in 0 .. MaxTokens
  BY DEF TokensFit, Tokens
<1> QED BY <1>1, MaxTokensIs DEF Way

\* The other requests are not put back: one of them may be handed a permit.
LEMMA OthersGoOn ==
    ASSUME SweepInv, TokensFit, NEW r \in Tasks, OthersQueue(r), OthersRun(r),
           NEW q \in Tasks \ {r}, emitted'[q] = emitted[q]
    PROVE  Way(q)' <= Way(q)
<1>1. /\ task'[q] = task[q] /\ signal'[q] = signal[q]
      /\ gen'[q] = gen[q] /\ result'[q] = result[q]
      /\ fut'[q] = fut[q] \/ (fut[q] = "pending" /\ fut'[q] = "granted")
  BY DEF OthersQueue, OthersRun
<1>2. emitted[q] \in 0 .. MaxTokens
  BY DEF TokensFit, Tokens
<1> QED BY <1>1, <1>2, MaxTokensIs DEF Way
LEMMA QueuesFalls ==
    ASSUME AInv, SweepInv, NEW r \in Tasks, Tokens(r), found[r] # "created", Queues(r)
    PROVE  Way(r)' < Way(r) /\ Tokens(r)' /\ UNCHANGED emitted
<1>1. Story(r) /\ UNCHANGED <<emitted, gen, result>> /\ emitted[r] \in 0 .. MaxTokens
  BY DEF SweepInv, Queues, engineState, Tokens
<1>2. Tokens(r)'
  BY <1>1 DEF Tokens, Engine!Asleep
<1>3. CASE Enqueue(r)
  <2>1. task[r] = "idle" /\ outcome[r] = "none" /\ task'[r] = "waiting"
    BY <1>3 DEF Enqueue, Arriving, AcquireWait, AInv, AdmissionTypeOK, TypeOK
  <2>2. result[r] = "none"
    BY <1>1, <2>1 DEF Story, ResultFits
  <2> QED BY <1>1, <1>2, <2>1, <2>2, MaxTokensIs DEF Way
<1>4. CASE SuspendAgain(r) \/ QueueTimer(r)
  <2>1. /\ task[r] = "waiting" /\ task'[r] = "waiting"
        /\ \/ fut[r] = "pending" /\ fut'[r] = "cancelled" /\ signal'[r] = signal[r]
           \/ /\ signal[r] = "none" /\ signal'[r] = "timeout"
              /\ fut'[r] = fut[r] \/ (fut[r] = "pending" /\ fut'[r] = "cancelled")
    BY <1>4 DEF SuspendAgain, QueueTimer, CancelFuture, TimerFires, Interrupt, AInv,
       AdmissionTypeOK, TypeOK
  <2>2. result[r] = "none"
    BY <1>1, <2>1 DEF Story, ResultFits
  <2> QED BY <1>1, <1>2, <2>1, <2>2, MaxTokensIs DEF Way
<1> QED BY <1>3, <1>4 DEF Queues

LEMMA RefusedFalls ==
    ASSUME AInv, SweepInv, NEW r \in Tasks, Tokens(r), found[r] # "created", IsRefused(r)
    PROVE  Way(r)' < Way(r) /\ Tokens(r)' /\ UNCHANGED emitted
<1>1. /\ Story(r) /\ UNCHANGED <<emitted, gen>>
      /\ result' = [result EXCEPT ![r] = IF outcome'[r] = "cancel" THEN "cancelled" ELSE "shed"]
      /\ emitted[r] \in 0 .. MaxTokens
  BY DEF SweepInv, IsRefused, engineState, Returns, Tokens
<1>2. \/ task[r] = "idle" /\ outcome[r] = "none"
      \/ task[r] = "waiting"
  BY DEF IsRefused, RejectFull, Arriving, RejectQueued, HandBack, RaiseOut
<1>3. result[r] = "none" /\ result'[r] # "none"
  BY <1>1, <1>2 DEF Story, ResultFits, SweepInv, SweepTyped
<1>4. Tokens(r)'
  BY <1>1, <1>3 DEF Tokens, Engine!Asleep
<1> QED BY <1>1, <1>2, <1>3, <1>4, MaxTokensIs DEF Way

LEMMA StreamsFalls ==
    ASSUME AInv, SweepInv, NEW r \in Tasks, Tokens(r), found[r] # "created", Streams(r)
    PROVE  Way(r)' < Way(r) /\ Tokens(r)' /\ UNCHANGED emitted
<1>1. /\ Story(r) /\ UNCHANGED <<emitted, result>>
      /\ gen[r] = "none" /\ gen'[r] = "prefill" /\ emitted[r] = 0
  BY DEF SweepInv, SweepTyped, Streams, Engine!Start, Engine!Goes, Tokens
<1>2. /\ task'[r] = "holding"
      /\ \/ task[r] = "idle" /\ outcome[r] = "none"
         \/ task[r] = "waiting"
  BY DEF Streams, AdmitNow, AdmitQueued, AcquireNow, ReturnGranted, Ends, Arriving, AInv,
     AdmissionTypeOK, TypeOK
<1>3. result[r] = "none"
  BY <1>1, <1>2 DEF Story, ResultFits
<1>4. Tokens(r)'
  BY <1>1, MaxTokensIs DEF Tokens, Engine!Asleep
<1> QED BY <1>1, <1>2, <1>3, <1>4, MaxTokensIs DEF Way

LEMMA TokenFalls ==
    ASSUME AInv, SweepInv, NEW r \in Tasks, Tokens(r), NextToken(r) \/ Completes(r)
    PROVE  Way(r)' < Way(r) /\ Tokens(r)' /\ \A q \in Tasks \ {r} : emitted'[q] = emitted[q]
<1>1. /\ Story(r) /\ task[r] = "holding" /\ emitted[r] \in 0 .. MaxTokens
      /\ emitted[r] < MaxTokens /\ emitted' = [emitted EXCEPT ![r] = @ + 1]
  BY DEF SweepInv, NextToken, Completes, Wakes, Tokens
<1>2. emitted'[r] = emitted[r] + 1 /\ \A q \in Tasks \ {r} : emitted'[q] = emitted[q]
  BY <1>1 DEF SweepInv, SweepTyped
<1>3. result[r] = "none"
  BY <1>1 DEF Story, ResultFits
<1>4. CASE NextToken(r)
  <2>1. /\ UNCHANGED <<task, result>> /\ gen'[r] = "decoding" /\ emitted'[r] < MaxTokens
    BY <1>4 DEF NextToken, Engine!Goes, admissionVars, vars, SweepInv, SweepTyped
  <2>2. Tokens(r)'
    BY <1>1, <1>2, <2>1, MaxTokensIs DEF Tokens
  <2>3. Way(r)' < Way(r)
    BY <1>1, <1>2, <1>3, <2>1, MaxTokensIs DEF Way
  <2> QED BY <1>2, <2>2, <2>3
<1>5. CASE Completes(r)
  <2>1. gen'[r] = "final" /\ result'[r] = "ok"
    BY <1>5 DEF Completes, Engine!Goes, Returns, SweepInv, SweepTyped
  <2>2. Tokens(r)'
    BY <1>1, <1>2, <2>1, MaxTokensIs DEF Tokens, Engine!Asleep
  <2>3. Way(r)' < Way(r)
    BY <1>1, <1>3, <2>1, MaxTokensIs DEF Way
  <2> QED BY <1>2, <2>2, <2>3
<1> QED BY <1>4, <1>5

LEMMA EndFalls ==
    ASSUME AInv, SweepInv, NEW r \in Tasks, Tokens(r),
           IsInterrupted(r) \/ NeverStarts(r) \/ Finalise(r)
    PROVE  Way(r)' < Way(r) /\ Tokens(r)' /\ UNCHANGED emitted
<1>1. Story(r) /\ UNCHANGED emitted /\ emitted[r] \in 0 .. MaxTokens
  BY DEF SweepInv, IsInterrupted, NeverStarts, Finalise, Engine!Close, engineState, Tokens
<1>2. CASE IsInterrupted(r) \/ NeverStarts(r)
  <2>1. /\ result[r] = "none" /\ result'[r] = "cancelled"
        /\ gen'[r] = gen[r] \/ gen'[r] = "ended"
    BY <1>2 DEF IsInterrupted, NeverStarts, Returns, Engine!Close, Engine!Leave, Engine!Goes,
       engineState, SweepInv, SweepTyped
  <2>2. gen[r] # "final"
    BY <2>1 DEF Tokens
  <2>3. Way(r)' = 0
    BY <2>1, <2>2 DEF Way
  <2>4. Way(r)' < Way(r)
    BY <1>1, <2>1, <2>3, MaxTokensIs DEF Way
  <2>5. Tokens(r)'
    BY <1>1, <2>1, <2>2 DEF Tokens, Engine!Asleep
  <2> QED BY <1>1, <2>4, <2>5
<1>3. CASE Finalise(r)
  <2>1. gen[r] = "final" /\ gen'[r] = "ended" /\ result' = result
    BY <1>3 DEF Finalise, Engine!Close, Engine!Leave, Engine!Goes, SweepInv, SweepTyped
  <2>2. result[r] = "ok"
    BY <2>1 DEF Tokens
  <2>3. Way(r)' = 0 /\ Way(r) = 1
    BY <2>1, <2>2 DEF Way
  <2>4. Tokens(r)'
    BY <1>1, <2>1 DEF Tokens, Engine!Asleep
  <2> QED BY <1>1, <2>3, <2>4
<1> QED BY <1>2, <1>3

\* A request's step shortens its own way and nobody else's grows.
LEMMA RequestGoesOn ==
    ASSUME AInv, SweepInv, TokensFit, NEW r \in Tasks, RequestRuns(r) \/ Finalise(r)
    PROVE  /\ TokensFit' /\ Way(r)' < Way(r)
           /\ \A q \in Tasks \ {r} : Way(q)' <= Way(q)
           /\ PhaseWay' = PhaseWay
<1>1. Tokens(r)
  BY DEF TokensFit
<1>2. /\ Way(r)' < Way(r) /\ Tokens(r)'
      /\ \A q \in Tasks \ {r} : emitted'[q] = emitted[q]
  BY <1>1, QueuesFalls, RefusedFalls, StreamsFalls, TokenFalls, EndFalls DEF RequestRuns
<1>3. OthersQueue(r) /\ OthersRun(r)
  BY RequestEffect DEF Effect
<1>4. ASSUME NEW q \in Tasks \ {r} PROVE Way(q)' <= Way(q) /\ Tokens(q)'
  <2>1. Tokens(q) /\ gen'[q] = gen[q] /\ result'[q] = result[q] /\ emitted'[q] = emitted[q]
    BY <1>2, <1>3 DEF TokensFit, OthersRun
  <2>2. Tokens(q)'
    BY <2>1 DEF Tokens, Engine!Asleep
  <2> QED BY <1>2, <1>3, <2>2, OthersGoOn
<1>5. PhaseWay' = PhaseWay
  BY DEF RequestRuns, Finalise, phaseState, PhaseWay
<1> QED BY <1>2, <1>4, <1>5 DEF TokensFit

\* cancel() for the whole tail signals, and so shortens, many ways at once.
LEMMA TailGoesOn ==
    ASSUME AInv, SweepInv, TokensFit, CancelTail, UNCHANGED <<task, gen, emitted, result>>,
           NEW q \in Tasks
    PROVE  Way(q)' <= Way(q)
<1>1. /\ signal'[q] = signal[q] \/ signal'[q] = "cancel"
      /\ fut'[q] = fut[q] \/ (fut[q] = "pending" /\ fut'[q] = "cancelled")
  BY DEF CancelTail
<1>2. emitted[q] \in 0 .. MaxTokens
  BY DEF TokensFit, Tokens
<1> QED BY <1>1, <1>2, MaxTokensIs DEF Way

LEMMA PhaseGoesOn ==
    ASSUME AInv, SweepInv, TokensFit, Arrive \/ Settle
    PROVE  /\ TokensFit'
           /\ \A q \in Tasks : Way(q)' <= Way(q)
           /\ PhaseWay' < PhaseWay
<1>1. UNCHANGED <<task, gen, emitted, result>>
  BY DEF Arrive, Arrivals, Settle, admissionVars, vars, engineState
<1>2. TokensFit'
  BY <1>1 DEF TokensFit, Tokens, Engine!Asleep
<1>3. ASSUME NEW q \in Tasks PROVE Way(q)' <= Way(q)
  <2>1. CASE CancelTail
    BY <1>1, <2>1, TailGoesOn
  <2>2. CASE UNCHANGED <<fut, signal>>
    <3>1. Way(q)' = Way(q)
      BY <1>1, <2>2 DEF Way
    <3> QED BY <3>1, WayIs
  <2> QED BY <2>1, <2>2 DEF Arrive, Arrivals, Settle, admissionVars, vars
<1>4. issued \in Nat /\ Cardinality(Tasks) \in Nat /\ driver \in {"arriving", "closing", "reported"}
  <2>1. Cardinality(Tasks) \in Nat
    BY TasksAssumption, FS_CardinalityType
  <2>2. issued \in 0 .. Cardinality(Tasks)
    BY DEF SweepInv, SweepTyped
  <2>3. driver \in {"arriving", "closing", "reported"}
    BY DEF SweepInv, SweepTyped
  <2> QED BY <2>1, <2>2, <2>3
<1>5. PhaseWay' < PhaseWay
  <2>1. CASE Settle
    BY <1>4, <2>1 DEF Settle, PhaseWay
  <2>2. ASSUME NEW n \in 0 .. Cardinality(Tasks), NEW last \in BOOLEAN, Arrivals(n, last)
        PROVE  PhaseWay' < PhaseWay
    <3>1. /\ driver = "arriving" /\ issued' = n
          /\ \/ n > issued /\ driver' \in {"arriving", "closing"}
             \/ n = issued /\ driver' = "closing"
      BY <2>2 DEF Arrivals
    <3> QED BY <1>4, <3>1 DEF PhaseWay
  <2> QED BY <2>1, <2>2 DEF Arrive
<1> QED BY <1>2, <1>3, <1>5

LEMMA PhaseWayIs ==
    ASSUME SweepInv
    PROVE  PhaseWay \in 0 .. Cardinality(Tasks) + 2
<1>1. Cardinality(Tasks) \in Nat
  BY TasksAssumption, FS_CardinalityType
<1>2. issued \in 0 .. Cardinality(Tasks)
  BY DEF SweepInv, SweepTyped
<1> QED BY <1>1, <1>2 DEF PhaseWay

Progress ==
    /\ \A r \in Tasks : Way(r)' <= Way(r)
    /\ PhaseWay' <= PhaseWay
    /\ PhaseWay' < PhaseWay \/ \E r \in Tasks : Way(r)' < Way(r)

LEMMA StepGoesOn ==
    AInv /\ SweepInv /\ TokensFit /\ SweepNext
      => TokensFit' /\ Progress
<1> SUFFICES ASSUME AInv, SweepInv, TokensFit, SweepNext
             PROVE  TokensFit' /\ Progress
  OBVIOUS
<1>1. PhaseWay \in Int
  BY PhaseWayIs
<1>2. ASSUME NEW r \in Tasks, RequestRuns(r) \/ Finalise(r)
      PROVE  TokensFit' /\ Progress
  <2>1. /\ TokensFit' /\ Way(r)' < Way(r)
        /\ \A q \in Tasks \ {r} : Way(q)' <= Way(q)
        /\ PhaseWay' = PhaseWay
    BY <1>2, RequestGoesOn
  <2>2. Way(r)' <= Way(r)
    <3>1. Way(r) \in Int
      BY WayIs
    <3>2. Way(r)' \in Int
      <4>1. emitted'[r] \in 0 .. MaxTokens
        BY <2>1 DEF TokensFit, Tokens
      <4> QED BY <4>1, MaxTokensIs DEF Way
    <3> QED BY <2>1, <3>1, <3>2
  <2>3. \A q \in Tasks : Way(q)' <= Way(q)
    BY <2>1, <2>2
  <2>4. PhaseWay' <= PhaseWay
    BY <1>1, <2>1
  <2> QED BY <2>1, <2>3, <2>4 DEF Progress
<1>3. CASE Arrive \/ Settle
  <2>1. /\ TokensFit'
        /\ \A q \in Tasks : Way(q)' <= Way(q)
        /\ PhaseWay' < PhaseWay
    BY <1>3, PhaseGoesOn
  <2>2. PhaseWay' \in Int
    <3>1. SweepInv'
      BY SweepNextKeepsInv
    <3>2. Cardinality(Tasks) \in Int /\ issued' \in Int
      <4>1. issued' \in 0 .. Cardinality(Tasks)
        BY <3>1 DEF SweepInv, SweepTyped
      <4> QED BY <4>1, TasksAssumption, FS_CardinalityType
    <3> QED BY <3>2 DEF PhaseWay
  <2>3. PhaseWay' <= PhaseWay
    BY <1>1, <2>1, <2>2
  <2> QED BY <2>1, <2>3 DEF Progress
<1> QED BY <1>2, <1>3 DEF SweepNext

LEMMA WaysAlways == SweepSpec => []TokensFit
<1>1. SweepInit => TokensFit
  <2> SUFFICES ASSUME SweepInit PROVE TokensFit
    OBVIOUS
  <2>1. ASSUME NEW r \in Tasks PROVE Tokens(r)
    <3>1. gen[r] = "none" /\ emitted[r] = 0
      BY DEF SweepInit, Engine!EngineInit
    <3> QED BY <3>1, MaxTokensIs DEF Tokens, Engine!Asleep
  <2> QED BY <2>1 DEF SweepInit, TokensFit
<1>2. TokensFit /\ UNCHANGED sweepVars => TokensFit'
  BY DEF TokensFit, Tokens, Engine!Asleep, sweepVars, engineState, phaseState
<1> QED BY <1>1, <1>2, StepGoesOn, SweepInvariantHolds, PTL DEF SweepSpec

\* The safety half of PhaseSettles, for any number of arrivals, slots and
\* tokens: no step of a phase puts anything back, a grant, a timer and the
\* cancellation of the tail included, and each of them, whoever takes it,
\* brings a request or the phase nearer to its end.
THEOREM EveryPhaseStepAdvances == SweepSpec => [][Progress]_sweepVars
<1>1. (AInv /\ SweepInv) /\ TokensFit /\ [SweepNext]_sweepVars
        => [Progress]_sweepVars
  BY StepGoesOn
<1> QED BY <1>1, SweepInvariantHolds, WaysAlways, PTL DEF SweepSpec

\* A request has at most MaxTokens + 7 such steps, the phase one per arrival
\* and two.
THEOREM PhaseIsBounded ==
    SweepSpec => [](/\ \A r \in Tasks : Way(r) \in 0 .. MaxTokens + 7
                    /\ PhaseWay \in 0 .. Cardinality(Tasks) + 2)
<1>1. SweepInv /\ TokensFit
        => /\ \A r \in Tasks : Way(r) \in 0 .. MaxTokens + 7
           /\ PhaseWay \in 0 .. Cardinality(Tasks) + 2
  BY WayIs, PhaseWayIs
<1> QED BY <1>1, SweepInvariantHolds, WaysAlways, PTL

=============================================================================
