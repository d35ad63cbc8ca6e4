---------------------------- MODULE ServerProofs ----------------------------
(***************************************************************************)
(* Proofs about Server for any finite set of requests, any limits, request *)
(* ids shared or not, with or without keep-alives and engine failures.     *)
(*                                                                         *)
(* The server is shown to drive admission only through the controller's    *)
(* own steps, so that AInv holds of it; what the path does with leases and *)
(* generations is summed up once (PathStepEffect) and joined to that.      *)
(***************************************************************************)
EXTENDS Server, AdmissionControllerProofs

-----------------------------------------------------------------------------
(* The server implements its admission controller *)

LEMMA ServerStepIsAdmissionStep ==
    [ServerNext]_serverVars => [AdmissionNext]_admissionVars
<1> SUFFICES ASSUME [ServerNext]_serverVars PROVE [AdmissionNext]_admissionVars
  OBVIOUS
<1>1. ASSUME NEW r \in Tasks, ServerRequest(r)
      PROVE  RequestStep(r) \/ UNCHANGED admissionVars
  BY <1>1 DEF ServerRequest, Queues, Begins, GoesOn, RequestStep, AcquireResumes
<1>2. CASE StartUp \/ DrainRequest
  BY <1>2 DEF StartUp, DrainRequest, AdmissionNext
<1>3. CASE LifespanExit
  BY <1>3 DEF LifespanExit, AdmissionNext, CloseStep
<1>4. CASE UNCHANGED serverVars
  BY <1>4 DEF serverVars
<1> QED BY <1>1, <1>2, <1>3, <1>4 DEF ServerNext, AdmissionNext

\* Whatever requests, drains and the lifespan do, the controller behaves as
\* AdmissionController says: everything proved of it holds in the server.
THEOREM ImplementsAdmission == ServerSpec => AdmissionSpec
<1>1. ServerInit => AdmissionInit
  BY DEF ServerInit
<1> QED BY <1>1, ServerStepIsAdmissionStep, PTL DEF ServerSpec, AdmissionSpec

\* So requests of the server get their slots first come, first served.
THEOREM ServedFirstComeFirstServed == ServerSpec => ImplementsFifoPermits
BY ImplementsAdmission, SlotsAreFifo, PTL

-----------------------------------------------------------------------------
(* The server implements its request path *)

LEMMA ServerStepIsPathStep ==
    [ServerNext]_serverVars => [Path!PathNext]_Path!requestVars
<1> SUFFICES ASSUME [ServerNext]_serverVars PROVE [Path!PathNext]_Path!requestVars
  OBVIOUS
<1>1. ASSUME UNCHANGED pathState PROVE UNCHANGED Path!requestVars
  BY <1>1 DEF pathState, Path!requestVars, Path!engineVars, Path!pathVars
<1>2. ASSUME NEW r \in Tasks, ServerRequest(r)
      PROVE  Path!BlockingStep(r) \/ Path!StreamStep(r) \/ UNCHANGED pathState
  BY <1>2 DEF ServerRequest, Queues, Begins, GoesOn, Path!BlockingStep, Path!StreamStep
<1>3. CASE StartUp \/ DrainRequest \/ UNCHANGED serverVars
  BY <1>1, <1>3 DEF StartUp, DrainRequest, serverVars
<1>4. CASE LifespanExit
  <2>1. UNCHANGED <<idOf, gen, emitted, active, lease, frames, pull, conn, late, result,
                    observed, delivered>>
    BY <1>4 DEF LifespanExit
  <2>2. Path!EngineShutdown \/ UNCHANGED aborted
    BY <1>4 DEF LifespanExit, ShutDown
  <2>3. CASE Path!EngineShutdown
    BY <2>1, <2>3 DEF Path!PathNext, Path!ShutDownEngine, Path!pathVars
  <2>4. CASE UNCHANGED aborted
    BY <2>1, <2>4, <1>1 DEF pathState
  <2> QED BY <2>2, <2>3, <2>4
<1> QED BY <1>1, <1>2, <1>3, <1>4 DEF ServerNext, Path!PathNext

\* Admission, lifespan and shutdown never do to a request what its path does
\* not allow: everything RequestPathProofs shows of PathSpec, for any set of
\* requests, holds of the requests of a server.
THEOREM ImplementsPath == ServerSpec => Path!PathSpec
<1>1. ServerInit => Path!PathInit
  BY DEF ServerInit
<1> QED BY <1>1, ServerStepIsPathStep, PTL DEF ServerSpec, Path!PathSpec

-----------------------------------------------------------------------------
(* Leases and generations *)

Generates(r) == Path!Generating(r)

PlacesTyped ==
    /\ gen \in [Tasks -> {"none", "prefill", "decoding", "yielded",
                          "stopping", "final", "ended"}]
    /\ lease \in [Tasks -> {"none", "held", "released"}]
    /\ frames \in [Tasks -> {"none", "collecting", "unstarted", "running",
                             "delta", "final", "done", "error", "closed"}]
    /\ conn \in [Tasks -> {"none", "header", "raising", "waiting", "sending",
                           "dropped", "over"}]
    /\ observed \in [Tasks -> Nat]
    /\ active \in Nat

\* How far a request's lease, its generators and its account have come.
Place(r) ==
    /\ lease[r] = "none" => frames[r] = "none"
    /\ frames[r] = "none" =>
         /\ gen[r] = "none"
         /\ \/ lease[r] = "none" /\ conn[r] = "none"
            \/ lease[r] = "held" /\ conn[r] = "raising"
            \/ lease[r] = "released" /\ conn[r] = "over"
    /\ lease[r] = "released" => frames[r] \in {"none", "closed"}
    /\ frames[r] = "closed" => lease[r] = "released"
    /\ observed[r] = IF frames[r] = "closed" THEN 1 ELSE 0
    /\ conn[r] = "raising" => frames[r] = "none"
    /\ conn[r] = "header" => frames[r] = "unstarted"
    /\ frames[r] = "unstarted" => gen[r] = "none" /\ conn[r] \in {"header", "over"}
    /\ conn[r] = "over" /\ lease[r] = "held" => frames[r] = "unstarted"
    /\ frames[r] = "collecting" => Generates(r)
    /\ frames[r] = "error" => gen[r] = "ended"
    /\ Generates(r) => lease[r] = "held"

Loading == {r \in Tasks : Generates(r)}

PathInv ==
    /\ PlacesTyped
    /\ \A r \in Tasks : Place(r)
    /\ active = Cardinality(Loading)

\* A request's slot and its lease are one thing.
SlotIsLease ==
    \A r \in Tasks : /\ lease[r] = "held" <=> task[r] = "holding"
                     /\ lease[r] # "none" <=> outcome[r] = "admitted"

\* How far the lifespan has come against close().
LifespanMatchesClose ==
    /\ lifespan \in {"starting", "serving", "closing", "stopped"}
    /\ closer = "open" <=> lifespan \in {"starting", "serving"}
    /\ lifespan = "stopped" => closer \in {"drained", "timed_out"}

SInv == AInv /\ PathInv /\ SlotIsLease /\ LifespanMatchesClose

-----------------------------------------------------------------------------
(* What a step of the path does with them *)

\* Request q is where it was.
Stays(q) ==
    /\ gen'[q] = gen[q] /\ lease'[q] = lease[q] /\ frames'[q] = frames[q]
    /\ conn'[q] = conn[q] /\ observed'[q] = observed[q]

\* The engine's count follows the generation of r.
CountFollows(r) ==
    \/ active' = active /\ (Generates(r)' <=> Generates(r))
    \/ active' = active + 1 /\ ~Generates(r) /\ Generates(r)'
    \/ active' = active - 1 /\ Generates(r) /\ ~Generates(r)'

\* The functions of the path keep their types, whatever active becomes.
TypedBut ==
    /\ gen' \in [Tasks -> {"none", "prefill", "decoding", "yielded",
                           "stopping", "final", "ended"}]
    /\ lease' \in [Tasks -> {"none", "held", "released"}]
    /\ frames' \in [Tasks -> {"none", "collecting", "unstarted", "running",
                              "delta", "final", "done", "error", "closed"}]
    /\ conn' \in [Tasks -> {"none", "header", "raising", "waiting", "sending",
                            "dropped", "over"}]
    /\ observed' \in [Tasks -> Nat]

\* A lease is got once and given back once.
Effect(r) ==
    /\ TypedBut
    /\ Place(r)'
    /\ CountFollows(r)
    /\ \A q \in Tasks \ {r} : Stays(q)

Takes(r) == lease[r] = "none" /\ lease'[r] = "held"

KeepsOrReturns(r) ==
    lease[r] # "none" =>
       lease'[r] = lease[r] \/ (lease[r] = "held" /\ lease'[r] = "released")

LEMMA EffectKeepsPathInv ==
    ASSUME PathInv, NEW r \in Tasks, Effect(r)
    PROVE  PathInv'
<1>1. \A q \in Tasks \ {r} : Place(q)' /\ (Generates(q)' <=> Generates(q))
  BY DEF PathInv, Effect, Stays, Place, Generates, Path!Generating, Path!Asleep
<1>2. Loading \subseteq Tasks /\ active = Cardinality(Loading)
  BY DEF Loading, PathInv
<1>3. \A q \in Tasks : Place(q)'
  BY <1>1 DEF Effect
<1>4. active' = Cardinality(Loading') /\ active' \in Nat
  <2>1. /\ Cardinality(Loading) \in Nat
        /\ r \notin Loading => Cardinality(Loading \union {r}) = Cardinality(Loading) + 1
        /\ r \in Loading => Cardinality(Loading \ {r}) = Cardinality(Loading) - 1
    BY <1>2, Counting
  <2>2. Cardinality(Loading \ {r}) \in Nat
    BY TasksAssumption, FS_Subset, FS_CardinalityType DEF Loading
  <2>3. CASE active' = active /\ (Generates(r)' <=> Generates(r))
    <3>1. Loading' = Loading
      BY <1>1, <2>3 DEF Loading
    <3> QED BY <3>1, <2>1, <2>3, <1>2
  <2>4. CASE active' = active + 1 /\ ~Generates(r) /\ Generates(r)'
    <3>1. Loading' = Loading \union {r} /\ r \notin Loading
      BY <1>1, <2>4 DEF Loading
    <3> QED BY <3>1, <2>1, <2>4, <1>2
  <2>5. CASE active' = active - 1 /\ Generates(r) /\ ~Generates(r)'
    <3>1. Loading' = Loading \ {r} /\ r \in Loading
      BY <1>1, <2>5 DEF Loading
    <3> QED BY <3>1, <2>1, <2>2, <2>5, <1>2
  <2> QED BY <2>3, <2>4, <2>5 DEF Effect, CountFollows
<1> QED BY <1>3, <1>4 DEF PathInv, PlacesTyped, Effect, TypedBut

LEMMA StartEffect ==
    ASSUME PathInv, NEW r \in Tasks,
           Path!StartBlocking(r) \/ Path!StartStream(r) \/ Path!BuildFails(r)
    PROVE  Effect(r) /\ Takes(r)
<1> USE DEF PathInv, PlacesTyped
<1>1. CASE Path!StartBlocking(r)
  BY <1>1 DEF Effect, TypedBut, Place, CountFollows, Stays, Takes, Generates,
     Path!Generating, Path!Asleep, Path!StartBlocking, Path!Admitted, Path!Start,
     Path!Goes, Path!At
<1>2. CASE Path!StartStream(r)
  BY <1>2 DEF Effect, TypedBut, Place, CountFollows, Stays, Takes, Generates,
     Path!Generating, Path!Asleep, Path!StartStream, Path!Admitted, Path!At,
     Path!engineVars
<1>3. CASE Path!BuildFails(r)
  BY <1>3 DEF Effect, TypedBut, Place, CountFollows, Stays, Takes, Generates,
     Path!Generating, Path!Asleep, Path!BuildFails, Path!Admitted, Path!At,
     Path!engineVars
<1> QED BY <1>1, <1>2, <1>3

\* The handler's except branch, which observes nothing.
LEMMA UnbuiltEffect ==
    ASSUME PathInv, NEW r \in Tasks, lease[r] # "none", Path!ReleaseUnbuilt(r)
    PROVE  Effect(r) /\ KeepsOrReturns(r)
BY DEF PathInv, PlacesTyped, Effect, TypedBut, Place, CountFollows, Stays, KeepsOrReturns,
   Generates, Path!Generating, Path!Asleep, Path!ReleaseUnbuilt, Path!At, Path!engineVars

LEMMA BlockingEffect ==
    ASSUME PathInv, NEW r \in Tasks, lease[r] # "none", Path!BlockingStep(r)
    PROVE  Effect(r) /\ KeepsOrReturns(r)
<1> USE DEF PathInv, PlacesTyped
<1>1. CASE Path!CollectToken(r)
  BY <1>1 DEF Effect, TypedBut, Place, CountFollows, Stays, KeepsOrReturns, Generates,
     Path!Generating, Path!Asleep, Path!CollectToken, Path!Collecting, Path!Goes,
     Path!pathVars
<1>2. ASSUME NEW n \in {0, 1}, NEW reason \in {"length", "stop", "abort"},
             Path!CollectLast(r, n, reason)
      PROVE  Effect(r) /\ KeepsOrReturns(r)
  BY <1>2 DEF Effect, TypedBut, Place, CountFollows, Stays, KeepsOrReturns, Generates,
     Path!Generating, Path!Asleep, Path!CollectLast, Path!Collecting, Path!Leave,
     Path!Goes, Path!At, Path!Account, Path!ObserveEnd
<1>3. ASSUME NEW why \in {"timeout", "cancelled", "error"}, Path!CollectBreaks(r, why)
      PROVE  Effect(r) /\ KeepsOrReturns(r)
  BY <1>3 DEF Effect, TypedBut, Place, CountFollows, Stays, KeepsOrReturns, Generates,
     Path!Generating, Path!Asleep, Path!CollectBreaks, Path!Collecting,
     Path!CloseThenAbort, Path!Leave, Path!Goes, Path!At, Path!Account, Path!ObserveEnd
<1>4. ~Path!StartBlocking(r)
  BY DEF Path!StartBlocking, Path!Admitted
<1> QED BY <1>1, <1>2, <1>3, <1>4 DEF Path!BlockingStep, Path!CollectOn

LEMMA FrameEffect ==
    ASSUME PathInv, NEW r \in Tasks, lease[r] # "none", Path!FrameSent(r)
    PROVE  Effect(r) /\ KeepsOrReturns(r)
<1> USE DEF PathInv, PlacesTyped
<1>1. CASE Path!AfterDelta(r)
  BY <1>1 DEF Effect, TypedBut, Place, CountFollows, Stays, KeepsOrReturns, Generates,
     Path!Generating, Path!Asleep, Path!AfterDelta, Path!Abort, Path!Sleep, Path!Final,
     Path!FinalReasons, Path!Goes, Path!At, Path!NotAccounted
<1>2. CASE Path!AfterFinal(r)
  BY <1>2 DEF Effect, TypedBut, Place, CountFollows, Stays, KeepsOrReturns, Generates,
     Path!Generating, Path!Asleep, Path!AfterFinal, Path!At, Path!NotAccounted,
     Path!engineVars
<1>3. CASE Path!AfterLast(r)
  BY <1>3 DEF Effect, TypedBut, Place, CountFollows, Stays, KeepsOrReturns, Generates,
     Path!Generating, Path!Asleep, Path!AfterLast, Path!Close, Path!Leave, Path!Goes,
     Path!At, Path!Account, Path!ObserveEnd, Path!engineVars
<1> QED BY <1>1, <1>2, <1>3 DEF Path!FrameSent

LEMMA EngineEffect ==
    ASSUME PathInv, NEW r \in Tasks, lease[r] # "none",
           Path!HeaderSent(r) \/ Path!EngineWakes(r) \/ Path!EngineRaises(r)
    PROVE  Effect(r) /\ KeepsOrReturns(r)
<1> USE DEF PathInv, PlacesTyped
<1>1. CASE Path!HeaderSent(r)
  BY <1>1 DEF Effect, TypedBut, Place, CountFollows, Stays, KeepsOrReturns, Generates,
     Path!Generating, Path!Asleep, Path!HeaderSent, Path!Start, Path!Goes, Path!At,
     Path!NotAccounted
<1>2. CASE Path!EngineWakes(r)
  BY <1>2 DEF Effect, TypedBut, Place, CountFollows, Stays, KeepsOrReturns, Generates,
     Path!Generating, Path!Asleep, Path!EngineWakes, Path!Text, Path!Final,
     Path!FinalReasons, Path!Goes, Path!At, Path!NotAccounted
<1>3. CASE Path!EngineRaises(r)
  BY <1>3 DEF Effect, TypedBut, Place, CountFollows, Stays, KeepsOrReturns, Generates,
     Path!Generating, Path!Asleep, Path!EngineRaises, Path!CloseThenAbort, Path!Leave,
     Path!Goes, Path!At, Path!NotAccounted
<1> QED BY <1>1, <1>2, <1>3

\* with_keepalive's own steps move the connection only.
LEMMA ConnectionEffect ==
    ASSUME PathInv, NEW r \in Tasks, lease[r] # "none",
           \/ Path!Deliver(r) \/ Path!KeepAliveTick(r) \/ Path!CommentSent(r)
           \/ Path!HangUpSending(r) \/ Path!HangUpBeforeBody(r) \/ Path!DeadlinePasses(r)
    PROVE  Effect(r) /\ KeepsOrReturns(r)
<1> USE DEF PathInv, PlacesTyped
<1>1. /\ UNCHANGED <<gen, active, lease, frames, observed>>
      /\ \/ UNCHANGED conn
         \/ \E c \in {"waiting", "sending", "dropped", "over"} :
               conn' = [conn EXCEPT ![r] = c]
  BY DEF Path!Deliver, Path!KeepAliveTick, Path!CommentSent, Path!HangUpSending,
     Path!HangUpBeforeBody, Path!DeadlinePasses, Path!At, Path!NotAccounted,
     Path!engineVars, Place
<1>2. /\ conn'[r] = "over" => conn[r] = "over" \/ frames[r] \in {"closed", "unstarted"}
      /\ conn' = conn \/ (frames[r] = "unstarted" /\ conn'[r] = "over")
                      \/ conn[r] \in {"waiting", "sending"}
  BY DEF Path!Deliver, Path!KeepAliveTick, Path!CommentSent, Path!HangUpSending,
     Path!HangUpBeforeBody, Path!DeadlinePasses, Path!At, Place
<1> QED
  BY <1>1, <1>2 DEF Effect, TypedBut, Place, CountFollows, Stays, KeepsOrReturns, Generates,
     Path!Generating, Path!Asleep

LEMMA UnwindEffect ==
    ASSUME PathInv, NEW r \in Tasks, lease[r] # "none", conn[r] \in {"waiting", "dropped"},
           Path!Unwind(r)
    PROVE  Effect(r) /\ KeepsOrReturns(r)
BY DEF PathInv, PlacesTyped, Effect, TypedBut, Place, CountFollows, Stays, KeepsOrReturns,
   Generates, Path!Generating, Path!Asleep, Path!Unwind, Path!CloseThenAbort, Path!Close,
   Path!Leave, Path!Goes, Path!At, Path!Account, Path!ObserveEnd, Path!NotAccounted,
   Path!engineVars

\* All that the server needs to know of a step of the path.
LEMMA PathStepEffect ==
    ASSUME PathInv, NEW r \in Tasks, lease[r] # "none",
           Path!BlockingStep(r) \/ Path!StreamStep(r)
    PROVE  Effect(r) /\ KeepsOrReturns(r)
<1>1. CASE Path!BlockingStep(r)
  BY <1>1, BlockingEffect
<1>2. CASE Path!FrameSent(r)
  BY <1>2, FrameEffect
<1>3. CASE Path!HeaderSent(r) \/ Path!EngineWakes(r) \/ Path!EngineRaises(r)
  BY <1>3, EngineEffect
<1>4. CASE \/ Path!Deliver(r) \/ Path!KeepAliveTick(r) \/ Path!CommentSent(r)
           \/ Path!HangUpSending(r) \/ Path!HangUpBeforeBody(r) \/ Path!DeadlinePasses(r)
  BY <1>4, ConnectionEffect
<1>5. CASE Path!HangUpWaiting(r) \/ Path!Finalise(r)
  BY <1>5, UnwindEffect DEF Path!HangUpWaiting, Path!Finalise
<1>6. ~Path!StartStream(r) /\ ~Path!BuildFails(r)
  BY DEF Path!StartStream, Path!BuildFails, Path!Admitted
<1>7. CASE Path!ReleaseUnbuilt(r)
  BY <1>7, UnbuiltEffect
<1> QED
  BY <1>1, <1>2, <1>3, <1>4, <1>5, <1>6, <1>7
  DEF Path!StreamStep, Path!StreamRuns, Path!ServerReads
-----------------------------------------------------------------------------
(* The invariant of the server *)

LEMMA ServerInitSInv == ServerInit => SInv
<1> SUFFICES ASSUME ServerInit PROVE SInv
  OBVIOUS
<1> USE DEF ServerInit
<1>1. AInv
  BY AdmissionInitAInv
<1>2. PathInv
  <2>1. PlacesTyped /\ \A r \in Tasks : Place(r)
    BY DEF Path!PathInit, Path!EngineInit, PlacesTyped, Place, Generates,
       Path!Generating, Path!Asleep
  <2>2. Loading = {}
    BY DEF Path!PathInit, Path!EngineInit, Loading, Generates, Path!Generating, Path!Asleep
  <2> QED BY <2>1, <2>2, FS_EmptySet DEF PathInv, Path!PathInit, Path!EngineInit
<1>3. SlotIsLease
  BY DEF SlotIsLease, AdmissionInit, Init, Path!PathInit
<1>4. LifespanMatchesClose
  BY DEF LifespanMatchesClose, AdmissionInit
<1> QED BY <1>1, <1>2, <1>3, <1>4 DEF SInv

\* Only an admission makes a request run, only a release ends that, and each
\* moves nobody else.
LEMMA AdmissionMoves ==
    ASSUME AInv, NEW r \in Tasks
    PROVE  /\ AdmitNow(r) \/ AdmitQueued(r) =>
                /\ outcome[r] # "admitted"
                /\ task' = [task EXCEPT ![r] = "holding"]
                /\ outcome' = [outcome EXCEPT ![r] = "admitted"]
           /\ LeaseRelease(r) =>
                /\ task[r] = "holding"
                /\ task' = [task EXCEPT ![r] = "idle"]
                /\ UNCHANGED outcome
           /\ \/ RejectClosed(r) \/ RejectFull(r) \/ Enqueue(r) \/ RejectQueued(r)
              \/ SuspendAgain(r) \/ QueueTimer(r) \/ CancelRequest(r)
              => \A q \in Tasks :
                   /\ task'[q] = "holding" <=> task[q] = "holding"
                   /\ outcome'[q] = "admitted" <=> outcome[q] = "admitted"
<1> USE DEF AInv, AdmissionTypeOK, TypeOK
<1>1. ASSUME AdmitNow(r) \/ AdmitQueued(r)
      PROVE  /\ outcome[r] # "admitted"
             /\ task' = [task EXCEPT ![r] = "holding"]
             /\ outcome' = [outcome EXCEPT ![r] = "admitted"]
  BY <1>1 DEF AdmitNow, AdmitQueued, AcquireNow, ReturnGranted, Arriving, Admit, Ends,
     Verdict, OutcomesMatchTasks
<1>2. ASSUME LeaseRelease(r)
      PROVE  /\ task[r] = "holding"
             /\ task' = [task EXCEPT ![r] = "idle"]
             /\ UNCHANGED outcome
  BY <1>2 DEF LeaseRelease, Release
<1>3. ASSUME \/ RejectClosed(r) \/ RejectFull(r) \/ Enqueue(r)
             \/ SuspendAgain(r) \/ QueueTimer(r) \/ CancelRequest(r),
             NEW q \in Tasks
      PROVE  /\ task'[q] = "holding" <=> task[q] = "holding"
             /\ outcome'[q] = "admitted" <=> outcome[q] = "admitted"
  BY <1>3 DEF RejectClosed, RejectFull, Enqueue, SuspendAgain, QueueTimer, CancelRequest,
     Arriving, AcquireWait, CancelFuture, TimerFires, CancelTask, Interrupt, Verdict,
     books, vars
<1>4. ASSUME RejectQueued(r), NEW q \in Tasks
      PROVE  /\ task'[q] = "holding" <=> task[q] = "holding"
             /\ outcome'[q] = "admitted" <=> outcome[q] = "admitted"
  <2>1. Raises(r) # "admitted"
    BY DEF Raises
  <2>2. task[r] = "waiting" /\ outcome[r] = "none"
    BY <1>4 DEF RejectQueued, HandBack, RaiseOut, OutcomesMatchTasks
  <2>3. task' = [task EXCEPT ![r] = "idle"] /\ outcome' = [outcome EXCEPT ![r] = Raises(r)]
    BY <1>4 DEF RejectQueued, HandBack, RaiseOut, Ends, Verdict
  <2> QED BY <2>1, <2>2, <2>3
<1> QED BY <1>1, <1>2, <1>3, <1>4

LEMMA RequestKeepsSlots ==
    ASSUME SInv, NEW r \in Tasks, Queues(r) \/ Begins(r) \/ GoesOn(r)
    PROVE  PathInv' /\ SlotIsLease'
<1> USE DEF SInv
<1>0. lease \in [Tasks -> {"none", "held", "released"}]
  BY DEF PathInv, PlacesTyped
<1>1. CASE Queues(r)
  <2>1. PathInv'
    BY <1>1 DEF Queues, pathState, PathInv, PlacesTyped, Place, Loading, Generates,
       Path!Generating, Path!Asleep
  <2>2. SlotIsLease'
    BY <1>1, AdmissionMoves DEF Queues, pathState, SlotIsLease
  <2> QED BY <2>1, <2>2
<1>2. CASE Begins(r)
  <2>1. Effect(r) /\ Takes(r)
    BY <1>2, StartEffect DEF Begins
  <2>2. PathInv'
    BY <2>1, EffectKeepsPathInv
  <2>3. /\ task' = [task EXCEPT ![r] = "holding"]
        /\ outcome' = [outcome EXCEPT ![r] = "admitted"]
    BY <1>2, AdmissionMoves DEF Begins
  <2>4. lease'[r] = "held" /\ \A q \in Tasks \ {r} : lease'[q] = lease[q]
    BY <2>1 DEF Effect, Takes, Stays
  <2>5. task \in [Tasks -> {"idle", "waiting", "holding"}]
        /\ outcome \in [Tasks -> Verdicts \union {"none"}]
    BY DEF AInv, AdmissionTypeOK, TypeOK
  <2> QED BY <2>2, <2>3, <2>4, <2>5 DEF SlotIsLease
<1>3. CASE GoesOn(r)
  <2>1. Effect(r) /\ KeepsOrReturns(r) /\ lease[r] # "none"
    BY <1>3, PathStepEffect DEF GoesOn
  <2>2. PathInv'
    BY <2>1, EffectKeepsPathInv
  <2>3. \A q \in Tasks \ {r} : lease'[q] = lease[q]
    BY <2>1 DEF Effect, Stays
  <2>4. CASE lease'[r] = "released" /\ lease[r] = "held"
    <3>1. task' = [task EXCEPT ![r] = "idle"] /\ UNCHANGED outcome
      BY <1>3, <2>4, AdmissionMoves DEF GoesOn
    <3>2. task \in [Tasks -> {"idle", "waiting", "holding"}]
      BY DEF AInv, AdmissionTypeOK, TypeOK
    <3> QED BY <3>1, <3>2, <2>1, <2>2, <2>3, <2>4 DEF SlotIsLease
  <2>5. CASE ~(lease'[r] = "released" /\ lease[r] = "held")
    <3>1. UNCHANGED <<task, outcome>>
      BY <1>3, <2>5 DEF GoesOn, admissionVars, vars, books
    <3>2. lease'[r] = lease[r]
      BY <2>1, <2>5 DEF KeepsOrReturns
    <3> QED BY <3>1, <3>2, <2>2, <2>3 DEF SlotIsLease
  <2> QED BY <2>4, <2>5
<1> QED BY <1>1, <1>2, <1>3

LEMMA RequestKeepsLifespan ==
    ASSUME SInv, NEW r \in Tasks, ServerRequest(r)
    PROVE  LifespanMatchesClose'
<1>1. lifespan' = lifespan
  BY DEF ServerRequest
<1>2. closer' = closer \/ (closer = "registered" /\ closer' = "signalled")
  BY DEF ServerRequest, Queues, Begins, GoesOn, RejectClosed, RejectFull, Enqueue,
     RejectQueued, SuspendAgain, QueueTimer, CancelRequest, AdmitNow, AdmitQueued,
     LeaseRelease, admissionVars, closing
<1> QED BY <1>1, <1>2 DEF SInv, LifespanMatchesClose

LEMMA ExitKeepsLifespan ==
    ASSUME SInv, LifespanExit
    PROVE  LifespanMatchesClose' /\ UNCHANGED <<task, outcome>>
<1>1. lifespan' = (IF closer' \in {"drained", "timed_out"} THEN "stopped" ELSE "closing")
  BY DEF LifespanExit, ShutDown
<1>2. UNCHANGED <<task, outcome>>
  BY DEF LifespanExit, Close, StopAccepting, FailAll, IdleWaitRuns, CloseReturns,
     DrainTimeout, vars, books
<1>3. closer' # "open"
  BY DEF LifespanExit, Close, IdleWaitRuns, CloseReturns, DrainTimeout
<1> QED BY <1>1, <1>2, <1>3 DEF LifespanMatchesClose

LEMMA ServerNextKeepsSInv == SInv /\ [ServerNext]_serverVars => SInv'
<1> SUFFICES ASSUME SInv, [ServerNext]_serverVars PROVE SInv'
  OBVIOUS
<1>1. AInv'
  BY ServerStepIsAdmissionStep, AdmissionNextKeepsAInv DEF SInv
<1>2. ASSUME NEW r \in Tasks, ServerRequest(r) PROVE SInv'
  <2>1. Queues(r) \/ Begins(r) \/ GoesOn(r)
    BY <1>2 DEF ServerRequest
  <2> QED BY <1>1, <1>2, <2>1, RequestKeepsSlots, RequestKeepsLifespan DEF SInv
<1>3. ASSUME UNCHANGED <<gen, active, lease, frames, conn, observed>>,
             UNCHANGED <<task, outcome>>, LifespanMatchesClose'
      PROVE  SInv'
  <2>1. PathInv'
    BY <1>3 DEF SInv, PathInv, PlacesTyped, Place, Loading, Generates, Path!Generating,
       Path!Asleep
  <2>2. SlotIsLease'
    BY <1>3 DEF SInv, SlotIsLease
  <2> QED BY <1>1, <1>3, <2>1, <2>2 DEF SInv
<1>4. CASE StartUp \/ DrainRequest \/ UNCHANGED serverVars
  <2>1. /\ UNCHANGED <<gen, active, lease, frames, conn, observed>>
        /\ UNCHANGED <<task, outcome, closer>>
    BY <1>4 DEF StartUp, DrainRequest, Drain, StopAccepting, FailAll, serverVars,
       admissionVars, vars, books, closing, pathState
  <2>2. \/ lifespan' = lifespan
        \/ lifespan = "starting" /\ lifespan' = "serving"
    BY <1>4 DEF StartUp, DrainRequest, serverVars
  <2>3. LifespanMatchesClose'
    BY <2>1, <2>2 DEF SInv, LifespanMatchesClose
  <2> QED BY <1>3, <2>1, <2>3
<1>5. CASE LifespanExit
  <2>1. UNCHANGED <<gen, active, lease, frames, conn, observed>>
    BY <1>5 DEF LifespanExit
  <2> QED BY <1>3, <1>5, <2>1, ExitKeepsLifespan
<1> QED BY <1>2, <1>4, <1>5 DEF ServerNext

LEMMA ServerInvariantHolds == ServerSpec => []SInv
BY ServerInitSInv, ServerNextKeepsSInv, PTL DEF ServerSpec

-----------------------------------------------------------------------------
(* The theorems *)

Held == {r \in Tasks : lease[r] = "held"}

LEMMA HeldRun == ASSUME SInv PROVE Held = Running
BY DEF SInv, SlotIsLease, Held, Running

\* max_concurrent_requests bounds the generations inside the engine, through
\* queueing, cancellation, disconnects and shutdown: each runs for a request
\* that holds a lease, each lease is an owned permit.
THEOREM LoadStaysBounded == ServerSpec => []EngineLoadBounded
<1>1. ASSUME SInv PROVE EngineLoadBounded
  <2>1. Loading \subseteq Owners
    <3>1. Loading \subseteq Held
      BY <1>1 DEF SInv, PathInv, Place, Loading, Held
    <3> QED BY <3>1, <1>1, HeldRun DEF Running, Owners
  <2>2. Cardinality(Loading) <= Cardinality(Owners)
    BY <2>1, OwnersFinite, FS_Subset
  <2>3. value \in Nat /\ value + Cardinality(Owners) = Capacity
    BY <1>1 DEF SInv, AInv, IInv, TypeOK, PermitsConserved
  <2>4. active = Cardinality(Loading) /\ active \in Nat
    BY <1>1 DEF SInv, PathInv, PlacesTyped
  <2> QED BY <2>2, <2>3, <2>4, OwnersFinite DEF EngineLoadBounded
<1> QED BY <1>1, ServerInvariantHolds, PTL

\* A lease is held by a request whose generators are still to run or to be
\* closed, or is lost with a body that was never started; nobody else holds one.
LEMMA HeldUsedOrLost ==
    ASSUME SInv
    PROVE  Held = UsesSlot \union Lost /\ UsesSlot \intersect Lost = {}
<1>1. ASSUME NEW r \in Tasks
      PROVE  /\ r \in Held <=> r \in UsesSlot \/ r \in Lost
             /\ ~(r \in UsesSlot /\ r \in Lost)
  <2>1. /\ Place(r)
        /\ lease[r] \in {"none", "held", "released"}
        /\ frames[r] \in {"none", "collecting", "unstarted", "running",
                          "delta", "final", "done", "error", "closed"}
    BY DEF SInv, PathInv, PlacesTyped
  <2> QED BY <2>1 DEF Place, Held, UsesSlot, Lost
<1> QED BY <1>1 DEF Held, UsesSlot, Lost

LEMMA DisjointAdd ==
    ASSUME NEW A \in SUBSET Tasks, NEW B \in SUBSET Tasks, A \intersect B = {}
    PROVE  /\ Cardinality(A \union B) = Cardinality(A) + Cardinality(B)
           /\ Cardinality(A) \in Nat /\ Cardinality(B) \in Nat
<1>1. IsFiniteSet(A) /\ IsFiniteSet(B)
  BY TasksAssumption, FS_Subset
<1>2. Cardinality(A) \in Nat /\ Cardinality(B) \in Nat
  BY <1>1, FS_CardinalityType
<1>3. Cardinality(A \intersect B) = 0
  BY FS_EmptySet
<1>4. Cardinality(A \union B) =
         Cardinality(A) + Cardinality(B) - Cardinality(A \intersect B)
  BY <1>1, FS_Union
<1> QED BY <1>2, <1>3, <1>4

\* Every slot is free, on its way to a queued request, used by a request whose
\* generators can still run, or lost with an unstarted body, for any limits and
\* any number of requests; and the releases the controller counts are the
\* requests observed and the responses that could not be built.
THEOREM EverySlotAccountedFor == ServerSpec => []EverySlotExplained
<1>1. ASSUME SInv PROVE EverySlotExplained
  <2> DEFINE Seen == {r \in Tasks : observed[r] = 1}
             Unbuilt == {r \in Tasks : conn[r] = "over" /\ frames[r] = "none"}
             Done == {r \in Tasks : lease[r] = "released"}
  <2>1. value + Cardinality(HandedOver) + Cardinality(UsesSlot) + Cardinality(Lost) = Capacity
    <3>1. value \in Nat /\ value + Cardinality(Owners) = Capacity
      BY <1>1 DEF SInv, AInv, IInv, TypeOK, PermitsConserved
    <3>2. Owners = HandedOver \union Held /\ HandedOver \intersect Held = {}
      <4>1. Held = Running
        BY <1>1, HeldRun
      <4>2. \A r \in Tasks : task[r] = "holding" => fut[r] # "granted"
        BY <1>1 DEF SInv, AInv, IInv, FuturesMatchTasks
      <4> QED BY <4>1, <4>2 DEF Owners, HandedOver, Running
    <3>3. /\ Cardinality(Owners) = Cardinality(HandedOver) + Cardinality(Held)
          /\ Cardinality(HandedOver) \in Nat
      BY DisjointAdd, <3>2 DEF HandedOver, Held
    <3>4. /\ Cardinality(Held) = Cardinality(UsesSlot) + Cardinality(Lost)
          /\ Cardinality(UsesSlot) \in Nat /\ Cardinality(Lost) \in Nat
      BY DisjointAdd, <1>1, HeldUsedOrLost DEF UsesSlot, Lost
    <3> QED BY <3>1, <3>3, <3>4
  <2>2. stats.completed = Cardinality(Seen) + Cardinality(Unbuilt)
    <3>1. Done = Seen \union Unbuilt /\ Seen \intersect Unbuilt = {}
      <4>1. ASSUME NEW r \in Tasks
            PROVE  /\ lease[r] = "released" <=>
                        observed[r] = 1 \/ (conn[r] = "over" /\ frames[r] = "none")
                   /\ ~(observed[r] = 1 /\ frames[r] = "none")
        BY <1>1 DEF SInv, PathInv, Place
      <4> QED BY <4>1
    <3>2. With("admitted") = Held \union Done /\ Held \intersect Done = {}
      BY <1>1 DEF SInv, SlotIsLease, PathInv, PlacesTyped, With, Held
    <3>3. Done \subseteq Tasks /\ Seen \subseteq Tasks /\ Unbuilt \subseteq Tasks
          /\ Held \subseteq Tasks
      BY DEF Held
    <3> HIDE DEF Done, Seen, Unbuilt
    <3>4. Cardinality(Done) = Cardinality(Seen) + Cardinality(Unbuilt)
      BY DisjointAdd, <3>1, <3>3
    <3>5. /\ Cardinality(With("admitted")) = Cardinality(Held) + Cardinality(Done)
          /\ Cardinality(Held) \in Nat /\ Cardinality(Done) \in Nat
      BY DisjointAdd, <3>2, <3>3
    <3>6. /\ inFlight = Cardinality(Held)
          /\ inFlight + stats.completed = Cardinality(With("admitted"))
          /\ stats.completed \in Nat
      BY <1>1, HeldRun DEF SInv, AInv, BooksBalance, VerdictsCounted, AdmissionTypeOK,
         Counters
    <3> QED BY <3>4, <3>5, <3>6
  <2> QED BY <2>1, <2>2 DEF EverySlotExplained
<1> QED BY <1>1, ServerInvariantHolds, PTL

\* The engine is shut down only when every request that was running at the
\* beginning of the shutdown has ended, or drain_timeout_s has passed.
THEOREM EngineIsNotPulledAway == ServerSpec => []EngineOutlivesRequests
<1>1. SInv => EngineOutlivesRequests
  BY DEF SInv, AInv, AwaitedRun, LifespanMatchesClose, EngineOutlivesRequests
<1> QED BY <1>1, ServerInvariantHolds, PTL

-----------------------------------------------------------------------------
(* What a leaked slot costs the server *)

\* The response of r is over, its slot is still taken: the client hung up
\* before the body was asked for anything (see OnlyBodilessLeak).
LeakedSlots == {r \in Tasks : conn[r] = "over" /\ lease[r] = "held"}

LEMMA LeaksAreOwned ==
    ASSUME SInv
    PROVE  /\ LeakedSlots \subseteq Owners
           /\ Cardinality(LeakedSlots) \in Nat
           /\ value \in Nat /\ value + Cardinality(Owners) = Capacity
           /\ Cardinality(LeakedSlots) <= Cardinality(Owners)
           /\ Cardinality(LeakedSlots) = Cardinality(Owners) => LeakedSlots = Owners
<1>1. LeakedSlots \subseteq Owners
  BY DEF SInv, SlotIsLease, LeakedSlots, Owners
<1>2. value \in Nat /\ value + Cardinality(Owners) = Capacity
  BY DEF SInv, AInv, IInv, TypeOK, PermitsConserved
<1>3. /\ Cardinality(LeakedSlots) \in Nat
      /\ Cardinality(LeakedSlots) <= Cardinality(Owners)
      /\ Cardinality(LeakedSlots) = Cardinality(Owners) => LeakedSlots = Owners
  BY <1>1, OwnersFinite, FS_Subset, FS_CardinalityType
<1> QED BY <1>1, <1>2, <1>3

\* Nothing is left to run for a request whose slot has leaked.
LEMMA LeakedIsStuck ==
    ASSUME SInv, NEW r \in LeakedSlots
    PROVE  ~Path!BlockingStep(r) /\ ~Path!StreamStep(r)
<1>1. conn[r] = "over" /\ lease[r] = "held" /\ frames[r] = "unstarted"
  BY DEF LeakedSlots, SInv, PathInv, Place
<1>2. ~Path!BlockingStep(r)
  BY <1>1 DEF Path!BlockingStep, Path!StartBlocking, Path!Admitted, Path!CollectOn,
     Path!CollectToken, Path!CollectLast, Path!CollectBreaks, Path!Collecting
<1>3. ~Path!StreamStep(r)
  BY <1>1 DEF Path!StreamStep, Path!StartStream, Path!BuildFails, Path!ReleaseUnbuilt,
     Path!Admitted, Path!StreamRuns,
     Path!ServerReads, Path!HeaderSent, Path!FrameSent, Path!CommentSent,
     Path!EngineWakes, Path!Deliver, Path!Finalise, Path!EngineRaises,
     Path!KeepAliveTick, Path!DeadlinePasses, Path!HangUpWaiting, Path!HangUpSending,
     Path!HangUpBeforeBody
<1> QED BY <1>2, <1>3

LEMMA LeakedStays ==
    ASSUME SInv, [ServerNext]_serverVars, NEW r \in LeakedSlots
    PROVE  conn'[r] = conn[r] /\ lease'[r] = lease[r]
<1>0. r \in Tasks
  BY DEF LeakedSlots
<1>1. ASSUME NEW p \in Tasks, ServerRequest(p)
      PROVE  conn'[r] = conn[r] /\ lease'[r] = lease[r]
  <2>1. CASE Queues(p)
    BY <2>1 DEF Queues, pathState
  <2>2. CASE Begins(p)
    <3>1. Effect(p) /\ Takes(p)
      BY <2>2, StartEffect DEF Begins, SInv
    <3>2. p # r
      BY <3>1 DEF Takes, LeakedSlots
    <3> QED BY <3>1, <3>2, <1>0 DEF Effect, Stays
  <2>3. CASE GoesOn(p)
    <3>1. Effect(p)
      BY <2>3, PathStepEffect DEF GoesOn, SInv
    <3>2. p # r
      BY <2>3, LeakedIsStuck DEF GoesOn
    <3> QED BY <3>1, <3>2, <1>0 DEF Effect, Stays
  <2> QED BY <1>1, <2>1, <2>2, <2>3 DEF ServerRequest
<1>2. CASE StartUp \/ DrainRequest \/ LifespanExit \/ UNCHANGED serverVars
  BY <1>2 DEF StartUp, DrainRequest, LifespanExit, serverVars, pathState
<1> QED BY <1>1, <1>2 DEF ServerNext

\* Leaks add up: a slot that has leaked stays leaked until the process ends.
THEOREM LeaksAddUp == ServerSpec => [][LeakedSlots \subseteq LeakedSlots']_serverVars
<1>1. SInv /\ [ServerNext]_serverVars => [LeakedSlots \subseteq LeakedSlots']_serverVars
  BY LeakedStays DEF LeakedSlots
<1> QED BY <1>1, ServerInvariantHolds, PTL DEF ServerSpec

\* Each leak takes a permit from max_concurrent_requests, ...
THEOREM LeaksEatCapacity == ServerSpec => [](value + Cardinality(LeakedSlots) <= Capacity)
<1>1. ASSUME SInv PROVE value + Cardinality(LeakedSlots) <= Capacity
  BY <1>1, LeaksAreOwned, OwnersFinite
<1> QED BY <1>1, ServerInvariantHolds, PTL

\* ... and once as many have leaked as there are, no request is ever admitted
\* again.
THEOREM LeakedServerAdmitsNobody ==
    ServerSpec => [][Cardinality(LeakedSlots) = Capacity =>
                        \A r \in Tasks : outcome'[r] = "admitted" => outcome[r] = "admitted"]_serverVars
<1>1. ASSUME SInv, [ServerNext]_serverVars, Cardinality(LeakedSlots) = Capacity,
             NEW r \in Tasks, outcome'[r] = "admitted", outcome[r] # "admitted"
      PROVE  FALSE
  <2>1. value = 0 /\ LeakedSlots = Owners
    BY <1>1, LeaksAreOwned, OwnersFinite, CapacityAssumption
  <2>2. \A q \in Tasks : fut[q] # "granted"
    <3>1. \A q \in LeakedSlots : task[q] = "holding"
      BY <1>1 DEF LeakedSlots, SInv, SlotIsLease
    <3>2. \A q \in Tasks : task[q] = "holding" => fut[q] # "granted"
      BY <1>1 DEF SInv, AInv, IInv, FuturesMatchTasks
    <3> QED BY <3>1, <3>2, <2>1 DEF Owners
  <2>3. \A q \in Tasks : ~AdmitNow(q) /\ ~AdmitQueued(q)
    BY <2>1, <2>2 DEF AdmitNow, AcquireNow, AdmitQueued, ReturnGranted
  <2>4. ASSUME NEW p \in Tasks, ServerRequest(p) PROVE FALSE
    <3>1. CASE Queues(p)
      BY <1>1, <3>1, AdmissionMoves DEF Queues, SInv
    <3>2. CASE GoesOn(p)
      <4>1. UNCHANGED outcome
        BY <3>2 DEF GoesOn, LeaseRelease, admissionVars, books
      <4> QED BY <4>1, <1>1
    <3> QED BY <2>3, <2>4, <3>1, <3>2 DEF ServerRequest, Begins
  <2>5. CASE StartUp \/ DrainRequest \/ LifespanExit \/ UNCHANGED serverVars
    <3>1. UNCHANGED outcome
      BY <2>5, ExitKeepsLifespan, <1>1
      DEF StartUp, DrainRequest, Drain, serverVars, admissionVars, books
    <3> QED BY <3>1, <1>1
  <2> QED BY <1>1, <2>4, <2>5 DEF ServerNext
<1>2. SInv /\ [ServerNext]_serverVars =>
         [Cardinality(LeakedSlots) = Capacity =>
             \A r \in Tasks : outcome'[r] = "admitted" => outcome[r] = "admitted"]_serverVars
  BY <1>1
<1> QED BY <1>2, ServerInvariantHolds, PTL DEF ServerSpec

\* A close() that waits for a request whose slot has leaked waits for its
\* timeout: the drain cannot come out clean.
THEOREM LeakSpoilsDrain ==
    ServerSpec => [][LeakedSlots \intersect awaited # {} => closer' # "drained"]_serverVars
<1>1. ASSUME SInv, [ServerNext]_serverVars, NEW r \in LeakedSlots, r \in awaited,
             closer' = "drained"
      PROVE  FALSE
  <2>1. SInv'
    BY <1>1, ServerNextKeepsSInv
  <2>2. r \notin awaited' /\ closer # "open" /\ closer # "drained"
    BY <1>1, <2>1 DEF SInv, AInv, AwaitedRun
  <2>3. [AdmissionNext]_admissionVars
    BY <1>1, ServerStepIsAdmissionStep
  <2>4. LeaseRelease(r)
    BY <1>1, <2>2, <2>3 DEF admissionVars, closing, AdmissionNext, RequestStep, CloseStep,
       RejectClosed, RejectFull, AdmitNow, Enqueue, AcquireResumes, AdmitQueued,
       RejectQueued, SuspendAgain, QueueTimer, CancelRequest, LeaseRelease, Drain, Close,
       IdleWaitRuns, CloseReturns, DrainTimeout
  <2>5. r \in Tasks /\ lease[r] = "held" /\ lease'[r] = "held"
    BY <1>1, LeakedStays DEF LeakedSlots
  <2>6. task'[r] = "idle"
    BY <2>4, <2>5, <1>1, AdmissionMoves DEF SInv, AInv, AdmissionTypeOK, TypeOK
  <2> QED BY <2>1, <2>5, <2>6 DEF SInv, SlotIsLease
<1>2. SInv /\ [ServerNext]_serverVars =>
         [LeakedSlots \intersect awaited # {} => closer' # "drained"]_serverVars
  BY <1>1
<1> QED BY <1>2, ServerInvariantHolds, PTL DEF ServerSpec

=============================================================================
