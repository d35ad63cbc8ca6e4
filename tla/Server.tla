------------------------------- MODULE Server -------------------------------
(***************************************************************************)
(* The service as app.create_app wires it: admission control in front of   *)
(* the request path, inside the lifespan that starts the engine, serves,   *)
(* and on the way out closes admission before it shuts the engine down.    *)
(*                                                                         *)
(* The lease a request holds on its path and the permit its task owns are  *)
(* one thing: admission and the start of the path are one step, the end of *)
(* the path and the controller's _release() another.                       *)
(***************************************************************************)
EXTENDS AdmissionController

CONSTANTS Ids, MaxTokens, KeepAlive, MayFail

VARIABLES idOf, gen, emitted, active, aborted,
          lease, frames, pull, conn, late, result, observed, delivered,
          lifespan,   \* where the lifespan stands
          engineUp    \* engine.ready, and the engine_up gauge

Path == INSTANCE RequestPath WITH Requests <- Tasks

pathState == <<idOf, gen, emitted, active, aborted, lease, frames, pull, conn, late,
               result, observed, delivered>>
serverVars == <<admissionVars, pathState, lifespan, engineUp>>

ServerInit ==
    /\ AdmissionInit
    /\ Path!PathInit
    /\ lifespan = "starting" /\ engineUp = FALSE

-----------------------------------------------------------------------------
(* Requests *)

\* Before its lease, or without ever getting one, a request is in admission.
Queues(r) ==
    /\ RejectClosed(r) \/ RejectFull(r) \/ Enqueue(r) \/ RejectQueued(r)
       \/ SuspendAgain(r) \/ QueueTimer(r) \/ CancelRequest(r)
    /\ UNCHANGED pathState

\* admit() returns and the handler goes on, up to its first suspension.
Begins(r) ==
    /\ AdmitNow(r) \/ AdmitQueued(r)
    /\ Path!StartBlocking(r) \/ Path!StartStream(r) \/ Path!BuildFails(r)

\* A step of the path; if it gives the lease back, _release() is part of it.
GoesOn(r) ==
    /\ lease[r] # "none"
    /\ Path!BlockingStep(r) \/ Path!StreamStep(r)
    /\ IF lease'[r] = "released" /\ lease[r] = "held"
       THEN LeaseRelease(r) ELSE UNCHANGED admissionVars

\* A handler that raises gets to its release() without giving up the loop.
Raising == {r \in Tasks : conn[r] = "raising"}

\* The server routes requests from the end of the startup on; tasks that run
\* already go on whatever the lifespan does.
ServerRequest(r) ==
    /\ lifespan # "starting"
    /\ lifespan = "stopped" => ~Arriving(r)
    /\ Raising \subseteq {r}
    /\ Queues(r) \/ Begins(r) \/ GoesOn(r)
    /\ UNCHANGED <<lifespan, engineUp>>

-----------------------------------------------------------------------------
(* Lifespan *)

StartUp ==
    /\ lifespan = "starting"
    /\ lifespan' = "serving" /\ engineUp' = TRUE
    /\ UNCHANGED <<admissionVars, pathState>>

DrainRequest ==
    /\ lifespan \in {"serving", "closing"}
    /\ Drain
    /\ UNCHANGED <<pathState, lifespan, engineUp>>

\* Mutant: the engine is shut down without waiting for close().
MutShutDownAtOnce == lifespan' = "stopped" /\ engineUp' = FALSE /\ aborted' = {}

\* After close() has returned, in the same run: the engine is shut down and
\* forgets its aborts.
ShutDown ==
    IF closer' \in {"drained", "timed_out"}
    THEN /\ lifespan' = "stopped" /\ engineUp' = FALSE
         /\ Path!EngineShutdown
    ELSE lifespan' = "closing" /\ UNCHANGED <<engineUp, aborted>>

LifespanExit ==
    /\ \/ lifespan = "serving" /\ Close
       \/ lifespan = "closing" /\ (IdleWaitRuns \/ CloseReturns \/ DrainTimeout)
    /\ ShutDown
    /\ UNCHANGED <<idOf, gen, emitted, active, lease, frames, pull, conn, late, result,
                   observed, delivered>>

ServerNext ==
    \/ \E r \in Tasks : ServerRequest(r)
    \/ Raising = {} /\ (StartUp \/ DrainRequest \/ LifespanExit)

ServerSpec == ServerInit /\ [][ServerNext]_serverVars

-----------------------------------------------------------------------------
(* Properties *)

\* max_concurrent_requests bounds the generations inside the engine, through
\* queueing, cancellation, disconnects and shutdown.
EngineLoadBounded == active <= Capacity

\* Where the slots of admission control are, seen from the requests alone:
\* on their way to one in the queue, ...
HandedOver == {r \in Tasks : fut[r] = "granted"}

\* ... with one whose generators still have to run or be closed, ...
UsesSlot == {r \in Tasks : \/ conn[r] \in {"header", "raising"}
                           \/ frames[r] \in {"collecting", "running", "delta",
                                             "final", "done", "error"}}

\* ... or with a response that was over before its body began.
Lost == {r \in Tasks : conn[r] = "over" /\ frames[r] = "unstarted"}

\* Every slot is free, handed over, used or lost.  So no way out of a request,
\* of the queue or of the server gives a slot back while its generators can
\* still run, gives it back twice, or keeps it: only an unstarted body does.
\* And releases are the requests seen in requests_total, but for responses
\* that could not be built.
EverySlotExplained ==
    /\ value + Cardinality(HandedOver) + Cardinality(UsesSlot) + Cardinality(Lost) = Capacity
    /\ stats.completed = Cardinality({r \in Tasks : observed[r] = 1})
                         + Cardinality({r \in Tasks : conn[r] = "over" /\ frames[r] = "none"})

\* The engine outlives the requests that were running when the lifespan began
\* to exit, unless drain_timeout_s has passed.
EngineOutlivesRequests ==
    lifespan = "stopped" /\ closer # "timed_out" => awaited = {}

=============================================================================
