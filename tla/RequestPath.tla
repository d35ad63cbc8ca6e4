---------------------------- MODULE RequestPath ----------------------------
(***************************************************************************)
(* An admitted request, from the lease in hand to the slot given back:     *)
(* routes.completions, service.generate_blocking, service.generate_stream, *)
(* streaming.with_keepalive, and the response the ASGI server sends.       *)
(*                                                                         *)
(* A streaming response is three generators inside one another:            *)
(*   conn    the server iterating over with_keepalive;                     *)
(*   pull    with_keepalive's task for the next item of generate_stream;   *)
(*   frames  generate_stream, suspended in the engine or at a yield.       *)
(* The server may abandon a response while it waits for an item            *)
(* (CancelledError in with_keepalive), while it sends one (the generators  *)
(* are dropped and the event loop's finaliser closes them), or before it   *)
(* has asked for the first.                                                *)
(***************************************************************************)
EXTENDS MockEngine

CONSTANTS KeepAlive,   \* stream_keepalive_s > 0
          MayFail      \* the engine may raise (the mock never does, vLLM may)

ASSUME FlagsAssumption == KeepAlive \in BOOLEAN /\ MayFail \in BOOLEAN

VARIABLES lease,      \* none before admission, then held, then released
          frames, pull, conn,
          late,       \* perf_counter() is past the stream's deadline
          result,     \* rec.outcome
          observed,   \* calls of _observe_end
          delivered   \* tokens that reached the client

pathVars == <<lease, frames, pull, conn, late, result, observed, delivered>>
requestVars == <<engineVars, pathVars>>

PathTypeOK ==
    /\ EngineTypeOK
    /\ lease \in [Requests -> {"none", "held", "released"}]
    /\ frames \in [Requests -> {"none", "collecting", "unstarted", "running",
                                "delta", "final", "done", "error", "closed"}]
    /\ pull \in [Requests -> {"none", "running", "finished"}]
    /\ conn \in [Requests -> {"none", "header", "raising", "waiting", "sending",
                              "dropped", "over"}]
    /\ late \in [Requests -> BOOLEAN]
    /\ result \in [Requests -> {"pending", "length", "stop", "abort", "timeout",
                                "cancelled", "client_disconnect", "error"}]
    /\ observed \in [Requests -> Nat]
    /\ delivered \in [Requests -> 0 .. MaxTokens]

PathInit ==
    /\ EngineInit
    /\ lease = [r \in Requests |-> "none"]
    /\ frames = [r \in Requests |-> "none"]
    /\ pull = [r \in Requests |-> "none"]
    /\ conn = [r \in Requests |-> "none"]
    /\ late = [r \in Requests |-> FALSE]
    /\ result = [r \in Requests |-> "pending"]
    /\ observed = [r \in Requests |-> 0]
    /\ delivered = [r \in Requests |-> 0]

-----------------------------------------------------------------------------
At(r, f, p, c) ==
    /\ frames' = [frames EXCEPT ![r] = f]
    /\ pull' = [pull EXCEPT ![r] = p]
    /\ conn' = [conn EXCEPT ![r] = c]

Finish(r, o) == result' = [result EXCEPT ![r] = o]

Admitted(r) == lease[r] = "none" /\ lease' = [lease EXCEPT ![r] = "held"]

\* Mutant: _observe_end is forgotten.
MutReleaseOnly(r) ==
    /\ lease' = [lease EXCEPT ![r] = "released"]
    /\ observed' = observed

\* One observation of the outcome: histograms, requests_total, the log line.
ObserveEnd(r) == observed' = [observed EXCEPT ![r] = @ + 1]

\* lease.release() and _observe_end, at the end of every way out of a body.
Account(r) == lease' = [lease EXCEPT ![r] = "released"] /\ ObserveEnd(r)

NotAccounted == UNCHANGED <<lease, observed>>

-----------------------------------------------------------------------------
(* generate_blocking: the drain loop resumes the engine at once after each *)
(* chunk, so that one run takes it from one sleep to the next or to the    *)
(* end.  (Up to Python 3.11 wait_for starts the loop one tick later.)      *)

StartBlocking(r) ==
    /\ Admitted(r)
    /\ Start(r)
    /\ At(r, "collecting", "none", "none")
    /\ UNCHANGED <<late, result, observed, delivered>>

Collecting(r) == frames[r] = "collecting"

CollectToken(r) ==
    /\ Collecting(r) /\ ~SeesAbort(r)
    /\ emitted[r] + 1 < MaxTokens /\ idOf[r] \notin aborted
    /\ emitted' = [emitted EXCEPT ![r] = @ + 1]
    /\ Goes(r, "decoding")
    /\ UNCHANGED <<idOf, active, aborted, pathVars>>

\* n more tokens, the final chunk, and the end of the generator.
CollectLast(r, n, reason) ==
    /\ Collecting(r)
    /\ \/ n = 0 /\ reason \in FinalReasons(r)
       \/ /\ n = 1 /\ ~SeesAbort(r)
          /\ \/ reason = "stop"
             \/ reason = "length" /\ emitted[r] + 1 = MaxTokens
             \/ reason = "abort" /\ emitted[r] + 1 < MaxTokens /\ idOf[r] \in aborted
    /\ emitted' = [emitted EXCEPT ![r] = @ + n]
    /\ Leave(r, aborted \ {idOf[r]})
    /\ Finish(r, reason) /\ Account(r)
    /\ delivered' = [delivered EXCEPT ![r] = emitted'[r]]
    /\ At(r, "closed", "none", "none")
    /\ UNCHANGED late

\* request_timeout_s, a cancellation, or an exception of the engine, each of
\* which leaves the engine's generator before abort() is called.
CollectBreaks(r, why) ==
    /\ Collecting(r)
    /\ why \in {"timeout", "cancelled"} \union (IF MayFail THEN {"error"} ELSE {})
    /\ CloseThenAbort(r)
    /\ Finish(r, why) /\ Account(r)
    /\ At(r, "closed", "none", "none")
    /\ UNCHANGED <<late, delivered>>

CollectOn(r) ==
    \/ CollectToken(r)
    \/ \E n \in {0, 1}, reason \in {"length", "stop", "abort"} : CollectLast(r, n, reason)

BlockingStep(r) ==
    \/ StartBlocking(r) \/ CollectOn(r)
    \/ \E why \in {"timeout", "cancelled", "error"} : CollectBreaks(r, why)

-----------------------------------------------------------------------------
(* generate_stream, run by with_keepalive's pull *)

\* The handler returns the response; no generator has run yet.
StartStream(r) ==
    /\ Admitted(r)
    /\ At(r, "unstarted", "none", "header")
    /\ UNCHANGED <<engineVars, late, result, observed, delivered>>

\* Building the response raises: no body will run.
BuildFails(r) ==
    /\ Admitted(r)
    /\ At(r, "none", "none", "raising")
    /\ UNCHANGED <<engineVars, late, result, observed, delivered>>

\* Mutant: the exception leaves the handler as it came.
MutRaiseOnly(r) ==
    /\ conn[r] = "raising"
    /\ At(r, "none", "none", "over")
    /\ UNCHANGED <<engineVars, lease, late, result, observed, delivered>>

\* The handler's except branch gives the slot back and observes nothing.  It
\* follows in the same run; steps of other requests that come in between here
\* would do the same before or after it (Server lets none in).
ReleaseUnbuilt(r) ==
    /\ conn[r] = "raising"
    /\ lease' = [lease EXCEPT ![r] = "released"]
    /\ At(r, "none", "none", "over")
    /\ UNCHANGED <<engineVars, late, result, observed, delivered>>

\* The server has sent the header and asks for the first item.
HeaderSent(r) ==
    /\ conn[r] = "header"
    /\ Start(r)
    /\ At(r, "running", "running", "waiting")
    /\ NotAccounted /\ UNCHANGED <<late, result, delivered>>

\* Mutant: no break after the deadline's abort().
MutAfterDeltaNoBreak(r) ==
    /\ frames[r] = "delta"
    /\ NotAccounted
    /\ \/ /\ gen[r] = "yielded" /\ emitted[r] < MaxTokens /\ ~SeesAbort(r)
          /\ Goes(r, "decoding") /\ UNCHANGED <<idOf, emitted, active, result>>
          /\ aborted' = IF late[r] THEN aborted \union {idOf[r]} ELSE aborted
          /\ At(r, "running", "running", "waiting")
       \/ \E reason \in FinalReasons(r) :
             /\ Final(r, reason)
             /\ Finish(r, reason)
             /\ At(r, "final", "finished", "waiting")

\* Resumed at a delta: the deadline is looked at before the next chunk.
AfterDelta(r) ==
    /\ frames[r] = "delta"
    /\ NotAccounted
    /\ \/ /\ late[r]
          /\ Abort(idOf[r]) /\ UNCHANGED <<idOf, gen, emitted, active>>
          /\ Finish(r, "timeout")
          /\ At(r, "final", "finished", "waiting")
       \/ /\ ~late[r] /\ Sleep(r)
          /\ At(r, "running", "running", "waiting")
          /\ UNCHANGED result
       \/ \E reason \in FinalReasons(r) :
             /\ ~late[r] /\ Final(r, reason)
             /\ Finish(r, reason)
             /\ At(r, "final", "finished", "waiting")

\* The second frame of encode_final is the [DONE] marker.
AfterFinal(r) ==
    /\ frames[r] = "final"
    /\ At(r, "done", "finished", "waiting")
    /\ NotAccounted /\ UNCHANGED <<engineVars, result>>

\* The finally of generate_stream after [DONE], or after the error frame,
\* when the engine's generator has ended already.
AfterLast(r) ==
    /\ \/ frames[r] = "done" /\ Close(r)
       \/ frames[r] = "error" /\ UNCHANGED engineVars
    /\ At(r, "closed", "finished", "waiting")
    /\ Account(r) /\ UNCHANGED result

\* The item has been sent; with_keepalive starts the next pull.
FrameSent(r) ==
    /\ conn[r] = "sending" /\ pull[r] = "none"
    /\ AfterDelta(r) \/ AfterFinal(r) \/ AfterLast(r)
    /\ delivered' = IF frames[r] = "delta"
                    THEN [delivered EXCEPT ![r] = @ + 1] ELSE delivered
    /\ UNCHANGED late

\* The engine's sleep ends inside a pull, or its generator raises there.
EngineWakes(r) ==
    /\ frames[r] = "running"
    /\ \/ /\ Text(r)
          /\ At(r, "delta", "finished", conn[r])
          /\ UNCHANGED result
       \/ \E reason \in FinalReasons(r) :
             /\ Final(r, reason)
             /\ Finish(r, reason)
             /\ At(r, "final", "finished", conn[r])
    /\ NotAccounted /\ UNCHANGED <<late, delivered>>

EngineRaises(r) ==
    /\ MayFail /\ frames[r] = "running"
    /\ CloseThenAbort(r)
    /\ Finish(r, "error")
    /\ At(r, "error", "finished", conn[r])
    /\ NotAccounted /\ UNCHANGED <<late, delivered>>

-----------------------------------------------------------------------------
(* with_keepalive and the server *)

\* The pull has an item, or has come to the end of the body.
Deliver(r) ==
    /\ conn[r] = "waiting" /\ pull[r] = "finished"
    /\ At(r, frames[r], "none", IF frames[r] = "closed" THEN "over" ELSE "sending")
    /\ NotAccounted /\ UNCHANGED <<engineVars, late, result, delivered>>

\* Quiet for the interval: a comment frame goes out while the pull goes on.
KeepAliveTick(r) ==
    /\ KeepAlive /\ conn[r] = "waiting" /\ pull[r] = "running"
    /\ At(r, frames[r], "running", "sending")
    /\ NotAccounted /\ UNCHANGED <<engineVars, late, result, delivered>>

\* Mutant: the item that came while the comment was sent is thrown away.
MutCommentDropsItem(r) ==
    /\ conn[r] = "sending" /\ pull[r] # "none"
    /\ IF frames[r] = "delta"
       THEN AfterDelta(r) /\ UNCHANGED <<late, delivered>>
       ELSE /\ At(r, frames[r], pull[r], "waiting")
            /\ NotAccounted /\ UNCHANGED <<engineVars, late, result, delivered>>

CommentSent(r) ==
    /\ conn[r] = "sending" /\ pull[r] # "none"
    /\ At(r, frames[r], pull[r], "waiting")
    /\ NotAccounted /\ UNCHANGED <<engineVars, late, result, delivered>>

\* Mutant: no aclose(); a body that is at a yield stays there.
MutUnwindNoClose(r) ==
    /\ UNCHANGED <<late, delivered>>
    /\ \/ /\ frames[r] = "running"
          /\ At(r, "closed", "none", "over")
          /\ CloseThenAbort(r) /\ Finish(r, "cancelled") /\ Account(r)
       \/ /\ frames[r] # "running"
          /\ At(r, frames[r], "none", "over")
          /\ NotAccounted /\ UNCHANGED <<engineVars, result>>

\* with_keepalive's finally: cancel the pull, wait for it, aclose() the body.
\* The pull's cancellation reaches generate_stream inside the engine; a body
\* that is at a yield gets GeneratorExit.
Unwind(r) ==
    /\ At(r, "closed", "none", "over")
    /\ \/ /\ frames[r] = "running"
          /\ CloseThenAbort(r) /\ Finish(r, "cancelled") /\ Account(r)
       \/ /\ frames[r] \in {"delta", "final", "done"}
          /\ Close(r) /\ Finish(r, "client_disconnect") /\ Account(r)
       \/ /\ frames[r] = "error"
          /\ Account(r) /\ UNCHANGED <<engineVars, result>>
       \/ /\ frames[r] = "closed"
          /\ NotAccounted /\ UNCHANGED <<engineVars, result>>
    /\ UNCHANGED <<late, delivered>>

\* Abandoned in the middle of waiting for an item.
HangUpWaiting(r) == conn[r] = "waiting" /\ Unwind(r)

\* Abandoned while an item or a comment is sent: dropped, closed a bit later.
HangUpSending(r) ==
    /\ conn[r] = "sending"
    /\ At(r, frames[r], pull[r], "dropped")
    /\ NotAccounted /\ UNCHANGED <<engineVars, late, result, delivered>>

Finalise(r) == conn[r] = "dropped" /\ Unwind(r)

\* Abandoned before the body was asked for anything: closing a generator that
\* has not started runs none of its code.
HangUpBeforeBody(r) ==
    /\ conn[r] = "header"
    /\ At(r, "unstarted", "none", "over")
    /\ NotAccounted /\ UNCHANGED <<engineVars, late, result, delivered>>

DeadlinePasses(r) ==
    /\ lease[r] = "held" /\ conn[r] \notin {"none", "raising", "over"} /\ ~late[r]
    /\ late' = [late EXCEPT ![r] = TRUE]
    /\ NotAccounted /\ UNCHANGED <<engineVars, frames, pull, conn, result, delivered>>

\* The server, once the client has read what it was sent.
ServerReads(r) == HeaderSent(r) \/ FrameSent(r) \/ CommentSent(r)

\* What the event loop runs on its own, given that the client reads.
StreamRuns(r) == ServerReads(r) \/ EngineWakes(r) \/ Deliver(r) \/ Finalise(r)

StreamStep(r) ==
    \/ StartStream(r) \/ BuildFails(r) \/ ReleaseUnbuilt(r) \/ StreamRuns(r)
    \/ EngineRaises(r) \/ KeepAliveTick(r) \/ DeadlinePasses(r)
    \/ HangUpWaiting(r) \/ HangUpSending(r) \/ HangUpBeforeBody(r)

\* The lifespan shuts the engine down while requests may still run; Server
\* says when.
ShutDownEngine ==
    EngineShutdown /\ UNCHANGED <<idOf, gen, emitted, active, pathVars>>

-----------------------------------------------------------------------------
PathNext ==
    \/ \E r \in Requests : BlockingStep(r) \/ StreamStep(r)
    \/ ShutDownEngine

PathSpec == PathInit /\ [][PathNext]_requestVars

\* Sleeps end, ready tasks run and a client that does not hang up reads what
\* it is sent.  No fairness makes a client hang up or a deadline pass.
PathFairness ==
    \A r \in Requests :
       /\ WF_requestVars(CollectOn(r))
       /\ WF_requestVars(ServerReads(r))
       /\ WF_requestVars(EngineWakes(r))
       /\ WF_requestVars(Deliver(r))
       /\ WF_requestVars(Finalise(r))

PathFairSpec == PathSpec /\ PathFairness

-----------------------------------------------------------------------------
(* Properties *)

\* Outcomes of a request that did not let its generation run to the end.
GaveUp == {"timeout", "cancelled", "client_disconnect", "error"}

\* The engine's count of active generations is exact on every way out, and it
\* never runs a generation whose request holds no slot: the limit admission
\* control puts on slots is a limit on the engine's load.
EngineLoadHeldByLeases ==
    /\ active = Cardinality({r \in Requests : Generating(r)})
    /\ \A r \in Requests : Generating(r) => lease[r] = "held"

\* A slot given back and a line in requests_total go together, once each,
\* whatever ended the body: its own end, a deadline, a cancellation, a client
\* that hangs up, the engine.  The one exit that gives the slot back and is
\* never observed is the response that could not be built, which has no body.
AccountedOnce ==
    \A r \in Requests :
       /\ observed[r] = IF lease[r] = "released" /\ frames[r] # "none" THEN 1 ELSE 0
       /\ frames[r] = "closed" => lease[r] = "released" /\ result[r] # "pending"

\* However keep-alives interleave with pulls, the engine is never more than
\* one token ahead of the client, and no frame is lost or sent twice: a stream
\* that ends by itself has delivered what was generated.
BackpressureAndDelivery ==
    \A r \in Requests :
       /\ conn[r] # "none" => delivered[r] \in {emitted[r], emitted[r] - 1}
       /\ result[r] \in {"length", "stop", "abort"} /\ frames[r] # "delta"
            => delivered[r] = emitted[r]

\* Every stream that was started gives its slot back, even if the client never
\* hangs up and the deadline never passes.
StartedStreamsEnd ==
    \A r \in Requests : frames[r] \in {"collecting", "running"} ~> lease[r] = "released"

\* A generation is cut short by an abort() only if another request under the
\* same id has given up: the one its own request issues comes too late for it
\* to see, whether the deadline, a cancellation or an exception is behind it.
CutShortByNamesake ==
    \A r \in Requests :
       result[r] = "abort" =>
          \E q \in Requests \ {r} : idOf[q] = idOf[r] /\ result[q] \in GaveUp

\* engine/base.py:76: abort() is the "best-effort cancellation of an in-flight
\* generation": a generation is cut short only on behalf of its own request.
\* Nothing in the path of a request lets it see its own abort().
AbortStaysHome == \A r \in Requests : result[r] # "abort"

-----------------------------------------------------------------------------
(* What the repository says and the code does not do *)

\* routes/completions.py:100: the lease is "released on every exit path".
ReleasedOnEveryExit == \A r \in Requests : conn[r] = "over" => lease[r] = "released"

=============================================================================
