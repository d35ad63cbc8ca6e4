----------------------------- MODULE VLLMStream -----------------------------
(***************************************************************************)
(* A request on llmserve.engine.vllm_engine.VLLMEngine: vLLM's sequence,   *)
(* the adapter's generate(), and service.generate_stream or                *)
(* service.generate_blocking.                                              *)
(*                                                                         *)
(* MockEngine never suspends in abort(); this engine does, so generate()'s *)
(* except block, every except block of generate_stream and the aclose() in *)
(* its finally are suspensions of their own, where the response may be     *)
(* cancelled again.  Keep-alives and the server are those of RequestPath   *)
(* and stay out: here the body is resumed, closed at a yield, or cancelled *)
(* at an await.  Requests share nothing but the engine, so there is one.   *)
(*                                                                         *)
(* In generate_blocking asyncio.wait_for runs the loop over generate():    *)
(* since Python 3.12 in the request's own task, where a second             *)
(* cancellation cuts the adapter's abort() short; up to 3.11 in a task     *)
(* that is cancelled once and, at a second cancellation, left to itself.   *)
(***************************************************************************)
EXTENDS Naturals, Sequences

CONSTANTS MaxText,      \* characters vLLM may generate
          MaxBacklog,   \* outputs it may be ahead of the adapter
          MaxCancels    \* cancellations of the response

ASSUME BoundsAssumption ==
    MaxText \in Nat /\ MaxBacklog \in Nat \ {0} /\ MaxCancels \in Nat

VARIABLES
    seq, text, outputs,      \* vLLM: its sequence, characters so far, outputs not read yet
    handle,                  \* _engine is not None
    gen, sent,               \* generate(): where it is suspended, its count of characters
    forwarded,               \* characters in the deltas it has yielded
    body, result,            \* the service's function: where it is suspended, rec.outcome
    lease, observed,
    cancels, cut             \* cancellations so far; calls of abort() they cut short

backendVars == <<seq, text, outputs, cut>>
adapterVars == <<gen, sent, forwarded>>
accounts == <<lease, observed>>
streamVars == <<backendVars, handle, adapterVars, body, result, accounts, cancels>>

\* After startup(), with the lease in hand.
StreamInit ==
    /\ seq = "none" /\ text = 0 /\ outputs = <<>>
    /\ handle = TRUE
    /\ gen = "none" /\ sent = 0 /\ forwarded = 0
    /\ body = "none" /\ result = "pending"
    /\ lease = "held" /\ observed = 0 /\ cancels = 0 /\ cut = 0

-----------------------------------------------------------------------------
(* VLLMEngine.abort() *)

\* Mutant: the base class's abort(), which does nothing.
MutAbortReaches == handle /\ FALSE

\* After shutdown() it returns at once; before, it awaits vLLM.
AbortReaches == handle

Stopped(by) == IF seq = "running" THEN by ELSE seq

AbortTakesEffect == seq' = Stopped("aborted") /\ UNCHANGED <<text, outputs, cut>>

\* Cancelled itself: vLLM may or may not have seen the request.
AbortCutShort ==
    /\ seq' \in {seq, Stopped("aborted")}
    /\ cut' = cut + 1
    /\ UNCHANGED <<text, outputs>>

-----------------------------------------------------------------------------
(* generate_stream's way out *)

At(b, g) == body' = b /\ gen' = g

\* Mutant: the release is left to somebody else.
MutAccount == lease' = lease /\ observed' = observed + 1

Account == lease' = "released" /\ observed' = observed + 1

\* The finally, with generate() at g: aclose() throws GeneratorExit into it,
\* which only a delta's yield turns into an abort().
Finally(g) ==
    IF g = "yielded" /\ AbortReaches
    THEN At("aclosing", "closing") /\ UNCHANGED accounts
    ELSE At("closed", "ended") /\ Account

\* An except block: the outcome, abort(), then the error frame or the finally.
Catch(why, g) ==
    /\ result' = why
    /\ IF AbortReaches THEN At("caught", g) /\ UNCHANGED accounts
       ELSE IF why = "error" THEN At("error", g) /\ UNCHANGED accounts
       ELSE Finally(g)

\* generate_blocking's except blocks: abort(), then the outcome; the caller
\* releases the lease.  Nobody looks at the outcome before.
Handle(why, g) ==
    /\ result' = why
    /\ IF AbortReaches THEN At("handling", g) /\ UNCHANGED accounts
       ELSE At("closed", g) /\ Account

Fails(why) == IF body = "collecting" THEN Handle(why, "ended") ELSE Catch(why, "ended")

\* An exception at generate()'s await: abort(), then out to the service.
RaiseInside(how, why) ==
    IF AbortReaches
    THEN At(body, how) /\ UNCHANGED <<result, accounts>>
    ELSE Fails(why)

-----------------------------------------------------------------------------
(* vLLM *)

\* A scheduler step: a cumulative output, with n more characters or none.
Output(n, last) ==
    /\ seq = "running" /\ Len(outputs) < MaxBacklog /\ text + n <= MaxText
    /\ text' = text + n
    /\ outputs' = Append(outputs, text')
    /\ seq' = IF last THEN "finished" ELSE "running"
    /\ UNCHANGED <<handle, adapterVars, body, result, accounts, cancels, cut>>

\* shutdown(): the handle goes first, then vLLM's background loop.
ShutDown ==
    /\ handle /\ handle' = FALSE
    /\ seq' = Stopped("stopped")
    /\ UNCHANGED <<text, outputs, cut, adapterVars, body, result, accounts, cancels>>

-----------------------------------------------------------------------------
(* The body runs *)

Unchanged == UNCHANGED <<handle, cancels>>

Begin ==
    /\ body = "none"
    /\ \/ /\ handle
          /\ \E b \in {"running", "collecting"} : At(b, "waiting")
          /\ seq' = "running"
          /\ UNCHANGED <<text, outputs, cut, result, accounts>>
       \/ /\ ~handle
          /\ Catch("error", "ended") \/ Handle("error", "ended")
          /\ UNCHANGED backendVars
    /\ UNCHANGED <<sent, forwarded>> /\ Unchanged

Waiting == body \in {"running", "collecting"} /\ gen = "waiting"

\* Mutant: sent is the length of the delta.
MutForward(len) ==
    /\ forwarded' = forwarded + (len - sent)
    /\ sent' = len - sent

\* The delta text[sent:] goes out.
Forward(len) ==
    /\ forwarded' = forwarded + (len - sent)
    /\ sent' = len

\* One output; without new text the loop goes on to the next, and the
\* blocking path goes on in any case.
Take ==
    /\ Waiting /\ outputs # <<>>
    /\ outputs' = Tail(outputs)
    /\ IF Head(outputs) > sent
       THEN /\ Forward(Head(outputs))
            /\ IF body = "running" THEN At("delta", "yielded") ELSE UNCHANGED <<body, gen>>
       ELSE UNCHANGED <<adapterVars, body>>
    /\ UNCHANGED <<seq, text, cut, result, accounts>> /\ Unchanged

Complete ==
    /\ Waiting /\ outputs = <<>> /\ seq = "finished"
    /\ result' = "completed"
    /\ IF body = "running" THEN At("final", "final") /\ UNCHANGED accounts
       ELSE At("closed", "ended") /\ Account
    /\ UNCHANGED <<backendVars, sent, forwarded>> /\ Unchanged

BackendRaises ==
    /\ Waiting /\ seq \in {"running", "stopped"}
    /\ RaiseInside("failed", "error")
    /\ UNCHANGED <<backendVars, sent, forwarded>> /\ Unchanged

\* The client has read the frame; the deadline may have passed meanwhile.
Resume ==
    /\ \/ /\ body = "delta"
          /\ At("running", "waiting") /\ UNCHANGED <<result, accounts>>
       \/ /\ body = "delta" /\ AbortReaches
          /\ At("timeout", gen) /\ UNCHANGED <<result, accounts>>
       \/ /\ body = "delta" /\ ~AbortReaches
          /\ At("final", gen) /\ result' = "timeout" /\ UNCHANGED accounts
       \/ /\ body \in {"final", "error"}
          /\ Finally(gen) /\ UNCHANGED result
    /\ UNCHANGED <<backendVars, sent, forwarded>> /\ Unchanged

\* generate() is in its except block, and the service waits for it.
Aborting == body \in {"running", "collecting"} /\ gen \in {"cancelled", "failed", "expired"}

\* An abort() the service waits for is over.
AbortReturns ==
    /\ AbortTakesEffect
    /\ \/ /\ Aborting
          /\ Fails(CASE gen = "failed" -> "error"
                     [] gen = "expired" -> "timeout"
                     [] gen = "cancelled" -> "cancelled")
       \/ /\ body = "handling"
          /\ At("closed", gen) /\ Account /\ UNCHANGED result
       \/ /\ body = "timeout"
          /\ At("final", gen) /\ result' = "timeout" /\ UNCHANGED accounts
       \/ /\ body = "caught" /\ result = "error"
          /\ At("error", gen) /\ UNCHANGED <<result, accounts>>
       \/ /\ body = "caught" /\ result # "error"
          /\ Finally(gen) /\ UNCHANGED result
       \/ /\ body = "aclosing"
          /\ At("closed", "ended") /\ Account /\ UNCHANGED result
    /\ UNCHANGED <<sent, forwarded>> /\ Unchanged

\* request_timeout_s in generate_blocking.  An abort() after an exception of
\* the engine is cut short; after a cancellation the timer only counts since
\* Python 3.12, where it cancels the task again.
Expire ==
    /\ body = "collecting"
    /\ \/ /\ gen = "waiting"
          /\ RaiseInside("expired", "timeout") /\ UNCHANGED backendVars
       \/ /\ gen = "failed"
          /\ AbortCutShort /\ Handle("timeout", "ended")
       \/ /\ gen = "cancelled"
          /\ AbortCutShort /\ Handle("cancelled", "ended")
    /\ UNCHANGED <<sent, forwarded>> /\ Unchanged

\* The task wait_for has left to itself ends its abort().
LeftAbortReturns ==
    /\ body \in {"handling", "closed"} /\ gen \in {"cancelled", "expired"}
    /\ AbortTakesEffect
    /\ gen' = "ended"
    /\ UNCHANGED <<sent, forwarded, body, result, accounts>> /\ Unchanged

-----------------------------------------------------------------------------
(* The response goes away *)

\* GeneratorExit at a yield; one in the except block meets no other.
HangUp ==
    /\ \/ body \in {"delta", "final"} /\ Catch("client_disconnect", gen)
       \/ body = "error" /\ Finally(gen) /\ UNCHANGED result
    /\ UNCHANGED <<backendVars, sent, forwarded>> /\ Unchanged

\* CancelledError at an await.  The one that hits aclose() leaves the finally
\* before lease.release() and _observe_end, the one that hits the abort() of
\* a handler leaves it before _observe_end.
Cancel ==
    /\ cancels < MaxCancels /\ cancels' = cancels + 1
    /\ \/ /\ Waiting
          /\ RaiseInside("cancelled", "cancelled") /\ UNCHANGED backendVars
       \/ /\ AbortCutShort
          /\ \/ Aborting /\ Fails("cancelled")
             \/ body = "timeout" /\ Catch("cancelled", gen)
             \/ body = "caught" /\ Finally(gen) /\ UNCHANGED result
             \/ /\ body = "aclosing"
                /\ At("closed", "ended") /\ UNCHANGED <<result, accounts>>
             \/ /\ body = "handling"
                /\ At("closed", gen) /\ lease' = "released"
                /\ result' = "pending" /\ UNCHANGED observed
       \/ /\ body = "collecting" /\ gen \in {"cancelled", "expired"}
          /\ Handle("cancelled", gen) /\ UNCHANGED backendVars
    /\ UNCHANGED <<handle, sent, forwarded>>

-----------------------------------------------------------------------------
StreamNext ==
    \/ \E n \in 0 .. 2, last \in BOOLEAN : Output(n, last)
    \/ ShutDown
    \/ Begin \/ Take \/ Complete \/ BackendRaises \/ Resume \/ AbortReturns
    \/ Expire \/ LeftAbortReturns \/ HangUp \/ Cancel

StreamSpec == StreamInit /\ [][StreamNext]_streamVars

-----------------------------------------------------------------------------
(* Properties *)

\* Cumulative outputs become deltas without loss or repetition, however far
\* vLLM is ahead and however many outputs bring nothing new: a generation that
\* ends by itself has forwarded exactly its text.
DeltasAddUp ==
    /\ forwarded <= text
    /\ result = "completed" => forwarded = text

\* Once the service is done with a request vLLM does not go on for nobody,
\* even if a cancellation or the timer cut one abort() short: whichever it was,
\* another one reaches vLLM, at the latest the one wait_for left to itself.
NothingLeftRunning ==
    body = "closed" /\ gen \notin {"cancelled", "expired"} /\ cut <= 1
        => seq # "running"

\* While nothing is cancelled a request that is closed has given back its slot
\* and shown up in requests_total, after errors, deadlines and hang-ups, before
\* and after a shutdown; a slot given back without that is one cancelled in
\* the handler of another way out.
UncancelledFreed ==
    /\ body = "closed" /\ cancels = 0 => lease = "released" /\ observed = 1
    /\ observed = IF lease = "released" /\ result # "pending" THEN 1 ELSE 0

-----------------------------------------------------------------------------
(* What the repository says and the code does not do *)

\* service.py:165: the lease "is released here, in finally, which also covers
\* the client-disconnect path".
FinallyReleases == body = "closed" => lease = "released"

=============================================================================
