----------------------------- MODULE MockEngine -----------------------------
(***************************************************************************)
(* llmserve.engine.mock.MockEngine.  generate() is an asynchronous         *)
(* generator: whoever iterates over it runs it from one suspension, asleep *)
(* or at a yield, to the next.  The actions below are those runs; the      *)
(* consumer, RequestPath, decides when they happen.                        *)
(*                                                                         *)
(* What tells generations apart inside the engine is the request id, which *)
(* the middleware takes from the client's X-Request-Id header when there   *)
(* is one: idOf need not be injective.                                     *)
(***************************************************************************)
EXTENDS Naturals, FiniteSets

CONSTANTS Requests, Ids,
          MaxTokens   \* sampling.max_tokens after _sampling has clamped it, >= 1

ASSUME RequestsAssumption == IsFiniteSet(Requests)
ASSUME MaxTokensAssumption == MaxTokens \in Nat \ {0}

VARIABLES idOf,     \* the id each request comes with, in Ids; never changes
          gen,      \* where each generation is suspended
          emitted,  \* tokens it has yielded
          active,   \* _active
          aborted   \* _aborted

engineVars == <<idOf, gen, emitted, active, aborted>>

EngineTypeOK ==
    /\ idOf \in [Requests -> Ids]
    /\ gen \in [Requests -> {"none", "prefill", "decoding", "yielded",
                             "stopping", "final", "ended"}]
    /\ emitted \in [Requests -> 0 .. MaxTokens]
    /\ active \in Nat
    /\ aborted \subseteq Ids

EngineInit ==
    /\ idOf \in [Requests -> Ids]
    /\ gen = [g \in Requests |-> "none"]
    /\ emitted = [g \in Requests |-> 0]
    /\ active = 0
    /\ aborted = {}

Asleep(g) == gen[g] \in {"prefill", "decoding"}

\* Between _active += 1 and the finally.
Generating(g) == Asleep(g) \/ gen[g] \in {"yielded", "stopping", "final"}

Goes(g, where) == gen' = [gen EXCEPT ![g] = where]

Abort(id) == aborted' = aborted \union {id}

\* The first __anext__: runs into the prefill's sleep.
Start(g) ==
    /\ gen[g] = "none"
    /\ Goes(g, "prefill")
    /\ active' = active + 1
    /\ UNCHANGED <<idOf, emitted, aborted>>

\* _aborted is read at the top of the loop only: after the prefill and after
\* each yield, not after the sleep before a token.
SeesAbort(g) == gen[g] # "decoding" /\ idOf[g] \in aborted

\* The sleep is over and a token goes out; it may complete a stop sequence.
Text(g) ==
    /\ Asleep(g) /\ ~SeesAbort(g)
    /\ emitted' = [emitted EXCEPT ![g] = @ + 1]
    /\ Goes(g, "yielded") \/ Goes(g, "stopping")
    /\ UNCHANGED <<idOf, active, aborted>>

\* Resumed after a token, with more of them to come.
Sleep(g) ==
    /\ gen[g] = "yielded" /\ emitted[g] < MaxTokens /\ ~SeesAbort(g)
    /\ Goes(g, "decoding")
    /\ UNCHANGED <<idOf, emitted, active, aborted>>

\* Reasons the final chunk can carry if the next run yields it.
FinalReasons(g) ==
    IF gen[g] = "yielded" /\ emitted[g] = MaxTokens THEN {"length"}
    ELSE IF gen[g] \in {"yielded", "prefill"} /\ SeesAbort(g) THEN {"abort"}
    ELSE IF Asleep(g) \/ gen[g] = "stopping" THEN {"stop"}
    ELSE {}

Final(g, reason) ==
    /\ reason \in FinalReasons(g)
    /\ Goes(g, "final")
    /\ UNCHANGED <<idOf, emitted, active, aborted>>

\* Mutant: _active -= 1 is not in the finally.
MutLeaveActive(g, left) ==
    /\ Generating(g)
    /\ Goes(g, "ended")
    /\ active' = active
    /\ aborted' = left
    /\ UNCHANGED idOf

\* The generator's finally, on exhaustion, on aclose() and on an exception
\* thrown into it; left is _aborted once the whole run is over.
Leave(g, left) ==
    /\ Generating(g)
    /\ Goes(g, "ended")
    /\ active' = active - 1
    /\ aborted' = left
    /\ UNCHANGED idOf

Close(g) == Leave(g, aborted \ {idOf[g]}) /\ UNCHANGED emitted

\* shutdown(), whatever generations still run.
EngineShutdown == aborted' = {}

\* An exception leaves the generator, and only then does the consumer call
\* abort(): the id stays behind in _aborted.
CloseThenAbort(g) == Leave(g, aborted \union {idOf[g]}) /\ UNCHANGED emitted

=============================================================================
