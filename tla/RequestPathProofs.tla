------------------------- MODULE RequestPathProofs -------------------------
(***************************************************************************)
(* Proofs about RequestPath for any finite set of requests, request ids    *)
(* shared or not, any number of tokens, with or without keep-alives and    *)
(* engine failures.                                                        *)
(***************************************************************************)
EXTENDS RequestPath, FiniteSetTheorems, TLAPS

-----------------------------------------------------------------------------
(* The inductive invariant *)

Streaming(r) == conn[r] \in {"waiting", "sending", "dropped"}

\* How the three generators of a request, its slot and its accounts go
\* together, place by place.
Local(r) ==
    /\ lease[r] = "none" =>
         /\ gen[r] = "none" /\ frames[r] = "none" /\ pull[r] = "none" /\ conn[r] = "none"
         /\ emitted[r] = 0 /\ delivered[r] = 0 /\ result[r] = "pending"
    /\ frames[r] = "none" =>
         /\ gen[r] = "none" /\ pull[r] = "none"
         /\ emitted[r] = 0 /\ delivered[r] = 0 /\ result[r] = "pending"
         /\ \/ lease[r] = "none" /\ conn[r] = "none"
            \/ lease[r] = "held" /\ conn[r] = "raising"
            \/ lease[r] = "released" /\ conn[r] = "over"
    /\ conn[r] = "raising" => frames[r] = "none"
    /\ lease[r] = "released" => frames[r] \in {"none", "closed"}
    /\ frames[r] = "closed" => lease[r] = "released"
    /\ observed[r] = IF frames[r] = "closed" THEN 1 ELSE 0
    /\ Asleep(r) => emitted[r] < MaxTokens
    /\ frames[r] = "collecting" =>
         Asleep(r) /\ conn[r] = "none" /\ result[r] = "pending"
    /\ frames[r] = "unstarted" =>
         gen[r] = "none" /\ conn[r] \in {"header", "over"}
         /\ emitted[r] = 0 /\ delivered[r] = 0 /\ result[r] = "pending"
    /\ frames[r] = "running" =>
         Asleep(r) /\ pull[r] = "running" /\ Streaming(r) /\ delivered[r] = emitted[r]
    /\ frames[r] = "delta" =>
         /\ gen[r] \in {"yielded", "stopping"} /\ pull[r] # "running" /\ Streaming(r)
         /\ delivered[r] + 1 = emitted[r]
    /\ frames[r] \in {"final", "done"} =>
         /\ gen[r] \in {"yielded", "stopping", "final"} /\ pull[r] # "running" /\ Streaming(r)
         /\ delivered[r] = emitted[r] /\ result[r] # "pending"
    /\ frames[r] = "error" =>
         /\ gen[r] = "ended" /\ pull[r] # "running" /\ Streaming(r)
         /\ delivered[r] = emitted[r] /\ result[r] # "pending"
    /\ frames[r] = "closed" =>
         /\ gen[r] = "ended" /\ result[r] # "pending" /\ conn[r] # "header"
         /\ conn[r] # "none" => delivered[r] \in {emitted[r], emitted[r] - 1}
         /\ result[r] \in {"length", "stop", "abort"} => delivered[r] = emitted[r]

Load == {r \in Requests : Generating(r)}

PInv == PathTypeOK /\ (\A r \in Requests : Local(r)) /\ active = Cardinality(Load)

-----------------------------------------------------------------------------
(* What a step of one request does *)

\* Nothing of request q is touched.
Same(q) ==
    /\ gen'[q] = gen[q] /\ emitted'[q] = emitted[q]
    /\ lease'[q] = lease[q] /\ frames'[q] = frames[q] /\ pull'[q] = pull[q]
    /\ conn'[q] = conn[q] /\ result'[q] = result[q] /\ observed'[q] = observed[q]
    /\ delivered'[q] = delivered[q]

\* The engine's count follows the generation of r.
LoadStep(r) ==
    \/ active' = active /\ (Generating(r)' <=> Generating(r))
    \/ active' = active + 1 /\ ~Generating(r) /\ Generating(r)'
    \/ active' = active - 1 /\ Generating(r) /\ ~Generating(r)'

LEMMA OthersKeep ==
  ASSUME NEW q \in Requests, Local(q), Same(q)
  PROVE  Local(q)' /\ (Generating(q)' <=> Generating(q))
BY DEF Local, Same, Asleep, Generating, Streaming

LEMMA Combine ==
  ASSUME PInv, NEW r \in Requests, PathTypeOK', Local(r)', LoadStep(r),
         \A q \in Requests \ {r} : Same(q)
  PROVE  PInv'
<1>1. \A q \in Requests : Local(q)'
  BY OthersKeep DEF PInv
<1>2. \A q \in Requests \ {r} : Generating(q)' <=> Generating(q)
  BY OthersKeep DEF PInv
<1>3. IsFiniteSet(Load)
  BY RequestsAssumption, FS_Subset DEF Load
<1>4. Cardinality(Load) \in Nat /\ active = Cardinality(Load)
  BY <1>3, FS_CardinalityType DEF PInv
<1>5. CASE active' = active /\ (Generating(r)' <=> Generating(r))
  <2>1. Load' = Load
    BY <1>2, <1>5 DEF Load
  <2> QED BY <1>1, <1>4, <1>5, <2>1 DEF PInv
<1>6. CASE active' = active + 1 /\ ~Generating(r) /\ Generating(r)'
  <2>1. Load' = Load \union {r} /\ r \notin Load
    BY <1>2, <1>6 DEF Load
  <2>2. Cardinality(Load \union {r}) = Cardinality(Load) + 1
    BY <1>3, <2>1, FS_AddElement
  <2>3. Cardinality(Load') = Cardinality(Load) + 1
    BY <2>1, <2>2
  <2> QED BY <1>1, <1>4, <1>6, <2>3 DEF PInv
<1>7. CASE active' = active - 1 /\ Generating(r) /\ ~Generating(r)'
  <2>1. Load' = Load \ {r} /\ r \in Load
    BY <1>2, <1>7 DEF Load
  <2>2. Cardinality(Load \ {r}) = Cardinality(Load) - 1
    BY <1>3, <2>1, FS_RemoveElement
  <2>3. Cardinality(Load') = Cardinality(Load) - 1
    BY <2>1, <2>2
  <2> QED BY <1>1, <1>4, <1>7, <2>3 DEF PInv
<1> QED BY <1>5, <1>6, <1>7 DEF LoadStep

-----------------------------------------------------------------------------
(* Steps *)

LEMMA InitEstablishes == PathInit => PInv
<1> SUFFICES ASSUME PathInit PROVE PInv
  OBVIOUS
<1>1. PathTypeOK
  BY MaxTokensAssumption DEF PathInit, EngineInit, PathTypeOK, EngineTypeOK
<1>2. \A r \in Requests : Local(r)
  BY DEF PathInit, EngineInit, Local, Asleep, Streaming
<1>3. Load = {}
  BY DEF PathInit, EngineInit, Load, Generating, Asleep
<1> QED BY <1>1, <1>2, <1>3, FS_EmptySet DEF PInv, PathInit, EngineInit

\* A generation that runs is counted, so that the count can go down by it.
LEMMA LoadCounted ==
  ASSUME PInv, NEW r \in Requests, Generating(r)
  PROVE  active - 1 \in Nat
<1>1. IsFiniteSet(Load) /\ r \in Load
  BY RequestsAssumption, FS_Subset DEF Load
<1>2. IsFiniteSet(Load \ {r}) /\ Cardinality(Load \ {r}) = Cardinality(Load) - 1
  BY <1>1, FS_RemoveElement
<1>3. Cardinality(Load \ {r}) \in Nat
  BY <1>2, FS_CardinalityType
<1> QED BY <1>2, <1>3 DEF PInv

LEMMA StartBlockingKeeps ==
  ASSUME PInv, NEW r \in Requests, StartBlocking(r)
  PROVE  PInv'
<1> USE DEF PInv, PathTypeOK, EngineTypeOK
<1>1. PathTypeOK'
  BY MaxTokensAssumption DEF Local, Asleep, StartBlocking,
     engineVars, pathVars, NotAccounted, At, Finish, Account, ObserveEnd,
     Goes, Admitted, Start
<1>2. Local(r)'
  BY MaxTokensAssumption DEF Local, Asleep, Streaming, StartBlocking,
     engineVars, pathVars, NotAccounted, At, Finish, Account, ObserveEnd,
     Goes, Admitted, Start
<1>3. LoadStep(r)
  BY DEF Local, LoadStep, Generating, Asleep, StartBlocking, engineVars,
     pathVars, NotAccounted, At, Finish, Account, ObserveEnd, Goes, Admitted,
     Start
<1>4. \A q \in Requests \ {r} : Same(q)
  BY DEF Same, StartBlocking, engineVars, pathVars, NotAccounted, At, Finish,
     Account, ObserveEnd, Goes, Admitted, Start
<1> QED BY <1>1, <1>2, <1>3, <1>4, Combine

LEMMA CollectTokenKeeps ==
  ASSUME PInv, NEW r \in Requests, CollectToken(r)
  PROVE  PInv'
<1> USE DEF PInv, PathTypeOK, EngineTypeOK
<1>1. PathTypeOK'
  BY MaxTokensAssumption DEF Local, Asleep, CollectToken,
     engineVars, pathVars, NotAccounted, At, Finish, Account, ObserveEnd,
     Goes, Collecting, SeesAbort
<1>2. Local(r)'
  BY MaxTokensAssumption DEF Local, Asleep, Streaming, CollectToken,
     engineVars, pathVars, NotAccounted, At, Finish, Account, ObserveEnd,
     Goes, Collecting, SeesAbort
<1>3. LoadStep(r)
  BY DEF Local, LoadStep, Generating, Asleep, CollectToken, engineVars,
     pathVars, NotAccounted, At, Finish, Account, ObserveEnd, Goes,
     Collecting, SeesAbort
<1>4. \A q \in Requests \ {r} : Same(q)
  BY DEF Same, CollectToken, engineVars, pathVars, NotAccounted, At, Finish,
     Account, ObserveEnd, Goes, Collecting, SeesAbort
<1> QED BY <1>1, <1>2, <1>3, <1>4, Combine

LEMMA CollectLastKeeps ==
  ASSUME PInv, NEW r \in Requests, NEW n \in {0, 1}, NEW reason \in {"length", "stop", "abort"}, CollectLast(r, n, reason)
  PROVE  PInv'
<1> USE DEF PInv, PathTypeOK, EngineTypeOK
<1>0. active - 1 \in Nat \/ ~Generating(r)
  BY LoadCounted
<1>1. PathTypeOK'
  BY <1>0, MaxTokensAssumption DEF Local, Asleep, Generating,
     CollectLast, engineVars, pathVars, NotAccounted, At, Finish, Account,
     ObserveEnd, Goes, Collecting, FinalReasons, SeesAbort, Leave
<1>2. Local(r)'
  BY MaxTokensAssumption DEF Local, Asleep, Streaming, CollectLast,
     engineVars, pathVars, NotAccounted, At, Finish, Account, ObserveEnd,
     Goes, Collecting, FinalReasons, SeesAbort, Leave
<1>3. LoadStep(r)
  BY DEF Local, LoadStep, Generating, Asleep, CollectLast, engineVars,
     pathVars, NotAccounted, At, Finish, Account, ObserveEnd, Goes,
     Collecting, FinalReasons, SeesAbort, Leave
<1>4. \A q \in Requests \ {r} : Same(q)
  BY DEF Same, CollectLast, engineVars, pathVars, NotAccounted, At, Finish,
     Account, ObserveEnd, Goes, Collecting, FinalReasons, SeesAbort, Leave
<1> QED BY <1>1, <1>2, <1>3, <1>4, Combine

LEMMA CollectBreaksKeeps ==
  ASSUME PInv, NEW r \in Requests, NEW why \in {"timeout", "cancelled", "error"}, CollectBreaks(r, why)
  PROVE  PInv'
<1> USE DEF PInv, PathTypeOK, EngineTypeOK
<1>0. active - 1 \in Nat \/ ~Generating(r)
  BY LoadCounted
<1>1. PathTypeOK'
  <2>1. active' \in Nat
    BY <1>0 DEF Local, Asleep, Generating, CollectBreaks, engineVars,
       pathVars, NotAccounted, At, Finish, Account, ObserveEnd, Goes,
       Collecting, CloseThenAbort, Leave
  <2>2. aborted' \subseteq Ids
    <3>1. aborted' \in {aborted, aborted \union {idOf[r]}, aborted \ {idOf[r]}}
      BY DEF CollectBreaks, engineVars, pathVars, NotAccounted, At, Finish,
         Account, ObserveEnd, Goes, Collecting, CloseThenAbort, Leave
    <3>2. idOf[r] \in Ids /\ aborted \subseteq Ids
      BY DEF PInv, PathTypeOK, EngineTypeOK
    <3> QED BY ONLY <3>1, <3>2
  <2>0. idOf' \in [Requests -> Ids]
    BY DEF CollectBreaks, engineVars, pathVars, NotAccounted, At, Finish,
       Account, ObserveEnd, Goes, Collecting, CloseThenAbort, Leave
  <2>3. gen' \in [Requests -> {"none", "prefill", "decoding", "yielded",
                                "stopping", "final", "ended"}]
    BY DEF CollectBreaks, engineVars, pathVars, NotAccounted, At, Finish,
       Account, ObserveEnd, Goes, Collecting, CloseThenAbort, Leave
  <2>4. /\ emitted' \in [Requests -> 0 .. MaxTokens]
        /\ delivered' \in [Requests -> 0 .. MaxTokens]
    BY MaxTokensAssumption DEF Local, CollectBreaks, engineVars, pathVars,
       NotAccounted, At, Finish, Account, ObserveEnd, Goes, Collecting,
       CloseThenAbort, Leave
  <2>5. /\ lease' \in [Requests -> {"none", "held", "released"}]
        /\ observed' \in [Requests -> Nat]
    BY DEF CollectBreaks, engineVars, pathVars, NotAccounted, At, Finish,
       Account, ObserveEnd, Goes, Collecting, CloseThenAbort, Leave
  <2>6. /\ frames' \in [Requests -> {"none", "collecting", "unstarted", "running",
                                      "delta", "final", "done", "error", "closed"}]
        /\ pull' \in [Requests -> {"none", "running", "finished"}]
        /\ conn' \in [Requests -> {"none", "header", "raising", "waiting",
                                    "sending", "dropped", "over"}]
    BY DEF CollectBreaks, engineVars, pathVars, NotAccounted, At, Finish,
       Account, ObserveEnd, Goes, Collecting, CloseThenAbort, Leave
  <2>7. /\ late' \in [Requests -> BOOLEAN]
        /\ result' \in [Requests -> {"pending", "length", "stop", "abort", "timeout",
                                      "cancelled", "client_disconnect", "error"}]
    BY DEF CollectBreaks, engineVars, pathVars, NotAccounted, At, Finish,
       Account, ObserveEnd, Goes, Collecting, CloseThenAbort, Leave
  <2> QED BY <2>0, <2>1, <2>2, <2>3, <2>4, <2>5, <2>6, <2>7
<1>2. Local(r)'
  BY MaxTokensAssumption DEF Local, Asleep, Streaming, CollectBreaks,
     engineVars, pathVars, NotAccounted, At, Finish, Account, ObserveEnd,
     Goes, Collecting, CloseThenAbort, Leave
<1>3. LoadStep(r)
  BY DEF Local, LoadStep, Generating, Asleep, CollectBreaks, engineVars,
     pathVars, NotAccounted, At, Finish, Account, ObserveEnd, Goes,
     Collecting, CloseThenAbort, Leave
<1>4. \A q \in Requests \ {r} : Same(q)
  BY DEF Same, CollectBreaks, engineVars, pathVars, NotAccounted, At, Finish,
     Account, ObserveEnd, Goes, Collecting, CloseThenAbort, Leave
<1> QED BY <1>1, <1>2, <1>3, <1>4, Combine

LEMMA StartStreamKeeps ==
  ASSUME PInv, NEW r \in Requests, StartStream(r)
  PROVE  PInv'
<1> USE DEF PInv, PathTypeOK, EngineTypeOK
<1>1. PathTypeOK'
  BY MaxTokensAssumption DEF Local, Asleep, StartStream,
     engineVars, pathVars, NotAccounted, At, Finish, Account, ObserveEnd,
     Goes, Admitted
<1>2. Local(r)'
  BY MaxTokensAssumption DEF Local, Asleep, Streaming, StartStream,
     engineVars, pathVars, NotAccounted, At, Finish, Account, ObserveEnd,
     Goes, Admitted
<1>3. LoadStep(r)
  BY DEF Local, LoadStep, Generating, Asleep, StartStream, engineVars,
     pathVars, NotAccounted, At, Finish, Account, ObserveEnd, Goes, Admitted
<1>4. \A q \in Requests \ {r} : Same(q)
  BY DEF Same, StartStream, engineVars, pathVars, NotAccounted, At, Finish,
     Account, ObserveEnd, Goes, Admitted
<1> QED BY <1>1, <1>2, <1>3, <1>4, Combine

LEMMA BuildFailsKeeps ==
  ASSUME PInv, NEW r \in Requests, BuildFails(r)
  PROVE  PInv'
<1> USE DEF PInv, PathTypeOK, EngineTypeOK, BuildFails, engineVars, At, Admitted
<1>1. PathTypeOK'
  OBVIOUS
<1>2. Local(r)'
  BY DEF Local, Asleep, Streaming
<1>3. LoadStep(r)
  BY DEF LoadStep, Generating, Asleep
<1>4. \A q \in Requests \ {r} : Same(q)
  BY DEF Same
<1> QED BY <1>1, <1>2, <1>3, <1>4, Combine

LEMMA ReleaseUnbuiltKeeps ==
  ASSUME PInv, NEW r \in Requests, ReleaseUnbuilt(r)
  PROVE  PInv'
<1> USE DEF PInv, PathTypeOK, EngineTypeOK, ReleaseUnbuilt, engineVars, At
<1>1. PathTypeOK'
  OBVIOUS
<1>2. Local(r)'
  BY DEF Local, Asleep, Streaming
<1>3. LoadStep(r)
  BY DEF LoadStep, Generating, Asleep
<1>4. \A q \in Requests \ {r} : Same(q)
  BY DEF Same
<1> QED BY <1>1, <1>2, <1>3, <1>4, Combine

LEMMA HeaderSentKeeps ==
  ASSUME PInv, NEW r \in Requests, HeaderSent(r)
  PROVE  PInv'
<1> USE DEF PInv, PathTypeOK, EngineTypeOK
<1>0. frames[r] = "unstarted" /\ lease[r] = "held" /\ emitted[r] = 0
  BY DEF HeaderSent, Local, Streaming, Start
<1>1. PathTypeOK'
  BY MaxTokensAssumption DEF Local, Asleep, HeaderSent,
     engineVars, pathVars, NotAccounted, At, Finish, Account, ObserveEnd,
     Goes, Start
<1>2. Local(r)'
  BY <1>0, MaxTokensAssumption DEF Local, Asleep, Streaming, HeaderSent,
     engineVars, pathVars, NotAccounted, At, Finish, Account, ObserveEnd,
     Goes, Start
<1>3. LoadStep(r)
  BY DEF Local, LoadStep, Generating, Asleep, HeaderSent, engineVars,
     pathVars, NotAccounted, At, Finish, Account, ObserveEnd, Goes, Start
<1>4. \A q \in Requests \ {r} : Same(q)
  BY DEF Same, HeaderSent, engineVars, pathVars, NotAccounted, At, Finish,
     Account, ObserveEnd, Goes, Start
<1> QED BY <1>1, <1>2, <1>3, <1>4, Combine

LEMMA FrameSentKeeps ==
  ASSUME PInv, NEW r \in Requests, FrameSent(r)
  PROVE  PInv'
<1> USE DEF PInv, PathTypeOK, EngineTypeOK
<1>0. active - 1 \in Nat \/ ~Generating(r)
  BY LoadCounted
<1>1. PathTypeOK'
  <2>1. active' \in Nat
    BY <1>0 DEF Local, Asleep, Generating, FrameSent, engineVars, pathVars,
       NotAccounted, At, Finish, Account, ObserveEnd, Goes, AfterDelta,
       AfterFinal, AfterLast, Sleep, Final, FinalReasons, SeesAbort, Abort,
       Close, Leave
  <2>2. aborted' \subseteq Ids
    <3>1. aborted' \in {aborted, aborted \union {idOf[r]}, aborted \ {idOf[r]}}
      BY DEF FrameSent, engineVars, pathVars, NotAccounted, At, Finish,
         Account, ObserveEnd, Goes, AfterDelta, AfterFinal, AfterLast, Sleep,
         Final, FinalReasons, SeesAbort, Abort, Close, Leave
    <3>2. idOf[r] \in Ids /\ aborted \subseteq Ids
      BY DEF PInv, PathTypeOK, EngineTypeOK
    <3> QED BY ONLY <3>1, <3>2
  <2>0. idOf' \in [Requests -> Ids]
    BY DEF FrameSent, engineVars, pathVars, NotAccounted, At, Finish, Account,
       ObserveEnd, Goes, AfterDelta, AfterFinal, AfterLast, Sleep, Final,
       FinalReasons, SeesAbort, Abort, Close, Leave
  <2>3. gen' \in [Requests -> {"none", "prefill", "decoding", "yielded",
                                "stopping", "final", "ended"}]
    BY DEF FrameSent, engineVars, pathVars, NotAccounted, At, Finish, Account,
       ObserveEnd, Goes, AfterDelta, AfterFinal, AfterLast, Sleep, Final,
       FinalReasons, SeesAbort, Abort, Close, Leave
  <2>4. /\ emitted' \in [Requests -> 0 .. MaxTokens]
        /\ delivered' \in [Requests -> 0 .. MaxTokens]
    BY MaxTokensAssumption DEF Local, FrameSent, engineVars, pathVars,
       NotAccounted, At, Finish, Account, ObserveEnd, Goes, AfterDelta,
       AfterFinal, AfterLast, Sleep, Final, FinalReasons, SeesAbort, Abort,
       Close, Leave
  <2>5. /\ lease' \in [Requests -> {"none", "held", "released"}]
        /\ observed' \in [Requests -> Nat]
    BY DEF FrameSent, engineVars, pathVars, NotAccounted, At, Finish, Account,
       ObserveEnd, Goes, AfterDelta, AfterFinal, AfterLast, Sleep, Final,
       FinalReasons, SeesAbort, Abort, Close, Leave
  <2>6. /\ frames' \in [Requests -> {"none", "collecting", "unstarted", "running",
                                      "delta", "final", "done", "error", "closed"}]
        /\ pull' \in [Requests -> {"none", "running", "finished"}]
        /\ conn' \in [Requests -> {"none", "header", "raising", "waiting",
                                    "sending", "dropped", "over"}]
    BY DEF FrameSent, engineVars, pathVars, NotAccounted, At, Finish, Account,
       ObserveEnd, Goes, AfterDelta, AfterFinal, AfterLast, Sleep, Final,
       FinalReasons, SeesAbort, Abort, Close, Leave
  <2>7. /\ late' \in [Requests -> BOOLEAN]
        /\ result' \in [Requests -> {"pending", "length", "stop", "abort", "timeout",
                                      "cancelled", "client_disconnect", "error"}]
    BY DEF FrameSent, engineVars, pathVars, NotAccounted, At, Finish, Account,
       ObserveEnd, Goes, AfterDelta, AfterFinal, AfterLast, Sleep, Final,
       FinalReasons, SeesAbort, Abort, Close, Leave
  <2> QED BY <2>0, <2>1, <2>2, <2>3, <2>4, <2>5, <2>6, <2>7
<1>2. Local(r)'
  BY MaxTokensAssumption DEF Local, Asleep, Streaming, FrameSent, engineVars,
     pathVars, NotAccounted, At, Finish, Account, ObserveEnd, Goes,
     AfterDelta, AfterFinal, AfterLast, Sleep, Final, FinalReasons, SeesAbort,
     Abort, Close, Leave
<1>3. LoadStep(r)
  BY DEF Local, LoadStep, Generating, Asleep, FrameSent, engineVars, pathVars,
     NotAccounted, At, Finish, Account, ObserveEnd, Goes, AfterDelta,
     AfterFinal, AfterLast, Sleep, Final, FinalReasons, SeesAbort, Abort,
     Close, Leave
<1>4. \A q \in Requests \ {r} : Same(q)
  BY DEF Same, FrameSent, engineVars, pathVars, NotAccounted, At, Finish,
     Account, ObserveEnd, Goes, AfterDelta, AfterFinal, AfterLast, Sleep,
     Final, FinalReasons, SeesAbort, Abort, Close, Leave
<1> QED BY <1>1, <1>2, <1>3, <1>4, Combine

LEMMA EngineWakesKeeps ==
  ASSUME PInv, NEW r \in Requests, EngineWakes(r)
  PROVE  PInv'
<1> USE DEF PInv, PathTypeOK, EngineTypeOK
<1>1. PathTypeOK'
  <2>1. active' \in Nat
    BY DEF Local, Asleep, EngineWakes, engineVars, pathVars, NotAccounted, At,
       Finish, Account, ObserveEnd, Goes, Text, Final, FinalReasons, SeesAbort
  <2>2. aborted' \subseteq Ids
    <3>1. aborted' \in {aborted, aborted \union {idOf[r]}, aborted \ {idOf[r]}}
      BY DEF EngineWakes, engineVars, pathVars, NotAccounted, At, Finish,
         Account, ObserveEnd, Goes, Text, Final, FinalReasons, SeesAbort
    <3>2. idOf[r] \in Ids /\ aborted \subseteq Ids
      BY DEF PInv, PathTypeOK, EngineTypeOK
    <3> QED BY ONLY <3>1, <3>2
  <2>0. idOf' \in [Requests -> Ids]
    BY DEF EngineWakes, engineVars, pathVars, NotAccounted, At, Finish,
       Account, ObserveEnd, Goes, Text, Final, FinalReasons, SeesAbort
  <2>3. gen' \in [Requests -> {"none", "prefill", "decoding", "yielded",
                                "stopping", "final", "ended"}]
    BY DEF EngineWakes, engineVars, pathVars, NotAccounted, At, Finish,
       Account, ObserveEnd, Goes, Text, Final, FinalReasons, SeesAbort
  <2>4. /\ emitted' \in [Requests -> 0 .. MaxTokens]
        /\ delivered' \in [Requests -> 0 .. MaxTokens]
    BY MaxTokensAssumption DEF Local, EngineWakes, engineVars, pathVars,
       NotAccounted, At, Finish, Account, ObserveEnd, Goes, Text, Final,
       FinalReasons, SeesAbort
  <2>5. /\ lease' \in [Requests -> {"none", "held", "released"}]
        /\ observed' \in [Requests -> Nat]
    BY DEF EngineWakes, engineVars, pathVars, NotAccounted, At, Finish,
       Account, ObserveEnd, Goes, Text, Final, FinalReasons, SeesAbort
  <2>6. /\ frames' \in [Requests -> {"none", "collecting", "unstarted", "running",
                                      "delta", "final", "done", "error", "closed"}]
        /\ pull' \in [Requests -> {"none", "running", "finished"}]
        /\ conn' \in [Requests -> {"none", "header", "raising", "waiting",
                                    "sending", "dropped", "over"}]
    BY DEF EngineWakes, engineVars, pathVars, NotAccounted, At, Finish,
       Account, ObserveEnd, Goes, Text, Final, FinalReasons, SeesAbort
  <2>7. /\ late' \in [Requests -> BOOLEAN]
        /\ result' \in [Requests -> {"pending", "length", "stop", "abort", "timeout",
                                      "cancelled", "client_disconnect", "error"}]
    BY DEF EngineWakes, engineVars, pathVars, NotAccounted, At, Finish,
       Account, ObserveEnd, Goes, Text, Final, FinalReasons, SeesAbort
  <2> QED BY <2>0, <2>1, <2>2, <2>3, <2>4, <2>5, <2>6, <2>7
<1>2. Local(r)'
  BY MaxTokensAssumption DEF Local, Asleep, Streaming, EngineWakes,
     engineVars, pathVars, NotAccounted, At, Finish, Account, ObserveEnd,
     Goes, Text, Final, FinalReasons, SeesAbort
<1>3. LoadStep(r)
  BY DEF Local, LoadStep, Generating, Asleep, EngineWakes, engineVars,
     pathVars, NotAccounted, At, Finish, Account, ObserveEnd, Goes, Text,
     Final, FinalReasons, SeesAbort
<1>4. \A q \in Requests \ {r} : Same(q)
  BY DEF Same, EngineWakes, engineVars, pathVars, NotAccounted, At, Finish,
     Account, ObserveEnd, Goes, Text, Final, FinalReasons, SeesAbort
<1> QED BY <1>1, <1>2, <1>3, <1>4, Combine

LEMMA EngineRaisesKeeps ==
  ASSUME PInv, NEW r \in Requests, EngineRaises(r)
  PROVE  PInv'
<1> USE DEF PInv, PathTypeOK, EngineTypeOK
<1>0. active - 1 \in Nat \/ ~Generating(r)
  BY LoadCounted
<1>1. PathTypeOK'
  <2>1. active' \in Nat
    BY <1>0 DEF Local, Asleep, Generating, EngineRaises, engineVars, pathVars,
       NotAccounted, At, Finish, Account, ObserveEnd, Goes, CloseThenAbort,
       Leave
  <2>2. aborted' \subseteq Ids
    <3>1. aborted' \in {aborted, aborted \union {idOf[r]}, aborted \ {idOf[r]}}
      BY DEF EngineRaises, engineVars, pathVars, NotAccounted, At, Finish,
         Account, ObserveEnd, Goes, CloseThenAbort, Leave
    <3>2. idOf[r] \in Ids /\ aborted \subseteq Ids
      BY DEF PInv, PathTypeOK, EngineTypeOK
    <3> QED BY ONLY <3>1, <3>2
  <2>0. idOf' \in [Requests -> Ids]
    BY DEF EngineRaises, engineVars, pathVars, NotAccounted, At, Finish,
       Account, ObserveEnd, Goes, CloseThenAbort, Leave
  <2>3. gen' \in [Requests -> {"none", "prefill", "decoding", "yielded",
                                "stopping", "final", "ended"}]
    BY DEF EngineRaises, engineVars, pathVars, NotAccounted, At, Finish,
       Account, ObserveEnd, Goes, CloseThenAbort, Leave
  <2>4. /\ emitted' \in [Requests -> 0 .. MaxTokens]
        /\ delivered' \in [Requests -> 0 .. MaxTokens]
    BY MaxTokensAssumption DEF Local, EngineRaises, engineVars, pathVars,
       NotAccounted, At, Finish, Account, ObserveEnd, Goes, CloseThenAbort,
       Leave
  <2>5. /\ lease' \in [Requests -> {"none", "held", "released"}]
        /\ observed' \in [Requests -> Nat]
    BY DEF EngineRaises, engineVars, pathVars, NotAccounted, At, Finish,
       Account, ObserveEnd, Goes, CloseThenAbort, Leave
  <2>6. /\ frames' \in [Requests -> {"none", "collecting", "unstarted", "running",
                                      "delta", "final", "done", "error", "closed"}]
        /\ pull' \in [Requests -> {"none", "running", "finished"}]
        /\ conn' \in [Requests -> {"none", "header", "raising", "waiting",
                                    "sending", "dropped", "over"}]
    BY DEF EngineRaises, engineVars, pathVars, NotAccounted, At, Finish,
       Account, ObserveEnd, Goes, CloseThenAbort, Leave
  <2>7. /\ late' \in [Requests -> BOOLEAN]
        /\ result' \in [Requests -> {"pending", "length", "stop", "abort", "timeout",
                                      "cancelled", "client_disconnect", "error"}]
    BY DEF EngineRaises, engineVars, pathVars, NotAccounted, At, Finish,
       Account, ObserveEnd, Goes, CloseThenAbort, Leave
  <2> QED BY <2>0, <2>1, <2>2, <2>3, <2>4, <2>5, <2>6, <2>7
<1>2. Local(r)'
  BY MaxTokensAssumption DEF Local, Asleep, Streaming, EngineRaises,
     engineVars, pathVars, NotAccounted, At, Finish, Account, ObserveEnd,
     Goes, CloseThenAbort, Leave
<1>3. LoadStep(r)
  BY DEF Local, LoadStep, Generating, Asleep, EngineRaises, engineVars,
     pathVars, NotAccounted, At, Finish, Account, ObserveEnd, Goes,
     CloseThenAbort, Leave
<1>4. \A q \in Requests \ {r} : Same(q)
  BY DEF Same, EngineRaises, engineVars, pathVars, NotAccounted, At, Finish,
     Account, ObserveEnd, Goes, CloseThenAbort, Leave
<1> QED BY <1>1, <1>2, <1>3, <1>4, Combine

LEMMA DeliverKeeps ==
  ASSUME PInv, NEW r \in Requests, Deliver(r)
  PROVE  PInv'
<1> USE DEF PInv, PathTypeOK, EngineTypeOK
<1>1. PathTypeOK'
  BY MaxTokensAssumption DEF Local, Asleep, Deliver,
     engineVars, pathVars, NotAccounted, At, Finish, Account, ObserveEnd, Goes
<1>2. Local(r)'
  BY MaxTokensAssumption DEF Local, Asleep, Streaming, Deliver, engineVars,
     pathVars, NotAccounted, At, Finish, Account, ObserveEnd, Goes
<1>3. LoadStep(r)
  BY DEF Local, LoadStep, Generating, Asleep, Deliver, engineVars, pathVars,
     NotAccounted, At, Finish, Account, ObserveEnd, Goes
<1>4. \A q \in Requests \ {r} : Same(q)
  BY DEF Same, Deliver, engineVars, pathVars, NotAccounted, At, Finish,
     Account, ObserveEnd, Goes
<1> QED BY <1>1, <1>2, <1>3, <1>4, Combine

LEMMA KeepAliveTickKeeps ==
  ASSUME PInv, NEW r \in Requests, KeepAliveTick(r)
  PROVE  PInv'
<1> USE DEF PInv, PathTypeOK, EngineTypeOK
<1>1. PathTypeOK'
  BY MaxTokensAssumption DEF Local, Asleep, KeepAliveTick,
     engineVars, pathVars, NotAccounted, At, Finish, Account, ObserveEnd, Goes
<1>2. Local(r)'
  BY MaxTokensAssumption DEF Local, Asleep, Streaming, KeepAliveTick,
     engineVars, pathVars, NotAccounted, At, Finish, Account, ObserveEnd, Goes
<1>3. LoadStep(r)
  BY DEF Local, LoadStep, Generating, Asleep, KeepAliveTick, engineVars,
     pathVars, NotAccounted, At, Finish, Account, ObserveEnd, Goes
<1>4. \A q \in Requests \ {r} : Same(q)
  BY DEF Same, KeepAliveTick, engineVars, pathVars, NotAccounted, At, Finish,
     Account, ObserveEnd, Goes
<1> QED BY <1>1, <1>2, <1>3, <1>4, Combine

LEMMA CommentSentKeeps ==
  ASSUME PInv, NEW r \in Requests, CommentSent(r)
  PROVE  PInv'
<1> USE DEF PInv, PathTypeOK, EngineTypeOK
<1>1. PathTypeOK'
  BY MaxTokensAssumption DEF Local, Asleep, CommentSent,
     engineVars, pathVars, NotAccounted, At, Finish, Account, ObserveEnd, Goes
<1>2. Local(r)'
  BY MaxTokensAssumption DEF Local, Asleep, Streaming, CommentSent,
     engineVars, pathVars, NotAccounted, At, Finish, Account, ObserveEnd, Goes
<1>3. LoadStep(r)
  BY DEF Local, LoadStep, Generating, Asleep, CommentSent, engineVars,
     pathVars, NotAccounted, At, Finish, Account, ObserveEnd, Goes
<1>4. \A q \in Requests \ {r} : Same(q)
  BY DEF Same, CommentSent, engineVars, pathVars, NotAccounted, At, Finish,
     Account, ObserveEnd, Goes
<1> QED BY <1>1, <1>2, <1>3, <1>4, Combine

LEMMA HangUpWaitingKeeps ==
  ASSUME PInv, NEW r \in Requests, HangUpWaiting(r)
  PROVE  PInv'
<1> USE DEF PInv, PathTypeOK, EngineTypeOK
<1>0. active - 1 \in Nat \/ ~Generating(r)
  BY LoadCounted
<1>1. PathTypeOK'
  <2>1. active' \in Nat
    BY <1>0 DEF Local, Asleep, Generating, HangUpWaiting, engineVars,
       pathVars, NotAccounted, At, Finish, Account, ObserveEnd, Goes, Unwind,
       Close, CloseThenAbort, Leave
  <2>2. aborted' \subseteq Ids
    <3>1. aborted' \in {aborted, aborted \union {idOf[r]}, aborted \ {idOf[r]}}
      BY DEF HangUpWaiting, engineVars, pathVars, NotAccounted, At, Finish,
         Account, ObserveEnd, Goes, Unwind, Close, CloseThenAbort, Leave
    <3>2. idOf[r] \in Ids /\ aborted \subseteq Ids
      BY DEF PInv, PathTypeOK, EngineTypeOK
    <3> QED BY ONLY <3>1, <3>2
  <2>0. idOf' \in [Requests -> Ids]
    BY DEF HangUpWaiting, engineVars, pathVars, NotAccounted, At, Finish,
       Account, ObserveEnd, Goes, Unwind, Close, CloseThenAbort, Leave
  <2>3. gen' \in [Requests -> {"none", "prefill", "decoding", "yielded",
                                "stopping", "final", "ended"}]
    BY DEF HangUpWaiting, engineVars, pathVars, NotAccounted, At, Finish,
       Account, ObserveEnd, Goes, Unwind, Close, CloseThenAbort, Leave
  <2>4. /\ emitted' \in [Requests -> 0 .. MaxTokens]
        /\ delivered' \in [Requests -> 0 .. MaxTokens]
    BY MaxTokensAssumption DEF Local, HangUpWaiting, engineVars, pathVars,
       NotAccounted, At, Finish, Account, ObserveEnd, Goes, Unwind, Close,
       CloseThenAbort, Leave
  <2>5. /\ lease' \in [Requests -> {"none", "held", "released"}]
        /\ observed' \in [Requests -> Nat]
    BY DEF HangUpWaiting, engineVars, pathVars, NotAccounted, At, Finish,
       Account, ObserveEnd, Goes, Unwind, Close, CloseThenAbort, Leave
  <2>6. /\ frames' \in [Requests -> {"none", "collecting", "unstarted", "running",
                                      "delta", "final", "done", "error", "closed"}]
        /\ pull' \in [Requests -> {"none", "running", "finished"}]
        /\ conn' \in [Requests -> {"none", "header", "raising", "waiting",
                                    "sending", "dropped", "over"}]
    BY DEF HangUpWaiting, engineVars, pathVars, NotAccounted, At, Finish,
       Account, ObserveEnd, Goes, Unwind, Close, CloseThenAbort, Leave
  <2>7. /\ late' \in [Requests -> BOOLEAN]
        /\ result' \in [Requests -> {"pending", "length", "stop", "abort", "timeout",
                                      "cancelled", "client_disconnect", "error"}]
    BY DEF HangUpWaiting, engineVars, pathVars, NotAccounted, At, Finish,
       Account, ObserveEnd, Goes, Unwind, Close, CloseThenAbort, Leave
  <2> QED BY <2>0, <2>1, <2>2, <2>3, <2>4, <2>5, <2>6, <2>7
<1>2. Local(r)'
  BY MaxTokensAssumption DEF Local, Asleep, Streaming, HangUpWaiting,
     engineVars, pathVars, NotAccounted, At, Finish, Account, ObserveEnd,
     Goes, Unwind, Close, CloseThenAbort, Leave
<1>3. LoadStep(r)
  BY DEF Local, LoadStep, Generating, Asleep, HangUpWaiting, engineVars,
     pathVars, NotAccounted, At, Finish, Account, ObserveEnd, Goes, Unwind,
     Close, CloseThenAbort, Leave
<1>4. \A q \in Requests \ {r} : Same(q)
  BY DEF Same, HangUpWaiting, engineVars, pathVars, NotAccounted, At, Finish,
     Account, ObserveEnd, Goes, Unwind, Close, CloseThenAbort, Leave
<1> QED BY <1>1, <1>2, <1>3, <1>4, Combine

LEMMA HangUpSendingKeeps ==
  ASSUME PInv, NEW r \in Requests, HangUpSending(r)
  PROVE  PInv'
<1> USE DEF PInv, PathTypeOK, EngineTypeOK
<1>1. PathTypeOK'
  BY MaxTokensAssumption DEF Local, Asleep, HangUpSending,
     engineVars, pathVars, NotAccounted, At, Finish, Account, ObserveEnd, Goes
<1>2. Local(r)'
  BY MaxTokensAssumption DEF Local, Asleep, Streaming, HangUpSending,
     engineVars, pathVars, NotAccounted, At, Finish, Account, ObserveEnd, Goes
<1>3. LoadStep(r)
  BY DEF Local, LoadStep, Generating, Asleep, HangUpSending, engineVars,
     pathVars, NotAccounted, At, Finish, Account, ObserveEnd, Goes
<1>4. \A q \in Requests \ {r} : Same(q)
  BY DEF Same, HangUpSending, engineVars, pathVars, NotAccounted, At, Finish,
     Account, ObserveEnd, Goes
<1> QED BY <1>1, <1>2, <1>3, <1>4, Combine

LEMMA FinaliseKeeps ==
  ASSUME PInv, NEW r \in Requests, Finalise(r)
  PROVE  PInv'
<1> USE DEF PInv, PathTypeOK, EngineTypeOK
<1>0. active - 1 \in Nat \/ ~Generating(r)
  BY LoadCounted
<1>1. PathTypeOK'
  <2>1. active' \in Nat
    BY <1>0 DEF Local, Asleep, Generating, Finalise, engineVars, pathVars,
       NotAccounted, At, Finish, Account, ObserveEnd, Goes, Unwind, Close,
       CloseThenAbort, Leave
  <2>2. aborted' \subseteq Ids
    <3>1. aborted' \in {aborted, aborted \union {idOf[r]}, aborted \ {idOf[r]}}
      BY DEF Finalise, engineVars, pathVars, NotAccounted, At, Finish,
         Account, ObserveEnd, Goes, Unwind, Close, CloseThenAbort, Leave
    <3>2. idOf[r] \in Ids /\ aborted \subseteq Ids
      BY DEF PInv, PathTypeOK, EngineTypeOK
    <3> QED BY ONLY <3>1, <3>2
  <2>0. idOf' \in [Requests -> Ids]
    BY DEF Finalise, engineVars, pathVars, NotAccounted, At, Finish, Account,
       ObserveEnd, Goes, Unwind, Close, CloseThenAbort, Leave
  <2>3. gen' \in [Requests -> {"none", "prefill", "decoding", "yielded",
                                "stopping", "final", "ended"}]
    BY DEF Finalise, engineVars, pathVars, NotAccounted, At, Finish, Account,
       ObserveEnd, Goes, Unwind, Close, CloseThenAbort, Leave
  <2>4. /\ emitted' \in [Requests -> 0 .. MaxTokens]
        /\ delivered' \in [Requests -> 0 .. MaxTokens]
    BY MaxTokensAssumption DEF Local, Finalise, engineVars, pathVars,
       NotAccounted, At, Finish, Account, ObserveEnd, Goes, Unwind, Close,
       CloseThenAbort, Leave
  <2>5. /\ lease' \in [Requests -> {"none", "held", "released"}]
        /\ observed' \in [Requests -> Nat]
    BY DEF Finalise, engineVars, pathVars, NotAccounted, At, Finish, Account,
       ObserveEnd, Goes, Unwind, Close, CloseThenAbort, Leave
  <2>6. /\ frames' \in [Requests -> {"none", "collecting", "unstarted", "running",
                                      "delta", "final", "done", "error", "closed"}]
        /\ pull' \in [Requests -> {"none", "running", "finished"}]
        /\ conn' \in [Requests -> {"none", "header", "raising", "waiting",
                                    "sending", "dropped", "over"}]
    BY DEF Finalise, engineVars, pathVars, NotAccounted, At, Finish, Account,
       ObserveEnd, Goes, Unwind, Close, CloseThenAbort, Leave
  <2>7. /\ late' \in [Requests -> BOOLEAN]
        /\ result' \in [Requests -> {"pending", "length", "stop", "abort", "timeout",
                                      "cancelled", "client_disconnect", "error"}]
    BY DEF Finalise, engineVars, pathVars, NotAccounted, At, Finish, Account,
       ObserveEnd, Goes, Unwind, Close, CloseThenAbort, Leave
  <2> QED BY <2>0, <2>1, <2>2, <2>3, <2>4, <2>5, <2>6, <2>7
<1>2. Local(r)'
  BY MaxTokensAssumption DEF Local, Asleep, Streaming, Finalise, engineVars,
     pathVars, NotAccounted, At, Finish, Account, ObserveEnd, Goes, Unwind,
     Close, CloseThenAbort, Leave
<1>3. LoadStep(r)
  BY DEF Local, LoadStep, Generating, Asleep, Finalise, engineVars, pathVars,
     NotAccounted, At, Finish, Account, ObserveEnd, Goes, Unwind, Close,
     CloseThenAbort, Leave
<1>4. \A q \in Requests \ {r} : Same(q)
  BY DEF Same, Finalise, engineVars, pathVars, NotAccounted, At, Finish,
     Account, ObserveEnd, Goes, Unwind, Close, CloseThenAbort, Leave
<1> QED BY <1>1, <1>2, <1>3, <1>4, Combine

LEMMA HangUpBeforeBodyKeeps ==
  ASSUME PInv, NEW r \in Requests, HangUpBeforeBody(r)
  PROVE  PInv'
<1> USE DEF PInv, PathTypeOK, EngineTypeOK
<1>1. PathTypeOK'
  BY MaxTokensAssumption DEF Local, Asleep, HangUpBeforeBody,
     engineVars, pathVars, NotAccounted, At, Finish, Account, ObserveEnd, Goes
<1>2. Local(r)'
  BY MaxTokensAssumption DEF Local, Asleep, Streaming, HangUpBeforeBody,
     engineVars, pathVars, NotAccounted, At, Finish, Account, ObserveEnd, Goes
<1>3. LoadStep(r)
  BY DEF Local, LoadStep, Generating, Asleep, HangUpBeforeBody, engineVars,
     pathVars, NotAccounted, At, Finish, Account, ObserveEnd, Goes
<1>4. \A q \in Requests \ {r} : Same(q)
  BY DEF Same, HangUpBeforeBody, engineVars, pathVars, NotAccounted, At,
     Finish, Account, ObserveEnd, Goes
<1> QED BY <1>1, <1>2, <1>3, <1>4, Combine

LEMMA DeadlinePassesKeeps ==
  ASSUME PInv, NEW r \in Requests, DeadlinePasses(r)
  PROVE  PInv'
<1> USE DEF PInv, PathTypeOK, EngineTypeOK
<1>1. PathTypeOK'
  BY MaxTokensAssumption DEF Local, Asleep, DeadlinePasses,
     engineVars, pathVars, NotAccounted, At, Finish, Account, ObserveEnd, Goes
<1>2. Local(r)'
  BY MaxTokensAssumption DEF Local, Asleep, Streaming, DeadlinePasses,
     engineVars, pathVars, NotAccounted, At, Finish, Account, ObserveEnd, Goes
<1>3. LoadStep(r)
  BY DEF Local, LoadStep, Generating, Asleep, DeadlinePasses, engineVars,
     pathVars, NotAccounted, At, Finish, Account, ObserveEnd, Goes
<1>4. \A q \in Requests \ {r} : Same(q)
  BY DEF Same, DeadlinePasses, engineVars, pathVars, NotAccounted, At, Finish,
     Account, ObserveEnd, Goes
<1> QED BY <1>1, <1>2, <1>3, <1>4, Combine

\* Nothing moves: the invariant only reads the requests' variables.
LEMMA StutterKeeps == PInv /\ UNCHANGED requestVars => PInv'
<1> SUFFICES ASSUME PInv, UNCHANGED requestVars PROVE PInv'
  OBVIOUS
<1>1. /\ UNCHANGED <<idOf, gen, emitted, active, aborted, lease, frames>>
      /\ UNCHANGED <<pull, conn, late, result, observed, delivered>>
  BY DEF requestVars, engineVars, pathVars
<1>2. PathTypeOK'
  BY <1>1 DEF PInv, PathTypeOK, EngineTypeOK
<1>3. \A r \in Requests : Local(r)'
  BY <1>1, OthersKeep DEF PInv, Same
<1>4. Load' = Load
  BY <1>1 DEF Load, Generating, Asleep
<1> QED BY <1>1, <1>2, <1>3, <1>4 DEF PInv

LEMMA StepKeeps == PInv /\ [PathNext]_requestVars => PInv'
<1> SUFFICES ASSUME PInv, [PathNext]_requestVars PROVE PInv'
  OBVIOUS
<1>1. CASE UNCHANGED requestVars
  BY <1>1, StutterKeeps
<1>2. CASE \E r \in Requests : BlockingStep(r) \/ StreamStep(r)
  <2>1. PICK r \in Requests : BlockingStep(r) \/ StreamStep(r)
    BY <1>2
  <2>2. CASE BlockingStep(r)
    BY <2>2, StartBlockingKeeps, CollectTokenKeeps, CollectLastKeeps, CollectBreaksKeeps
       DEF BlockingStep, CollectOn
  <2>3. CASE ServerReads(r)
    BY <2>3, HeaderSentKeeps, FrameSentKeeps, CommentSentKeeps DEF ServerReads
  <2>4. CASE EngineWakes(r) \/ EngineRaises(r) \/ Deliver(r) \/ KeepAliveTick(r)
    BY <2>4, EngineWakesKeeps, EngineRaisesKeeps, DeliverKeeps, KeepAliveTickKeeps
  <2>5. CASE HangUpWaiting(r) \/ HangUpSending(r) \/ HangUpBeforeBody(r) \/ Finalise(r)
    BY <2>5, HangUpWaitingKeeps, HangUpSendingKeeps, HangUpBeforeBodyKeeps, FinaliseKeeps
  <2>6. CASE StartStream(r) \/ BuildFails(r) \/ ReleaseUnbuilt(r) \/ DeadlinePasses(r)
    BY <2>6, StartStreamKeeps, BuildFailsKeeps, ReleaseUnbuiltKeeps, DeadlinePassesKeeps
  <2> QED
    BY <2>1, <2>2, <2>3, <2>4, <2>5, <2>6 DEF StreamStep, StreamRuns
<1>3. CASE ShutDownEngine
  <2>1. /\ UNCHANGED <<idOf, gen, emitted, active, lease, frames>>
        /\ UNCHANGED <<pull, conn, late, result, observed, delivered>>
        /\ aborted' = {}
    BY <1>3 DEF ShutDownEngine, EngineShutdown, pathVars
  <2>2. PathTypeOK'
    BY <2>1 DEF PInv, PathTypeOK, EngineTypeOK
  <2>3. \A r \in Requests : Local(r)'
    BY <2>1, OthersKeep DEF PInv, Same
  <2>4. Load' = Load
    BY <2>1 DEF Load, Generating, Asleep
  <2> QED BY <2>1, <2>2, <2>3, <2>4 DEF PInv
<1> QED BY <1>1, <1>2, <1>3 DEF PathNext

LEMMA InvariantHolds == PathSpec => []PInv
BY InitEstablishes, StepKeeps, PTL DEF PathSpec

-----------------------------------------------------------------------------
(* Theorems *)

\* Every variable of the request path and of the engine keeps its type.  In
\* particular no client is sent more tokens than max_tokens allows, and the
\* engine's _active never goes below zero.
THEOREM PathTyped == PathSpec => []PathTypeOK
<1>1. PInv => PathTypeOK
  BY DEF PInv
<1> QED BY <1>1, InvariantHolds, PTL

\* The engine's load is exact, and bounded by the slots admission control has
\* handed out, for any number of requests and whatever ends them.
THEOREM LoadIsLeased == PathSpec => []EngineLoadHeldByLeases
<1>1. ASSUME PInv PROVE EngineLoadHeldByLeases
  <2>1. active = Cardinality({r \in Requests : Generating(r)})
    BY <1>1 DEF PInv, Load
  <2>2. ASSUME NEW r \in Requests, Generating(r) PROVE lease[r] = "held"
    <3>1. Local(r) /\ lease[r] \in {"none", "held", "released"}
      BY <1>1 DEF PInv, PathTypeOK
    <3>2. gen[r] \notin {"none", "ended"}
      BY <2>2 DEF Generating, Asleep
    <3> QED BY <3>1, <3>2 DEF Local
  <2> QED BY <2>1, <2>2 DEF EngineLoadHeldByLeases
<1> QED BY <1>1, InvariantHolds, PTL

\* Slot and account go together, once, on every way out of a body; the only
\* other way a slot comes back is that of a response that could not be built.
THEOREM EveryEndAccounted == PathSpec => []AccountedOnce
<1>1. PInv => AccountedOnce
  BY DEF PInv, Local, AccountedOnce
<1> QED BY <1>1, InvariantHolds, PTL

\* However keep-alives, slow clients and disconnects interleave, generation
\* stays within one token of delivery, and a stream that ends by itself has
\* delivered all of it.
THEOREM DeliveryKeepsUp == PathSpec => []BackpressureAndDelivery
<1>1. ASSUME PInv, NEW r \in Requests
      PROVE  /\ conn[r] # "none" => delivered[r] \in {emitted[r], emitted[r] - 1}
             /\ result[r] \in {"length", "stop", "abort"} /\ frames[r] # "delta"
                  => delivered[r] = emitted[r]
  <2>1. Local(r) /\ emitted[r] \in Nat /\ delivered[r] \in Nat
    BY <1>1, MaxTokensAssumption DEF PInv, PathTypeOK, EngineTypeOK
  <2>2. /\ frames[r] \in {"none", "collecting", "unstarted", "running",
                         "delta", "final", "done", "error", "closed"}
        /\ conn[r] \in {"none", "header", "raising", "waiting", "sending", "dropped", "over"}
        /\ lease[r] \in {"none", "held", "released"}
    BY <1>1 DEF PInv, PathTypeOK
  <2> QED BY <2>1, <2>2 DEF Local
<1>2. PInv => BackpressureAndDelivery
  BY <1>1 DEF BackpressureAndDelivery
<1> QED BY <1>2, InvariantHolds, PTL

-----------------------------------------------------------------------------
(* Whose abort() a generation sees *)

\* The generation of r does not look at _aborted any more.
PastAborts(r) == frames[r] \in {"final", "done", "error", "closed"}

Namesake(r) ==
    \E q \in Requests \ {r} : idOf[q] = idOf[r] /\ result[q] \in GaveUp

\* An id is in _aborted for the requests that have left it there.
AbortsExplained ==
    \A r \in Requests :
       /\ idOf[r] \in aborted => PastAborts(r) \/ Namesake(r)
       /\ result[r] = "abort" => Namesake(r)
       /\ result[r] \in GaveUp => PastAborts(r)

\* What a step of request p does with _aborted and with its own outcome.
AbortStep(p) ==
    /\ aborted' \subseteq aborted \union {idOf[p]}
    /\ idOf[p] \in aborted' \ aborted => result'[p] \in GaveUp /\ PastAborts(p)'
    /\ result[p] \in GaveUp => result'[p] \in GaveUp
    /\ result'[p] \in GaveUp => PastAborts(p)'
    /\ PastAborts(p) => PastAborts(p)'
    /\ result'[p] = "abort" =>
         result[p] = "abort" \/ (idOf[p] \in aborted /\ ~PastAborts(p))
    /\ idOf' = idOf
    /\ \A q \in Requests \ {p} : result'[q] = result[q] /\ frames'[q] = frames[q]

LEMMA AbortStepExplained ==
    ASSUME AbortsExplained, NEW p \in Requests, AbortStep(p)
    PROVE  AbortsExplained'
<1>0. idOf' = idOf
  BY DEF AbortStep
<1>1. ASSUME NEW r \in Requests, Namesake(r) PROVE Namesake(r)'
  BY <1>1 DEF Namesake, AbortStep
<1>2. ASSUME NEW r \in Requests, idOf'[r] \in aborted' PROVE (PastAborts(r) \/ Namesake(r))'
  <2>1. CASE idOf[r] \in aborted
    <3>1. PastAborts(r) => PastAborts(r)'
      BY DEF AbortStep, PastAborts
    <3> QED BY <3>1, <2>1, <1>1 DEF AbortsExplained
  <2>2. CASE idOf[r] \notin aborted
    <3>1. idOf[r] = idOf[p] /\ result'[p] \in GaveUp /\ PastAborts(p)'
      BY <1>0, <1>2, <2>2 DEF AbortStep
    <3> QED BY <3>1, <1>0 DEF Namesake
  <2> QED BY <2>1, <2>2
<1>3. ASSUME NEW r \in Requests, result'[r] = "abort" PROVE Namesake(r)'
  <2>1. result[r] = "abort" \/ (idOf[r] \in aborted /\ ~PastAborts(r))
    BY <1>3 DEF AbortStep
  <2> QED BY <2>1, <1>1 DEF AbortsExplained
<1>4. ASSUME NEW r \in Requests, result'[r] \in GaveUp PROVE PastAborts(r)'
  BY <1>4 DEF AbortStep, AbortsExplained, PastAborts
<1> QED BY <1>2, <1>3, <1>4 DEF AbortsExplained

LEMMA BlockingAbortStep ==
    ASSUME PInv, AbortsExplained, NEW p \in Requests, BlockingStep(p)
    PROVE  AbortStep(p)
<1>0. result[p] \in GaveUp => PastAborts(p)
  BY DEF AbortsExplained
<1> USE <1>0 DEF PInv, PathTypeOK, EngineTypeOK, AbortStep, PastAborts, GaveUp
<1>1. CASE StartBlocking(p)
  BY <1>1 DEF Local, StartBlocking, Admitted, Start, Goes, At
<1>2. CASE CollectToken(p)
  BY <1>2 DEF CollectToken, pathVars
<1>3. ASSUME NEW n \in {0, 1}, NEW reason \in {"length", "stop", "abort"},
             CollectLast(p, n, reason)
      PROVE  AbortStep(p)
  BY <1>3 DEF CollectLast, Collecting, FinalReasons, SeesAbort, Leave, Finish, At
<1>4. ASSUME NEW why \in {"timeout", "cancelled", "error"}, CollectBreaks(p, why)
      PROVE  AbortStep(p)
  BY <1>4 DEF CollectBreaks, Collecting, CloseThenAbort, Leave, Finish, At
<1> QED BY <1>1, <1>2, <1>3, <1>4 DEF BlockingStep, CollectOn

LEMMA StreamAbortStep ==
    ASSUME PInv, AbortsExplained, NEW p \in Requests, StreamStep(p)
    PROVE  AbortStep(p)
<1>0. result[p] \in GaveUp => PastAborts(p)
  BY DEF AbortsExplained
<1> USE <1>0 DEF PInv, PathTypeOK, EngineTypeOK, AbortStep, PastAborts, GaveUp
<1>1. CASE StartStream(p) \/ HeaderSent(p)
  BY <1>1 DEF Local, Streaming, StartStream, Admitted, HeaderSent, Start, Goes, At,
     NotAccounted, engineVars
<1>2. CASE FrameSent(p)
  BY <1>2 DEF FrameSent, AfterDelta, AfterFinal, AfterLast, Abort, Sleep, Final,
     FinalReasons, SeesAbort, Close, Leave, Finish, At, engineVars
<1>3. CASE EngineWakes(p) \/ EngineRaises(p)
  BY <1>3 DEF EngineWakes, EngineRaises, Text, Final, FinalReasons, SeesAbort,
     CloseThenAbort, Leave, Finish, At
<1>4. CASE Deliver(p) \/ KeepAliveTick(p) \/ CommentSent(p) \/ HangUpSending(p)
  BY <1>4 DEF Deliver, KeepAliveTick, CommentSent, HangUpSending, At, engineVars
<1>5. CASE HangUpBeforeBody(p) \/ DeadlinePasses(p)
  BY <1>5 DEF Local, Streaming, HangUpBeforeBody, DeadlinePasses, At, engineVars
<1>6. CASE HangUpWaiting(p) \/ Finalise(p)
  BY <1>6 DEF HangUpWaiting, Finalise, Unwind, CloseThenAbort, Close, Leave, Finish, At,
     engineVars
<1>7. CASE BuildFails(p) \/ ReleaseUnbuilt(p)
  BY <1>7 DEF Local, BuildFails, ReleaseUnbuilt, Admitted, At, engineVars
<1> QED
  BY <1>1, <1>2, <1>3, <1>4, <1>5, <1>6, <1>7 DEF StreamStep, StreamRuns, ServerReads

LEMMA ExplainedStep ==
    ASSUME PInv, AbortsExplained, [PathNext]_requestVars
    PROVE  AbortsExplained' /\ idOf' = idOf
<1>1. CASE UNCHANGED requestVars
  <2>1. UNCHANGED <<idOf, aborted, frames, result>>
    BY <1>1 DEF requestVars, engineVars, pathVars
  <2> QED BY <2>1 DEF AbortsExplained, PastAborts, Namesake
<1>2. ASSUME NEW p \in Requests, BlockingStep(p) \/ StreamStep(p)
      PROVE  AbortsExplained' /\ idOf' = idOf
  <2>1. AbortStep(p)
    BY <1>2, BlockingAbortStep, StreamAbortStep
  <2> QED BY <2>1, AbortStepExplained DEF AbortStep
<1>3. CASE ShutDownEngine
  <2>1. UNCHANGED <<idOf, frames, result>> /\ aborted' = {}
    BY <1>3 DEF ShutDownEngine, EngineShutdown, pathVars
  <2> QED BY <2>1 DEF AbortsExplained, PastAborts, Namesake
<1> QED BY <1>1, <1>2, <1>3 DEF PathNext

LEMMA ExplainedAlways == PathSpec => [](PInv /\ AbortsExplained)
<1>1. PathInit => PInv /\ AbortsExplained
  BY InitEstablishes DEF PathInit, EngineInit, AbortsExplained, GaveUp
<1>2. PInv /\ AbortsExplained /\ [PathNext]_requestVars => PInv' /\ AbortsExplained'
  BY StepKeeps, ExplainedStep
<1> QED BY <1>1, <1>2, PTL DEF PathSpec

\* Only a namesake's abort() ever cuts a generation short, however many
\* requests share ids.
THEOREM OnlyNamesakesAbort == PathSpec => []CutShortByNamesake
<1>1. AbortsExplained => CutShortByNamesake
  BY DEF AbortsExplained, Namesake, CutShortByNamesake
<1> QED BY <1>1, ExplainedAlways, PTL

OwnIds == \A q, r \in Requests : idOf[q] = idOf[r] => q = r

\* The interface's promise holds as long as no two requests share an id.
THEOREM OwnIdsStayHome == PathSpec /\ OwnIds => []AbortStaysHome
<1>1. OwnIds /\ CutShortByNamesake => AbortStaysHome
  BY DEF OwnIds, CutShortByNamesake, AbortStaysHome
<1>2. OwnIds /\ (PInv /\ AbortsExplained) /\ [PathNext]_requestVars => OwnIds'
  BY ExplainedStep DEF OwnIds
<1> QED BY <1>1, <1>2, ExplainedAlways, OnlyNamesakesAbort, PTL DEF PathSpec

-----------------------------------------------------------------------------
(* Which slots are not given back *)

\* The response is over and its request still holds the slot.
Leaked(r) == conn[r] = "over" /\ lease[r] # "released"

\* The client hung up between the header and the first item.
Bodiless(r) ==
    /\ frames[r] = "unstarted" /\ gen[r] = "none" /\ lease[r] = "held"
    /\ result[r] = "pending" /\ observed[r] = 0

LEMMA LeakedIsBodiless ==
    ASSUME PInv, NEW r \in Requests, Leaked(r)
    PROVE  Bodiless(r)
<1>1. Local(r)
  BY DEF PInv
<1>2. lease[r] = "held"
  BY <1>1 DEF Leaked, PInv, PathTypeOK, Local
<1>3. frames[r] = "unstarted"
  BY <1>1, <1>2 DEF Leaked, PInv, PathTypeOK, Local, Streaming
<1> QED BY <1>1, <1>2, <1>3 DEF Local, Bodiless

\* What the run PathLeak refutes fails in one way only: a response ends
\* without its slot given back only if the client hung up before the
\* body's first item was asked for; nothing was generated for it, and no
\* outcome is ever observed.
THEOREM OnlyBodilessLeak == PathSpec => [](\A r \in Requests : Leaked(r) => Bodiless(r))
<1>1. PInv => \A r \in Requests : Leaked(r) => Bodiless(r)
  BY LeakedIsBodiless
<1> QED BY <1>1, InvariantHolds, PTL

\* No step of a request whose slot has leaked is possible.
LEMMA LeakedIsStuck ==
    ASSUME PInv, NEW r \in Requests, Leaked(r)
    PROVE  ~BlockingStep(r) /\ ~StreamStep(r)
<1>1. conn[r] = "over" /\ lease[r] = "held" /\ frames[r] = "unstarted"
  BY LeakedIsBodiless DEF Leaked, Bodiless
<1>2. ~BlockingStep(r)
  BY <1>1 DEF BlockingStep, StartBlocking, Admitted, CollectOn, CollectToken, CollectLast,
     CollectBreaks, Collecting
<1>3. ~StreamStep(r)
  BY <1>1 DEF StreamStep, StartStream, BuildFails, ReleaseUnbuilt, Admitted, StreamRuns, ServerReads, HeaderSent,
     FrameSent, CommentSent, EngineWakes, Deliver, Finalise, EngineRaises, KeepAliveTick,
     DeadlinePasses, HangUpWaiting, HangUpSending, HangUpBeforeBody
<1> QED BY <1>2, <1>3

\* Nothing of request q is touched, its deadline included.
Untouched(q) == Same(q) /\ late'[q] = late[q]

\* A step of one request touches no other request.
LEMMA OthersUntouched ==
    ASSUME PInv, NEW p \in Requests, BlockingStep(p) \/ StreamStep(p),
           NEW q \in Requests \ {p}
    PROVE  Untouched(q)
<1> USE DEF PInv, PathTypeOK, EngineTypeOK, Untouched, Same, At, Account, ObserveEnd,
       NotAccounted, Admitted, Goes, Finish
<1>1. CASE StartBlocking(p) \/ CollectToken(p)
  BY <1>1 DEF StartBlocking, Start, CollectToken, pathVars
<1>2. ASSUME NEW n \in {0, 1}, NEW reason \in {"length", "stop", "abort"},
             CollectLast(p, n, reason)
      PROVE  Untouched(q)
  BY <1>2 DEF CollectLast, Leave
<1>3. ASSUME NEW why \in {"timeout", "cancelled", "error"}, CollectBreaks(p, why)
      PROVE  Untouched(q)
  BY <1>3 DEF CollectBreaks, CloseThenAbort, Leave
<1>4. CASE FrameSent(p)
  BY <1>4 DEF FrameSent, AfterDelta, AfterFinal, AfterLast, Sleep, Final, Close, Leave,
     engineVars
<1>5. CASE StartStream(p) \/ HeaderSent(p) \/ CommentSent(p)
  BY <1>5 DEF StartStream, HeaderSent, Start, CommentSent, engineVars
<1>10. CASE BuildFails(p) \/ ReleaseUnbuilt(p)
  BY <1>10 DEF BuildFails, ReleaseUnbuilt, engineVars
<1>6. CASE EngineWakes(p) \/ EngineRaises(p)
  BY <1>6 DEF EngineWakes, Text, Final, EngineRaises, CloseThenAbort, Leave
<1>7. CASE Deliver(p) \/ KeepAliveTick(p) \/ HangUpSending(p) \/ HangUpBeforeBody(p)
  BY <1>7 DEF Deliver, KeepAliveTick, HangUpSending, HangUpBeforeBody, engineVars
<1>8. CASE DeadlinePasses(p)
  BY <1>8 DEF DeadlinePasses, engineVars
<1>9. CASE HangUpWaiting(p) \/ Finalise(p)
  BY <1>9 DEF HangUpWaiting, Finalise, Unwind, CloseThenAbort, Close, Leave, engineVars
<1> QED
  BY <1>1, <1>2, <1>3, <1>4, <1>5, <1>6, <1>7, <1>8, <1>9, <1>10
  DEF BlockingStep, CollectOn, StreamStep, StreamRuns, ServerReads

\* A slot that has leaked is never given back, whatever runs afterwards.
THEOREM LeakedForGood ==
    PathSpec => [][\A r \in Requests : Leaked(r) => Leaked(r)']_requestVars
<1>1. ASSUME PInv, PathNext, NEW r \in Requests, Leaked(r) PROVE Leaked(r)'
  <2>1. CASE ShutDownEngine
    BY <1>1, <2>1 DEF ShutDownEngine, pathVars, Leaked
  <2>2. ASSUME NEW p \in Requests, BlockingStep(p) \/ StreamStep(p)
        PROVE  Leaked(r)'
    <3>1. p # r
      BY <1>1, <2>2, LeakedIsStuck
    <3>2. conn'[r] = conn[r] /\ lease'[r] = lease[r]
      BY <1>1, <2>2, <3>1, OthersUntouched DEF Untouched, Same
    <3> QED BY <1>1, <3>2 DEF Leaked
  <2> QED BY <1>1, <2>1, <2>2 DEF PathNext
<1>2. PInv /\ [PathNext]_requestVars =>
         [\A r \in Requests : Leaked(r) => Leaked(r)']_requestVars
  BY <1>1
<1> QED BY <1>2, InvariantHolds, PTL DEF PathSpec

-----------------------------------------------------------------------------
(* No request goes round in circles *)

\* How far generate_stream or generate_blocking still has to go.
FramePlace(r) ==
    IF frames[r] = "none" THEN 2 * MaxTokens + 7
    ELSE IF frames[r] = "unstarted" THEN 2 * MaxTokens + 6
    ELSE IF frames[r] = "delta" THEN 2 * (MaxTokens - emitted[r]) + 6
    ELSE IF frames[r] \in {"running", "collecting"} THEN 2 * (MaxTokens - emitted[r]) + 5
    ELSE IF frames[r] = "final" THEN 4
    ELSE IF frames[r] \in {"done", "error"} THEN 3
    ELSE 0

\* How far with_keepalive and the server still have to go with one item.
SendPlace(r) ==
    IF conn[r] = "none" THEN 7
    ELSE IF conn[r] \in {"header", "raising"} THEN 6
    ELSE IF conn[r] = "dropped" THEN 1
    ELSE IF conn[r] = "over" THEN 0
    ELSE IF pull[r] = "running" THEN 5
    ELSE IF pull[r] = "none" THEN 2
    ELSE IF conn[r] = "sending" THEN 4
    ELSE 3

Rank(r) == 20 * FramePlace(r) + 2 * SendPlace(r) + (IF late[r] THEN 0 ELSE 1)

\* Only a comment goes out, or has gone out, while the pull waits.
Pings(r) ==
    /\ pull[r] = "running" /\ {conn[r], conn'[r]} = {"waiting", "sending"}
    /\ gen'[r] = gen[r] /\ emitted'[r] = emitted[r] /\ frames'[r] = frames[r]
    /\ pull'[r] = pull[r] /\ late'[r] = late[r] /\ lease'[r] = lease[r]
    /\ result'[r] = result[r] /\ observed'[r] = observed[r]
    /\ delivered'[r] = delivered[r]

LEMMA RankIs ==
    ASSUME PInv, NEW r \in Requests
    PROVE  /\ FramePlace(r) \in 0 .. 2 * MaxTokens + 7 /\ SendPlace(r) \in 0 .. 7
           /\ Rank(r) \in Nat /\ Rank(r) <= 40 * MaxTokens + 155
<1>1. MaxTokens \in Nat /\ emitted[r] \in Nat /\ emitted[r] <= MaxTokens
      /\ late[r] \in BOOLEAN
  BY MaxTokensAssumption DEF PInv, PathTypeOK, EngineTypeOK
<1>2. frames[r] = "delta" => emitted[r] >= 1
  BY <1>1 DEF PInv, Local, PathTypeOK
<1>3. FramePlace(r) \in 0 .. 2 * MaxTokens + 7
  BY <1>1, <1>2 DEF FramePlace
<1>4. SendPlace(r) \in 0 .. 7
  BY DEF SendPlace
<1>5. Rank(r) \in Nat /\ Rank(r) <= 40 * MaxTokens + 155
  BY <1>1, <1>3, <1>4 DEF Rank
<1> QED BY <1>3, <1>4, <1>5

\* What makes the rank fall.
LEMMA RankFalls ==
    ASSUME PInv, PInv', NEW r \in Requests,
           \/ FramePlace(r)' < FramePlace(r)
           \/ /\ FramePlace(r)' = FramePlace(r)
              /\ SendPlace(r)' < SendPlace(r)
              /\ late'[r] = late[r]
    PROVE  Rank(r)' < Rank(r)
<1>1. /\ FramePlace(r) \in Int /\ FramePlace(r)' \in Int
      /\ SendPlace(r) \in 0 .. 7 /\ SendPlace(r)' \in 0 .. 7
      /\ late[r] \in BOOLEAN /\ late'[r] \in BOOLEAN
  <2>1. FramePlace(r) \in 0 .. 2 * MaxTokens + 7 /\ SendPlace(r) \in 0 .. 7
    BY RankIs
  <2>2. FramePlace(r)' \in 0 .. 2 * MaxTokens + 7 /\ SendPlace(r)' \in 0 .. 7
    <3>1. MaxTokens \in Nat /\ emitted'[r] \in Nat /\ emitted'[r] <= MaxTokens
      BY MaxTokensAssumption DEF PInv, PathTypeOK, EngineTypeOK
    <3>2. frames'[r] = "delta" => emitted'[r] >= 1
      BY <3>1 DEF PInv, Local, PathTypeOK
    <3> QED BY <3>1, <3>2 DEF FramePlace, SendPlace
  <2>3. late[r] \in BOOLEAN /\ late'[r] \in BOOLEAN
    BY DEF PInv, PathTypeOK
  <2> QED BY <2>1, <2>2, <2>3, MaxTokensAssumption
<1> DEFINE f == FramePlace(r)
           g == FramePlace(r)'
           a == SendPlace(r)
           b == SendPlace(r)'
<1>2. Rank(r) = 20 * f + 2 * a + (IF late[r] THEN 0 ELSE 1)
      /\ Rank(r)' = 20 * g + 2 * b + (IF late'[r] THEN 0 ELSE 1)
  BY DEF Rank
<1> HIDE DEF f, g, a, b
<1> QED BY <1>1, <1>2 DEF f, g, a, b

LEMMA BlockingAdvances ==
    ASSUME PInv, PInv', NEW r \in Requests, BlockingStep(r)
    PROVE  Rank(r)' < Rank(r)
<1>0. MaxTokens \in Nat /\ emitted[r] \in Nat /\ emitted[r] <= MaxTokens
  BY MaxTokensAssumption DEF PInv, PathTypeOK, EngineTypeOK
<1> USE DEF PathTypeOK, EngineTypeOK, FramePlace
<1>1. CASE StartBlocking(r)
  <2>1. frames[r] = "none" /\ frames'[r] = "collecting" /\ emitted'[r] = 0
    BY <1>1 DEF PInv, Local, StartBlocking, Admitted, Start, At
  <2> QED BY <1>0, <2>1, RankFalls
<1>2. CASE CollectToken(r)
  <2>1. frames[r] = "collecting" /\ frames'[r] = "collecting" /\ emitted'[r] = emitted[r] + 1
    BY <1>2 DEF PInv, CollectToken, Collecting, pathVars
  <2>2. emitted[r] + 1 < MaxTokens
    BY <1>2 DEF CollectToken
  <2> QED BY <1>0, <2>1, <2>2, RankFalls
<1>3. ASSUME NEW n \in {0, 1}, NEW reason \in {"length", "stop", "abort"},
             CollectLast(r, n, reason)
      PROVE  Rank(r)' < Rank(r)
  <2>1. frames[r] = "collecting" /\ frames'[r] = "closed"
    BY <1>3 DEF PInv, CollectLast, Collecting, At
  <2> QED BY <1>0, <2>1, RankFalls
<1>4. ASSUME NEW why \in {"timeout", "cancelled", "error"}, CollectBreaks(r, why)
      PROVE  Rank(r)' < Rank(r)
  <2>1. frames[r] = "collecting" /\ frames'[r] = "closed"
    BY <1>4 DEF PInv, CollectBreaks, Collecting, At
  <2> QED BY <1>0, <2>1, RankFalls
<1> QED BY <1>1, <1>2, <1>3, <1>4 DEF BlockingStep, CollectOn

LEMMA FrameSentAdvances ==
    ASSUME PInv, PInv', NEW r \in Requests, FrameSent(r)
    PROVE  Rank(r)' < Rank(r)
<1>0. MaxTokens \in Nat /\ emitted[r] \in Nat /\ emitted[r] <= MaxTokens
  BY MaxTokensAssumption DEF PInv, PathTypeOK, EngineTypeOK
<1>1. CASE AfterDelta(r)
  <2>1. /\ frames[r] = "delta" /\ emitted' = emitted
        /\ frames'[r] \in {"running", "final"}
    BY <1>1 DEF PInv, PathTypeOK, AfterDelta, Sleep, Final, At
  <2> QED BY <1>0, <2>1, RankFalls DEF FramePlace
<1>2. CASE AfterFinal(r)
  <2>1. frames[r] = "final" /\ frames'[r] = "done"
    BY <1>2 DEF PInv, PathTypeOK, AfterFinal, At
  <2> QED BY <2>1, RankFalls DEF FramePlace
<1>3. CASE AfterLast(r)
  <2>1. frames[r] \in {"done", "error"} /\ frames'[r] = "closed"
    BY <1>3 DEF PInv, PathTypeOK, AfterLast, At
  <2> QED BY <2>1, RankFalls DEF FramePlace
<1> QED BY <1>1, <1>2, <1>3 DEF FrameSent

LEMMA EngineAdvances ==
    ASSUME PInv, PInv', NEW r \in Requests,
           StartStream(r) \/ HeaderSent(r) \/ EngineWakes(r) \/ EngineRaises(r)
    PROVE  Rank(r)' < Rank(r)
<1>0. MaxTokens \in Nat /\ emitted[r] \in Nat /\ emitted[r] <= MaxTokens
  BY MaxTokensAssumption DEF PInv, PathTypeOK, EngineTypeOK
<1>1. CASE StartStream(r)
  <2>1. frames[r] = "none" /\ frames'[r] = "unstarted"
    BY <1>1 DEF PInv, PathTypeOK, Local, StartStream, Admitted, At
  <2> QED BY <1>0, <2>1, RankFalls DEF FramePlace
<1>2. CASE HeaderSent(r)
  <2>1. frames[r] = "unstarted" /\ frames'[r] = "running" /\ emitted'[r] = 0
    BY <1>2 DEF PInv, PathTypeOK, Local, Streaming, HeaderSent, Start, At
  <2> QED BY <1>0, <2>1, RankFalls DEF FramePlace
<1>3. CASE EngineWakes(r)
  <2>1. CASE Text(r)
    <3>1. frames[r] = "running" /\ emitted[r] < MaxTokens /\ emitted'[r] = emitted[r] + 1
      BY <1>3, <2>1 DEF PInv, PathTypeOK, EngineTypeOK, Local, EngineWakes, Text
    <3>2. frames'[r] = "delta"
      BY <1>3, <2>1, <3>1 DEF PInv, PathTypeOK, EngineTypeOK, EngineWakes, Final, At
    <3> QED BY <1>0, <3>1, <3>2, RankFalls DEF FramePlace
  <2>2. CASE ~Text(r)
    <3>1. frames[r] = "running" /\ frames'[r] = "final"
      BY <1>3, <2>2 DEF PInv, PathTypeOK, EngineWakes, At
    <3> QED BY <1>0, <3>1, RankFalls DEF FramePlace
  <2> QED BY <2>1, <2>2
<1>4. CASE EngineRaises(r)
  <2>1. frames[r] = "running" /\ frames'[r] = "error"
    BY <1>4 DEF PInv, PathTypeOK, EngineRaises, At
  <2> QED BY <1>0, <2>1, RankFalls DEF FramePlace
<1> QED BY <1>1, <1>2, <1>3, <1>4

LEMMA ConnectionAdvances ==
    ASSUME PInv, PInv', NEW r \in Requests,
           \/ Deliver(r) \/ KeepAliveTick(r) \/ CommentSent(r)
           \/ HangUpSending(r) \/ HangUpBeforeBody(r)
    PROVE  Rank(r)' < Rank(r) \/ Pings(r)
<1>1. /\ frames'[r] = frames[r] /\ emitted'[r] = emitted[r] /\ late'[r] = late[r]
      /\ pull[r] \in {"none", "running", "finished"}
  BY DEF PInv, PathTypeOK, Local, Streaming, Deliver, KeepAliveTick, CommentSent,
     HangUpSending, HangUpBeforeBody, At, engineVars
<1>2. FramePlace(r)' = FramePlace(r)
  BY <1>1 DEF FramePlace
<1>3. ASSUME SendPlace(r)' < SendPlace(r) PROVE Rank(r)' < Rank(r)
  BY <1>1, <1>2, <1>3, RankFalls
<1>4. CASE Deliver(r) \/ HangUpSending(r) \/ HangUpBeforeBody(r)
  <2>1. SendPlace(r)' < SendPlace(r)
    BY <1>1, <1>4 DEF PInv, PathTypeOK, SendPlace, Deliver, HangUpSending,
       HangUpBeforeBody, At
  <2> QED BY <1>3, <2>1
<1>5. CASE CommentSent(r) /\ pull[r] = "finished"
  <2>1. SendPlace(r)' < SendPlace(r)
    BY <1>5 DEF PInv, PathTypeOK, SendPlace, CommentSent, At
  <2> QED BY <1>3, <2>1
<1>6. CASE KeepAliveTick(r) \/ (CommentSent(r) /\ pull[r] = "running")
  BY <1>1, <1>6 DEF PInv, PathTypeOK, Pings, KeepAliveTick, CommentSent, At,
     NotAccounted, engineVars
<1> QED BY <1>1, <1>4, <1>5, <1>6 DEF CommentSent

LEMMA UnbuiltAdvances ==
    ASSUME PInv, PInv', NEW r \in Requests, BuildFails(r) \/ ReleaseUnbuilt(r)
    PROVE  Rank(r)' < Rank(r)
<1>1. /\ frames[r] = "none" /\ frames'[r] = "none" /\ late'[r] = late[r]
      /\ \/ conn[r] = "none" /\ conn'[r] = "raising"
         \/ conn[r] = "raising" /\ conn'[r] = "over"
  BY DEF PInv, PathTypeOK, Local, BuildFails, ReleaseUnbuilt, Admitted, At
<1>2. FramePlace(r)' = FramePlace(r) /\ SendPlace(r)' < SendPlace(r)
  BY <1>1 DEF FramePlace, SendPlace
<1> QED BY <1>1, <1>2, RankFalls

LEMMA UnwindAdvances ==
    ASSUME PInv, PInv', NEW r \in Requests, conn[r] \in {"waiting", "dropped"}, Unwind(r)
    PROVE  Rank(r)' < Rank(r)
<1>0. MaxTokens \in Nat /\ emitted[r] \in Nat /\ emitted[r] <= MaxTokens
  BY MaxTokensAssumption DEF PInv, PathTypeOK, EngineTypeOK
<1>1. frames'[r] = "closed" /\ conn'[r] = "over" /\ late'[r] = late[r]
      /\ frames[r] \in {"running", "delta", "final", "done", "error", "closed"}
  BY DEF PInv, PathTypeOK, Unwind, At
<1>2. CASE frames[r] = "closed"
  <2>1. FramePlace(r)' = FramePlace(r) /\ SendPlace(r)' < SendPlace(r)
    BY <1>1, <1>2 DEF FramePlace, SendPlace
  <2> QED BY <1>1, <2>1, RankFalls
<1>3. CASE frames[r] # "closed"
  <2>1. FramePlace(r)' < FramePlace(r)
    BY <1>0, <1>1, <1>3 DEF FramePlace
  <2> QED BY <2>1, RankFalls
<1> QED BY <1>2, <1>3

LEMMA DeadlineAdvances ==
    ASSUME PInv, NEW r \in Requests, DeadlinePasses(r)
    PROVE  Rank(r)' < Rank(r)
<1>1. FramePlace(r)' = FramePlace(r) /\ SendPlace(r)' = SendPlace(r)
  BY DEF DeadlinePasses, engineVars, FramePlace, SendPlace
<1>2. late[r] = FALSE /\ late'[r] = TRUE
  BY DEF PInv, PathTypeOK, DeadlinePasses
<1>3. FramePlace(r) \in Int /\ SendPlace(r) \in Int
  BY RankIs, MaxTokensAssumption
<1> QED BY <1>1, <1>2, <1>3 DEF Rank

\* A step of a request either brings it closer to its end or is a comment.
LEMMA OwnStepAdvances ==
    ASSUME PInv, PInv', NEW r \in Requests, BlockingStep(r) \/ StreamStep(r)
    PROVE  Rank(r)' < Rank(r) \/ Pings(r)
<1>1. CASE BlockingStep(r)
  BY <1>1, BlockingAdvances
<1>2. CASE FrameSent(r)
  BY <1>2, FrameSentAdvances
<1>3. CASE StartStream(r) \/ HeaderSent(r) \/ EngineWakes(r) \/ EngineRaises(r)
  BY <1>3, EngineAdvances
<1>4. CASE \/ Deliver(r) \/ KeepAliveTick(r) \/ CommentSent(r)
           \/ HangUpSending(r) \/ HangUpBeforeBody(r)
  BY <1>4, ConnectionAdvances
<1>5. CASE HangUpWaiting(r) \/ Finalise(r)
  BY <1>5, UnwindAdvances DEF HangUpWaiting, Finalise
<1>6. CASE DeadlinePasses(r)
  BY <1>6, DeadlineAdvances
<1>7. CASE BuildFails(r) \/ ReleaseUnbuilt(r)
  BY <1>7, UnbuiltAdvances
<1> QED
  BY <1>1, <1>2, <1>3, <1>4, <1>5, <1>6, <1>7 DEF StreamStep, StreamRuns, ServerReads

\* The safety half of StartedStreamsEnd, for any number of requests and tokens:
\* but for keep-alive comments every step a request takes lowers its rank,
\* whatever the client, the deadline, the engine and the other requests do, ...
THEOREM EveryStepAdvances ==
    PathSpec => [][\A r \in Requests : Untouched(r) \/ Pings(r) \/ Rank(r)' < Rank(r)]_requestVars
<1>1. ASSUME PInv, [PathNext]_requestVars, NEW r \in Requests
      PROVE  Untouched(r) \/ Pings(r) \/ Rank(r)' < Rank(r)
  <2>1. PInv'
    BY <1>1, StepKeeps
  <2>2. ASSUME NEW p \in Requests, BlockingStep(p) \/ StreamStep(p)
        PROVE  Untouched(r) \/ Pings(r) \/ Rank(r)' < Rank(r)
    BY <1>1, <2>1, <2>2, OwnStepAdvances, OthersUntouched
  <2>3. CASE ShutDownEngine \/ UNCHANGED requestVars
    BY <2>3 DEF ShutDownEngine, requestVars, engineVars, pathVars, Untouched, Same
  <2> QED BY <1>1, <2>2, <2>3 DEF PathNext
<1>2. PInv /\ [PathNext]_requestVars =>
         [\A r \in Requests : Untouched(r) \/ Pings(r) \/ Rank(r)' < Rank(r)]_requestVars
  BY <1>1
<1> QED BY <1>2, InvariantHolds, PTL DEF PathSpec

\* ... and the rank is a natural number, so that a request takes at most
\* 40 * MaxTokens + 155 such steps.
THEOREM StepsAreBounded ==
    PathSpec => [](\A r \in Requests : Rank(r) \in 0 .. 40 * MaxTokens + 155)
<1>1. PInv => \A r \in Requests : Rank(r) \in 0 .. 40 * MaxTokens + 155
  BY RankIs, MaxTokensAssumption
<1> QED BY <1>1, InvariantHolds, PTL

=============================================================================
