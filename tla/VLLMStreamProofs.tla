-------------------------- MODULE VLLMStreamProofs --------------------------
(***************************************************************************)
(* Proofs about VLLMStream for texts of any length, any backlog and any    *)
(* number of cancellations.                                                *)
(***************************************************************************)
EXTENDS VLLMStream, SequenceTheorems, TLAPS

-----------------------------------------------------------------------------
(* The inductive invariant *)

StreamTypeOK ==
    /\ seq \in {"none", "running", "finished", "aborted", "stopped"}
    /\ text \in Nat /\ outputs \in Seq(Nat)
    /\ handle \in BOOLEAN
    /\ gen \in {"none", "waiting", "yielded", "final", "cancelled", "failed",
                "expired", "closing", "ended"}
    /\ sent \in Nat /\ forwarded \in Nat
    /\ body \in {"none", "running", "collecting", "delta", "final", "error",
                 "timeout", "caught", "aclosing", "handling", "closed"}
    /\ result \in {"pending", "completed", "timeout", "error", "cancelled",
                   "client_disconnect"}
    /\ lease \in {"held", "released"} /\ observed \in Nat
    /\ cancels \in Nat /\ cut \in Nat

\* wait_for has left generate() to itself, or waits for its abort().
Detached == gen \in {"cancelled", "expired"}

\* Before the first run nothing has happened; a chunk in the service's hands
\* leaves generate() at its yield.
Places ==
    /\ body = "none" => seq = "none" /\ result = "pending"
    /\ body \in {"delta", "timeout"} => gen = "yielded"

\* A sequence that runs on has survived every abort() issued so far, so each
\* of them was cut short: the more of the way out is done, the more were.
SurvivedAborts ==
    seq = "running" =>
       /\ handle
       /\ body = "final" => gen = "yielded" /\ cut >= 1
       /\ body = "caught" /\ gen # "yielded" => cut >= 1
       /\ body = "aclosing" => cut >= 1
       /\ body = "error" => cut >= 2
       /\ body = "handling" /\ ~Detached => cut >= 1
       /\ body = "closed" /\ ~Detached => cut >= 2

\* The slot and its account are untouched up to the very end; from then on
\* they go together, or a cancellation came between them.
Accounts ==
    /\ body # "closed" => lease = "held" /\ observed = 0
    /\ body \in {"final", "error", "caught", "aclosing", "handling"} => result # "pending"
    /\ body = "closed" => \/ lease = "released" /\ observed = 1 /\ result # "pending"
                          \/ lease = "released" /\ observed = 0 /\ result = "pending" /\ cancels > 0
                          \/ lease = "held" /\ observed = 0 /\ cancels > 0

\* What the adapter has not read yet are ever longer texts, from the one it
\* has read last to the whole.
Backlog ==
    /\ forwarded = sent /\ sent <= text
    /\ \A i \in DOMAIN outputs : sent <= outputs[i] /\ outputs[i] <= text
    /\ \A i, j \in DOMAIN outputs : i <= j => outputs[i] <= outputs[j]
    /\ text = IF outputs = <<>> THEN sent ELSE outputs[Len(outputs)]
    /\ result = "completed" => outputs = <<>> /\ seq # "running"

SInv == StreamTypeOK /\ Places /\ SurvivedAborts /\ Accounts /\ Backlog

LEMMA InitEstablishes == StreamInit => SInv
<1> SUFFICES ASSUME StreamInit PROVE SInv
  OBVIOUS
<1>1. outputs \in Seq(Nat) /\ Len(outputs) = 0 /\ DOMAIN outputs = {}
  BY DEF StreamInit
<1> QED BY <1>1 DEF StreamInit, SInv, StreamTypeOK, Places, SurvivedAborts, Accounts,
       Backlog, Detached

-----------------------------------------------------------------------------
(* Sequences and backlog *)

\* A new output, no shorter than the ones before.
LEMMA Appending ==
  ASSUME StreamTypeOK, Backlog, NEW n \in Nat, NEW last \in BOOLEAN, Output(n, last)
  PROVE  Backlog' /\ outputs' \in Seq(Nat) /\ text' \in Nat
<1> DEFINE t == text + n
<1>1. /\ outputs \in Seq(Nat) /\ t \in Nat /\ text <= t
      /\ outputs' = Append(outputs, t) /\ text' = t
      /\ UNCHANGED <<sent, forwarded, result>> /\ seq = "running"
  BY DEF StreamTypeOK, Output, adapterVars
<1> HIDE DEF t
<1>2. /\ outputs' \in Seq(Nat) /\ outputs' # <<>>
      /\ Len(outputs') = Len(outputs) + 1
      /\ \A i \in 1 .. Len(outputs) : outputs'[i] = outputs[i]
      /\ outputs'[Len(outputs) + 1] = t
      /\ DOMAIN outputs' = 1 .. Len(outputs) + 1
      /\ DOMAIN outputs = 1 .. Len(outputs)
      /\ Len(outputs) \in Nat
  BY <1>1
<1>3. \A i \in DOMAIN outputs' : i \in DOMAIN outputs \/ i = Len(outputs) + 1
  BY <1>2
<1>4. /\ \A i \in DOMAIN outputs' : sent' <= outputs'[i] /\ outputs'[i] <= text'
      /\ forwarded' = sent' /\ sent' <= text'
  BY <1>1, <1>2, <1>3 DEF Backlog, StreamTypeOK
<1>5. \A i, j \in DOMAIN outputs' : i <= j => outputs'[i] <= outputs'[j]
  BY <1>1, <1>2, <1>3 DEF Backlog, StreamTypeOK
<1>6. text' = IF outputs' = <<>> THEN sent' ELSE outputs'[Len(outputs')]
  BY <1>1, <1>2
<1>7. result' # "completed"
  BY <1>1 DEF Backlog
<1> QED BY <1>1, <1>2, <1>4, <1>5, <1>6, <1>7 DEF Backlog

\* The adapter reads the oldest output: all of it has been forwarded then.
LEMMA Reading ==
  ASSUME StreamTypeOK, Backlog, outputs # <<>>, outputs' = Tail(outputs),
         UNCHANGED <<text, seq, result>>,
         IF Head(outputs) > sent
         THEN Forward(Head(outputs)) ELSE UNCHANGED <<sent, forwarded>>
  PROVE  Backlog' /\ outputs' \in Seq(Nat) /\ sent' \in Nat /\ forwarded' \in Nat
<1>a. outputs \in Seq(Nat) /\ outputs # <<>> /\ outputs' = Tail(outputs)
  BY DEF StreamTypeOK
<1>b. Len(outputs) \in Nat /\ Len(outputs) >= 1
  BY <1>a, EmptySeq
<1>c. /\ Head(outputs) = outputs[1]
      /\ outputs' \in Seq(Nat) /\ Len(outputs') = Len(outputs) - 1
      /\ \A i \in 1 .. Len(outputs') : outputs'[i] = outputs[i + 1]
  BY <1>a, HeadTailProperties
<1>d. DOMAIN outputs' = 1 .. Len(outputs') /\ DOMAIN outputs = 1 .. Len(outputs)
  BY <1>a, <1>c
<1>e. outputs[1] \in Nat
  BY <1>a, <1>b, <1>d, ElementOfSeq
<1>f. outputs' = <<>> <=> Len(outputs) = 1
  <2>1. outputs' = <<>> => Len(outputs') = 0
    BY EmptySeq
  <2>2. outputs' # <<>> => Len(outputs') \in Nat \ {0}
    BY <1>c, EmptySeq
  <2> QED BY <1>b, <1>c, <2>1, <2>2
<1>1. /\ outputs \in Seq(Nat) /\ Len(outputs) \in Nat /\ Len(outputs) >= 1
      /\ outputs' \in Seq(Nat) /\ Len(outputs') = Len(outputs) - 1
      /\ \A i \in 1 .. Len(outputs) - 1 : outputs'[i] = outputs[i + 1]
      /\ DOMAIN outputs' = 1 .. Len(outputs) - 1
      /\ DOMAIN outputs = 1 .. Len(outputs)
      /\ Head(outputs) = outputs[1] /\ outputs[1] \in Nat
      /\ outputs' = <<>> <=> Len(outputs) = 1
  BY <1>a, <1>b, <1>c, <1>d, <1>e, <1>f
<1>2. sent' = outputs[1] /\ forwarded' = sent'
  BY <1>1 DEF StreamTypeOK, Backlog, Forward
<1>3. \A i \in DOMAIN outputs' : /\ i \in Nat /\ i + 1 \in DOMAIN outputs /\ 1 <= i + 1
                                 /\ outputs'[i] = outputs[i + 1]
  BY <1>b, <1>c, <1>d
<1>4. \A i \in DOMAIN outputs' : sent' <= outputs'[i] /\ outputs'[i] <= text'
  BY <1>1, <1>2, <1>3 DEF Backlog
<1>5. \A i, j \in DOMAIN outputs' : i <= j => outputs'[i] <= outputs'[j]
  BY <1>1, <1>3 DEF Backlog
<1>6. text' = IF outputs' = <<>> THEN sent' ELSE outputs'[Len(outputs')]
  BY <1>1, <1>2 DEF Backlog
<1>7. result' # "completed" /\ sent' <= text'
  BY <1>1, <1>2 DEF Backlog
<1> QED BY <1>1, <1>2, <1>4, <1>5, <1>6, <1>7 DEF Backlog

\* Whatever else happens leaves texts and outputs alone.
LEMMA Standing ==
  ASSUME Backlog, UNCHANGED <<text, outputs, sent, forwarded>>,
         seq' = "running" => seq = "running" \/ result' # "completed",
         result' = "completed" => result = "completed" \/ (outputs = <<>> /\ seq' # "running")
  PROVE  Backlog'
BY DEF Backlog

-----------------------------------------------------------------------------
(* Steps *)

LEMMA StepKeeps == SInv /\ [StreamNext]_streamVars => SInv'
<1> SUFFICES ASSUME SInv, [StreamNext]_streamVars PROVE SInv'
  OBVIOUS
<1> USE DEF SInv
<1>1. ASSUME NEW n \in 0 .. 2, NEW last \in BOOLEAN, Output(n, last) PROVE SInv'
  <2>1. Backlog' /\ outputs' \in Seq(Nat) /\ text' \in Nat
    <3>1. n \in Nat
      OBVIOUS
    <3> QED BY <3>1, <1>1, Appending
  <2>2. seq = "running" /\ seq' \in {"running", "finished"}
    BY <1>1 DEF Output
  <2> QED BY <1>1, <2>1, <2>2 DEF Output, StreamTypeOK, Places, SurvivedAborts, Accounts,
         adapterVars, accounts, Detached
<1>2. CASE ShutDown
  <2>1. Backlog'
    BY <1>2, Standing DEF ShutDown, Stopped, adapterVars, Backlog
  <2>2. handle' \in BOOLEAN
    BY <1>2 DEF ShutDown
  <2>3. /\ seq' # "running" /\ (seq = "none" => seq' = "none")
        /\ seq' \in {"none", "running", "finished", "aborted", "stopped"}
        /\ UNCHANGED <<text, outputs, cut, gen, sent, forwarded, body, result,
                       lease, observed, cancels>>
    BY <1>2 DEF ShutDown, Stopped, StreamTypeOK, adapterVars, accounts
  <2> QED BY <2>1, <2>2, <2>3 DEF StreamTypeOK, Places, SurvivedAborts, Accounts
<1>3. CASE UNCHANGED streamVars
  <2>1. Backlog'
    BY <1>3, Standing DEF streamVars, backendVars, adapterVars
  <2> QED BY <1>3, <2>1 DEF streamVars, backendVars, adapterVars, accounts,
         StreamTypeOK, Places, SurvivedAborts, Accounts, Detached
<1>4. CASE Take
  <2>1. outputs # <<>> /\ outputs' = Tail(outputs) /\ UNCHANGED <<text, seq, result>>
    BY <1>4 DEF Take
  <2>2. IF Head(outputs) > sent
        THEN Forward(Head(outputs)) ELSE UNCHANGED <<sent, forwarded>>
    BY <1>4 DEF Take, adapterVars
  <2>3. Backlog' /\ outputs' \in Seq(Nat) /\ sent' \in Nat /\ forwarded' \in Nat
    BY <2>1, <2>2, Reading
  <2> QED BY <1>4, <2>3 DEF Take, At, Unchanged, adapterVars, accounts, Waiting,
         Detached, StreamTypeOK, Places, SurvivedAborts, Accounts
<1>5. CASE Begin
  <2>1. Backlog'
    BY <1>5, Standing DEF Places, Begin, Finally, Catch, Handle, Fails, RaiseInside, At,
       AbortReaches, Account, AbortTakesEffect, AbortCutShort, Stopped,
       Unchanged, backendVars, adapterVars, accounts, Waiting, Aborting,
       Detached
  <2> QED BY <1>5, <2>1 DEF Begin, Finally, Catch, Handle, Fails, RaiseInside,
     At, AbortReaches, Account, AbortTakesEffect, AbortCutShort, Stopped,
     Unchanged, backendVars, adapterVars, accounts, Waiting, Aborting, Detached,
     StreamTypeOK, Places, SurvivedAborts, Accounts
<1>6. CASE Complete
  <2>1. Backlog'
    BY <1>6, Standing DEF Complete, Finally, Catch, Handle, Fails, RaiseInside,
       At, AbortReaches, Account, AbortTakesEffect, AbortCutShort, Stopped,
       Unchanged, backendVars, adapterVars, accounts, Waiting, Aborting,
       Detached
  <2> QED BY <1>6, <2>1 DEF Complete, Finally, Catch, Handle, Fails,
     RaiseInside, At, AbortReaches, Account, AbortTakesEffect, AbortCutShort,
     Stopped, Unchanged, backendVars, adapterVars, accounts, Waiting, Aborting,
     Detached, StreamTypeOK, Places, SurvivedAborts, Accounts
<1>7. CASE BackendRaises
  <2>1. Backlog'
    BY <1>7, Standing DEF BackendRaises, Finally, Catch, Handle, Fails,
       RaiseInside, At, AbortReaches, Account, AbortTakesEffect, AbortCutShort,
       Stopped, Unchanged, backendVars, adapterVars, accounts, Waiting,
       Aborting, Detached
  <2> QED BY <1>7, <2>1 DEF BackendRaises, Finally, Catch, Handle, Fails,
     RaiseInside, At, AbortReaches, Account, AbortTakesEffect, AbortCutShort,
     Stopped, Unchanged, backendVars, adapterVars, accounts, Waiting, Aborting,
     Detached, StreamTypeOK, Places, SurvivedAborts, Accounts
<1>8. CASE Resume
  <2>1. Backlog'
    BY <1>8, Standing DEF Resume, Finally, Catch, Handle, Fails, RaiseInside,
       At, AbortReaches, Account, AbortTakesEffect, AbortCutShort, Stopped,
       Unchanged, backendVars, adapterVars, accounts, Waiting, Aborting,
       Detached
  <2> QED BY <1>8, <2>1 DEF Resume, Finally, Catch, Handle, Fails, RaiseInside,
     At, AbortReaches, Account, AbortTakesEffect, AbortCutShort, Stopped,
     Unchanged, backendVars, adapterVars, accounts, Waiting, Aborting, Detached,
     StreamTypeOK, Places, SurvivedAborts, Accounts
<1>9. CASE AbortReturns
  <2>1. Backlog'
    BY <1>9, Standing DEF AbortReturns, Finally, Catch, Handle, Fails,
       RaiseInside, At, AbortReaches, Account, AbortTakesEffect, AbortCutShort,
       Stopped, Unchanged, backendVars, adapterVars, accounts, Waiting,
       Aborting, Detached
  <2> QED BY <1>9, <2>1 DEF AbortReturns, Finally, Catch, Handle, Fails,
     RaiseInside, At, AbortReaches, Account, AbortTakesEffect, AbortCutShort,
     Stopped, Unchanged, backendVars, adapterVars, accounts, Waiting, Aborting,
     Detached, StreamTypeOK, Places, SurvivedAborts, Accounts
<1>10. CASE Expire
  <2>1. Backlog'
    BY <1>10, Standing DEF Expire, Finally, Catch, Handle, Fails, RaiseInside,
       At, AbortReaches, Account, AbortTakesEffect, AbortCutShort, Stopped,
       Unchanged, backendVars, adapterVars, accounts, Waiting, Aborting,
       Detached
  <2> QED BY <1>10, <2>1 DEF Expire, Finally, Catch, Handle, Fails, RaiseInside,
     At, AbortReaches, Account, AbortTakesEffect, AbortCutShort, Stopped,
     Unchanged, backendVars, adapterVars, accounts, Waiting, Aborting, Detached,
     StreamTypeOK, Places, SurvivedAborts, Accounts
<1>11. CASE LeftAbortReturns
  <2>1. Backlog'
    BY <1>11, Standing DEF LeftAbortReturns, Finally, Catch, Handle, Fails,
       RaiseInside, At, AbortReaches, Account, AbortTakesEffect, AbortCutShort,
       Stopped, Unchanged, backendVars, adapterVars, accounts, Waiting,
       Aborting, Detached
  <2> QED BY <1>11, <2>1 DEF LeftAbortReturns, Finally, Catch, Handle, Fails,
     RaiseInside, At, AbortReaches, Account, AbortTakesEffect, AbortCutShort,
     Stopped, Unchanged, backendVars, adapterVars, accounts, Waiting, Aborting,
     Detached, StreamTypeOK, Places, SurvivedAborts, Accounts
<1>12. CASE HangUp
  <2>1. Backlog'
    BY <1>12, Standing DEF HangUp, Finally, Catch, Handle, Fails, RaiseInside,
       At, AbortReaches, Account, AbortTakesEffect, AbortCutShort, Stopped,
       Unchanged, backendVars, adapterVars, accounts, Waiting, Aborting,
       Detached
  <2> QED BY <1>12, <2>1 DEF HangUp, Finally, Catch, Handle, Fails, RaiseInside,
     At, AbortReaches, Account, AbortTakesEffect, AbortCutShort, Stopped,
     Unchanged, backendVars, adapterVars, accounts, Waiting, Aborting, Detached,
     StreamTypeOK, Places, SurvivedAborts, Accounts
<1>13. CASE Cancel
  <2>1. Backlog'
    BY <1>13, Standing DEF Cancel, Finally, Catch, Handle, Fails, RaiseInside,
       At, AbortReaches, Account, AbortTakesEffect, AbortCutShort, Stopped,
       Unchanged, backendVars, adapterVars, accounts, Waiting, Aborting,
       Detached
  <2> QED BY <1>13, <2>1 DEF Cancel, Finally, Catch, Handle, Fails, RaiseInside,
     At, AbortReaches, Account, AbortTakesEffect, AbortCutShort, Stopped,
     Unchanged, backendVars, adapterVars, accounts, Waiting, Aborting, Detached,
     StreamTypeOK, Places, SurvivedAborts, Accounts
<1> QED BY <1>1, <1>2, <1>3, <1>4, <1>5, <1>6, <1>7, <1>8, <1>9, <1>10, <1>11,
       <1>12, <1>13 DEF StreamNext

-----------------------------------------------------------------------------
(* Theorems *)

LEMMA InvariantHolds == StreamSpec => []SInv
BY InitEstablishes, StepKeeps, PTL DEF StreamSpec

\* However vLLM's outputs and the adapter's reads interleave, the deltas are
\* the text.
THEOREM DeltasAlwaysAddUp == StreamSpec => []DeltasAddUp
<1>1. SInv => DeltasAddUp
  <2> SUFFICES ASSUME SInv PROVE DeltasAddUp
    OBVIOUS
  <2> QED BY DEF SInv, Backlog, DeltasAddUp, StreamTypeOK
<1> QED BY <1>1, InvariantHolds, PTL

\* After any way out, with at most one abort() cut short, vLLM is done.
THEOREM VLLMIsStopped == StreamSpec => []NothingLeftRunning
<1>1. SInv => NothingLeftRunning
  BY DEF SInv, SurvivedAborts, NothingLeftRunning, Detached, StreamTypeOK
<1> QED BY <1>1, InvariantHolds, PTL

\* A request that nobody cancels gives its slot back and is counted.
THEOREM SlotAndAccountTogether == StreamSpec => []UncancelledFreed
<1>1. SInv => UncancelledFreed
  BY DEF SInv, Accounts, UncancelledFreed, StreamTypeOK
<1> QED BY <1>1, InvariantHolds, PTL

-----------------------------------------------------------------------------
(* Which requests keep their slot *)

\* The step of a request that closes it without lease.release().
LosesSlot == body # "closed" /\ body' = "closed" /\ lease' # "released"

\* What the run VLLMStreamLeak finds is the only way: a cancellation that
\* arrives while generate_stream's finally awaits aclose().  No error, no
\* deadline, no hang-up, no other cancellation and no shutdown does it.
THEOREM OnlyCutCloseLeaks ==
    StreamSpec => [][LosesSlot => /\ body = "aclosing"
                                  /\ cancels' = cancels + 1 /\ cut' = cut + 1]_streamVars
<1>1. ASSUME StreamNext, LosesSlot
      PROVE  body = "aclosing" /\ cancels' = cancels + 1 /\ cut' = cut + 1
  <2> USE DEF LosesSlot, At, Account
  <2>1. ~Begin
    BY <1>1 DEF Begin, Catch, Handle, Finally
  <2>2. ~(\E n \in 0 .. 2, last \in BOOLEAN : Output(n, last)) /\ ~ShutDown
    BY <1>1 DEF Output, ShutDown
  <2>3. ~Take /\ ~Complete
    BY <1>1 DEF Take, Complete, Waiting
  <2>4. ~BackendRaises /\ ~Expire
    BY <1>1 DEF BackendRaises, Expire, Waiting, RaiseInside, Fails, Catch, Handle, Finally
  <2>5. ~Resume /\ ~HangUp
    BY <1>1 DEF Resume, HangUp, Catch, Finally
  <2>6. ~AbortReturns /\ ~LeftAbortReturns
    BY <1>1 DEF AbortReturns, LeftAbortReturns, Aborting, Fails, Catch, Handle, Finally
  <2>7. ASSUME Cancel PROVE body = "aclosing" /\ cancels' = cancels + 1 /\ cut' = cut + 1
    BY <1>1, <2>7 DEF Cancel, AbortCutShort, Waiting, Aborting, RaiseInside, Fails, Catch,
       Handle, Finally
  <2> QED BY <1>1, <2>1, <2>2, <2>3, <2>4, <2>5, <2>6, <2>7 DEF StreamNext
<1>2. [StreamNext]_streamVars =>
         [LosesSlot => body = "aclosing" /\ cancels' = cancels + 1 /\ cut' = cut + 1]_streamVars
  BY <1>1
<1> QED BY <1>2, PTL DEF StreamSpec

\* A closed request is over: nothing gives its slot back, counts it or changes
\* its outcome later, not even the abort() that wait_for has left to itself.
THEOREM ClosedForGood ==
    StreamSpec => [][body = "closed" =>
                        body' = "closed" /\ UNCHANGED <<result, accounts, forwarded>>]_streamVars
<1>1. ASSUME SInv, StreamNext, body = "closed"
      PROVE  body' = "closed" /\ UNCHANGED <<result, accounts, forwarded>>
  <2>1. ~Begin /\ ~Take /\ ~Complete /\ ~BackendRaises /\ ~Resume
    BY <1>1 DEF Begin, Take, Complete, BackendRaises, Waiting, Resume
  <2>2. ~AbortReturns /\ ~Expire /\ ~HangUp
    BY <1>1 DEF AbortReturns, Aborting, Expire, HangUp
  <2>3. ~Cancel
    BY <1>1 DEF Cancel, Waiting, Aborting
  <2>4. CASE (\E n \in 0 .. 2, last \in BOOLEAN : Output(n, last)) \/ ShutDown
    BY <1>1, <2>4 DEF Output, ShutDown, adapterVars
  <2>5. CASE LeftAbortReturns
    BY <1>1, <2>5 DEF LeftAbortReturns
  <2> QED BY <1>1, <2>1, <2>2, <2>3, <2>4, <2>5 DEF StreamNext
<1>2. SInv /\ [StreamNext]_streamVars =>
         [body = "closed" =>
             body' = "closed" /\ UNCHANGED <<result, accounts, forwarded>>]_streamVars
  BY <1>1
<1> QED BY <1>2, InvariantHolds, PTL DEF StreamSpec

=============================================================================
