------------------------- MODULE LoadHarnessProofs -------------------------
(***************************************************************************)
(* Proofs about LoadHarness for any number of workers and levels, any      *)
(* budget and any bound, with and without budget, warm-up and open loop.   *)
(***************************************************************************)
EXTENDS LoadHarness, FiniteSetTheorems, TLAPS

-----------------------------------------------------------------------------
(* The inductive invariant *)

Arrivals == 1 .. Bound

HarnessTyped ==
    /\ cfg \in [rps : BOOLEAN, requests : BOOLEAN, warmup : BOOLEAN]
    /\ phase \in {"warmup", "measure", "gather", "reported", "crashed"}
    /\ client \in [Clients -> {"idle", "request", "done", "raised"}]
    /\ remaining \in Nat /\ issued \in Nat
    /\ outcomes \in [Classes -> Nat]
    /\ reports \in Seq([issued : Nat, failed : Nat])

\* Who takes no part: arrivals in a closed loop, workers in an open one, and
\* arrivals whose turn has not come.
Bystanders ==
    /\ ClosedLoop => \A i \in Arrivals : client[i] = "idle"
    /\ ClosedLoop => \A w \in Workers : client[w] # "raised"
    /\ phase = "gather" => cfg.rps
    /\ phase \in {"measure", "gather"} /\ cfg.rps =>
         /\ \A w \in Workers : client[w] = "idle"
         /\ \A i \in Arrivals : i > issued => client[i] = "idle"

\* A worker that has stopped had a reason, and the reason lasts.
Budgets ==
    /\ cfg.requests /\ phase \in {"measure", "gather", "reported"} =>
         IF cfg.rps THEN issued <= Budget ELSE issued + remaining = Budget
    /\ Limited /\ ~cfg.rps /\ (\E w \in Workers : client[w] = "done")
         => expired \/ remaining = 0
    /\ cfg.requests /\ phase \in {"gather", "reported"} /\ ~expired => issued = Budget

LastReport ==
    phase = "reported" =>
       /\ Len(reports) > 0 /\ Last(reports).issued = Total(outcomes)
       /\ Out = {}
       /\ cfg.rps \/ Raised = {}

\* The failures seen so far are in the reports or in the outcomes of the
\* phase that is being measured.
Failures ==
    phase # "crashed" =>
       (hard <=> \/ \E i \in DOMAIN reports : reports[i].failed > 0
                 \/ phase \in {"measure", "gather"} /\ outcomes["failed"] > 0)

HInv ==
    /\ HarnessTyped /\ RequestsAccounted /\ Bystanders
    /\ Budgets /\ LastReport /\ Failures

-----------------------------------------------------------------------------
(* Counting clients *)

LEMMA ClientsFinite == IsFiniteSet(Clients)
<1>1. IsFiniteSet(1 .. Bound)
  BY BudgetAssumption, FS_Interval
<1> QED BY <1>1, WorkersAssumption, FS_Union DEF Clients

States == {"idle", "request", "done", "raised"}

\* The clients that are in state k.
In(f, k) == {j \in Clients : f[j] = k}

\* From f to g client i goes into state x, and no other client moves.
Edit(f, g, i, x) ==
    /\ g \in [Clients -> States] /\ g[i] = x
    /\ \A j \in Clients \ {i} : g[j] = f[j]

Moves(i, x) == Edit(client, client', i, x)

LEMMA EditIsMove ==
  ASSUME HarnessTyped, NEW i \in Clients, NEW x \in States,
         client' = [client EXCEPT ![i] = x]
  PROVE  Moves(i, x)
BY DEF HarnessTyped, Moves, Edit, States

\* One client changes its state.
LEMMA OneMoves ==
  ASSUME NEW f \in [Clients -> States], NEW i \in Clients, NEW x \in States, NEW k,
         NEW g, Edit(f, g, i, x)
  PROVE  /\ Cardinality(In(f, k)) \in Nat /\ Cardinality(In(g, k)) \in Nat
         /\ (x = k <=> f[i] = k) => Cardinality(In(g, k)) = Cardinality(In(f, k))
         /\ x = k /\ f[i] # k => Cardinality(In(g, k)) = Cardinality(In(f, k)) + 1
         /\ x # k /\ f[i] = k => Cardinality(In(g, k)) = Cardinality(In(f, k)) - 1
<1> DEFINE B == In(f, k)
           A == In(g, k)
<1>1. IsFiniteSet(B) /\ IsFiniteSet(A)
  BY ClientsFinite, FS_Subset DEF In
<1>2. Cardinality(B) \in Nat /\ Cardinality(A) \in Nat
  BY <1>1, FS_CardinalityType
<1>3. CASE (x = k) <=> (f[i] = k)
  <2>1. A = B
    BY <1>3 DEF In, Edit
  <2> QED BY <1>2, <1>3, <2>1
<1>4. CASE x = k /\ f[i] # k
  <2>1. A = B \union {i} /\ i \notin B
    BY <1>4 DEF In, Edit
  <2>2. Cardinality(B \union {i}) = Cardinality(B) + 1
    BY <1>1, <2>1, FS_AddElement
  <2>3. Cardinality(A) = Cardinality(B) + 1
    BY <2>1, <2>2
  <2> QED BY <1>2, <1>4, <2>3
<1>5. CASE x # k /\ f[i] = k
  <2>1. A = B \ {i} /\ i \in B
    BY <1>5 DEF In, Edit
  <2>2. Cardinality(B \ {i}) = Cardinality(B) - 1
    BY <1>1, <2>1, FS_RemoveElement
  <2>3. Cardinality(A) = Cardinality(B) - 1
    BY <2>1, <2>2
  <2> QED BY <1>2, <1>5, <2>3
<1> QED BY <1>3, <1>4, <1>5

\* What the step of client i into state x does to the two counts.
LEMMA CountsMove ==
  ASSUME HarnessTyped, NEW i \in Clients, NEW x \in States, Moves(i, x)
  PROVE  /\ Cardinality(Out) \in Nat /\ Cardinality(Out') \in Nat
         /\ Cardinality(Raised) \in Nat /\ Cardinality(Raised') \in Nat
         /\ (x = "request" <=> client[i] = "request") => Cardinality(Out') = Cardinality(Out)
         /\ x = "request" /\ client[i] # "request" => Cardinality(Out') = Cardinality(Out) + 1
         /\ x # "request" /\ client[i] = "request" => Cardinality(Out') = Cardinality(Out) - 1
         /\ (x = "raised" <=> client[i] = "raised")
              => Cardinality(Raised') = Cardinality(Raised)
         /\ x = "raised" /\ client[i] # "raised"
              => Cardinality(Raised') = Cardinality(Raised) + 1
<1>1. client \in [Clients -> States]
  BY DEF HarnessTyped, States
<1>2. Out = In(client, "request") /\ Out' = In(client', "request")
  BY DEF Out, In
<1>3. Raised = In(client, "raised") /\ Raised' = In(client', "raised")
  BY DEF Raised, In
<1>4. Edit(client, client', i, x)
  BY DEF Moves
<1> QED BY <1>1, <1>2, <1>3, <1>4, OneMoves

\* The top of a worker's loop: one more request out for every one issued.
LEMMA TurnCounts ==
  ASSUME HarnessTyped, NEW w \in Workers, NextTurn(w), client[w] \in {"idle", "request"}
  PROVE  /\ Cardinality(Out) \in Nat /\ Cardinality(Out') \in Nat
         /\ Cardinality(Raised') = Cardinality(Raised) /\ Cardinality(Raised) \in Nat
         /\ issued' - Cardinality(Out') = issued - Cardinality(Out)
                                           + (IF client[w] = "request" THEN 1 ELSE 0)
<1>1. w \in Clients /\ issued \in Nat /\ remaining \in Nat
  BY DEF Clients, HarnessTyped
<1>2. "done" \in States /\ "request" \in States
  BY DEF States
<1>3. CASE client' = [client EXCEPT ![w] = "done"] /\ issued' = issued
  <2>1. Moves(w, "done")
    BY <1>1, <1>2, <1>3, EditIsMove
  <2> QED BY <1>1, <1>2, <1>3, <2>1, CountsMove
<1>4. CASE client' = [client EXCEPT ![w] = "request"] /\ issued' = issued + 1
  <2>1. Moves(w, "request")
    BY <1>1, <1>2, <1>4, EditIsMove
  <2> QED BY <1>1, <1>2, <1>4, <2>1, CountsMove
<1> QED BY <1>3, <1>4 DEF NextTurn

\* An outcome is recorded: one more in all, one more failure if it is one.
LEMMA Recorded ==
  ASSUME HarnessTyped, NEW reply \in Replies, ~Raising(reply), Record(reply)
  PROVE  /\ outcomes' \in [Classes -> Nat]
         /\ Total(outcomes') = Total(outcomes) + 1 /\ Total(outcomes) \in Nat
         /\ outcomes["failed"] \in Nat
         /\ outcomes'["failed"] = outcomes["failed"]
                                    + (IF Class(reply) = "failed" THEN 1 ELSE 0)
<1>1. Class(reply) \in Classes
  BY DEF Class, Classes, Replies, Raising
<1>2. outcomes \in [Classes -> Nat] /\ outcomes' = [outcomes EXCEPT ![Class(reply)] = @ + 1]
  BY DEF HarnessTyped, Record
<1> QED BY <1>1, <1>2 DEF Total, Classes

-----------------------------------------------------------------------------
(* A loop that starts over *)

LEMMA StartFresh ==
  ASSUME NEW limit \in Nat, Start(limit)
  PROVE  /\ ~expired' /\ remaining' = limit /\ issued' = 0
         /\ client' \in [Clients -> {"idle", "request", "done", "raised"}]
         /\ \A i \in Clients : client'[i] = "idle"
         /\ outcomes' \in [Classes -> Nat] /\ outcomes'["failed"] = 0
         /\ RequestsAccounted'
<1>1. Out' = {} /\ Raised' = {}
  BY DEF Start, Out, Raised
<1>2. Cardinality(Out') = 0 /\ Cardinality(Raised') = 0
  BY <1>1, FS_EmptySet
<1>3. outcomes' = [c \in Classes |-> 0] /\ Total(outcomes') = 0
  BY DEF Start, Empty, Total, Classes
<1> QED BY <1>2, <1>3 DEF Start, RequestsAccounted, Classes

LEMMA LimitType == Limit \in Nat
BY BudgetAssumption DEF Limit

LEMMA InitEstablishes == HarnessInit => HInv
<1> SUFFICES ASSUME HarnessInit PROVE HInv
  OBVIOUS
<1> USE DEF HarnessInit
<1>1. Out = {} /\ Raised = {}
  BY DEF Out, Raised
<1>2. RequestsAccounted
  BY <1>1, FS_EmptySet DEF RequestsAccounted, Total, Empty, Classes
<1>3. HarnessTyped
  BY LimitType DEF HarnessTyped, FirstPhase, Empty
<1>4. Bystanders
  BY NamesAssumption DEF Bystanders, FirstPhase, Clients, Arrivals
<1>5. Budgets
  BY BudgetAssumption DEF Budgets, Limit, Limited, FirstPhase, Clients
<1>6. LastReport
  BY DEF LastReport, FirstPhase
<1>7. Failures
  BY DEF Failures, Empty, Classes
<1> QED BY <1>2, <1>3, <1>4, <1>5, <1>6, <1>7 DEF HInv

-----------------------------------------------------------------------------
(* Steps *)

LEMMA WorkerStartsKeeps ==
  ASSUME HInv, NEW w \in Workers, WorkerStarts(w)
  PROVE  HInv'
<1> USE DEF HInv
<1>1. HarnessTyped'
  BY DEF HarnessTyped, Clients, WorkerStarts, ClosedLoop, NextTurn, sweepVars
<1>2. RequestsAccounted'
  <2>1. Total(outcomes) \in Nat /\ UNCHANGED outcomes /\ issued \in Nat /\ issued' \in Nat
    BY <1>1 DEF HarnessTyped, Total, Classes, WorkerStarts
  <2> QED BY <2>1, TurnCounts DEF RequestsAccounted, WorkerStarts
<1>3. Bystanders'
  BY NamesAssumption DEF HarnessTyped, Bystanders, ClosedLoop, Clients,
     Arrivals, WorkerStarts, ClosedLoop, NextTurn, sweepVars
<1>4. Budgets'
  BY DEF HarnessTyped, Bystanders, Budgets, Limited, Clients, WorkerStarts,
     ClosedLoop, NextTurn, sweepVars
<1>5. LastReport'
  BY DEF LastReport, Total, Out, Raised, WorkerStarts, ClosedLoop, NextTurn,
     sweepVars
<1>6. Failures'
  BY DEF HarnessTyped, Failures, Classes, WorkerStarts, ClosedLoop, NextTurn,
     sweepVars
<1> QED BY <1>1, <1>2, <1>3, <1>4, <1>5, <1>6

LEMMA WorkerReplyKeeps ==
  ASSUME HInv, NEW w \in Workers, NEW reply \in Replies, WorkerReply(w, reply)
  PROVE  HInv'
<1> USE DEF HInv
<1>0. /\ outcomes' \in [Classes -> Nat]
      /\ Total(outcomes') = Total(outcomes) + 1 /\ Total(outcomes) \in Nat
      /\ outcomes["failed"] \in Nat
      /\ outcomes'["failed"] = outcomes["failed"]
                                 + (IF Class(reply) = "failed" THEN 1 ELSE 0)
  BY Recorded DEF WorkerReply
<1>1. HarnessTyped'
  <2>1. UNCHANGED <<phase, cfg, reports>> /\ w \in Clients
    BY DEF WorkerReply, Record, Clients
  <2>2. /\ client' \in [Clients -> {"idle", "request", "done", "raised"}]
        /\ remaining' \in Nat /\ issued' \in Nat
    <3>1. CASE client' = [client EXCEPT ![w] = "done"] /\ UNCHANGED <<remaining, issued>>
      BY <2>1, <3>1 DEF HarnessTyped
    <3>2. CASE /\ client' = [client EXCEPT ![w] = "request"] /\ issued' = issued + 1
               /\ remaining' = (IF Limited THEN remaining - 1 ELSE remaining)
               /\ ~(Limited /\ remaining = 0)
      BY <2>1, <3>2 DEF HarnessTyped
    <3> QED BY <3>1, <3>2 DEF WorkerReply, NextTurn
  <2> QED BY <1>0, <2>1, <2>2 DEF HarnessTyped
<1>2. RequestsAccounted'
  <2>1. issued \in Nat /\ issued' \in Nat
    BY <1>1 DEF HarnessTyped
  <2> QED BY <1>0, <2>1, TurnCounts DEF RequestsAccounted, WorkerReply
<1>3. Bystanders'
  BY NamesAssumption DEF HarnessTyped, Bystanders, ClosedLoop, Clients,
     Arrivals, WorkerReply, ClosedLoop, NextTurn, Record, sweepVars
<1>4. Budgets'
  BY DEF HarnessTyped, Bystanders, Budgets, Limited, Clients, WorkerReply,
     ClosedLoop, NextTurn, Record, sweepVars
<1>5. LastReport'
  BY DEF LastReport, Total, Out, Raised, WorkerReply, ClosedLoop, NextTurn,
     Record, sweepVars
<1>6. Failures'
  <2>1. UNCHANGED <<phase, reports>> /\ (hard' <=> hard \/ (phase # "warmup" /\ Class(reply) = "failed"))
    BY DEF WorkerReply, Record
  <2>2. phase \in {"warmup", "measure"}
    BY DEF WorkerReply, ClosedLoop
  <2>3. CASE Class(reply) = "failed"
    BY <1>0, <2>1, <2>2, <2>3 DEF Failures
  <2>4. CASE Class(reply) # "failed"
    BY <1>0, <2>1, <2>2, <2>4 DEF Failures
  <2> QED BY <2>3, <2>4
<1> QED BY <1>1, <1>2, <1>3, <1>4, <1>5, <1>6

LEMMA WorkerRaisesKeeps ==
  ASSUME HInv, NEW w \in Workers, NEW reply \in Replies, WorkerRaises(w, reply)
  PROVE  HInv'
<1> USE DEF HInv
<1>1. HarnessTyped'
  BY DEF HarnessTyped, Clients, WorkerRaises, ClosedLoop, sweepVars
<1>2. RequestsAccounted'
  <2>1. w \in Clients /\ Moves(w, "raised") /\ client[w] = "request"
    BY DEF WorkerRaises, Clients, HarnessTyped, Moves, Edit, States
  <2>2. UNCHANGED <<issued, outcomes>> /\ issued \in Nat /\ Total(outcomes) \in Nat
    BY DEF WorkerRaises, HarnessTyped, Total, Classes
  <2> QED BY <2>1, <2>2, CountsMove DEF RequestsAccounted, States
<1>3. Bystanders'
  BY NamesAssumption DEF HarnessTyped, Bystanders, ClosedLoop, Clients,
     Arrivals, WorkerRaises, ClosedLoop, sweepVars
<1>4. Budgets'
  BY DEF HarnessTyped, Bystanders, Budgets, Limited, Clients, WorkerRaises,
     ClosedLoop, sweepVars
<1>5. LastReport'
  BY DEF LastReport, Total, Out, Raised, WorkerRaises, ClosedLoop, sweepVars
<1>6. Failures'
  BY DEF HarnessTyped, Failures, Classes, WorkerRaises, ClosedLoop, sweepVars
<1> QED BY <1>1, <1>2, <1>3, <1>4, <1>5, <1>6

LEMMA WarmedUpKeeps ==
  ASSUME HInv, WarmedUp
  PROVE  HInv'
<1> USE DEF HInv
<1>0. /\ ~expired' /\ remaining' = Limit /\ issued' = 0
      /\ client' \in [Clients -> {"idle", "request", "done", "raised"}]
      /\ \A i \in Clients : client'[i] = "idle"
      /\ outcomes' \in [Classes -> Nat] /\ outcomes'["failed"] = 0
      /\ RequestsAccounted'
  BY LimitType, StartFresh DEF WarmedUp
<1>1. HarnessTyped'
  BY <1>0, LimitType DEF HarnessTyped, WarmedUp, sweepVars
<1>2. RequestsAccounted'
  BY <1>0
<1>3. Bystanders'
  BY <1>0 DEF Bystanders, Arrivals, Clients, WarmedUp
<1>4. Budgets'
  BY <1>0, BudgetAssumption DEF Budgets, Limit, Limited, Clients, WarmedUp, sweepVars
<1>5. LastReport'
  BY DEF LastReport, Total, Out, Raised, WarmedUp, sweepVars
<1>6. Failures'
  <2>1. /\ phase = "warmup" /\ phase' = "measure" /\ UNCHANGED <<hard, reports>>
        /\ ~(outcomes'["failed"] > 0)
    BY <1>0 DEF WarmedUp, sweepVars
  <2> QED BY <2>1 DEF Failures
<1> QED BY <1>1, <1>2, <1>3, <1>4, <1>5, <1>6

LEMMA FireKeeps ==
  ASSUME HInv, Fire
  PROVE  HInv'
<1> USE DEF HInv
<1>0. /\ issued + 1 \in Arrivals /\ issued + 1 \in Clients /\ issued + 1 \notin Workers
      /\ client[issued + 1] = "idle" /\ issued \in Nat
  <2>1. issued \in Nat /\ Bound \in Nat /\ issued < Bound
    BY BudgetAssumption DEF HarnessTyped, Fire
  <2>2. issued + 1 \in 1 .. Bound /\ issued + 1 > issued
    BY <2>1
  <2>3. client[issued + 1] = "idle"
    BY <2>2 DEF Bystanders, Arrivals, Fire, MayFire
  <2> QED BY <2>1, <2>2, <2>3, NamesAssumption DEF Arrivals, Clients
<1>1. HarnessTyped'
  BY <1>0 DEF HarnessTyped, Clients, Fire, MayFire, sweepVars
<1>2. RequestsAccounted'
  <2>1. Moves(issued + 1, "request") /\ issued' = issued + 1
    BY <1>0 DEF Fire, HarnessTyped, Moves, Edit, States
  <2>2. UNCHANGED outcomes /\ Total(outcomes) \in Nat
    BY DEF Fire, HarnessTyped, Total, Classes
  <2> QED BY <1>0, <2>1, <2>2, CountsMove DEF RequestsAccounted, States
<1>3. Bystanders'
  <2>1. /\ UNCHANGED <<phase, cfg>> /\ phase = "measure" /\ cfg.rps
        /\ client' = [client EXCEPT ![issued + 1] = "request"] /\ issued' = issued + 1
    BY DEF Fire, MayFire, sweepVars
  <2>2. \A w \in Workers : client'[w] = "idle"
    BY <1>0, <2>1 DEF Bystanders, HarnessTyped, Clients
  <2>3. ASSUME NEW i \in Arrivals, i > issued' PROVE client'[i] = "idle"
    <3>1. i > issued /\ i # issued + 1 /\ i \in Clients
      BY <1>0, <2>1, <2>3, BudgetAssumption DEF Arrivals, Clients
    <3> QED BY <2>1, <3>1 DEF Bystanders, HarnessTyped
  <2> QED BY <2>1, <2>2, <2>3 DEF Bystanders, ClosedLoop
<1>4. Budgets'
  <2>1. /\ UNCHANGED <<phase, cfg, expired>> /\ phase = "measure" /\ cfg.rps
        /\ cfg.requests => issued < Budget
        /\ issued' = issued + 1
    BY DEF Fire, MayFire, sweepVars
  <2> QED BY <1>0, <2>1, BudgetAssumption DEF Budgets, Limited
<1>5. LastReport'
  BY DEF LastReport, Total, Out, Raised, Fire, MayFire, sweepVars
<1>6. Failures'
  BY DEF HarnessTyped, Failures, Classes, Fire, MayFire, sweepVars
<1> QED BY <1>1, <1>2, <1>3, <1>4, <1>5, <1>6

LEMMA StopFiringKeeps ==
  ASSUME HInv, StopFiring
  PROVE  HInv'
<1> USE DEF HInv
<1>1. HarnessTyped'
  BY DEF HarnessTyped, Clients, StopFiring, sweepVars
<1>2. RequestsAccounted'
  BY DEF HarnessTyped, RequestsAccounted, Total, Classes, Out, Raised,
     StopFiring, sweepVars
<1>3. Bystanders'
  BY NamesAssumption DEF HarnessTyped, Bystanders, ClosedLoop, Clients,
     Arrivals, StopFiring, sweepVars
<1>4. Budgets'
  BY BudgetAssumption DEF HarnessTyped, Budgets, Limited, StopFiring, sweepVars
<1>5. LastReport'
  BY DEF LastReport, Total, Out, Raised, StopFiring, sweepVars
<1>6. Failures'
  BY DEF HarnessTyped, Failures, Classes, StopFiring, sweepVars
<1> QED BY <1>1, <1>2, <1>3, <1>4, <1>5, <1>6

LEMMA ArrivalReplyKeeps ==
  ASSUME HInv, NEW i \in Arrivals, NEW reply \in Replies, ArrivalReply(i, reply)
  PROVE  HInv'
<1> USE DEF HInv
<1>0. i \in Clients /\ i \notin Workers
  BY NamesAssumption DEF Arrivals, Clients
<1>a. ~Raising(reply) =>
         /\ outcomes' \in [Classes -> Nat]
         /\ Total(outcomes') = Total(outcomes) + 1 /\ Total(outcomes) \in Nat
         /\ outcomes["failed"] \in Nat
         /\ outcomes'["failed"] = outcomes["failed"]
                                    + (IF Class(reply) = "failed" THEN 1 ELSE 0)
  BY Recorded DEF ArrivalReply
<1>1. HarnessTyped'
  BY <1>0, <1>a DEF HarnessTyped, Clients, ArrivalReply, Record, sweepVars
<1>2. RequestsAccounted'
  <2>1. /\ UNCHANGED issued /\ issued \in Nat /\ Total(outcomes) \in Nat
        /\ client[i] = "request"
    BY DEF ArrivalReply, HarnessTyped, Total, Classes
  <2>2. CASE Raising(reply)
    <3>1. Moves(i, "raised") /\ UNCHANGED outcomes
      BY <1>0, <2>2 DEF ArrivalReply, HarnessTyped, Moves, Edit, States
    <3> QED BY <1>0, <2>1, <3>1, CountsMove DEF RequestsAccounted, States
  <2>3. CASE ~Raising(reply)
    <3>1. Moves(i, "done")
      BY <1>0, <2>3 DEF ArrivalReply, HarnessTyped, Moves, Edit, States
    <3> QED BY <1>0, <1>a, <2>1, <2>3, <3>1, CountsMove DEF RequestsAccounted, States
  <2> QED BY <2>2, <2>3
<1>3. Bystanders'
  BY NamesAssumption DEF HarnessTyped, Bystanders, ClosedLoop, Clients,
     Arrivals, ArrivalReply, Record, sweepVars
<1>4. Budgets'
  BY DEF HarnessTyped, Bystanders, Budgets, Limited, Clients, ArrivalReply,
     Record, sweepVars
<1>5. LastReport'
  BY DEF LastReport, Total, Out, Raised, ArrivalReply, Record, sweepVars
<1>6. Failures'
  <2>1. UNCHANGED <<phase, reports>> /\ phase \in {"measure", "gather"}
    BY DEF ArrivalReply, Record, sweepVars
  <2>2. CASE Raising(reply)
    BY <2>1, <2>2 DEF Failures, ArrivalReply, sweepVars
  <2>3. CASE ~Raising(reply) /\ Class(reply) = "failed"
    <3>1. hard'
      BY <2>1, <2>3 DEF ArrivalReply, Record
    <3> QED BY <1>a, <2>1, <2>3, <3>1 DEF Failures
  <2>4. CASE ~Raising(reply) /\ Class(reply) # "failed"
    <3>1. hard' <=> hard
      BY <2>1, <2>4 DEF ArrivalReply, Record
    <3> QED BY <1>a, <2>1, <2>4, <3>1 DEF Failures
  <2> QED BY <2>2, <2>3, <2>4
<1> QED BY <1>1, <1>2, <1>3, <1>4, <1>5, <1>6

LEMMA DeadlineKeeps ==
  ASSUME HInv, Deadline
  PROVE  HInv'
<1> USE DEF HInv
<1>1. HarnessTyped'
  BY DEF HarnessTyped, Clients, Deadline, sweepVars
<1>2. RequestsAccounted'
  BY DEF HarnessTyped, RequestsAccounted, Total, Classes, Out, Raised,
     Deadline, sweepVars
<1>3. Bystanders'
  BY NamesAssumption DEF HarnessTyped, Bystanders, ClosedLoop, Clients,
     Arrivals, Deadline, sweepVars
<1>4. Budgets'
  BY DEF HarnessTyped, Bystanders, Budgets, Limited, Clients, Deadline,
     sweepVars
<1>5. LastReport'
  BY DEF LastReport, Total, Out, Raised, Deadline, sweepVars
<1>6. Failures'
  BY DEF HarnessTyped, Failures, Classes, Deadline, sweepVars
<1> QED BY <1>1, <1>2, <1>3, <1>4, <1>5, <1>6

LEMMA BuildReportKeeps ==
  ASSUME HInv, BuildReport
  PROVE  HInv'
<1> DEFINE report == [issued |-> Total(outcomes), failed |-> outcomes["failed"]]
<1> USE DEF HInv
<1>1. /\ report \in [issued : Nat, failed : Nat] /\ outcomes["failed"] \in Nat
      /\ reports' = Append(reports, report) /\ UNCHANGED <<cfg, hard>>
      /\ phase \in {"measure", "gather"}
  BY DEF HarnessTyped, Total, Classes, BuildReport, Gathered
<1>2. reports \in Seq([issued : Nat, failed : Nat])
  BY DEF HarnessTyped
<1>3. /\ reports' \in Seq([issued : Nat, failed : Nat])
      /\ Len(reports') = Len(reports) + 1 /\ Len(reports) \in Nat
      /\ reports'[Len(reports) + 1] = report
      /\ \A i \in 1 .. Len(reports) : reports'[i] = reports[i]
      /\ DOMAIN reports = 1 .. Len(reports) /\ DOMAIN reports' = 1 .. (Len(reports) + 1)
  <2> HIDE DEF report
  <2> QED BY <1>1, <1>2
<1>4. hard' <=> \E i \in DOMAIN reports' : reports'[i].failed > 0
  <2>1. hard <=> (\E i \in 1 .. Len(reports) : reports[i].failed > 0) \/ report.failed > 0
    BY <1>1, <1>3 DEF Failures
  <2> HIDE DEF report
  <2>2. ASSUME hard' PROVE \E i \in DOMAIN reports' : reports'[i].failed > 0
    <3>1. CASE report.failed > 0
      BY <1>3, <3>1
    <3>2. CASE \E i \in 1 .. Len(reports) : reports[i].failed > 0
      <4>1. PICK i \in 1 .. Len(reports) : reports[i].failed > 0
        BY <3>2
      <4>2. i \in DOMAIN reports' /\ reports'[i].failed > 0
        BY <1>3, <4>1
      <4> QED BY <4>2
    <3> QED BY <1>1, <2>1, <2>2, <3>1, <3>2
  <2>3. ASSUME NEW i \in DOMAIN reports', reports'[i].failed > 0 PROVE hard'
    <3>1. CASE i = Len(reports) + 1
      BY <1>1, <1>3, <2>1, <2>3, <3>1
    <3>2. CASE i \in 1 .. Len(reports)
      BY <1>1, <1>3, <2>1, <2>3, <3>2
    <3> QED BY <1>3, <3>1, <3>2
  <2> QED BY <1>1, <2>2, <2>3 DEF HarnessTyped
<1>5. CASE phase' = FirstPhase /\ Start(IF phase' = "measure" THEN Limit ELSE 0)
  <2> DEFINE limit == IF phase' = "measure" THEN Limit ELSE 0
  <2>1. limit \in Nat
    BY LimitType
  <2>2. /\ ~expired' /\ remaining' = limit /\ issued' = 0
        /\ client' \in [Clients -> {"idle", "request", "done", "raised"}]
        /\ \A i \in Clients : client'[i] = "idle"
        /\ outcomes' \in [Classes -> Nat] /\ outcomes'["failed"] = 0
        /\ RequestsAccounted'
    <3>1. Start(limit)
      BY <1>5
    <3> HIDE DEF limit
    <3> QED BY <2>1, <3>1, StartFresh
  <2>3. phase' \in {"warmup", "measure"}
    BY <1>5 DEF FirstPhase
  <2>4. HarnessTyped'
    BY <1>1, <1>3, <2>1, <2>2, <2>3 DEF HarnessTyped
  <2>5. Bystanders'
    BY <2>2, <2>3 DEF Bystanders, Clients, Arrivals
  <2>6. Budgets'
    BY <1>1, <2>2, <2>3, BudgetAssumption DEF Budgets, Limit, Limited, Clients
  <2>7. LastReport'
    BY <2>3 DEF LastReport
  <2>8. Failures'
    BY <1>4, <2>2 DEF Failures
  <2> QED BY <2>2, <2>4, <2>5, <2>6, <2>7, <2>8
<1>6. CASE phase' = "reported" /\ UNCHANGED <<expired, client, remaining, issued, outcomes>>
  <2>1. HarnessTyped' /\ RequestsAccounted'
    BY <1>1, <1>3, <1>6 DEF HarnessTyped, RequestsAccounted, Total, Out, Raised
  <2>2. Bystanders'
    BY <1>6 DEF Bystanders, ClosedLoop
  <2>3. phase = "measure" /\ ~cfg.rps => AllDone
    BY DEF BuildReport, Gathered
  <2>4. PICK w \in Workers : TRUE
    BY WorkersAssumption
  <2>5. Budgets'
    <3>1. CASE phase = "gather"
      BY <1>1, <1>6, <3>1 DEF Budgets, Limited
    <3>2. CASE phase = "measure" /\ ~cfg.rps
      BY <1>1, <1>6, <2>3, <2>4, <3>2, BudgetAssumption
         DEF Budgets, Limited, AllDone, HarnessTyped
    <3> QED BY <3>1, <3>2 DEF BuildReport, Gathered
  <2>6. \A i \in Clients : client[i] # "request" /\ (cfg.rps \/ client[i] # "raised")
    <3>1. CASE phase = "gather"
      BY <3>1 DEF Bystanders, BuildReport, Gathered, Clients
    <3>2. CASE phase = "measure" /\ ~cfg.rps
      BY <2>3, <3>2 DEF Bystanders, ClosedLoop, AllDone, Clients, Arrivals
    <3> QED BY <3>1, <3>2 DEF BuildReport, Gathered
  <2>7. LastReport'
    BY <1>1, <1>3, <1>6, <2>6 DEF LastReport, Last, Out, Raised, Total
  <2>8. Failures'
    BY <1>4, <1>6 DEF Failures
  <2> QED BY <2>1, <2>2, <2>5, <2>7, <2>8
<1> QED BY <1>5, <1>6 DEF BuildReport

LEMMA StatsRaiseKeeps ==
  ASSUME HInv, StatsRaise
  PROVE  HInv'
<1> USE DEF HInv
<1>1. HarnessTyped'
  BY DEF HarnessTyped, Clients, StatsRaise, sweepVars
<1>2. RequestsAccounted'
  BY DEF HarnessTyped, RequestsAccounted, Total, Classes, Out, Raised,
     StatsRaise, sweepVars
<1>3. Bystanders'
  BY NamesAssumption DEF HarnessTyped, Bystanders, ClosedLoop, Clients,
     Arrivals, StatsRaise, sweepVars
<1>4. Budgets'
  BY DEF HarnessTyped, Bystanders, Budgets, Limited, Clients, StatsRaise,
     sweepVars
<1>5. LastReport'
  BY DEF LastReport, Total, Out, Raised, StatsRaise, sweepVars
<1>6. Failures'
  BY DEF HarnessTyped, Failures, Classes, StatsRaise, sweepVars
<1> QED BY <1>1, <1>2, <1>3, <1>4, <1>5, <1>6

LEMMA StutterKeeps == HInv /\ UNCHANGED harnessVars => HInv'
<1> SUFFICES ASSUME HInv, UNCHANGED harnessVars PROVE HInv'
  OBVIOUS
<1>1. /\ UNCHANGED <<phase, expired, client, remaining, issued, outcomes>>
      /\ UNCHANGED <<cfg, reports, hard>>
  BY DEF harnessVars, loopVars, sweepVars
<1>2. Out' = Out /\ Raised' = Raised
  BY <1>1 DEF Out, Raised
<1>3. HarnessTyped' /\ RequestsAccounted' /\ Bystanders'
  BY <1>1, <1>2 DEF HInv, HarnessTyped, RequestsAccounted, Total, Bystanders, ClosedLoop
<1>4. Budgets' /\ LastReport' /\ Failures'
  BY <1>1, <1>2 DEF HInv, Budgets, Limited, LastReport, Total, Failures
<1> QED BY <1>3, <1>4 DEF HInv

\* A reply that stalls changes nothing that is counted.
LEMMA StallsKeeps ==
  ASSUME HInv, NEW i \in Clients, Stalls(i)
  PROVE  HInv'
<1>1. /\ UNCHANGED <<phase, expired, client, remaining, issued, outcomes>>
      /\ UNCHANGED <<cfg, reports, hard>>
  BY DEF Stalls, loopVars, sweepVars
<1>2. Out' = Out /\ Raised' = Raised
  BY <1>1 DEF Out, Raised
<1>3. HarnessTyped' /\ RequestsAccounted' /\ Bystanders'
  BY <1>1, <1>2 DEF HInv, HarnessTyped, RequestsAccounted, Total, Bystanders, ClosedLoop
<1>4. Budgets' /\ LastReport' /\ Failures'
  BY <1>1, <1>2 DEF HInv, Budgets, Limited, LastReport, Total, Failures
<1> QED BY <1>3, <1>4 DEF HInv

LEMMA StepKeeps == HInv /\ [HarnessNext]_harnessVars => HInv'
<1> SUFFICES ASSUME HInv, [HarnessNext]_harnessVars PROVE HInv'
  OBVIOUS
<1>1. CASE UNCHANGED harnessVars
  BY <1>1, StutterKeeps
<1>2. ASSUME NEW i \in Clients, ClientStep(i) PROVE HInv'
  <2>1. CASE i \in Workers
    BY <1>2, <2>1, StallsKeeps, WorkerStartsKeeps, WorkerReplyKeeps, WorkerRaisesKeeps
       DEF ClientStep, ClientGoesOn
  <2>2. CASE i \notin Workers
    <3>1. i \in Arrivals
      BY <2>2 DEF Clients, Arrivals
    <3> QED BY <1>2, <2>2, <3>1, StallsKeeps, ArrivalReplyKeeps DEF ClientStep, ClientGoesOn
  <2> QED BY <2>1, <2>2
<1>3. CASE WarmedUp \/ Fire \/ StopFiring \/ Deadline \/ BuildReport \/ StatsRaise
  BY <1>3, WarmedUpKeeps, FireKeeps, StopFiringKeeps, DeadlineKeeps, BuildReportKeeps,
     StatsRaiseKeeps
<1> QED BY <1>1, <1>2, <1>3 DEF HarnessNext

LEMMA InvariantHolds == HarnessSpec => []HInv
BY InitEstablishes, StepKeeps, PTL DEF HarnessSpec

-----------------------------------------------------------------------------
(* Theorems *)

\* No request is lost or counted twice, for any number of workers and levels,
\* in both load models and also while a phase falls apart.
THEOREM EveryRequestAccounted == HarnessSpec => []RequestsAccounted
<1>1. HInv => RequestsAccounted
  BY DEF HInv
<1> QED BY <1>1, InvariantHolds, PTL

\* Workers share a budget exactly: none of it is lost, none of it is used
\* twice, and only the deadline keeps a phase from using all of it.
THEOREM BudgetIsShared == HarnessSpec => []BudgetShared
<1>1. HInv => BudgetShared
  BY DEF HInv, Budgets, BudgetShared
<1> QED BY <1>1, InvariantHolds, PTL

\* A report has every request of its phase, but those that raised in an open
\* loop.
THEOREM ReportsComplete == HarnessSpec => []ReportComplete
<1>1. ASSUME HInv, phase = "reported"
      PROVE  /\ Last(reports).issued = issued - Cardinality(Raised)
             /\ cfg.rps \/ Raised = {}
  <2>1. Out = {} /\ Last(reports).issued = Total(outcomes) /\ (cfg.rps \/ Raised = {})
    BY <1>1 DEF HInv, LastReport
  <2>2. Cardinality(Out) = 0
    BY <2>1, FS_EmptySet
  <2>3. Total(outcomes) \in Nat /\ issued \in Nat
    BY <1>1 DEF HInv, HarnessTyped, Total, Classes
  <2>4. IsFiniteSet(Raised)
    BY ClientsFinite, FS_Subset DEF Raised
  <2>5. Cardinality(Raised) \in Nat
    BY <2>4, FS_CardinalityType
  <2>6. issued = Total(outcomes) + Cardinality(Out) + Cardinality(Raised)
    BY <1>1 DEF HInv, RequestsAccounted
  <2> QED BY <2>1, <2>2, <2>3, <2>5, <2>6
<1>2. HInv => ReportComplete
  BY <1>1 DEF ReportComplete
<1> QED BY <1>2, InvariantHolds, PTL

\* The exit code of a sweep is 1 exactly if a measured request of one of its
\* levels has failed, however many levels there are.
THEOREM ExitCodeIsRight == HarnessSpec => []ExitCodeTells
<1>1. HInv => ExitCodeTells
  BY DEF HInv, Failures, ExitCodeTells, ExitCode
<1> QED BY <1>1, InvariantHolds, PTL

-----------------------------------------------------------------------------
(* No sweep goes round in circles *)

\* The loops that are still to come, and a last look at the one that runs.
LoopsLeft ==
    IF phase = "crashed" THEN 0
    ELSE 3 * (Levels - Len(reports))
         + (IF phase = "warmup" THEN 2 ELSE IF phase = "measure" THEN 1 ELSE 0)

Idle == {i \in Clients : client[i] = "idle"}

\* What the loop that runs may still do: clients that have not begun or not
\* ended, requests it may issue, its deadline, and replies that may stall.
Todo == 2 * Cardinality(Idle) + Cardinality(Out)

Running == Out \ stalled

StepsLeft == 2 * ((Bound - issued) + Todo + (IF expired THEN 0 ELSE 1)) + Cardinality(Running)

MostSteps == 2 * Bound + 5 * Cardinality(Clients) + 2

Advances == LoopsLeft' < LoopsLeft \/ (LoopsLeft' = LoopsLeft /\ StepsLeft' < StepsLeft)

\* Requests and reports stay within their bounds.
InBounds ==
    /\ issued <= Bound
    /\ phase \in {"warmup", "measure", "gather"} => Len(reports) < Levels
    /\ phase = "reported" => Len(reports) = Levels
    /\ Len(reports) <= Levels
    /\ expired \in BOOLEAN

LEMMA CountTypes ==
  ASSUME HarnessTyped
  PROVE  /\ Cardinality(Idle) \in Nat /\ Cardinality(Out) \in Nat
         /\ Cardinality(Idle) + Cardinality(Out) <= Cardinality(Clients)
         /\ Cardinality(Clients) \in Nat
         /\ issued \in Nat /\ Bound \in Nat /\ Levels \in Nat /\ Len(reports) \in Nat
<1>1. IsFiniteSet(Idle) /\ IsFiniteSet(Out) /\ IsFiniteSet(Clients)
  BY ClientsFinite, FS_Subset DEF Idle, Out
<1>2. /\ Cardinality(Idle) \in Nat /\ Cardinality(Out) \in Nat
      /\ Cardinality(Clients) \in Nat
  BY <1>1, FS_CardinalityType
<1>3. Idle \intersect Out = {}
  BY DEF Idle, Out
<1>4. /\ IsFiniteSet(Idle \union Out)
      /\ Cardinality(Idle \union Out) = Cardinality(Idle) + Cardinality(Out)
                                           - Cardinality(Idle \intersect Out)
  BY <1>1, FS_Union
<1>5. Cardinality(Idle \intersect Out) = 0
  BY <1>3, FS_EmptySet
<1>6. Cardinality(Idle \union Out) <= Cardinality(Clients)
  BY <1>1, FS_Subset DEF Idle, Out
<1>7. issued \in Nat /\ Bound \in Nat /\ Levels \in Nat /\ Len(reports) \in Nat
  BY BudgetAssumption, LevelsAssumption DEF HarnessTyped
<1> QED BY <1>2, <1>4, <1>5, <1>6, <1>7

\* A client that moves on from "idle" or "request" leaves less to do.
LEMMA ClientAdvances ==
  ASSUME HarnessTyped, NEW i \in Clients, NEW x \in States, Moves(i, x),
         client[i] \in {"idle", "request"}, x # "idle"
  PROVE  /\ Todo \in Nat /\ Todo' \in Nat
         /\ x # "request" => Todo' < Todo
         /\ x = "request" => Todo' <= Todo
<1>1. client \in [Clients -> States] /\ Edit(client, client', i, x)
  BY DEF HarnessTyped, States, Moves
<1>2. Idle = In(client, "idle") /\ Idle' = In(client', "idle")
  BY DEF Idle, In
<1>3. /\ Cardinality(Idle) \in Nat /\ Cardinality(Idle') \in Nat
      /\ client[i] = "idle" => Cardinality(Idle') = Cardinality(Idle) - 1
      /\ client[i] # "idle" => Cardinality(Idle') = Cardinality(Idle)
  BY <1>1, <1>2, OneMoves
<1>4. /\ Cardinality(Out) \in Nat /\ Cardinality(Out') \in Nat
      /\ (x = "request" <=> client[i] = "request") => Cardinality(Out') = Cardinality(Out)
      /\ x = "request" /\ client[i] # "request" => Cardinality(Out') = Cardinality(Out) + 1
      /\ x # "request" /\ client[i] = "request" => Cardinality(Out') = Cardinality(Out) - 1
  BY CountsMove
<1> QED BY <1>3, <1>4 DEF Todo

LEMMA RunningCounted ==
  /\ Cardinality(Running) \in Nat
  /\ HarnessTyped => Cardinality(Running) <= Cardinality(Clients)
<1>1. Running \subseteq Clients
  BY DEF Running, Out
<1>2. IsFiniteSet(Running)
  BY <1>1, ClientsFinite, FS_Subset
<1> QED BY <1>1, <1>2, ClientsFinite, FS_Subset, FS_CardinalityType

\* A step of one client leaves at most one more running.
AtMostOneMoreRuns ==
    /\ Cardinality(Running) \in Nat /\ Cardinality(Running') \in Nat
    /\ Cardinality(Running') <= Cardinality(Running) + 1

LEMMA OneMoreRuns ==
  ASSUME NEW i \in Clients, NEW x \in States, Moves(i, x), stalled' \in {stalled, stalled \ {i}}
  PROVE  AtMostOneMoreRuns
<1>1. IsFiniteSet(Running) /\ IsFiniteSet(Running')
  BY ClientsFinite, FS_Subset DEF Running, Out
<1>2. Running' \subseteq Running \union {i}
  BY DEF Running, Out, Moves, Edit
<1>3. IsFiniteSet(Running \union {i})
  BY <1>1, FS_AddElement
<1>4. Cardinality(Running') <= Cardinality(Running \union {i})
  BY <1>2, <1>3, FS_Subset
<1>5. Cardinality(Running \union {i}) \in {Cardinality(Running), Cardinality(Running) + 1}
  BY <1>1, FS_AddElement
<1>6. Cardinality(Running) \in Nat /\ Cardinality(Running') \in Nat
  BY <1>1, FS_CardinalityType
<1> QED BY <1>4, <1>5, <1>6 DEF AtMostOneMoreRuns

\* A client has moved on, and at most a request was issued on the way.
LEMMA FewerSteps ==
  ASSUME HarnessTyped, InBounds, UNCHANGED <<phase, expired, reports>>,
         AtMostOneMoreRuns, Todo \in Nat, Todo' \in Nat,
         \/ issued' = issued /\ Todo' < Todo
         \/ issued' = issued + 1 /\ issued < Bound /\ Todo' <= Todo
  PROVE  InBounds' /\ Advances
<1>1. issued \in Nat /\ Bound \in Nat
  BY CountTypes
<1>2. LoopsLeft' = LoopsLeft
  BY DEF LoopsLeft
<1>3. StepsLeft' < StepsLeft
  BY <1>1 DEF StepsLeft, AtMostOneMoreRuns
<1>4. InBounds'
  <2>1. issued' <= Bound
    BY <1>1 DEF InBounds
  <2> QED BY <2>1 DEF InBounds
<1> QED BY <1>2, <1>3, <1>4 DEF Advances

LEMMA TurnAdvances ==
  ASSUME HInv, InBounds, NEW w \in Workers, NextTurn(w), client[w] \in {"idle", "request"},
         ClosedLoop, UNCHANGED <<phase, expired, reports>>,
         stalled' \in {stalled, stalled \ {w}}
  PROVE  InBounds' /\ Advances
<1>1. HarnessTyped /\ w \in Clients /\ "done" \in States /\ "request" \in States
  BY DEF HInv, Clients, States
<1>2. issued \in Nat /\ Bound \in Nat
  BY <1>1, CountTypes
<1>4. CASE client' = [client EXCEPT ![w] = "done"] /\ issued' = issued
  <2>1. Moves(w, "done")
    BY <1>1, <1>4, EditIsMove
  <2>2. Todo \in Nat /\ Todo' \in Nat /\ Todo' < Todo
    BY <1>1, <2>1, ClientAdvances
  <2> QED BY <1>1, <1>4, <2>1, <2>2, OneMoreRuns, FewerSteps
<1>5. CASE client' = [client EXCEPT ![w] = "request"] /\ issued' = issued + 1
           /\ ~(Limited /\ remaining = 0) /\ (Limited \/ issued < Bound)
  <2>1. Moves(w, "request")
    BY <1>1, <1>5, EditIsMove
  <2>2. Limited => issued + remaining = Budget /\ remaining \in Nat
    BY DEF HInv, Budgets, HarnessTyped, Limited, ClosedLoop
  <2>3. issued < Bound
    BY <1>2, <1>5, <2>2, BudgetAssumption
  <2>4. Todo \in Nat /\ Todo' \in Nat /\ Todo' <= Todo
    BY <1>1, <2>1, ClientAdvances
  <2> QED BY <1>1, <1>5, <2>1, <2>3, <2>4, OneMoreRuns, FewerSteps
<1> QED BY <1>4, <1>5 DEF NextTurn

LEMMA FireAdvances == HInv /\ InBounds /\ Fire => InBounds' /\ Advances
<1> SUFFICES ASSUME HInv, InBounds, Fire PROVE InBounds' /\ Advances
  OBVIOUS
<1>1. HarnessTyped /\ issued \in Nat /\ Bound \in Nat /\ "request" \in States
  BY CountTypes DEF HInv, States
<1>2. issued + 1 \in Clients /\ client[issued + 1] = "idle"
  BY <1>1 DEF HInv, Bystanders, Arrivals, Clients, Fire, MayFire
<1>3. Moves(issued + 1, "request")
  BY <1>1, <1>2, EditIsMove DEF Fire
<1>4. UNCHANGED <<phase, expired, reports, stalled>> /\ issued' = issued + 1 /\ issued < Bound
  BY DEF Fire, sweepVars
<1>5. Todo \in Nat /\ Todo' \in Nat /\ Todo' <= Todo
  BY <1>1, <1>2, <1>3, ClientAdvances
<1> QED BY <1>1, <1>2, <1>3, <1>4, <1>5, OneMoreRuns, FewerSteps

LEMMA ReplyAdvances ==
  ASSUME HInv, InBounds, NEW i \in Clients, NEW reply \in Replies, ArrivalReply(i, reply)
  PROVE  InBounds' /\ Advances
<1>1. HarnessTyped /\ issued \in Nat /\ Bound \in Nat
      /\ "raised" \in States /\ "done" \in States
  BY CountTypes DEF HInv, States
<1>2. UNCHANGED <<phase, expired, issued, reports>> /\ stalled' = stalled \ {i}
  BY DEF ArrivalReply, Record, sweepVars
<1>3. Moves(i, "raised") \/ Moves(i, "done")
  BY <1>1, EditIsMove DEF ArrivalReply
<1>4. client[i] \in {"idle", "request"}
  BY DEF ArrivalReply
<1>5. Todo \in Nat /\ Todo' \in Nat /\ Todo' < Todo
  BY <1>1, <1>3, <1>4, ClientAdvances
<1> QED BY <1>1, <1>2, <1>3, <1>5, OneMoreRuns, FewerSteps

\* A loop that begins is within bounds.
LEMMA FreshInBounds ==
  ASSUME phase' \in {"warmup", "measure"}, issued' = 0, expired' = FALSE,
         Len(reports') \in Nat, Len(reports') < Levels
  PROVE  InBounds'
<1>1. issued' <= Bound
  BY BudgetAssumption
<1>2. Len(reports') <= Levels
  BY LevelsAssumption
<1>3. phase' # "reported" /\ expired' \in BOOLEAN
  OBVIOUS
<1> QED BY <1>1, <1>2, <1>3 DEF InBounds

\* The end of a loop, or of the sweep.
LEMMA LoopEndAdvances ==
  ASSUME HInv, InBounds,
         \/ WarmedUp \/ StopFiring \/ BuildReport \/ StatsRaise
         \/ \E w \in Workers, reply \in Replies : WorkerRaises(w, reply)
  PROVE  InBounds' /\ Advances
<1>1. HarnessTyped /\ issued \in Nat /\ Bound \in Nat /\ Levels \in Nat /\ Len(reports) \in Nat
  BY CountTypes DEF HInv
<1>2. CASE WarmedUp
  <2>1. /\ phase = "warmup" /\ phase' = "measure" /\ reports' = reports
        /\ issued' = 0 /\ expired' = FALSE
    BY <1>2 DEF WarmedUp, Start, sweepVars
  <2>2. Len(reports) < Levels
    BY <2>1 DEF InBounds
  <2>3. LoopsLeft' < LoopsLeft
    BY <1>1, <2>1, <2>2 DEF LoopsLeft
  <2>4. InBounds'
    BY <1>1, <2>1, <2>2, FreshInBounds
  <2> QED BY <2>3, <2>4 DEF Advances
<1>3. CASE StopFiring
  BY <1>1, <1>3 DEF StopFiring, InBounds, Advances, LoopsLeft, sweepVars
<1>4. CASE BuildReport
  <2>1. phase \in {"measure", "gather"}
    BY <1>4 DEF BuildReport, Gathered
  <2>2. Len(reports') = Len(reports) + 1
    BY <1>1, <1>4 DEF BuildReport, HarnessTyped
  <2>3. CASE Len(reports') < Levels
    <3>1. phase' \in {"warmup", "measure"} /\ issued' = 0 /\ expired' = FALSE
      BY <1>4, <2>3 DEF BuildReport, FirstPhase, Start
    <3>2. LoopsLeft' < LoopsLeft
      BY <1>1, <2>1, <2>2, <2>3, <3>1 DEF LoopsLeft
    <3>3. Len(reports') \in Nat
      BY <1>1, <2>2
    <3>4. InBounds'
      BY <2>3, <3>1, <3>3, FreshInBounds
    <3> QED BY <3>2, <3>4 DEF Advances
  <2>4. CASE ~(Len(reports') < Levels)
    <3>1. phase' = "reported" /\ issued' = issued /\ expired' = expired
      BY <1>4, <2>4 DEF BuildReport
    <3> QED BY <1>1, <2>1, <2>2, <2>4, <3>1 DEF InBounds, Advances, LoopsLeft
  <2> QED BY <2>3, <2>4
<1>5. CASE StatsRaise
  BY <1>1, <1>5 DEF StatsRaise, Gathered, InBounds, Advances, LoopsLeft, sweepVars
<1>6. ASSUME NEW w \in Workers, NEW reply \in Replies, WorkerRaises(w, reply)
      PROVE  InBounds' /\ Advances
  BY <1>1, <1>6 DEF WorkerRaises, ClosedLoop, InBounds, Advances, LoopsLeft, sweepVars
<1> QED BY <1>2, <1>3, <1>4, <1>5, <1>6

LEMMA DeadlineAdvances == HInv /\ InBounds /\ Deadline => InBounds' /\ Advances
<1> SUFFICES ASSUME HInv, InBounds, Deadline PROVE InBounds' /\ Advances
  OBVIOUS
<1>1. HarnessTyped
  BY DEF HInv
<1>2. Todo' = Todo /\ LoopsLeft' = LoopsLeft /\ Running' = Running
  BY DEF Deadline, Todo, Idle, Out, Running, LoopsLeft, sweepVars
<1>3. Todo \in Nat /\ Cardinality(Running) \in Nat
  BY <1>1, CountTypes, RunningCounted DEF Todo
<1> QED BY <1>1, <1>2, <1>3, CountTypes DEF Deadline, InBounds, Advances, StepsLeft, sweepVars

LEMMA StallAdvances ==
  ASSUME HInv, InBounds, NEW i \in Clients, Stalls(i)
  PROVE  InBounds' /\ Advances
<1>1. UNCHANGED <<phase, expired, client, issued, reports>>
  BY DEF Stalls, loopVars, sweepVars
<1>2. InBounds' /\ Todo' = Todo /\ LoopsLeft' = LoopsLeft
  BY <1>1 DEF InBounds, Todo, Idle, Out, LoopsLeft
<1>3. Running' = Running \ {i} /\ i \in Running
  BY <1>1 DEF Running, Out, Stalls
<1>4. IsFiniteSet(Running)
  BY ClientsFinite, FS_Subset DEF Running, Out
<1>5. Cardinality(Running \ {i}) = Cardinality(Running) - 1
  BY <1>3, <1>4, FS_RemoveElement
<1>6. Cardinality(Running') = Cardinality(Running) - 1 /\ Cardinality(Running) \in Nat
  BY <1>3, <1>5, RunningCounted
<1>7. Todo \in Nat /\ issued \in Nat /\ Bound \in Nat
  BY CountTypes DEF HInv, Todo
<1>8. StepsLeft' < StepsLeft
  BY <1>1, <1>2, <1>6, <1>7 DEF StepsLeft
<1> QED BY <1>2, <1>8 DEF Advances

LEMMA StepAdvances == HInv /\ InBounds /\ HarnessNext => InBounds' /\ Advances
<1> SUFFICES ASSUME HInv, InBounds, HarnessNext PROVE InBounds' /\ Advances
  OBVIOUS
<1>1. ASSUME NEW w \in Workers, WorkerStarts(w) PROVE InBounds' /\ Advances
  BY <1>1, TurnAdvances DEF WorkerStarts, sweepVars
<1>2. ASSUME NEW w \in Workers, NEW reply \in Replies, WorkerReply(w, reply)
      PROVE  InBounds' /\ Advances
  BY <1>2, TurnAdvances DEF WorkerReply, Record
<1> QED BY <1>1, <1>2, StallAdvances, ReplyAdvances, FireAdvances, LoopEndAdvances, DeadlineAdvances
        DEF HarnessNext, ClientStep, ClientGoesOn

LEMMA BoundsHold == HarnessSpec => []InBounds
<1>1. HarnessInit => InBounds
  <2> SUFFICES ASSUME HarnessInit PROVE InBounds
    OBVIOUS
  <2>1. /\ phase \in {"warmup", "measure"} /\ expired = FALSE /\ issued = 0
        /\ reports = <<>>
    BY DEF HarnessInit, FirstPhase
  <2>2. Len(reports) = 0 /\ 0 < Levels /\ 0 <= Bound
    BY <2>1, BudgetAssumption, LevelsAssumption
  <2>3. issued <= Bound /\ Len(reports) <= Levels
    BY <2>1, <2>2, LevelsAssumption
  <2>4. phase # "reported" /\ expired \in BOOLEAN
    BY <2>1
  <2> QED BY <2>2, <2>3, <2>4 DEF InBounds
<1>2. InBounds /\ UNCHANGED harnessVars => InBounds'
  BY DEF InBounds, harnessVars, loopVars, sweepVars
<1> QED BY <1>1, <1>2, StepAdvances, InvariantHolds, PTL DEF HarnessSpec

\* The safety half of PhaseEnds, for any number of workers, levels and any
\* budget: whatever the replies, every step of a sweep leaves fewer loops, or
\* fewer steps of the loop that runs, a reply that stalls included; ...
THEOREM EverySweepStepAdvances == HarnessSpec => [][Advances]_harnessVars
<1>1. HInv /\ InBounds /\ [HarnessNext]_harnessVars => [Advances]_harnessVars
  BY StepAdvances
<1> QED BY <1>1, InvariantHolds, BoundsHold, PTL DEF HarnessSpec

\* ... both are natural numbers, at most three per level and MostSteps in each;
\* and a sweep that ends without an exception has a report for every level.
THEOREM SweepIsBounded ==
    HarnessSpec => [](/\ LoopsLeft \in 0 .. 3 * Levels + 2 /\ StepsLeft \in 0 .. MostSteps
                      /\ phase = "reported" => Len(reports) = Levels)
<1>1. ASSUME HInv, InBounds
      PROVE  /\ LoopsLeft \in 0 .. 3 * Levels + 2 /\ StepsLeft \in 0 .. MostSteps
             /\ phase = "reported" => Len(reports) = Levels
  <2>1. HarnessTyped
    BY <1>1 DEF HInv
  <2>2. LoopsLeft \in 0 .. 3 * Levels + 2
    BY <1>1, <2>1, CountTypes DEF InBounds, LoopsLeft
  <2>3. Todo \in Nat /\ Todo <= 2 * Cardinality(Clients)
    BY <2>1, CountTypes DEF Todo
  <2>4. StepsLeft \in 0 .. MostSteps
    <3>1. /\ issued \in Nat /\ Bound \in Nat /\ issued <= Bound
          /\ Cardinality(Clients) \in Nat
      BY <1>1, <2>1, CountTypes DEF InBounds
    <3>2. (IF expired THEN 0 ELSE 1) \in 0 .. 1
      OBVIOUS
    <3>3. Cardinality(Running) \in 0 .. Cardinality(Clients)
      BY <2>1, <3>1, RunningCounted
    <3> QED BY <2>3, <3>1, <3>2, <3>3 DEF StepsLeft, MostSteps
  <2> QED BY <1>1, <2>2, <2>4 DEF InBounds
<1> QED BY <1>1, InvariantHolds, BoundsHold, PTL

=============================================================================
