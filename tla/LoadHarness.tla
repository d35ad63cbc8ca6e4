---------------------------- MODULE LoadHarness ----------------------------
(***************************************************************************)
(* loadtest.harness: a sweep of phases, one per level of load.  run_phase  *)
(* warms up with a closed loop, measures with a closed loop (workers that  *)
(* share a budget) or an open one (arrivals that do not wait), and builds  *)
(* a report from the outcomes.  A worker or an arrival suspends only       *)
(* inside _one_request.  loadtest.__main__ exits with a code for CI.       *)
(***************************************************************************)
EXTENDS Naturals, FiniteSets, SequencesExt

CONSTANTS Workers,    \* cfg.concurrency of them
          Budget,     \* cfg.requests, when it is set
          Bound,      \* requests a loop without a budget may issue
          Levels      \* phases of the sweep

ASSUME WorkersAssumption == IsFiniteSet(Workers) /\ Workers # {}
ASSUME NamesAssumption == Workers \intersect (1 .. Bound) = {}
ASSUME BudgetAssumption == Budget \in Nat /\ Bound \in Nat /\ Budget <= Bound
ASSUME LevelsAssumption == Levels \in Nat \ {0}

VARIABLES cfg,        \* which of cfg.rps, cfg.requests and cfg.warmup_s are set
          phase,      \* where run_phase stands
          expired,    \* perf_counter() >= deadline of the loop that runs
          client,     \* the worker or arrival i: what it is doing
          remaining,  \* the closed loop's share of the budget still to use
          issued,     \* requests started by the loop that runs
          outcomes,   \* its outcomes, per class
          reports,    \* what _build_report made of them, per level so far
          hard,       \* a measured request has failed
          stalled     \* clients whose reply keeps coming and does not go on

loopVars == <<phase, expired, client, remaining, issued, outcomes>>
sweepVars == <<cfg, reports, hard>>
harnessVars == <<loopVars, sweepVars, stalled>>

Clients == Workers \union (1 .. Bound)

Classes == {"ok", "rejected", "failed"}

Empty == [c \in Classes |-> 0]

Total(counts) == counts["ok"] + counts["rejected"] + counts["failed"]

\* Mutant: the warm-up's outcomes are kept.
MutStartKeepsOutcomes(limit) ==
    /\ expired' = FALSE
    /\ client' = [i \in Clients |-> "idle"]
    /\ remaining' = limit
    /\ issued' = 0
    /\ outcomes' = outcomes

\* A loop begins, with nothing out and no outcomes.
Start(limit) ==
    /\ expired' = FALSE
    /\ client' = [i \in Clients |-> "idle"]
    /\ remaining' = limit
    /\ issued' = 0
    /\ outcomes' = Empty

\* The budget a loop of the measured phase starts with.
Limit == IF cfg.requests THEN Budget ELSE 0

FirstPhase == IF cfg.warmup THEN "warmup" ELSE "measure"

HarnessInit ==
    /\ cfg \in [rps : BOOLEAN, requests : BOOLEAN, warmup : BOOLEAN]
    /\ phase = FirstPhase
    /\ expired = FALSE
    /\ client = [i \in Clients |-> "idle"]
    /\ remaining = IF phase = "measure" THEN Limit ELSE 0
    /\ issued = 0
    /\ outcomes = Empty
    /\ reports = <<>>
    /\ hard = FALSE
    /\ stalled = {}

-----------------------------------------------------------------------------
(* _one_request: what the service or the network answers *)

Replies == {"answer", "stream_error", "shed", "http_error", "transport_error", "malformed"}

\* The class of an outcome: 429 and 503 are shed, any other status, an error
\* frame inside a 200 stream and an httpx error are failures.
Class(reply) ==
    CASE reply = "answer" -> "ok"
      [] reply = "shed" -> "rejected"
      [] reply \in {"stream_error", "http_error", "transport_error"} -> "failed"

\* A body that cannot be parsed raises out of _one_request.
Raising(reply) == reply = "malformed"

Record(reply) ==
    /\ outcomes' = [outcomes EXCEPT ![Class(reply)] = @ + 1]
    /\ hard' = (hard \/ (phase # "warmup" /\ Class(reply) = "failed"))
    /\ UNCHANGED <<cfg, reports>>

\* The engine brings no more tokens, and the server's keep-alive comments go on.
\* httpx bounds the time between two reads, which each comment starts anew, and
\* _one_request skips comments: nothing bounds the request as a whole.
Stalls(i) ==
    /\ phase \in {"warmup", "measure", "gather"}
    /\ client[i] = "request" /\ i \notin stalled
    /\ stalled' = stalled \union {i}
    /\ UNCHANGED <<loopVars, sweepVars>>

-----------------------------------------------------------------------------
(* _closed_loop; the warm-up runs it without a budget *)

ClosedLoop == phase = "warmup" \/ (phase = "measure" /\ ~cfg.rps)

Limited == phase = "measure" /\ cfg.requests

\* Mutant: the last unit of the budget stays unused.
MutTurnStopsEarly(w) ==
    IF expired \/ (Limited /\ remaining <= 1)
    THEN client' = [client EXCEPT ![w] = "done"] /\ UNCHANGED <<remaining, issued>>
    ELSE /\ Limited \/ issued < Bound
         /\ client' = [client EXCEPT ![w] = "request"]
         /\ remaining' = IF Limited THEN remaining - 1 ELSE remaining
         /\ issued' = issued + 1

\* Mutant: a worker does not look at the deadline.
MutTurnForever(w) ==
    IF Limited /\ remaining = 0
    THEN client' = [client EXCEPT ![w] = "done"] /\ UNCHANGED <<remaining, issued>>
    ELSE /\ Limited \/ issued < Bound
         /\ client' = [client EXCEPT ![w] = "request"]
         /\ remaining' = IF Limited THEN remaining - 1 ELSE remaining
         /\ issued' = issued + 1

\* The top of a worker's loop, up to the request: the deadline, then one unit
\* of the budget.  Nothing awaits inside the lock, so it is never contended.
NextTurn(w) ==
    IF expired \/ (Limited /\ remaining = 0)
    THEN client' = [client EXCEPT ![w] = "done"] /\ UNCHANGED <<remaining, issued>>
    ELSE /\ Limited \/ issued < Bound
         /\ client' = [client EXCEPT ![w] = "request"]
         /\ remaining' = IF Limited THEN remaining - 1 ELSE remaining
         /\ issued' = issued + 1

WorkerStarts(w) ==
    /\ ClosedLoop /\ client[w] = "idle"
    /\ NextTurn(w)
    /\ UNCHANGED <<phase, expired, outcomes, sweepVars, stalled>>

WorkerReply(w, reply) ==
    /\ ClosedLoop /\ client[w] = "request" /\ ~Raising(reply)
    /\ Record(reply)
    /\ NextTurn(w)
    /\ stalled' = stalled \ {w}
    /\ UNCHANGED <<phase, expired>>

\* gather() passes the first exception on, and run_phase with it.
WorkerRaises(w, reply) ==
    /\ ClosedLoop /\ client[w] = "request" /\ Raising(reply)
    /\ client' = [client EXCEPT ![w] = "raised"]
    /\ phase' = "crashed"
    /\ stalled' = stalled \ {w}
    /\ UNCHANGED <<expired, remaining, issued, outcomes, sweepVars>>

AllDone == \A w \in Workers : client[w] = "done"

WarmedUp ==
    /\ phase = "warmup" /\ AllDone
    /\ phase' = "measure"
    /\ Start(Limit)
    /\ UNCHANGED <<sweepVars, stalled>>

-----------------------------------------------------------------------------
(* _open_loop *)

MayFire == phase = "measure" /\ cfg.rps /\ ~expired /\ (cfg.requests => issued < Budget)

Fire ==
    /\ MayFire /\ issued < Bound
    /\ issued' = issued + 1
    /\ client' = [client EXCEPT ![issued + 1] = "request"]
    /\ UNCHANGED <<phase, expired, remaining, outcomes, sweepVars, stalled>>

\* The loop is left and the arrivals that are still out are gathered.
StopFiring ==
    /\ phase = "measure" /\ cfg.rps
    /\ expired \/ (cfg.requests /\ issued >= Budget)
    /\ phase' = "gather"
    /\ UNCHANGED <<expired, client, remaining, issued, outcomes, sweepVars, stalled>>

\* gather(return_exceptions=True): an arrival that raises leaves no outcome.
ArrivalReply(i, reply) ==
    /\ phase \in {"measure", "gather"} /\ cfg.rps /\ client[i] = "request"
    /\ IF Raising(reply)
       THEN client' = [client EXCEPT ![i] = "raised"] /\ UNCHANGED <<outcomes, sweepVars>>
       ELSE client' = [client EXCEPT ![i] = "done"] /\ Record(reply)
    /\ stalled' = stalled \ {i}
    /\ UNCHANGED <<phase, expired, remaining, issued>>

-----------------------------------------------------------------------------
Deadline ==
    /\ phase \in {"warmup", "measure"} /\ ~expired
    /\ expired' = TRUE
    /\ UNCHANGED <<phase, client, remaining, issued, outcomes, sweepVars, stalled>>

\* Mutant: the arrivals that are still out are not gathered.
MutGatheredAtOnce ==
    phase = "gather" \/ (phase = "measure" /\ ~cfg.rps /\ AllDone)

\* gather() has returned.
Gathered ==
    \/ phase = "gather" /\ \A i \in 1 .. Bound : client[i] # "request"
    \/ phase = "measure" /\ ~cfg.rps /\ AllDone

\* The report; the next level then starts over, after a pause in which
\* nothing runs.
BuildReport ==
    /\ Gathered
    /\ reports' = Append(reports, [issued |-> Total(outcomes), failed |-> outcomes["failed"]])
    /\ IF Len(reports') < Levels
       THEN phase' = FirstPhase /\ Start(IF phase' = "measure" THEN Limit ELSE 0)
       ELSE phase' = "reported" /\ UNCHANGED <<expired, client, remaining, issued, outcomes>>
    /\ UNCHANGED <<cfg, hard, stalled>>

\* /stats is no JSON: _fetch_stats catches httpx errors only, and the reports
\* of earlier levels are lost with this one.
StatsRaise ==
    /\ Gathered
    /\ phase' = "crashed"
    /\ UNCHANGED <<expired, client, remaining, issued, outcomes, sweepVars, stalled>>

\* Mutant: the last report decides.
MutExitCode == IF Last(reports).failed > 0 THEN 1 ELSE 0

ExitCode == IF \E i \in DOMAIN reports : reports[i].failed > 0 THEN 1 ELSE 0

\* A client starts, or its request ends; that of a worker without an exception.
ClientGoesOn(i) ==
    \/ i \in Workers /\ (WorkerStarts(i) \/ \E reply \in Replies : WorkerReply(i, reply))
    \/ i \notin Workers /\ \E reply \in Replies : ArrivalReply(i, reply)

ClientStep(i) ==
    \/ ClientGoesOn(i) \/ Stalls(i)
    \/ i \in Workers /\ \E reply \in Replies : WorkerRaises(i, reply)

HarnessNext ==
    \/ \E i \in Clients : ClientStep(i)
    \/ WarmedUp \/ Fire \/ StopFiring \/ Deadline \/ BuildReport \/ StatsRaise

HarnessSpec == HarnessInit /\ [][HarnessNext]_harnessVars

\* Requests end unless they are stalled (httpx times out on a reply that has
\* gone quiet), the deadline comes, ready tasks run.  A stalled request may go
\* on and end, and a worker may raise, but neither has to.
HarnessFairness ==
    /\ \A i \in Clients : WF_harnessVars(i \notin stalled /\ ClientGoesOn(i))
    /\ WF_harnessVars(Deadline)
    /\ WF_harnessVars(WarmedUp \/ StopFiring \/ BuildReport)

HarnessFairSpec == HarnessSpec /\ HarnessFairness

-----------------------------------------------------------------------------
(* Properties *)

\* Requests without an answer yet, and those that ended in an exception.
Out == {i \in Clients : client[i] = "request"}
Raised == {i \in Clients : client[i] = "raised"}

\* Every request the loop has started is out, has left one outcome, or raised.
RequestsAccounted == issued = Total(outcomes) + Cardinality(Out) + Cardinality(Raised)

\* Workers share the budget without ever exceeding it or losing a unit of it,
\* and a phase that is reported before its deadline has used all of it: no
\* worker stops early because another one has.
BudgetShared ==
    cfg.requests =>
       /\ phase \in {"measure", "gather", "reported"} =>
            IF cfg.rps THEN issued <= Budget ELSE issued + remaining = Budget
       /\ phase = "reported" /\ ~expired => issued = Budget

\* A report covers every request of its phase, late ones included; only an
\* open loop loses those that raised.
ReportComplete ==
    phase = "reported" =>
       /\ Last(reports).issued = issued - Cardinality(Raised)
       /\ cfg.rps \/ Raised = {}

\* The exit code CI looks at is 1 exactly if a measured request of any level
\* has failed: shed load and the warm-up do not count, no level is forgotten.
ExitCodeTells == phase = "reported" => (ExitCode = 1 <=> hard)

\* Every sweep comes to an end, with a report per level or with an exception:
\* the one thing that can keep it open is a request that stalls for good.
PhaseEnds ==
    \/ <>(phase \in {"reported", "crashed"})
    \/ \E i \in Clients : <>[](i \in stalled)

=============================================================================
