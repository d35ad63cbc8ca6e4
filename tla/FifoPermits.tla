---------------------------- MODULE FifoPermits ----------------------------
(***************************************************************************)
(* What llmserve.admission.FairSemaphore promises, without its deque, its  *)
(* futures or the event loop: Permits permits, a line of callers, and a    *)
(* permit that is given back goes at once to whoever is first in line.     *)
(***************************************************************************)
EXTENDS Naturals, FiniteSets

CONSTANTS Callers, Permits

VARIABLES line,      \* callers waiting
          before,    \* <<c, d>>: both wait, and c came first
          holders    \* callers that own a permit

vars == <<line, before, holders>>

Init == line = {} /\ before = {} /\ holders = {}

Outside(c) == c \notin holders /\ c \notin line

\* A permit is free: take it.
Enter(c) ==
    /\ Outside(c)
    /\ Cardinality(holders) < Permits
    /\ holders' = holders \union {c}
    /\ UNCHANGED <<line, before>>

\* None is free: stand behind everybody in the line.
StandInLine(c) ==
    /\ Outside(c)
    /\ Cardinality(holders) = Permits
    /\ line' = line \union {c}
    /\ before' = before \union (line \X {c})
    /\ UNCHANGED holders

\* The others stay in the order in which they stand.
StepsOut(c) ==
    /\ c \in line
    /\ line' = line \ {c}
    /\ before' = before \intersect (line' \X line')

\* A caller in line loses patience or is cancelled.
GiveUp(c) == StepsOut(c) /\ UNCHANGED holders

FirstInLine(c) == \A d \in line \ {c} : <<c, d>> \in before

\* A holder gives its permit back; the head of the line, if any, owns it now.
Leave(c) ==
    /\ c \in holders
    /\ \/ /\ line = {}
          /\ holders' = holders \ {c}
          /\ UNCHANGED <<line, before>>
       \/ \E d \in line :
             /\ FirstInLine(d) /\ StepsOut(d)
             /\ holders' = (holders \ {c}) \union {d}

\* The whole line is turned away.
TurnAwayAll == line' = {} /\ before' = {} /\ UNCHANGED holders

Next ==
    \/ \E c \in Callers :
          Enter(c) \/ StandInLine(c) \/ GiveUp(c) \/ Leave(c)
    \/ TurnAwayAll

Spec == Init /\ [][Next]_vars

=============================================================================
