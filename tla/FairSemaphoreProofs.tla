------------------------ MODULE FairSemaphoreProofs ------------------------
(***************************************************************************)
(* Proofs about FairSemaphore for any finite set of tasks, any capacity    *)
(* and both deliveries of a signal.                                        *)
(***************************************************************************)
EXTENDS FairSemaphore, FiniteSetTheorems, SequenceTheorems,
        WellFoundedInduction, TLAPS

\* Exactly the tasks suspended in acquire() have a future.
FuturesMatchTasks == \A t \in Tasks : task[t] = "waiting" <=> fut[t] # "none"

\* The inductive invariant: what the runs check, and which tasks have futures.
IInv ==
    /\ TypeOK
    /\ FuturesMatchTasks
    /\ DequeMatchesFutures
    /\ NoIdlePermit
    /\ PermitsConserved

\* A process runs under one version of asyncio from its start to its end.
LEMMA VersionStays == [Next]_vars => direct' = direct
BY DEF Next, vars, TaskStep, AcquireNow, AcquireWait, Release, TimerFires, CancelTask,
   Interrupt, Resume, ReturnGranted, HandBack, CancelFuture, RaiseOut, FailAll

-----------------------------------------------------------------------------
(* The deque *)

LEMMA LeastNat ==
    ASSUME NEW S, S \subseteq Nat, S # {}
    PROVE  \E m \in S : \A n \in S : m <= n
<1>1. PICK m \in S : \A n \in S : <<n, m>> \notin OpToRel(<, Nat)
  BY WFMin, NatLessThanWellFounded, Zenon
<1>2. ASSUME NEW n \in S PROVE m <= n
  <2>1. m \in Nat /\ n \in Nat /\ <<n, m>> \in Nat \X Nat
    BY SMT
  <2>2. ~(n < m)
    BY <1>1, <2>1 DEF OpToRel
  <2> QED BY <2>1, <2>2, SMT
<1> QED BY <1>2

LEMMA MinIs ==
    ASSUME NEW S, S \subseteq Nat, NEW m \in S, \A n \in S : m <= n
    PROVE  Min(S) = m
<1>1. \E x \in S : \A y \in S : x <= y
  OBVIOUS
<1>2. Min(S) \in S /\ \A y \in S : Min(S) <= y
  BY <1>1, Zenon DEF Min
<1>3. Min(S) \in Nat /\ m \in Nat
  BY <1>2
<1>4. Min(S) <= m /\ m <= Min(S)
  BY <1>2
<1> QED BY <1>3, <1>4, SMT

\* What _wake does with one permit more than are free: nothing is waiting and
\* the deque is emptied, or no permit was free and the first pending future
\* gets the one given back.
WakeGrantsNobody(v) ==
    /\ Live = {}
    /\ Granted(v) = {}
    /\ Popped(v) = Len(waiters)

WakeGrantsFirst(v, i) ==
    /\ i \in Live
    /\ \A j \in Live : i <= j
    /\ Granted(v) = {waiters[i]}
    /\ Popped(v) = i

LEMMA WakeHandsOverOnePermit ==
    ASSUME TypeOK, NoIdlePermit
    PROVE  \/ WakeGrantsNobody(value + 1)
           \/ value = 0 /\ \E i \in DOMAIN waiters : WakeGrantsFirst(value + 1, i)
<1> DEFINE v == value + 1
           len == Len(waiters)
           Stops == {n \in 0 .. len : Cardinality(LiveUpTo(n)) = v \/ n = len}
<1>1. len \in Nat /\ DOMAIN waiters = 1 .. len
  BY LenProperties, SMT DEF TypeOK
<1>2. value \in Nat /\ v \in Nat /\ v > 0
  BY DEF TypeOK
<1>3. Live \subseteq 1 .. len /\ Live \subseteq Nat /\ Live \subseteq DOMAIN waiters
  BY <1>1 DEF Live
<1>4. Popped(v) = Min(Stops)
  BY DEF Popped
<1>5. waiters = <<>> => Live = {}
  BY DEF Live
<1> HIDE DEF len
<1>6. Stops \subseteq Nat /\ len \in Stops
  BY <1>1
<1>7. CASE Live = {}
  <2>1. \A n \in 0 .. len : LiveUpTo(n) = {}
    BY <1>7 DEF LiveUpTo
  <2>2. Cardinality({}) # v
    BY <1>2, FS_EmptySet
  <2>3. \A n \in Stops : n = len
    BY <2>1, <2>2
  <2>4. Popped(v) = len
    <3>1. \A n \in Stops : len <= n
      BY <2>3, <1>1
    <3> HIDE DEF Stops
    <3> QED BY <3>1, <1>4, <1>6, MinIs
  <2>5. Granted(v) = {}
    BY <2>1, <2>4, <1>1 DEF Granted
  <2> QED BY <1>7, <2>4, <2>5 DEF WakeGrantsNobody, len
<1>8. CASE Live # {}
  <2>1. value = 0 /\ v = 1
    BY <1>2, <1>5, <1>8 DEF NoIdlePermit
  <2>2. PICK i \in Live : \A j \in Live : i <= j
    BY <1>3, <1>8, LeastNat
  <2>3. i \in 0 .. len /\ i \in Nat /\ i \in DOMAIN waiters
    BY <1>1, <1>3
  <2>4. LiveUpTo(i) = {i}
    <3>1. \A j \in Live : j \in Nat /\ i <= j
      BY <2>2, <1>3
    <3>2. \A j \in Live : j <= i <=> j = i
      BY <3>1, <2>3
    <3> QED BY <3>2, <2>2 DEF LiveUpTo
  <2>5. i \in Stops
    <3>1. Cardinality({i}) = 1
      BY FS_Singleton
    <3> QED BY <3>1, <2>1, <2>3, <2>4
  <2>6. \A n \in Stops : i <= n
    <3>1. ASSUME NEW n \in 0 .. len, n < i
          PROVE  n \notin Stops
      <4>1. LiveUpTo(n) = {}
        <5>1. \A j \in Live : j \in Nat /\ i <= j
          BY <2>2, <1>3
        <5>2. \A j \in Live : ~(j <= n)
          BY <5>1, <3>1, <2>3
        <5> QED BY <5>2 DEF LiveUpTo
      <4>2. Cardinality(LiveUpTo(n)) # v
        BY <4>1, <2>1, FS_EmptySet, SMT
      <4>3. n # len
        BY <3>1, <2>3, <1>1
      <4> QED BY <4>2, <4>3
    <3>2. Stops \subseteq 0 .. len
      OBVIOUS
    <3> HIDE DEF Stops
    <3> QED BY <3>1, <3>2, <2>3, <1>1
  <2>7. Popped(v) = i
    <3> HIDE DEF Stops
    <3> QED BY <2>5, <2>6, <1>4, <1>6, MinIs
  <2>8. Granted(v) = {waiters[i]}
    BY <2>4, <2>7 DEF Granted
  <2> QED BY <2>1, <2>2, <2>3, <2>7, <2>8 DEF WakeGrantsFirst
<1> QED BY <1>7, <1>8

\* release() hands its permit to the first pending future, or frees it.
FreesPermit(t) ==
    /\ Live = {}
    /\ waiters' = <<>>
    /\ value' = value + 1
    /\ fut' = [fut EXCEPT ![t] = "none"]

HandsPermitTo(i, t) ==
    /\ i \in Live
    /\ \A j \in Live : i <= j
    /\ value = 0 /\ value' = 0
    /\ waiters' = SubSeq(waiters, i + 1, Len(waiters))
    /\ fut' = [u \in Tasks |-> IF u = waiters[i] THEN "granted"
                               ELSE IF u = t THEN "none" ELSE fut[u]]

LEMMA GiveBackCases ==
    ASSUME IInv, NEW t \in Tasks, GiveBack(t)
    PROVE  FreesPermit(t) \/ \E i \in DOMAIN waiters : HandsPermitTo(i, t)
<1> USE DEF IInv
<1> DEFINE v == value + 1
<1>1. /\ value' = v - Cardinality(Granted(v))
      /\ waiters' = SubSeq(waiters, Popped(v) + 1, Len(waiters))
      /\ fut' = [u \in Tasks |-> IF u \in Granted(v) THEN "granted"
                                 ELSE IF u = t THEN "none" ELSE fut[u]]
  BY DEF GiveBack
<1>2. value \in Nat /\ Len(waiters) \in Nat
  BY LenProperties DEF TypeOK
<1>3. CASE WakeGrantsNobody(v)
  <2>1. Cardinality(Granted(v)) = 0
    BY <1>3, FS_EmptySet DEF WakeGrantsNobody
  <2>2. waiters' = <<>>
    <3>1. SubSeq(waiters, Len(waiters) + 1, Len(waiters)) = <<>>
      BY <1>2, SubSeqEmpty
    <3> QED BY <3>1, <1>1, <1>3 DEF WakeGrantsNobody
  <2>3. fut' = [fut EXCEPT ![t] = "none"]
    BY <1>1, <1>3 DEF WakeGrantsNobody, TypeOK
  <2>4. value' = v
    BY <2>1, <1>1, <1>2
  <2> QED BY <2>2, <2>3, <2>4, <1>3 DEF WakeGrantsNobody, FreesPermit
<1>4. CASE value = 0 /\ \E i \in DOMAIN waiters : WakeGrantsFirst(v, i)
  <2>1. PICK i \in DOMAIN waiters : WakeGrantsFirst(v, i)
    BY <1>4
  <2>2. Cardinality(Granted(v)) = 1
    BY <2>1, FS_Singleton DEF WakeGrantsFirst
  <2>3. value' = 0
    BY <2>2, <1>1, <1>4
  <2>4. \A u : u \in Granted(v) <=> u = waiters[i]
    BY <2>1 DEF WakeGrantsFirst
  <2>5. HandsPermitTo(i, t)
    BY <2>1, <2>3, <2>4, <1>1, <1>4 DEF WakeGrantsFirst, HandsPermitTo
  <2> QED BY <2>5
<1> QED BY <1>3, <1>4, WakeHandsOverOnePermit

LEMMA RemoveAtProperties ==
    ASSUME NEW S, NEW s \in Seq(S), NEW i \in 1 .. Len(s)
    PROVE  /\ RemoveAt(s, i) \in Seq(S)
           /\ Len(RemoveAt(s, i)) = Len(s) - 1
           /\ \A j \in 1 .. Len(s) - 1 :
                 RemoveAt(s, i)[j] = IF j < i THEN s[j] ELSE s[j + 1]
<1> DEFINE a == SubSeq(s, 1, i - 1)
           b == SubSeq(s, i + 1, Len(s))
<1>1. Len(s) \in Nat /\ i \in Nat /\ i >= 1 /\ i <= Len(s)
  BY LenProperties
<1>2. /\ a \in Seq(S) /\ Len(a) = i - 1
      /\ \A j \in 1 .. i - 1 : a[j] = s[j]
  <2>1. \A j \in 1 .. i - 1 : s[j] \in S
    BY <1>1, ElementOfSeq
  <2>2. /\ a \in Seq(S) /\ Len(a) = IF 1 <= i - 1 THEN i - 1 - 1 + 1 ELSE 0
        /\ \A j \in 1 .. i - 1 - 1 + 1 : a[j] = s[1 + j - 1]
    BY <2>1, <1>1, SubSeqProperties
  <2> QED BY <2>2, <1>1
<1>3. /\ b \in Seq(S) /\ Len(b) = Len(s) - i
      /\ \A j \in 1 .. Len(s) - i : b[j] = s[i + j]
  <2>1. \A j \in i + 1 .. Len(s) : s[j] \in S
    BY <1>1, ElementOfSeq
  <2>2. /\ b \in Seq(S)
        /\ Len(b) = IF i + 1 <= Len(s) THEN Len(s) - (i + 1) + 1 ELSE 0
        /\ \A j \in 1 .. Len(s) - (i + 1) + 1 : b[j] = s[i + 1 + j - 1]
    BY <2>1, <1>1, SubSeqProperties
  <2> QED BY <2>2, <1>1
<1>4. /\ a \o b \in Seq(S)
      /\ Len(a \o b) = Len(a) + Len(b)
      /\ \A j \in 1 .. Len(a) + Len(b) :
            (a \o b)[j] = IF j <= Len(a) THEN a[j] ELSE b[j - Len(a)]
  BY <1>2, <1>3, ConcatProperties
<1> HIDE DEF a, b
<1>5. Len(a) + Len(b) = Len(s) - 1
  BY <1>1, <1>2, <1>3
<1>6. ASSUME NEW j \in 1 .. Len(s) - 1
      PROVE  (a \o b)[j] = IF j < i THEN s[j] ELSE s[j + 1]
  <2>1. CASE j < i
    BY <2>1, <1>1, <1>2, <1>4, <1>5
  <2>2. CASE ~(j < i)
    <3>1. j - (i - 1) \in 1 .. Len(s) - i /\ i + (j - (i - 1)) = j + 1
      BY <2>2, <1>1
    <3>2. (a \o b)[j] = b[j - (i - 1)]
      BY <2>2, <1>1, <1>2, <1>4, <1>5
    <3> QED BY <3>1, <3>2, <2>2, <1>3
  <2> QED BY <2>1, <2>2
<1>7. RemoveAt(s, i) = a \o b
  BY DEF RemoveAt, a, b
<1> QED BY <1>4, <1>5, <1>6, <1>7

-----------------------------------------------------------------------------
(* The inductive invariant *)

LEMMA OwnersFinite == IsFiniteSet(Owners) /\ Cardinality(Owners) \in Nat
<1>1. Owners \subseteq Tasks
  BY DEF Owners
<1> QED BY <1>1, TasksAssumption, FS_Subset, FS_CardinalityType

LEMMA InitIInv == Init => IInv
<1> SUFFICES ASSUME Init PROVE IInv
  OBVIOUS
<1> USE DEF Init
<1>1. TypeOK
  BY CapacityAssumption DEF TypeOK
<1>2. PermitsConserved
  <2>1. Owners = {}
    BY DEF Owners
  <2> QED BY <2>1, FS_EmptySet, CapacityAssumption DEF PermitsConserved
<1> QED BY <1>1, <1>2 DEF IInv, FuturesMatchTasks, DequeMatchesFutures, NoIdlePermit

LEMMA GiveBackKeepsIInv ==
    ASSUME IInv, NEW t \in Tasks, t \in Owners, GiveBack(t),
           task' = [task EXCEPT ![t] = "idle"],
           signal' \in [Tasks -> {"none", "timeout", "cancel"}],
           direct' = direct
    PROVE  IInv'
<1> USE DEF IInv
<1>1. fut[t] \in {"none", "granted"}
  BY DEF Owners, FuturesMatchTasks, TypeOK
<1>2. \A i \in DOMAIN waiters : waiters[i] \in Tasks /\ waiters[i] # t
  BY <1>1, ElementOfSeq, LenProperties DEF DequeMatchesFutures, TypeOK
<1>3. value \in Nat /\ Cardinality(Owners) \in Nat /\ IsFiniteSet(Owners)
  BY OwnersFinite DEF TypeOK
<1>4. CASE FreesPermit(t)
  <2> USE DEF FreesPermit
  <2>1. TypeOK'
    BY <1>4, EmptySeq DEF TypeOK
  <2>2. FuturesMatchTasks'
    BY <1>4 DEF FuturesMatchTasks, TypeOK
  <2>3. \A u \in Tasks : fut[u] # "pending"
    BY <1>4 DEF DequeMatchesFutures, Live
  <2>4. DequeMatchesFutures'
    BY <1>4, <2>3 DEF DequeMatchesFutures, TypeOK
  <2>5. NoIdlePermit'
    BY <1>4 DEF NoIdlePermit
  <2>6. PermitsConserved'
    <3>1. Owners' = Owners \ {t}
      BY <1>4 DEF Owners, TypeOK
    <3>2. Cardinality(Owners') = Cardinality(Owners) - 1
      BY <3>1, <1>3, FS_RemoveElement
    <3> QED BY <3>2, <1>3, <1>4 DEF PermitsConserved
  <2> QED BY <2>1, <2>2, <2>4, <2>5, <2>6
<1>5. CASE \E i \in DOMAIN waiters : HandsPermitTo(i, t)
  <2> PICK i \in DOMAIN waiters : HandsPermitTo(i, t)
    BY <1>5
  <2> DEFINE w == waiters[i]
  <2> USE DEF HandsPermitTo
  <2>1. /\ Len(waiters) \in Nat /\ DOMAIN waiters = 1 .. Len(waiters)
        /\ i \in 1 .. Len(waiters)
    BY LenProperties DEF TypeOK
  <2>2. w \in Tasks /\ w # t /\ fut[w] = "pending" /\ task[w] = "waiting"
    BY <1>2 DEF Live, FuturesMatchTasks
  <2>3. /\ waiters' \in Seq(Tasks)
        /\ Len(waiters') = Len(waiters) - i
        /\ \A j \in 1 .. Len(waiters) - i : waiters'[j] = waiters[i + j]
    <3>1. \A j \in i + 1 .. Len(waiters) : waiters[j] \in Tasks
      BY <1>2, <2>1
    <3>2. /\ waiters' \in Seq(Tasks)
          /\ Len(waiters') = IF i + 1 <= Len(waiters)
                             THEN Len(waiters) - (i + 1) + 1 ELSE 0
          /\ \A j \in 1 .. Len(waiters) - (i + 1) + 1 :
                waiters'[j] = waiters[i + 1 + j - 1]
      BY <3>1, <2>1, SubSeqProperties
    <3> QED BY <3>2, <2>1
  <2>4. DOMAIN waiters' = 1 .. Len(waiters) - i
    BY <2>3, LenProperties
  <2>5. \A u \in Tasks : u # w /\ u # t => fut'[u] = fut[u]
    OBVIOUS
  <2>6. fut'[w] = "granted" /\ fut'[t] = "none"
    BY <2>2
  <2>7. TypeOK'
    BY <2>3 DEF TypeOK
  <2>8. FuturesMatchTasks'
    BY <2>2, <2>5, <2>6 DEF FuturesMatchTasks, TypeOK
  <2>9. DequeMatchesFutures'
    <3>1. \A j \in DOMAIN waiters' :
             i + j \in DOMAIN waiters /\ i + j # i /\ waiters'[j] = waiters[i + j]
      BY <2>1, <2>3, <2>4
    <3>2. \A j, k \in DOMAIN waiters' : waiters'[j] = waiters'[k] => j = k
      <4> SUFFICES ASSUME NEW j \in DOMAIN waiters', NEW k \in DOMAIN waiters',
                          waiters'[j] = waiters'[k]
                   PROVE  j = k
        OBVIOUS
      <4>1. i + j = i + k
        BY <3>1 DEF DequeMatchesFutures
      <4> QED BY <4>1, <2>1, <2>4
    <3>3. \A j \in DOMAIN waiters' : fut'[waiters'[j]] \in {"pending", "cancelled"}
      <4> SUFFICES ASSUME NEW j \in DOMAIN waiters'
                   PROVE  fut'[waiters'[j]] \in {"pending", "cancelled"}
        OBVIOUS
      <4>1. waiters[i + j] # w
        BY <3>1 DEF DequeMatchesFutures
      <4> QED BY <4>1, <3>1, <1>2, <2>5 DEF DequeMatchesFutures
    <3>4. ASSUME NEW u \in Tasks, fut'[u] = "pending"
          PROVE  \E j \in DOMAIN waiters' : waiters'[j] = u
      <4>1. u # w /\ u # t /\ fut[u] = "pending"
        BY <3>4, <2>5, <2>6
      <4>2. PICK k \in DOMAIN waiters : waiters[k] = u
        BY <4>1 DEF DequeMatchesFutures
      <4>3. k \in Live
        BY <4>1, <4>2 DEF Live
      <4>4. i <= k /\ k # i
        BY <4>1, <4>2, <4>3
      <4>5. k - i \in 1 .. Len(waiters) - i /\ i + (k - i) = k
        BY <4>4, <2>1
      <4>6. waiters'[k - i] = u
        BY <4>5, <4>2, <2>3
      <4> QED BY <4>5, <4>6, <2>4
    <3> QED BY <3>2, <3>3, <3>4 DEF DequeMatchesFutures
  <2>10. NoIdlePermit'
    BY DEF NoIdlePermit
  <2>11. PermitsConserved'
    <3>1. w \notin Owners
      BY <2>2 DEF Owners
    <3>2. Owners' = (Owners \ {t}) \union {w}
      BY <2>2, <2>5, <2>6, <1>1 DEF Owners, TypeOK
    <3>3. IsFiniteSet(Owners \ {t}) /\ Cardinality(Owners \ {t}) = Cardinality(Owners) - 1
      BY <1>3, FS_RemoveElement
    <3>4. Cardinality(Owners') = Cardinality(Owners \ {t}) + 1
      BY <3>1, <3>2, <3>3, FS_AddElement
    <3> QED BY <3>3, <3>4, <1>3 DEF PermitsConserved
  <2> QED BY <2>7, <2>8, <2>9, <2>10, <2>11
<1> QED BY <1>4, <1>5, GiveBackCases

\* A step that leaves the permits and their owners alone keeps the account.
LEMMA SameOwners ==
    ASSUME IInv, UNCHANGED value, Owners' = Owners
    PROVE  PermitsConserved'
BY DEF IInv, PermitsConserved

LEMMA DiscardKeepsDeque ==
    ASSUME IInv, NEW t \in Tasks, fut[t] # "pending", Discard(t),
           fut' = [fut EXCEPT ![t] = "none"]
    PROVE  /\ waiters' \in Seq(Tasks)
           /\ DequeMatchesFutures'
           /\ waiters = <<>> => waiters' = <<>>
<1> USE DEF IInv
<1>1. /\ Len(waiters) \in Nat /\ DOMAIN waiters = 1 .. Len(waiters)
      /\ waiters \in Seq(Tasks)
  BY LenProperties DEF TypeOK
<1>2. \A i \in DOMAIN waiters : waiters[i] \in Tasks
  BY <1>1, ElementOfSeq
<1>3. CASE \E i \in DOMAIN waiters : waiters[i] = t
  <2> DEFINE k == CHOOSE i \in DOMAIN waiters : waiters[i] = t
  <2>1. k \in DOMAIN waiters /\ waiters[k] = t
    BY <1>3
  <2>2. waiters' = RemoveAt(waiters, k)
    BY <1>3 DEF Discard
  <2> HIDE DEF k
  <2>3. /\ waiters' \in Seq(Tasks)
        /\ Len(waiters') = Len(waiters) - 1
        /\ \A j \in 1 .. Len(waiters) - 1 :
              waiters'[j] = IF j < k THEN waiters[j] ELSE waiters[j + 1]
    BY <2>1, <2>2, <1>1, RemoveAtProperties
  <2>4. DOMAIN waiters' = 1 .. Len(waiters) - 1
    BY <2>3, LenProperties
  <2> DEFINE old(j) == IF j < k THEN j ELSE j + 1
  <2>5. ASSUME NEW j \in DOMAIN waiters'
        PROVE  /\ old(j) \in DOMAIN waiters /\ old(j) # k
               /\ waiters'[j] = waiters[old(j)]
    BY <2>1, <2>3, <2>4, <1>1
  <2>6. \A i, j \in DOMAIN waiters' : waiters'[i] = waiters'[j] => i = j
    <3> SUFFICES ASSUME NEW i \in DOMAIN waiters', NEW j \in DOMAIN waiters',
                        waiters'[i] = waiters'[j]
                 PROVE  i = j
      OBVIOUS
    <3>1. old(i) = old(j)
      BY <2>5 DEF DequeMatchesFutures
    <3> QED BY <3>1, <2>1, <2>4, <1>1
  <2>7. \A j \in DOMAIN waiters' : fut'[waiters'[j]] \in {"pending", "cancelled"}
    <3> SUFFICES ASSUME NEW j \in DOMAIN waiters'
                 PROVE  fut'[waiters'[j]] \in {"pending", "cancelled"}
      OBVIOUS
    <3>1. waiters[old(j)] # t
      BY <2>1, <2>5 DEF DequeMatchesFutures
    <3> HIDE DEF old
    <3> QED BY <3>1, <2>5, <1>2 DEF DequeMatchesFutures, TypeOK
  <2>8. ASSUME NEW u \in Tasks, fut'[u] = "pending"
        PROVE  \E j \in DOMAIN waiters' : waiters'[j] = u
    <3>1. u # t /\ fut[u] = "pending"
      BY <2>8 DEF TypeOK
    <3>2. PICK i \in DOMAIN waiters : waiters[i] = u
      BY <3>1 DEF DequeMatchesFutures
    <3>3. i # k
      BY <3>1, <3>2, <2>1
    <3>4. CASE i < k
      BY <3>4, <3>2, <2>1, <2>3, <2>4, <1>1
    <3>5. CASE i > k
      <4>1. i - 1 \in 1 .. Len(waiters) - 1 /\ ~(i - 1 < k) /\ i - 1 + 1 = i
        BY <3>5, <2>1, <1>1
      <4> QED BY <4>1, <3>2, <2>3, <2>4
    <3> QED BY <3>3, <3>4, <3>5, <2>1, <1>1
  <2> QED BY <2>3, <2>6, <2>7, <2>8, <1>3 DEF DequeMatchesFutures
<1>4. CASE ~ \E i \in DOMAIN waiters : waiters[i] = t
  <2>1. waiters' = waiters
    BY <1>4 DEF Discard
  <2>2. \A u \in Tasks : u # t => fut'[u] = fut[u]
    BY DEF TypeOK
  <2>3. fut'[t] = "none"
    BY DEF TypeOK
  <2> QED BY <2>1, <2>2, <2>3, <1>1, <1>2, <1>4 DEF DequeMatchesFutures
<1> QED BY <1>3, <1>4

LEMMA AcquireWaitKeepsDeque ==
    ASSUME IInv, NEW t \in Tasks, AcquireWait(t)
    PROVE  waiters' \in Seq(Tasks) /\ DequeMatchesFutures'
<1> USE DEF IInv, AcquireWait
<1>1. /\ Len(waiters) \in Nat /\ DOMAIN waiters = 1 .. Len(waiters)
      /\ waiters \in Seq(Tasks)
  BY LenProperties DEF TypeOK
<1>2. /\ waiters' \in Seq(Tasks)
      /\ Len(waiters') = Len(waiters) + 1
      /\ \A i \in 1 .. Len(waiters) : waiters'[i] = waiters[i]
      /\ waiters'[Len(waiters) + 1] = t
  BY <1>1, AppendProperties
<1>3. DOMAIN waiters' = DOMAIN waiters \union {Len(waiters) + 1}
  BY <1>1, <1>2, LenProperties
<1>4. \A i \in DOMAIN waiters : waiters[i] \in Tasks /\ waiters[i] # t
  BY <1>1, ElementOfSeq DEF FuturesMatchTasks, DequeMatchesFutures, TypeOK
<1>5. fut'[t] = "pending" /\ \A u \in Tasks : u # t => fut'[u] = fut[u]
  BY DEF TypeOK
<1>6. \A i, j \in DOMAIN waiters' : waiters'[i] = waiters'[j] => i = j
  BY <1>1, <1>2, <1>3, <1>4 DEF DequeMatchesFutures
<1>7. \A i \in DOMAIN waiters' : fut'[waiters'[i]] \in {"pending", "cancelled"}
  BY <1>1, <1>2, <1>3, <1>4, <1>5 DEF DequeMatchesFutures
<1>8. \A u \in Tasks : fut'[u] = "pending" => \E i \in DOMAIN waiters' : waiters'[i] = u
  BY <1>1, <1>2, <1>3, <1>5 DEF DequeMatchesFutures
<1> QED BY <1>2, <1>6, <1>7, <1>8 DEF DequeMatchesFutures

LEMMA NextKeepsIInv == IInv /\ [Next]_vars => IInv'
<1> SUFFICES ASSUME IInv, [Next]_vars PROVE IInv'
  OBVIOUS
<1>0. TypeOK /\ FuturesMatchTasks /\ DequeMatchesFutures /\ NoIdlePermit
  BY DEF IInv
<1>1. ASSUME NEW t \in Tasks, AcquireNow(t) PROVE IInv'
  <2> USE DEF AcquireNow
  <2>1. TypeOK' /\ FuturesMatchTasks'
    BY <1>0, <1>1 DEF TypeOK, FuturesMatchTasks
  <2>2. DequeMatchesFutures' /\ NoIdlePermit'
    BY <1>0, <1>1 DEF DequeMatchesFutures, NoIdlePermit
  <2>3. PermitsConserved'
    <3>1. Owners' = Owners \union {t} /\ t \notin Owners
      BY <1>0, <1>1 DEF Owners, TypeOK, FuturesMatchTasks
    <3>2. Cardinality(Owners') = Cardinality(Owners) + 1
      BY <3>1, OwnersFinite, FS_AddElement
    <3>3. value \in Nat /\ value > 0 /\ value' = value - 1
      BY <1>0, <1>1 DEF TypeOK
    <3> QED BY <3>2, <3>3, OwnersFinite DEF IInv, PermitsConserved
  <2> QED BY <2>1, <2>2, <2>3 DEF IInv
<1>2. ASSUME NEW t \in Tasks, AcquireWait(t) PROVE IInv'
  <2>1. waiters' \in Seq(Tasks) /\ DequeMatchesFutures'
    BY <1>2, AcquireWaitKeepsDeque
  <2> USE DEF AcquireWait
  <2>2. TypeOK' /\ FuturesMatchTasks'
    BY <1>0, <1>2, <2>1 DEF TypeOK, FuturesMatchTasks
  <2>3. NoIdlePermit'
    BY <1>0, <1>2 DEF NoIdlePermit
  <2>4. Owners' = Owners
    BY <1>0, <1>2 DEF Owners, TypeOK, FuturesMatchTasks
  <2> QED BY <1>2, <2>1, <2>2, <2>3, <2>4, SameOwners DEF IInv
<1>3. ASSUME NEW t \in Tasks, Release(t) PROVE IInv'
  <2>1. t \in Owners
    BY <1>3 DEF Release, Owners
  <2> QED BY <1>0, <1>3, <2>1, GiveBackKeepsIInv DEF Release, TypeOK
<1>4. ASSUME NEW t \in Tasks, NEW s \in {"timeout", "cancel"}, Interrupt(t, s)
      PROVE IInv'
  <2> USE DEF Interrupt
  <2>1. TypeOK' /\ FuturesMatchTasks'
    BY <1>0, <1>4 DEF TypeOK, FuturesMatchTasks
  <2>2. /\ \A u \in Tasks : fut'[u] = "pending" => fut[u] = "pending"
        /\ \A u \in Tasks : fut[u] \in {"pending", "cancelled"}
                             => fut'[u] \in {"pending", "cancelled"}
    BY <1>0, <1>4 DEF TypeOK
  <2>3. \A i \in DOMAIN waiters : waiters[i] \in Tasks
    BY <1>0, ElementOfSeq, LenProperties DEF TypeOK
  <2>4. DequeMatchesFutures' /\ NoIdlePermit'
    BY <1>0, <1>4, <2>2, <2>3 DEF DequeMatchesFutures, NoIdlePermit
  <2>5. Owners' = Owners
    BY <1>0, <1>4 DEF Owners, TypeOK
  <2> QED BY <1>4, <2>1, <2>4, <2>5, SameOwners DEF IInv
<1>5. ASSUME NEW t \in Tasks, ReturnGranted(t) PROVE IInv'
  <2> USE DEF ReturnGranted, Ends
  <2>1. TypeOK' /\ FuturesMatchTasks'
    BY <1>0, <1>5 DEF TypeOK, FuturesMatchTasks
  <2>2. \A i \in DOMAIN waiters : waiters[i] \in Tasks /\ waiters[i] # t
    BY <1>0, <1>5, ElementOfSeq, LenProperties DEF TypeOK, DequeMatchesFutures
  <2>3. DequeMatchesFutures' /\ NoIdlePermit'
    BY <1>0, <1>5, <2>2 DEF DequeMatchesFutures, NoIdlePermit, TypeOK
  <2>4. Owners' = Owners
    BY <1>0, <1>5 DEF Owners, TypeOK
  <2> QED BY <1>5, <2>1, <2>3, <2>4, SameOwners DEF IInv
<1>6. ASSUME NEW t \in Tasks, HandBack(t) PROVE IInv'
  <2>1. t \in Owners
    BY <1>6 DEF HandBack, Owners
  <2> QED BY <1>0, <1>6, <2>1, GiveBackKeepsIInv DEF HandBack, Ends, TypeOK
<1>7. ASSUME NEW t \in Tasks, CancelFuture(t) PROVE IInv'
  <2> USE DEF CancelFuture
  <2>1. TypeOK' /\ FuturesMatchTasks'
    BY <1>0, <1>7 DEF TypeOK, FuturesMatchTasks
  <2>2. \A i \in DOMAIN waiters : waiters[i] \in Tasks
    BY <1>0, ElementOfSeq, LenProperties DEF TypeOK
  <2>3. DequeMatchesFutures' /\ NoIdlePermit'
    BY <1>0, <1>7, <2>2 DEF DequeMatchesFutures, NoIdlePermit, TypeOK
  <2>4. Owners' = Owners
    BY <1>0, <1>7 DEF Owners, TypeOK
  <2> QED BY <1>7, <2>1, <2>3, <2>4, SameOwners DEF IInv
<1>8. ASSUME NEW t \in Tasks, RaiseOut(t) PROVE IInv'
  <2> USE DEF RaiseOut, Ends
  <2>1. /\ waiters' \in Seq(Tasks)
        /\ DequeMatchesFutures'
        /\ waiters = <<>> => waiters' = <<>>
    BY <1>0, <1>8, DiscardKeepsDeque
  <2>2. TypeOK' /\ FuturesMatchTasks'
    BY <1>0, <1>8, <2>1 DEF TypeOK, FuturesMatchTasks
  <2>3. NoIdlePermit'
    BY <1>0, <1>8, <2>1 DEF NoIdlePermit
  <2>4. Owners' = Owners
    BY <1>0, <1>8 DEF Owners, TypeOK
  <2> QED BY <1>8, <2>1, <2>2, <2>3, <2>4, SameOwners DEF IInv
<1>9. ASSUME FailAll PROVE IInv'
  <2> USE DEF FailAll
  <2>1. \A t \in Tasks : fut[t] = "pending" <=> \E i \in Live : waiters[i] = t
    BY <1>0 DEF DequeMatchesFutures, Live
  <2>2. fut' = [t \in Tasks |-> IF fut[t] = "pending" THEN "failed" ELSE fut[t]]
    BY <1>9, <2>1
  <2>3. TypeOK' /\ FuturesMatchTasks'
    BY <1>0, <1>9, <2>2, EmptySeq DEF TypeOK, FuturesMatchTasks
  <2>4. DequeMatchesFutures' /\ NoIdlePermit'
    BY <1>9, <2>2 DEF DequeMatchesFutures, NoIdlePermit
  <2>5. Owners' = Owners
    BY <1>9, <2>2 DEF Owners
  <2> QED BY <1>9, <2>3, <2>4, <2>5, SameOwners DEF IInv
<1>10. CASE UNCHANGED vars
  BY <1>0, <1>10 DEF vars, IInv, TypeOK, FuturesMatchTasks, DequeMatchesFutures,
                     NoIdlePermit, PermitsConserved, Owners
<1> QED
  BY <1>1, <1>2, <1>3, <1>4, <1>5, <1>6, <1>7, <1>8, <1>9, <1>10
  DEF Next, TaskStep, Resume, TimerFires, CancelTask

LEMMA InvariantHolds == Spec => []IInv
BY InitIInv, NextKeepsIInv, PTL DEF Spec

-----------------------------------------------------------------------------
(* The theorems *)

\* The state of the semaphore keeps its types.
THEOREM TypeCorrect == Spec => []TypeOK
<1>1. IInv => TypeOK
  BY DEF IInv
<1> QED BY <1>1, InvariantHolds, PTL

\* No permit is lost or made up by a timeout, a cancellation, a shutdown or a
\* hand-back, for any number of tasks and permits.
THEOREM PermitsAreConserved == Spec => []PermitsConserved
<1>1. IInv => PermitsConserved
  BY DEF IInv
<1> QED BY <1>1, InvariantHolds, PTL

\* No queued task waits next to a free permit.
THEOREM NoPermitIdles == Spec => []NoIdlePermit
<1>1. IInv => NoIdlePermit
  BY DEF IInv
<1> QED BY <1>1, InvariantHolds, PTL

\* The deque holds each pending future once and no granted or failed one.
THEOREM DequeIsSound == Spec => []DequeMatchesFutures
<1>1. IInv => DequeMatchesFutures
  BY DEF IInv
<1> QED BY <1>1, InvariantHolds, PTL

\* The first pending future is the one that gets a permit given back.
LEMMA GiveBackServesFirst ==
    ASSUME IInv, NEW x \in Tasks, x \in Owners, GiveBack(x),
           NEW t \in Tasks, NEW u \in Tasks, Ahead(t, u)
    PROVE  fut'[u] # "granted"
<1> USE DEF IInv
<1>1. PICK i, j \in Live : i < j /\ waiters[i] = t /\ waiters[j] = u
  BY DEF Ahead
<1>2. /\ i \in Nat /\ j \in Nat /\ i \in DOMAIN waiters /\ j \in DOMAIN waiters
      /\ fut[u] = "pending" /\ Live # {}
  BY <1>1, LenProperties DEF Live, TypeOK
<1>3. x # u
  BY <1>2 DEF Owners, FuturesMatchTasks
<1>4. PICK k \in DOMAIN waiters : HandsPermitTo(k, x)
  BY <1>2, GiveBackCases DEF FreesPermit
<1>5. k # j
  <2>1. k \in Nat /\ k <= i
    BY <1>1, <1>4, LenProperties DEF HandsPermitTo, TypeOK
  <2> QED BY <2>1, <1>1, <1>2
<1>6. waiters[k] # u
  BY <1>5, <1>2, <1>1 DEF DequeMatchesFutures
<1>7. fut'[u] = fut[u]
  BY <1>3, <1>4, <1>6 DEF HandsPermitTo
<1> QED BY <1>2, <1>7

LEMMA NextServesInOrder ==
    ASSUME IInv, Next
    PROVE  /\ \A t, u \in Tasks :
                 Ahead(t, u) /\ fut'[u] = "granted" => fut'[t] # "pending"
           /\ \A t \in Tasks :
                 task[t] = "idle" /\ task'[t] = "holding" => Live = {}
<1>0. TypeOK /\ FuturesMatchTasks
  BY DEF IInv
<1>1. ASSUME NEW t \in Tasks, NEW u \in Tasks, Ahead(t, u)
      PROVE  fut'[u] # "granted"
  <2>1. fut[u] = "pending"
    BY <1>1 DEF Ahead, Live
  <2>2. ASSUME NEW x \in Tasks, Release(x) \/ HandBack(x)
        PROVE  fut'[u] # "granted"
    <3>1. x \in Owners /\ GiveBack(x)
      BY <2>2 DEF Release, HandBack, Owners
    <3> QED BY <3>1, <1>1, GiveBackServesFirst
  <2>3. ASSUME NEW x \in Tasks, TaskStep(x), ~Release(x), ~HandBack(x)
        PROVE  fut'[u] # "granted"
    BY <2>1, <2>3, <1>0 DEF TaskStep, Resume, AcquireNow, AcquireWait, TimerFires,
       CancelTask, Interrupt, ReturnGranted, CancelFuture, RaiseOut, TypeOK
  <2>4. CASE FailAll
    BY <2>1, <2>4 DEF FailAll
  <2> QED BY <2>2, <2>3, <2>4 DEF Next
<1>2. ASSUME NEW t \in Tasks, task[t] = "idle", task'[t] = "holding"
      PROVE  Live = {}
  <2>1. ASSUME NEW x \in Tasks, TaskStep(x), ~AcquireNow(x) PROVE FALSE
    BY <2>1, <1>2, <1>0 DEF TaskStep, Resume, AcquireWait, TimerFires, Release,
       CancelTask, Interrupt, ReturnGranted, HandBack, CancelFuture, RaiseOut,
       Ends, TypeOK
  <2>2. CASE FailAll
    BY <2>2, <1>2 DEF FailAll
  <2>3. ASSUME NEW x \in Tasks, AcquireNow(x) PROVE Live = {}
    BY <2>3 DEF AcquireNow, Live
  <2> QED BY <2>1, <2>2, <2>3 DEF Next
<1> QED BY <1>1, <1>2

\* Permits go out strictly in arrival order: no overtaking, no barging.
THEOREM ServedInArrivalOrder == Spec => ArrivalOrder
<1> DEFINE InOrder ==
      /\ \A t, u \in Tasks :
            Ahead(t, u) /\ fut'[u] = "granted" => fut'[t] # "pending"
      /\ \A t \in Tasks :
            task[t] = "idle" /\ task'[t] = "holding" => Live = {}
<1>1. IInv /\ [Next]_vars => [InOrder]_vars
  BY NextServesInOrder
<1>2. ArrivalOrder <=> [][InOrder]_vars
  BY PTL DEF ArrivalOrder
<1> HIDE DEF InOrder
<1> QED BY <1>1, <1>2, InvariantHolds, PTL DEF Spec

-----------------------------------------------------------------------------
(* The semaphore implements FifoPermits *)

\* Whatever the deque loses, those that stay in it keep their order: e says
\* where each future of the new deque stood in the old one.
LEMMA ShrunkDequeKeepsOrder ==
    ASSUME TypeOK, DequeMatchesFutures, NEW e,
           \A j \in DOMAIN waiters' : /\ e[j] \in DOMAIN waiters
                                      /\ waiters'[j] = waiters[e[j]],
           \A i, j \in DOMAIN waiters' : i < j <=> e[i] < e[j],
           Pending' \subseteq Pending,
           \A i \in Live : waiters[i] \in Pending' => \E j \in DOMAIN waiters' : e[j] = i
    PROVE  DequeOrder' = DequeOrder \intersect (Pending' \X Pending')
<1>1. \A i \in DOMAIN waiters : waiters[i] \in Tasks
  BY ElementOfSeq, LenProperties DEF TypeOK
<1>2. \A j \in DOMAIN waiters' : j \in Live' <=> waiters[e[j]] \in Pending'
  BY <1>1 DEF Live, Pending
<1>3. \A j \in Live' : e[j] \in Live /\ waiters[e[j]] \in Pending' /\ j \in DOMAIN waiters'
                       /\ waiters'[j] = waiters[e[j]]
  BY <1>1, <1>2 DEF Live, Pending
<1>4. ASSUME NEW t \in Tasks, NEW u \in Tasks
      PROVE  Ahead(t, u)' <=> Ahead(t, u) /\ t \in Pending' /\ u \in Pending'
  <2>1. ASSUME Ahead(t, u)' PROVE Ahead(t, u) /\ t \in Pending' /\ u \in Pending'
    <3>1. PICK i, j \in Live' : i < j /\ waiters'[i] = t /\ waiters'[j] = u
      BY <2>1 DEF Ahead
    <3>2. /\ e[i] \in Live /\ e[j] \in Live /\ e[i] < e[j]
          /\ waiters[e[i]] = t /\ waiters[e[j]] = u
      BY <3>1, <1>3
    <3>3. t \in Pending' /\ u \in Pending'
      BY <3>1, <1>3
    <3> QED BY <3>2, <3>3 DEF Ahead
  <2>2. ASSUME Ahead(t, u), t \in Pending', u \in Pending' PROVE Ahead(t, u)'
    <3>1. PICK i, j \in Live : i < j /\ waiters[i] = t /\ waiters[j] = u
      BY <2>2 DEF Ahead
    <3>2. PICK k \in DOMAIN waiters' : e[k] = i
      BY <3>1, <2>2
    <3>3. PICK l \in DOMAIN waiters' : e[l] = j
      BY <3>1, <2>2
    <3>4. k \in Live' /\ l \in Live' /\ k < l /\ waiters'[k] = t /\ waiters'[l] = u
      BY <3>1, <3>2, <3>3, <2>2, <1>2
    <3> QED BY <3>4 DEF Ahead
  <2> QED BY <2>1, <2>2
<1> QED BY <1>4 DEF DequeOrder

\* The deque itself is left alone.
LEMMA SameDequeKeepsOrder ==
    ASSUME TypeOK, DequeMatchesFutures, UNCHANGED waiters, Pending' \subseteq Pending
    PROVE  DequeOrder' = DequeOrder \intersect (Pending' \X Pending')
<1> DEFINE e == [i \in DOMAIN waiters |-> i]
<1>1. \A j \in DOMAIN waiters' : e[j] = j
  OBVIOUS
<1>2. \A i \in Live : i \in DOMAIN waiters'
  BY DEF Live
<1> HIDE DEF e
<1> QED BY <1>1, <1>2, ShrunkDequeKeepsOrder

\* Both ends of a pair wait.
LEMMA OrderIsOfPending ==
    ASSUME TypeOK
    PROVE  DequeOrder \subseteq Pending \X Pending
<1>1. \A t, u \in Tasks : Ahead(t, u) => t \in Pending /\ u \in Pending
  BY DEF Ahead, Live, Pending
<1> QED BY <1>1 DEF DequeOrder

LEMMA RaiseOutKeepsOrder ==
    ASSUME IInv, NEW t \in Tasks, RaiseOut(t)
    PROVE  UNCHANGED <<Pending, DequeOrder, Owners>>
<1> USE DEF IInv
<1>1. /\ fut[t] \in {"failed", "cancelled"} /\ fut' = [fut EXCEPT ![t] = "none"]
      /\ task[t] = "waiting" /\ task' = [task EXCEPT ![t] = "idle"]
      /\ Discard(t)
  BY DEF RaiseOut, Ends
<1>2. Pending' = Pending /\ Owners' = Owners
  BY <1>1 DEF Pending, Owners, TypeOK
<1>3. /\ Len(waiters) \in Nat /\ DOMAIN waiters = 1 .. Len(waiters)
      /\ waiters \in Seq(Tasks)
  BY LenProperties DEF TypeOK
<1>4. DequeOrder' = DequeOrder \intersect (Pending' \X Pending')
  <2>1. CASE \E i \in DOMAIN waiters : waiters[i] = t
    <3> DEFINE k == CHOOSE i \in DOMAIN waiters : waiters[i] = t
    <3>1. k \in DOMAIN waiters /\ waiters[k] = t
      BY <2>1
    <3>2. waiters' = RemoveAt(waiters, k)
      BY <2>1, <1>1 DEF Discard
    <3> HIDE DEF k
    <3>3. /\ waiters' \in Seq(Tasks)
          /\ Len(waiters') = Len(waiters) - 1
          /\ \A j \in 1 .. Len(waiters) - 1 :
                waiters'[j] = IF j < k THEN waiters[j] ELSE waiters[j + 1]
      BY <3>1, <3>2, <1>3, RemoveAtProperties
    <3>4. DOMAIN waiters' = 1 .. Len(waiters) - 1
      BY <3>3, LenProperties
    <3> DEFINE e == [j \in 1 .. Len(waiters) - 1 |-> IF j < k THEN j ELSE j + 1]
    <3>5. \A j \in DOMAIN waiters' : /\ e[j] \in DOMAIN waiters
                                     /\ waiters'[j] = waiters[e[j]]
      BY <3>1, <3>3, <3>4, <1>3
    <3>6. \A i, j \in DOMAIN waiters' : i < j <=> e[i] < e[j]
      BY <3>1, <3>4, <1>3
    <3>7. ASSUME NEW i \in Live PROVE \E j \in DOMAIN waiters' : e[j] = i
      <4>1. i \in 1 .. Len(waiters) /\ i # k
        BY <3>1, <1>1, <1>3 DEF Live
      <4>2. CASE i < k
        BY <4>1, <4>2, <3>1, <3>4, <1>3
      <4>3. CASE i > k
        <5>1. i - 1 \in 1 .. Len(waiters) - 1 /\ ~(i - 1 < k) /\ i - 1 + 1 = i
          BY <4>1, <4>3, <3>1, <1>3
        <5> QED BY <5>1, <3>4
      <4> QED BY <4>1, <4>2, <4>3, <3>1, <1>3
    <3> HIDE DEF e
    <3> QED BY <3>5, <3>6, <3>7, <1>2, ShrunkDequeKeepsOrder
  <2>2. CASE ~ \E i \in DOMAIN waiters : waiters[i] = t
    <3>1. waiters' = waiters
      BY <2>2, <1>1 DEF Discard
    <3> QED BY <3>1, <1>2, SameDequeKeepsOrder
  <2> QED BY <2>1, <2>2
<1>5. DequeOrder \subseteq Pending \X Pending
  BY OrderIsOfPending
<1> QED BY <1>2, <1>4, <1>5

\* A future that is cancelled takes its task out of the line.
LEMMA CancelledGivesUp ==
    ASSUME IInv, NEW t \in Tasks, fut[t] = "pending", fut' = [fut EXCEPT ![t] = "cancelled"],
           UNCHANGED <<waiters, task>>
    PROVE  Fifo!GiveUp(t)
<1> USE DEF IInv
<1>1. t \in Pending /\ Pending' = Pending \ {t}
  BY DEF Pending, TypeOK
<1>2. Owners' = Owners
  BY DEF Owners, TypeOK
<1>3. DequeOrder' = DequeOrder \intersect (Pending' \X Pending')
  BY <1>1, SameDequeKeepsOrder
<1> QED BY <1>1, <1>2, <1>3 DEF Fifo!GiveUp, Fifo!StepsOut

\* release() serves the head of the line.
LEMMA GiveBackLeaves ==
    ASSUME IInv, NEW t \in Tasks, t \in Owners, GiveBack(t),
           task' = [task EXCEPT ![t] = "idle"]
    PROVE  Fifo!Leave(t)
<1> USE DEF IInv
<1>1. /\ Len(waiters) \in Nat /\ DOMAIN waiters = 1 .. Len(waiters)
      /\ waiters \in Seq(Tasks)
      /\ \A i \in DOMAIN waiters : waiters[i] \in Tasks
  BY LenProperties, ElementOfSeq DEF TypeOK
<1>2. fut[t] # "pending"
  BY DEF Owners, FuturesMatchTasks
<1>3. CASE FreesPermit(t)
  <2>1. Pending = {} /\ Pending' = {}
    BY <1>3 DEF FreesPermit, Pending, Live, DequeMatchesFutures, TypeOK
  <2>2. DequeOrder = {} /\ DequeOrder' = {}
    <3>1. Live = {} /\ Live' = {}
      BY <1>3 DEF FreesPermit, Live
    <3> QED BY <3>1 DEF DequeOrder, Ahead
  <2>3. Owners' = Owners \ {t}
    BY <1>3 DEF FreesPermit, Owners, TypeOK
  <2> QED BY <2>1, <2>2, <2>3 DEF Fifo!Leave
<1>4. ASSUME NEW i \in DOMAIN waiters, HandsPermitTo(i, t) PROVE Fifo!Leave(t)
  <2> DEFINE w == waiters[i]
  <2>1. /\ w \in Tasks /\ w # t /\ fut[w] = "pending" /\ task[w] = "waiting"
        /\ fut'[w] = "granted" /\ fut'[t] = "none"
        /\ \A u \in Tasks \ {w, t} : fut'[u] = fut[u]
    BY <1>1, <1>2, <1>4 DEF HandsPermitTo, Live, FuturesMatchTasks
  <2>2. w \in Pending /\ Pending' = Pending \ {w}
    BY <2>1, <1>2 DEF Pending
  <2>3. Owners' = (Owners \ {t}) \union {w}
    BY <2>1 DEF Owners, TypeOK
  <2>4. ASSUME NEW d \in Pending \ {w} PROVE <<w, d>> \in DequeOrder
    <3>1. PICK j \in DOMAIN waiters : waiters[j] = d
      BY DEF Pending, DequeMatchesFutures
    <3>2. i \in Live /\ j \in Live /\ i <= j
      BY <3>1, <1>4 DEF HandsPermitTo, Live, Pending
    <3>3. i < j
      <4>1. i # j
        BY <3>1
      <4> QED BY <4>1, <3>2, <1>1
    <3>4. Ahead(w, d) /\ d \in Tasks
      BY <3>1, <3>2, <3>3 DEF Ahead, Pending
    <3> QED BY <3>4, <2>1 DEF DequeOrder
  <2>5. DequeOrder' = DequeOrder \intersect (Pending' \X Pending')
    <3> DEFINE n == Len(waiters) - i
               e == [j \in 1 .. n |-> j + i]
    <3>1. waiters' = SubSeq(waiters, i + 1, Len(waiters))
      BY <1>4 DEF HandsPermitTo
    <3>2. i \in Nat /\ i >= 1 /\ i <= Len(waiters) /\ n \in Nat
      BY <1>1
    <3>3. /\ Len(waiters') = IF i + 1 <= Len(waiters) THEN Len(waiters) - (i + 1) + 1 ELSE 0
          /\ waiters' \in Seq(Tasks)
          /\ \A j \in 1 .. Len(waiters) - (i + 1) + 1 : waiters'[j] = waiters[i + 1 + j - 1]
      <4>1. \A j \in i + 1 .. Len(waiters) : waiters[j] \in Tasks
        BY <1>1, <3>2
      <4> QED BY <4>1, <3>1, <3>2, <1>1, SubSeqProperties
    <3>4. DOMAIN waiters' = 1 .. n /\ \A j \in 1 .. n : waiters'[j] = waiters[j + i]
      <4>1. Len(waiters') = n
        BY <3>2, <3>3, <1>1
      <4>2. DOMAIN waiters' = 1 .. n
        BY <4>1, <3>3, LenProperties
      <4>3. \A j \in 1 .. n : i + 1 + j - 1 = j + i /\ j \in 1 .. Len(waiters) - (i + 1) + 1
        BY <3>2, <1>1
      <4> QED BY <4>2, <4>3, <3>3
    <3>5. \A j \in DOMAIN waiters' : /\ e[j] \in DOMAIN waiters
                                     /\ waiters'[j] = waiters[e[j]]
      BY <3>2, <3>4, <1>1
    <3>6. \A j, k \in DOMAIN waiters' : j < k <=> e[j] < e[k]
      BY <3>2, <3>4
    <3>7. ASSUME NEW k \in Live, waiters[k] \in Pending'
          PROVE  \E j \in DOMAIN waiters' : e[j] = k
      <4>1. k # i /\ i <= k /\ k \in 1 .. Len(waiters)
        BY <3>7, <2>2, <1>1, <1>4 DEF HandsPermitTo, Live
      <4>2. k - i \in 1 .. n /\ k - i + i = k
        BY <4>1, <3>2, <1>1
      <4> QED BY <4>2, <3>4
    <3> HIDE DEF e, n
    <3> QED BY <2>2, <3>5, <3>6, <3>7, ShrunkDequeKeepsOrder
  <2> HIDE DEF w
  <2> QED BY <2>2, <2>3, <2>4, <2>5 DEF Fifo!Leave, Fifo!FirstInLine, Fifo!StepsOut
<1> QED BY <1>3, <1>4, GiveBackCases

\* The instance counts as this module does.
LEMMA FifoCounts ==
    ASSUME NEW S
    PROVE  Fifo!Cardinality(S) = Cardinality(S)
BY Zenon DEF Fifo!Cardinality, Cardinality

LEMMA AcquireWaitStandsInLine ==
    ASSUME IInv, NEW t \in Tasks, AcquireWait(t)
    PROVE  Fifo!StandInLine(t)
<1> USE DEF IInv, AcquireWait
<1>1. /\ Len(waiters) \in Nat /\ DOMAIN waiters = 1 .. Len(waiters)
      /\ waiters \in Seq(Tasks)
      /\ \A i \in DOMAIN waiters : waiters[i] \in Tasks
  BY LenProperties, ElementOfSeq DEF TypeOK
<1>2. /\ waiters' \in Seq(Tasks)
      /\ Len(waiters') = Len(waiters) + 1
      /\ \A i \in 1 .. Len(waiters) : waiters'[i] = waiters[i]
      /\ waiters'[Len(waiters) + 1] = t
  BY <1>1, AppendProperties
<1> DEFINE n == Len(waiters) + 1
<1>3. DOMAIN waiters' = DOMAIN waiters \union {n} /\ n \in Nat /\ n \notin DOMAIN waiters
  BY <1>1, <1>2, LenProperties
<1>4. /\ fut[t] = "none" /\ fut'[t] = "pending"
      /\ \A u \in Tasks \ {t} : fut'[u] = fut[u]
      /\ task[t] = "idle" /\ task'[t] = "waiting"
      /\ \A u \in Tasks \ {t} : task'[u] = task[u]
  BY DEF FuturesMatchTasks, TypeOK
<1>5. t \notin Owners /\ t \notin Pending
  BY <1>4 DEF Owners, Pending
<1>6. Pending' = Pending \union {t} /\ Owners' = Owners
  BY <1>4 DEF Pending, Owners
<1>7. Cardinality(Owners) = Capacity
  <2>1. value \in Nat /\ value + Cardinality(Owners) = Capacity
    BY DEF PermitsConserved, TypeOK
  <2>2. value = 0
    BY <2>1 DEF NoIdlePermit
  <2> QED BY <2>1, <2>2, OwnersFinite
<1>8. /\ \A i \in DOMAIN waiters : waiters[i] # t /\ waiters'[i] = waiters[i]
      /\ waiters'[n] = t
  BY <1>1, <1>2, <1>4 DEF DequeMatchesFutures
<1> HIDE DEF n
<1>9. Live' = Live \union {n}
  BY <1>1, <1>3, <1>4, <1>8 DEF Live
<1>10. \A i \in Live : i \in Nat /\ i < n /\ i \in DOMAIN waiters
  BY <1>1 DEF Live, n
<1>11. ASSUME NEW c \in Tasks, NEW d \in Tasks
       PROVE  Ahead(c, d)' <=> Ahead(c, d) \/ (c \in Pending /\ d = t)
  <2>1. ASSUME Ahead(c, d)' PROVE Ahead(c, d) \/ (c \in Pending /\ d = t)
    <3>1. PICK i, j \in Live' : i < j /\ waiters'[i] = c /\ waiters'[j] = d
      BY <2>1 DEF Ahead
    <3>2. i \in Live
      BY <3>1, <1>3, <1>9, <1>10
    <3>3. waiters[i] = c /\ c \in Pending
      BY <3>1, <3>2, <1>8, <1>10 DEF Live, Pending
    <3>4. CASE j = n
      BY <3>1, <3>3, <3>4, <1>8
    <3>5. CASE j # n
      <4>1. j \in Live
        BY <3>5, <1>9
      <4>2. waiters[j] = d
        BY <4>1, <3>1, <1>8, <1>10
      <4> QED BY <4>1, <4>2, <3>1, <3>2, <3>3 DEF Ahead
    <3> QED BY <3>4, <3>5
  <2>2. ASSUME Ahead(c, d) PROVE Ahead(c, d)'
    <3>1. PICK i, j \in Live : i < j /\ waiters[i] = c /\ waiters[j] = d
      BY <2>2 DEF Ahead
    <3>2. i \in Live' /\ j \in Live' /\ waiters'[i] = c /\ waiters'[j] = d
      BY <3>1, <1>8, <1>9, <1>10
    <3> QED BY <3>1, <3>2 DEF Ahead
  <2>3. ASSUME c \in Pending, d = t PROVE Ahead(c, d)'
    <3>1. PICK i \in DOMAIN waiters : waiters[i] = c
      BY <2>3 DEF Pending, DequeMatchesFutures
    <3>2. i \in Live
      BY <3>1, <2>3 DEF Live, Pending
    <3>3. /\ i \in Live' /\ n \in Live' /\ i < n
          /\ waiters'[i] = c /\ waiters'[n] = d
      BY <3>1, <3>2, <2>3, <1>8, <1>9, <1>10
    <3> QED BY <3>3 DEF Ahead
  <2> QED BY <2>1, <2>2, <2>3
<1>12. DequeOrder' = DequeOrder \union (Pending \X {t})
  <2>1. Pending \subseteq Tasks
    BY DEF Pending
  <2> QED BY <2>1, <1>11 DEF DequeOrder
<1> HIDE DEF IInv, AcquireWait
<1>13. Fifo!Outside(t)
  BY <1>5 DEF Fifo!Outside
<1> QED BY <1>6, <1>7, <1>12, <1>13, FifoCounts DEF Fifo!StandInLine

LEMMA SemaphoreStepIsFifoStep ==
    ASSUME IInv, [Next]_vars
    PROVE  [Fifo!Next]_Fifo!vars
<1>0. TypeOK /\ FuturesMatchTasks /\ DequeMatchesFutures /\ NoIdlePermit
  BY DEF IInv
<1> DEFINE Same == UNCHANGED <<Pending, DequeOrder, Owners>>
<1>1. ASSUME NEW t \in Tasks, AcquireNow(t) PROVE Fifo!Enter(t)
  <2>1. /\ task[t] = "idle" /\ fut[t] = "none" /\ task' = [task EXCEPT ![t] = "holding"]
        /\ UNCHANGED <<waiters, fut>>
    BY <1>0, <1>1 DEF AcquireNow, FuturesMatchTasks
  <2>2. t \notin Owners /\ t \notin Pending /\ Owners' = Owners \union {t}
    BY <1>0, <2>1 DEF Owners, Pending, TypeOK
  <2>3. Pending' = Pending /\ DequeOrder' = DequeOrder
    BY <2>1 DEF Pending, DequeOrder, Ahead, Live
  <2>4. Cardinality(Owners) < Capacity
    <3>1. value \in Nat /\ value > 0 /\ value + Cardinality(Owners) = Capacity
      BY <1>0, <1>1 DEF AcquireNow, TypeOK, IInv, PermitsConserved
    <3> QED BY <3>1, OwnersFinite
  <2>5. Fifo!Outside(t)
    BY <2>2 DEF Fifo!Outside
  <2> QED BY <2>2, <2>3, <2>4, <2>5, FifoCounts DEF Fifo!Enter
<1>2. ASSUME NEW t \in Tasks, AcquireWait(t) PROVE Fifo!StandInLine(t)
  BY <1>2, AcquireWaitStandsInLine
<1>3. ASSUME NEW t \in Tasks, Release(t) \/ HandBack(t) PROVE Fifo!Leave(t)
  <2>1. t \in Owners /\ GiveBack(t) /\ task' = [task EXCEPT ![t] = "idle"]
    BY <1>3 DEF Release, HandBack, Ends, Owners
  <2> QED BY <2>1, GiveBackLeaves
<1>4. ASSUME NEW t \in Tasks, NEW s \in {"timeout", "cancel"}, Interrupt(t, s)
      PROVE  Fifo!GiveUp(t) \/ Same
  <2>1. CASE direct /\ fut[t] = "pending"
    BY <2>1, <1>4, CancelledGivesUp DEF Interrupt
  <2>2. CASE ~(direct /\ fut[t] = "pending")
    BY <2>2, <1>4 DEF Interrupt, Pending, DequeOrder, Ahead, Live, Owners
  <2> QED BY <2>1, <2>2
<1>5. ASSUME NEW t \in Tasks, ReturnGranted(t) PROVE Same
  <2>1. /\ fut[t] = "granted" /\ fut' = [fut EXCEPT ![t] = "none"]
        /\ task' = [task EXCEPT ![t] = "holding"] /\ UNCHANGED waiters
    BY <1>5 DEF ReturnGranted, Ends
  <2>2. Pending' = Pending /\ Owners' = Owners
    BY <1>0, <2>1 DEF Pending, Owners, TypeOK
  <2>3. DequeOrder' = DequeOrder \intersect (Pending' \X Pending')
    BY <1>0, <2>1, <2>2, SameDequeKeepsOrder
  <2> QED BY <1>0, <2>2, <2>3, OrderIsOfPending
<1>6. ASSUME NEW t \in Tasks, CancelFuture(t) PROVE Fifo!GiveUp(t)
  BY <1>6, CancelledGivesUp DEF CancelFuture
<1>7. ASSUME NEW t \in Tasks, RaiseOut(t) PROVE Same
  BY <1>7, RaiseOutKeepsOrder
<1>8. ASSUME FailAll PROVE Fifo!TurnAwayAll
  <2>1. \A t \in Tasks : fut[t] = "pending" <=> \E i \in Live : waiters[i] = t
    BY <1>0 DEF DequeMatchesFutures, Live
  <2>2. fut' = [t \in Tasks |-> IF fut[t] = "pending" THEN "failed" ELSE fut[t]]
        /\ waiters' = <<>> /\ UNCHANGED task
    BY <1>8, <2>1 DEF FailAll
  <2>3. Pending' = {} /\ Owners' = Owners
    BY <2>2 DEF Pending, Owners
  <2>4. DequeOrder' = {}
    <3>1. Live' = {}
      BY <2>2 DEF Live
    <3> QED BY <3>1 DEF DequeOrder, Ahead
  <2> QED BY <2>3, <2>4 DEF Fifo!TurnAwayAll
<1>9. CASE UNCHANGED vars
  <2>1. Live' = Live
    BY <1>9 DEF vars, Live
  <2>2. DequeOrder' = DequeOrder
    BY <1>9, <2>1 DEF vars, DequeOrder, Ahead
  <2>3. Pending' = Pending /\ Owners' = Owners
    BY <1>9 DEF vars, Pending, Owners
  <2> QED BY <2>2, <2>3 DEF Fifo!vars
<1>10. ASSUME NEW t \in Tasks, TaskStep(t)
       PROVE  Fifo!Enter(t) \/ Fifo!StandInLine(t) \/ Fifo!GiveUp(t) \/ Fifo!Leave(t) \/ Same
  BY <1>1, <1>2, <1>3, <1>4, <1>5, <1>6, <1>7, <1>10
  DEF TaskStep, Resume, TimerFires, CancelTask
<1> QED BY <1>8, <1>9, <1>10 DEF Next, Fifo!Next, Fifo!vars

\* The semaphore implements its abstract specification: first come, first
\* served, and a permit given back is owned at once by the head of the line.
THEOREM SemaphoreIsFifo == Spec => ImplementsFifoPermits
<1>1. Init => Fifo!Init
  BY DEF Init, Fifo!Init, Pending, DequeOrder, Ahead, Live, Owners
<1>2. IInv /\ [Next]_vars => [Fifo!Next]_Fifo!vars
  BY SemaphoreStepIsFifoStep
<1> QED BY <1>1, <1>2, InvariantHolds, PTL DEF Spec, ImplementsFifoPermits, Fifo!Spec

-----------------------------------------------------------------------------
(* A place in the line *)

\* The waiters that stand before t.
AheadOf(t) == {u \in Tasks : Ahead(u, t)}

\* Some task gives up a permit it owns.
GivesBack == ~(Owners \subseteq Owners')

LEMMA FifoStepMovesUp ==
    ASSUME [Fifo!Next]_Fifo!vars, NEW t \in Tasks, t \in Pending, t \in Pending'
    PROVE  /\ AheadOf(t)' \subseteq AheadOf(t)
           /\ GivesBack => AheadOf(t)' # AheadOf(t)
<1>0. /\ \A u \in Tasks : u \in AheadOf(t) <=> <<u, t>> \in DequeOrder
      /\ \A u \in Tasks : u \in AheadOf(t)' <=> <<u, t>> \in DequeOrder'
      /\ AheadOf(t) \subseteq Tasks /\ AheadOf(t)' \subseteq Tasks
  BY DEF AheadOf, DequeOrder
<1>1. ASSUME NEW c \in Tasks, Fifo!Enter(c) \/ Fifo!GiveUp(c)
      PROVE  AheadOf(t)' \subseteq AheadOf(t) /\ ~GivesBack
  BY <1>0, <1>1 DEF Fifo!Enter, Fifo!GiveUp, Fifo!StepsOut, GivesBack
<1>2. ASSUME NEW c \in Tasks, Fifo!StandInLine(c)
      PROVE  AheadOf(t)' \subseteq AheadOf(t) /\ ~GivesBack
  <2>1. c # t
    BY <1>2 DEF Fifo!StandInLine, Fifo!Outside
  <2> QED BY <1>0, <1>2, <2>1 DEF Fifo!StandInLine, GivesBack
<1>3. ASSUME NEW c \in Tasks, Fifo!Leave(c)
      PROVE  AheadOf(t)' \subseteq AheadOf(t) /\ AheadOf(t)' # AheadOf(t)
  <2>1. PICK d \in Pending : Fifo!FirstInLine(d) /\ Fifo!StepsOut(d)
    BY <1>3 DEF Fifo!Leave
  <2>2. d \in Tasks /\ <<d, t>> \in DequeOrder /\ <<d, t>> \notin DequeOrder'
    BY <2>1 DEF Fifo!FirstInLine, Fifo!StepsOut, Pending
  <2>3. AheadOf(t)' \subseteq AheadOf(t)
    BY <1>0, <2>1 DEF Fifo!StepsOut
  <2> QED BY <1>0, <2>2, <2>3
<1>4. ~Fifo!TurnAwayAll
  BY DEF Fifo!TurnAwayAll
<1>5. CASE UNCHANGED Fifo!vars
  BY <1>0, <1>5 DEF Fifo!vars, GivesBack
<1> QED BY <1>1, <1>2, <1>3, <1>4, <1>5 DEF Fifo!Next

\* The measure behind NoStarvation, for any number of tasks: while a task
\* waits nobody ever gets in front of it, and each permit that is given back
\* takes away one of those who are.
THEOREM PlaceInLineAdvances ==
    Spec => [][\A t \in Tasks :
                  fut[t] = "pending" /\ fut'[t] = "pending" =>
                     /\ AheadOf(t)' \subseteq AheadOf(t)
                     /\ GivesBack => AheadOf(t)' # AheadOf(t)]_vars
<1> DEFINE MovesUp ==
      \A t \in Tasks :
         fut[t] = "pending" /\ fut'[t] = "pending" =>
            /\ AheadOf(t)' \subseteq AheadOf(t)
            /\ GivesBack => AheadOf(t)' # AheadOf(t)
<1>1. IInv /\ [Next]_vars => [MovesUp]_vars
  <2> SUFFICES ASSUME IInv, [Next]_vars, NEW t \in Tasks,
                      fut[t] = "pending", fut'[t] = "pending"
               PROVE  /\ AheadOf(t)' \subseteq AheadOf(t)
                      /\ GivesBack => AheadOf(t)' # AheadOf(t)
    OBVIOUS
  <2>1. t \in Pending /\ t \in Pending'
    BY DEF Pending
  <2> QED BY <2>1, SemaphoreStepIsFifoStep, FifoStepMovesUp
<1>2. (Spec => [][MovesUp]_vars) <=>
      (Spec => [][\A t \in Tasks :
                  fut[t] = "pending" /\ fut'[t] = "pending" =>
                     /\ AheadOf(t)' \subseteq AheadOf(t)
                     /\ GivesBack => AheadOf(t)' # AheadOf(t)]_vars)
  OBVIOUS
<1> HIDE DEF MovesUp
<1>3. Spec => [][MovesUp]_vars
  BY <1>1, InvariantHolds, PTL DEF Spec
<1> QED BY <1>2, <1>3

-----------------------------------------------------------------------------
(* Signals *)

\* A timeout or a cancellation is only ever pending for a task inside acquire().
SignalsWait == \A t \in Tasks : signal[t] # "none" => task[t] = "waiting"

LEMMA NextKeepsSignalsWait == IInv /\ SignalsWait /\ [Next]_vars => SignalsWait'
<1> SUFFICES ASSUME IInv, SignalsWait, [Next]_vars PROVE SignalsWait'
  OBVIOUS
<1>0. TypeOK
  BY DEF IInv
<1>1. ASSUME NEW t \in Tasks, AcquireNow(t) \/ AcquireWait(t) PROVE SignalsWait'
  BY <1>0, <1>1 DEF AcquireNow, AcquireWait, SignalsWait, TypeOK
<1>2. ASSUME NEW t \in Tasks, Release(t) PROVE SignalsWait'
  BY <1>0, <1>2 DEF Release, SignalsWait, TypeOK
<1>3. ASSUME NEW t \in Tasks, TimerFires(t) \/ CancelTask(t) \/ CancelFuture(t)
      PROVE  SignalsWait'
  BY <1>0, <1>3 DEF TimerFires, CancelTask, Interrupt, CancelFuture, SignalsWait, TypeOK
<1>4. ASSUME NEW t \in Tasks, ReturnGranted(t) \/ HandBack(t) \/ RaiseOut(t)
      PROVE  SignalsWait'
  BY <1>0, <1>4 DEF ReturnGranted, HandBack, RaiseOut, Ends, SignalsWait, TypeOK
<1>5. CASE FailAll \/ UNCHANGED vars
  BY <1>5 DEF FailAll, vars, SignalsWait
<1> QED BY <1>1, <1>2, <1>3, <1>4, <1>5 DEF Next, TaskStep, Resume

\* No timeout and no cancellation outlives the acquire() it was meant for.
THEOREM SignalsDieWithTheWait == Spec => []SignalsWait
<1>1. Init => SignalsWait
  BY DEF Init, SignalsWait
<1> QED BY <1>1, NextKeepsSignalsWait, InvariantHolds, PTL DEF Spec

-----------------------------------------------------------------------------
(* Where permits come from *)

\* A task owns a permit only by taking a free one or by waiting for it.
LEMMA NewOwners ==
    ASSUME IInv, [Next]_vars, NEW u \in Tasks, u \in Owners', u \notin Owners
    PROVE  fut[u] = "pending" \/ AcquireNow(u)
<1>0. TypeOK /\ FuturesMatchTasks /\ DequeMatchesFutures
  BY DEF IInv
<1>1. ASSUME NEW t \in Tasks, GiveBack(t), task' = [task EXCEPT ![t] = "idle"]
      PROVE  fut[u] = "pending"
  <2>1. task'[u] # "holding"
    BY <1>0, <1>1 DEF Owners, TypeOK
  <2>2. fut'[u] = "granted" /\ fut[u] # "granted"
    BY <2>1 DEF Owners
  <2>3. PICK i \in DOMAIN waiters : HandsPermitTo(i, t)
    BY <1>1, <2>2, GiveBackCases DEF FreesPermit, IInv, TypeOK
  <2>4. waiters[i] = u
    BY <2>2, <2>3 DEF HandsPermitTo
  <2> QED BY <2>3, <2>4 DEF HandsPermitTo, Live
<1>2. ASSUME NEW t \in Tasks, TaskStep(t), ~Release(t), ~HandBack(t)
      PROVE  t = u /\ AcquireNow(u)
  BY <1>0, <1>2 DEF TaskStep, Resume, AcquireNow, AcquireWait, TimerFires, CancelTask,
     Interrupt, ReturnGranted, CancelFuture, RaiseOut, Ends, Owners, TypeOK
<1>3. ASSUME NEW t \in Tasks, Release(t) \/ HandBack(t)
      PROVE  fut[u] = "pending"
  BY <1>1, <1>3 DEF Release, HandBack, Ends
<1>4. ~FailAll /\ ~UNCHANGED vars
  BY DEF FailAll, vars, Owners
<1> QED BY <1>2, <1>3, <1>4 DEF Next

=============================================================================
