------------------------ MODULE MeasuredStreamProofs ------------------------
(***************************************************************************)
(* What a stream says and how its two ends measure it, proved for any      *)
(* vocabulary, any stop sequences and any clock.                           *)
(***************************************************************************)
EXTENDS MeasuredStream, FiniteSetTheorems, SequenceTheorems, WellFoundedInduction, TLAPS

-----------------------------------------------------------------------------
(* apply_stop_sequences *)

\* A set of naturals with a member has a least one.
LEMMA LeastNatural ==
    ASSUME NEW S \in SUBSET Nat, S # {}
    PROVE  /\ Min(S) \in S
           /\ \A n \in S : Min(S) <= n
<1> DEFINE Less == {pair \in Nat \X Nat : pair[1] < pair[2]}
<1>1. IsWellFoundedOn(Less, Nat)
    BY NatLessThanWellFounded DEF OpToRel
<1>2. PICK least \in S : \A n \in S : ~ (<<n, least>> \in Less)
    BY <1>1, WFMin
<1>3. \A n \in S : least <= n
  <2> TAKE n \in S
  <2>1. n \in Nat /\ least \in Nat
      OBVIOUS
  <2>2. n < least => <<n, least>> \in Less
      BY <2>1
  <2>3. ~ (n < least)
      BY <1>2, <2>2
  <2> QED
      BY <2>1, <2>3
<1> QED
    BY <1>3 DEF Min

\* Where a stop sequence begins in a text.
LEMMA WhereStopsBegin ==
    ASSUME NEW s \in Texts, NEW stops \in SUBSET Stops, NEW i \in Begins(s, stops)
    PROVE  \E t \in stops :
              /\ t \in Texts /\ Len(t) \in Nat \ {0}
              /\ i \in Nat /\ i + Len(t) <= Len(s)
              /\ SubSeq(s, i + 1, i + Len(t)) = t
<1>1. PICK t \in stops : i \in Found(s, t)
    BY DEF Begins
<1>2. t \in Texts /\ t # <<>>
    BY TextsAssumption
<1>3. Len(t) \in Nat \ {0} /\ Len(s) \in Nat
    BY <1>2, EmptySeq, LenProperties DEF Texts
<1> QED
    BY <1>1, <1>2, <1>3 DEF Found

\* A stop sequence in the beginning of a text is one in the text.
LEMMA StopsInPrefix ==
    ASSUME NEW s \in Texts, NEW stops \in SUBSET Stops, NEW n \in 0 .. Len(s),
           NEW i \in Begins(SubSeq(s, 1, n), stops)
    PROVE  i \in Begins(s, stops) /\ i \in Nat /\ i < n
<1> DEFINE p == SubSeq(s, 1, n)
<1>1. Len(s) \in Nat /\ \A j \in 1 .. Len(s) : s[j] \in Characters
    BY LenProperties, ElementOfSeq DEF Texts
<1>2. \A j \in 1 .. n : s[j] \in Characters
    BY <1>1
<1>3. p \in Texts /\ Len(p) = n /\ \A j \in 1 .. n : p[j] = s[j]
  <2>1. /\ p \in Seq(Characters)
        /\ Len(p) = IF 1 <= n THEN n - 1 + 1 ELSE 0
        /\ \A j \in 1 .. n - 1 + 1 : p[j] = s[1 + j - 1]
      BY <1>2, SubSeqProperties, n \in Int, 1 \in Int
  <2> QED
      BY <2>1 DEF Texts
<1> HIDE DEF p
<1>4. PICK t \in stops :
         /\ t \in Texts /\ Len(t) \in Nat \ {0}
         /\ i \in Nat /\ i + Len(t) <= Len(p)
         /\ SubSeq(p, i + 1, i + Len(t)) = t
    BY <1>3, WhereStopsBegin DEF p
<1>5. SubSeq(s, i + 1, i + Len(t)) = t
  <2> DEFINE m == i + Len(t)
             u == SubSeq(s, i + 1, m)
  <2>1. /\ u \in Seq(Characters) /\ Len(u) = Len(t)
        /\ \A j \in 1 .. Len(t) : u[j] = s[i + j]
    <3>1. m \in Int /\ i + 1 \in Int /\ m >= i + 1 /\ \A j \in i + 1 .. m : s[j] \in Characters
        BY <1>1, <1>3, <1>4
    <3>2. /\ u \in Seq(Characters)
          /\ Len(u) = IF i + 1 <= m THEN m - (i + 1) + 1 ELSE 0
          /\ \A j \in 1 .. m - (i + 1) + 1 : u[j] = s[i + 1 + j - 1]
        BY <3>1, SubSeqProperties
    <3> QED
        BY <3>1, <3>2, <1>4
  <2>2. \A j \in 1 .. Len(t) : t[j] = p[i + j]
    <3>1. m \in Int /\ i + 1 \in Int /\ m >= i + 1 /\ \A j \in i + 1 .. m : p[j] \in Characters
        BY <1>1, <1>3, <1>4
    <3>2. \A j \in 1 .. m - (i + 1) + 1 : SubSeq(p, i + 1, m)[j] = p[i + 1 + j - 1]
        BY <3>1, SubSeqProperties
    <3>3. \A j \in 1 .. Len(t) : t[j] = p[i + 1 + j - 1]
        BY <3>2, <1>4
    <3> QED
        BY <3>3, <1>4
  <2>3. \A j \in 1 .. Len(t) : u[j] = t[j]
      BY <2>1, <2>2, <1>3, <1>4
  <2> HIDE DEF u
  <2>4. u = t
      BY <2>1, <2>3, <1>4, SeqEqual DEF Texts
  <2> QED
      BY <2>4 DEF u
<1>6. i \in Found(s, t)
    BY <1>1, <1>3, <1>4, <1>5 DEF Found
<1> QED
    BY <1>3, <1>4, <1>6 DEF Begins

\* apply_stop_sequences returns a beginning of the text without a stop
\* sequence, and all of it exactly if there is none in it.
LEMMA CutProperties ==
    ASSUME NEW s \in Texts, NEW stops \in SUBSET Stops
    PROVE  \E n \in 0 .. Len(s) :
              /\ Cut(s, stops) = SubSeq(s, 1, n)
              /\ Cut(s, stops) \in Texts /\ Len(Cut(s, stops)) = n
              /\ Begins(Cut(s, stops), stops) = {}
              /\ Begins(s, stops) = {} => n = Len(s) /\ Cut(s, stops) = s
              /\ Begins(s, stops) # {} => n < Len(s)
<1>1. Len(s) \in Nat /\ \A j \in 1 .. Len(s) : s[j] \in Characters
    BY LenProperties, ElementOfSeq DEF Texts
<1>2. CASE Begins(s, stops) = {}
  <2>1. Cut(s, stops) = s
      BY <1>2 DEF Cut
  <2>2. SubSeq(s, 1, Len(s)) = s
      BY SubSeqFull DEF Texts
  <2>3. Len(s) \in 0 .. Len(s)
      BY <1>1
  <2> QED
      BY <1>2, <2>1, <2>2, <2>3
<1>3. CASE Begins(s, stops) # {}
  <2> DEFINE n == Min(Begins(s, stops))
  <2>1. \A i \in Begins(s, stops) : i \in Nat /\ i < Len(s)
      BY <1>1, WhereStopsBegin
  <2>2. n \in Begins(s, stops) /\ \A i \in Begins(s, stops) : n <= i
    <3>1. Begins(s, stops) \in SUBSET Nat
        BY <2>1
    <3> QED
        BY <3>1, <1>3, LeastNatural
  <2>3. Cut(s, stops) = SubSeq(s, 1, n)
      BY <1>3 DEF Cut
  <2> HIDE DEF n
  <2>4. n \in Nat /\ n < Len(s) /\ n \in 0 .. Len(s)
      BY <2>1, <2>2, <1>1
  <2>5. SubSeq(s, 1, n) \in Texts /\ Len(SubSeq(s, 1, n)) = n
    <3>1. \A j \in 1 .. n : s[j] \in Characters
        BY <1>1, <2>4
    <3>2. /\ SubSeq(s, 1, n) \in Seq(Characters)
          /\ Len(SubSeq(s, 1, n)) = IF 1 <= n THEN n - 1 + 1 ELSE 0
        BY <3>1, <2>4, SubSeqProperties, n \in Int, 1 \in Int
    <3> QED
        BY <3>2, <2>4 DEF Texts
  <2>6. Begins(SubSeq(s, 1, n), stops) = {}
    <3> SUFFICES ASSUME NEW i \in Begins(SubSeq(s, 1, n), stops)
                 PROVE  FALSE
        OBVIOUS
    <3>1. i \in Begins(s, stops) /\ i \in Nat /\ i < n
        BY <2>4, StopsInPrefix
    <3> QED
        BY <3>1, <2>2, <2>4
  <2> QED
      BY <1>3, <2>3, <2>4, <2>5, <2>6
<1> QED
    BY <1>2, <1>3

-----------------------------------------------------------------------------
(* Sums of gaps *)

\* What running sums are: sum[i] is the sum of the first i gaps.
AreSums(sum, gaps, n) ==
    /\ sum[0] = 0
    /\ \A i \in 1 .. n : sum[i] = sum[i - 1] + gaps[i]

\* Every sequence of gaps has running sums.  A longest beginning without them
\* would follow one that has them.
LEMMA SumsExist ==
    ASSUME NEW gaps \in Seq(Int), NEW n \in 0 .. Len(gaps)
    PROVE  \E sum \in [0 .. n -> Int] : AreSums(sum, gaps, n)
<1> DEFINE Without == {k \in 0 .. Len(gaps) : ~ \E sum \in [0 .. k -> Int] : AreSums(sum, gaps, k)}
<1>1. Len(gaps) \in Nat /\ \A i \in 1 .. Len(gaps) : gaps[i] \in Int
    BY LenProperties, ElementOfSeq
<1>2. SUFFICES ASSUME Without # {}
               PROVE  FALSE
    OBVIOUS
<1>3. Without \in SUBSET Nat
    BY <1>1
<1> DEFINE m == Min(Without)
<1>4. m \in Without /\ \A k \in Without : m <= k
    BY <1>2, <1>3, LeastNatural
<1> HIDE DEF m
<1>5. m \in Nat /\ m <= Len(gaps)
    BY <1>1, <1>4
<1>6. CASE m = 0
  <2> DEFINE zero == [i \in 0 .. 0 |-> 0]
  <2>1. zero \in [0 .. 0 -> Int] /\ AreSums(zero, gaps, 0)
      BY DEF AreSums
  <2> HIDE DEF zero
  <2> QED
      BY <1>4, <1>6, <2>1
<1>7. CASE m # 0
  <2>1. m - 1 \in 0 .. Len(gaps) /\ ~ (m <= m - 1)
      BY <1>1, <1>5, <1>7
  <2>2. m - 1 \notin Without
      BY <1>4, <2>1
  <2>3. PICK sum \in [0 .. m - 1 -> Int] : AreSums(sum, gaps, m - 1)
      BY <2>1, <2>2
  <2> DEFINE more == [i \in 0 .. m |-> IF i = m THEN sum[m - 1] + gaps[m] ELSE sum[i]]
  <2>4. sum[m - 1] \in Int /\ gaps[m] \in Int
      BY <1>1, <1>5, <1>7
  <2>5. more \in [0 .. m -> Int]
    <3>1. \A i \in 0 .. m : i # m => i \in 0 .. m - 1
        BY <1>5
    <3> QED
        BY <2>4, <3>1
  <2>6. more[m] = sum[m - 1] + gaps[m] /\ \A i \in 0 .. m - 1 : more[i] = sum[i]
      BY <1>5
  <2> HIDE DEF more
  <2>7. more[0] = 0
      BY <1>5, <1>7, <2>3, <2>6 DEF AreSums
  <2>8. ASSUME NEW i \in 1 .. m
        PROVE  more[i] = more[i - 1] + gaps[i]
    <3>1. i - 1 \in 0 .. m - 1
        BY <1>5
    <3>2. CASE i = m
        BY <2>6, <3>1, <3>2
    <3>3. CASE i # m
      <4>1. i \in 1 .. m - 1 /\ i \in 0 .. m - 1
          BY <1>5, <3>3
      <4>2. sum[i] = sum[i - 1] + gaps[i]
          BY <2>3, <4>1 DEF AreSums
      <4> QED
          BY <2>6, <3>1, <4>1, <4>2
    <3> QED
        BY <3>2, <3>3
  <2>9. AreSums(more, gaps, m)
      BY <2>7, <2>8 DEF AreSums
  <2> QED
      BY <1>4, <2>5, <2>9
<1> QED
    BY <1>6, <1>7

LEMMA RunningSumsAreSums ==
    ASSUME NEW gaps \in Seq(Int)
    PROVE  /\ RunningSums(gaps) \in [0 .. Len(gaps) -> Int]
           /\ AreSums(RunningSums(gaps), gaps, Len(gaps))
<1> DEFINE n == Len(gaps)
           Defines(f) == f = [i \in 0 .. n |-> IF i = 0 THEN 0 ELSE f[i - 1] + gaps[i]]
           sums == CHOOSE f : Defines(f)
<1>1. n \in Nat /\ n \in 0 .. n /\ \A i \in 1 .. n : gaps[i] \in Int
    BY LenProperties, ElementOfSeq
<1>2. RunningSums(gaps) = sums
    BY DEF RunningSums
<1>3. PICK f \in [0 .. n -> Int] : AreSums(f, gaps, n)
    BY <1>1, SumsExist
<1>4. Defines(f)
  <2>1. \A i \in 0 .. n : f[i] = IF i = 0 THEN 0 ELSE f[i - 1] + gaps[i]
    <3>1. \A i \in 0 .. n : i = 0 \/ i \in 1 .. n
        BY <1>1
    <3> QED
        BY <1>3, <3>1 DEF AreSums
  <2> QED
      BY <1>3, <2>1
<1>5. Defines(sums)
    BY <1>4
<1> HIDE DEF sums
<1>6. /\ DOMAIN sums = 0 .. n
      /\ \A i \in 0 .. n : sums[i] = IF i = 0 THEN 0 ELSE sums[i - 1] + gaps[i]
    BY <1>5
<1>7. sums[0] = 0 /\ \A i \in 1 .. n : sums[i] = sums[i - 1] + gaps[i]
  <2>1. 0 \in 0 .. n /\ \A i \in 1 .. n : i \in 0 .. n /\ i # 0
      BY <1>1
  <2> QED
      BY <1>6, <2>1
<1>8. \A i \in 0 .. n : sums[i] = f[i]
  <2> DEFINE Differ == {i \in 0 .. n : sums[i] # f[i]}
  <2> SUFFICES ASSUME Differ # {}
               PROVE  FALSE
      OBVIOUS
  <2>1. Differ \in SUBSET Nat
      BY <1>1
  <2> DEFINE m == Min(Differ)
  <2>2. m \in Differ /\ \A k \in Differ : m <= k
      BY <2>1, LeastNatural
  <2> HIDE DEF m
  <2>3. m \in 0 .. n /\ m # 0
      BY <1>3, <1>7, <2>2 DEF AreSums
  <2>4. m \in 1 .. n /\ m - 1 \in 0 .. n /\ m - 1 \notin Differ
      BY <1>1, <2>2, <2>3
  <2>5. sums[m] = f[m]
      BY <1>3, <1>7, <2>4 DEF AreSums
  <2> QED
      BY <2>2, <2>5
<1>9. sums = f
  <2>1. sums = [i \in 0 .. n |-> sums[i]]
      BY <1>5
  <2> QED
      BY <1>3, <1>6, <1>8, <2>1
<1> QED
    BY <1>2, <1>3, <1>9

LEMMA TotalOfNone == Total(<<>>) = 0
<1>1. <<>> \in Seq(Int) /\ Len(<<>>) = 0
    BY EmptySeq
<1>2. RunningSums(<<>>)[0] = 0
    BY <1>1, RunningSumsAreSums DEF AreSums
<1> QED
    BY <1>1, <1>2 DEF Total

\* One gap more.
LEMMA TotalOfAppend ==
    ASSUME NEW gaps \in Seq(Int), NEW g \in Int
    PROVE  Total(gaps) \in Int /\ Total(Append(gaps, g)) = Total(gaps) + g
<1> DEFINE n == Len(gaps)
           more == Append(gaps, g)
           s == RunningSums(gaps)
           t == RunningSums(more)
<1>1. n \in Nat /\ more \in Seq(Int) /\ Len(more) = n + 1 /\ more[n + 1] = g
    OBVIOUS
<1>2. \A i \in 1 .. n : more[i] = gaps[i]
    OBVIOUS
<1> HIDE DEF more
<1>3. s \in [0 .. n -> Int] /\ s[0] = 0 /\ \A i \in 1 .. n : s[i] = s[i - 1] + gaps[i]
    BY RunningSumsAreSums DEF AreSums
<1>4. t[0] = 0 /\ \A i \in 1 .. n + 1 : t[i] = t[i - 1] + more[i]
    BY <1>1, RunningSumsAreSums DEF AreSums
<1>5. Total(gaps) = s[n] /\ Total(more) = t[n + 1]
    BY <1>1 DEF Total
<1> HIDE DEF s, t
<1>6. \A i \in 0 .. n : t[i] = s[i]
  <2> DEFINE Differ == {i \in 0 .. n : t[i] # s[i]}
  <2> SUFFICES ASSUME Differ # {}
               PROVE  FALSE
      OBVIOUS
  <2>1. Differ \in SUBSET Nat
      BY <1>1
  <2> DEFINE m == Min(Differ)
  <2>2. m \in Differ /\ \A k \in Differ : m <= k
      BY <2>1, LeastNatural
  <2> HIDE DEF m
  <2>3. m \in 0 .. n /\ m # 0
      BY <1>3, <1>4, <2>2
  <2>4. m \in 1 .. n /\ m \in 1 .. n + 1 /\ m - 1 \in 0 .. n /\ m - 1 \notin Differ
    <3> HIDE DEF n
    <3>1. m \in 1 .. n /\ m \in 1 .. n + 1 /\ m - 1 \in 0 .. n /\ ~ (m <= m - 1)
        BY <1>1, <2>3
    <3>2. m - 1 \notin Differ
        BY <2>2, <3>1
    <3> QED
        BY <3>1, <3>2
  <2>5. t[m] = s[m]
      BY <1>2, <1>3, <1>4, <2>4
  <2> QED
      BY <2>2, <2>5
<1>7. t[n + 1] = s[n] + g /\ s[n] \in Int
  <2> HIDE DEF n
  <2>1. n + 1 \in 1 .. n + 1 /\ n \in 0 .. n /\ n + 1 - 1 = n
      BY <1>1
  <2>2. t[n + 1] = t[n] + g
      BY <1>1, <1>4, <2>1
  <2>3. t[n] = s[n] /\ s[n] \in Int
      BY <1>3, <1>6, <2>1
  <2> QED
      BY <2>2, <2>3
<1> QED
    BY <1>5, <1>7 DEF more

-----------------------------------------------------------------------------
(* Beginnings of texts *)

LEMMA TextFacts ==
    ASSUME NEW s \in Texts
    PROVE  Len(s) \in Nat /\ \A i \in 1 .. Len(s) : s[i] \in Characters
BY LenProperties, ElementOfSeq DEF Texts

\* A slice of a text.
LEMMA SliceFacts ==
    ASSUME NEW s \in Texts, NEW m \in Nat \ {0}, NEW n \in Nat, n <= Len(s)
    PROVE  /\ SubSeq(s, m, n) \in Texts
           /\ m <= n => Len(SubSeq(s, m, n)) = n - m + 1
           /\ n < m => Len(SubSeq(s, m, n)) = 0 /\ SubSeq(s, m, n) = <<>>
           /\ \A i \in 1 .. n - m + 1 : SubSeq(s, m, n)[i] = s[m + i - 1]
<1>1. m \in Int /\ n \in Int /\ \A i \in m .. n : s[i] \in Characters
    BY TextFacts
<1>2. /\ SubSeq(s, m, n) \in Seq(Characters)
      /\ Len(SubSeq(s, m, n)) = IF m <= n THEN n - m + 1 ELSE 0
      /\ \A i \in 1 .. n - m + 1 : SubSeq(s, m, n)[i] = s[m + i - 1]
    BY <1>1, SubSeqProperties
<1>3. n < m => SubSeq(s, m, n) = <<>>
    BY <1>1, SubSeqEmpty
<1> QED
    BY <1>2, <1>3 DEF Texts

LEMMA PrefixByCharacter ==
    ASSUME NEW s \in Texts, NEW t \in Texts
    PROVE  IsPrefix(s, t) <=> Len(s) <= Len(t) /\ \A i \in 1 .. Len(s) : s[i] = t[i]
<1>1. Len(s) \in Nat /\ Len(t) \in Nat
    BY TextFacts
<1>2. SubSeq(s, 1, Len(s)) = s
    BY SubSeqFull DEF Texts
<1>3. ASSUME Len(s) <= Len(t)
      PROVE  s = SubSeq(t, 1, Len(s)) <=> \A i \in 1 .. Len(s) : s[i] = t[i]
  <2> DEFINE p == SubSeq(t, 1, Len(s))
  <2>1. /\ p \in Texts
        /\ 1 <= Len(s) => Len(p) = Len(s) - 1 + 1
        /\ Len(s) < 1 => Len(p) = 0
        /\ \A i \in 1 .. Len(s) - 1 + 1 : p[i] = t[1 + i - 1]
      BY <1>1, <1>3, SliceFacts
  <2>2. Len(p) = Len(s) /\ \A i \in 1 .. Len(s) : p[i] = t[i]
      BY <1>1, <2>1
  <2> HIDE DEF p
  <2>3. (\A i \in 1 .. Len(s) : s[i] = p[i]) => s = p
      BY <2>1, <2>2, SeqEqual DEF Texts
  <2>4. (s = p) <=> \A i \in 1 .. Len(s) : s[i] = t[i]
      BY <2>2, <2>3
  <2> QED
      BY <2>4 DEF p
<1> QED
    BY <1>2, <1>3 DEF IsPrefix

\* A text and what comes after it in a longer one.
LEMMA PrefixGoesOn ==
    ASSUME NEW s \in Texts, NEW t \in Texts, IsPrefix(s, t),
           NEW n \in Nat, Len(s) <= n, n <= Len(t)
    PROVE  s \o SubSeq(t, Len(s) + 1, n) = SubSeq(t, 1, n)
<1>1. Len(s) \in Nat /\ Len(t) \in Nat
    BY TextFacts
<1>2. SubSeq(t, 1, Len(s)) = s
    BY SubSeqFull DEF IsPrefix, Texts
<1>3. SubSeq(t, 1, Len(s)) \o SubSeq(t, Len(s) + 1, n) = SubSeq(t, 1, n)
  <2>1. 1 \in 1 .. Len(t) + 1 /\ Len(s) \in 1 - 1 .. Len(t) /\ n \in Len(s) .. Len(t)
      BY <1>1
  <2> QED
      BY <2>1, ConcatAdjacentSubSeq DEF Texts
<1> QED
    BY <1>2, <1>3

LEMMA PrefixOfConcat ==
    ASSUME NEW s \in Texts, NEW t \in Texts
    PROVE  s \o t \in Texts /\ Len(s \o t) = Len(s) + Len(t) /\ IsPrefix(s, s \o t)
<1>1. /\ s \o t \in Texts /\ Len(s \o t) = Len(s) + Len(t)
      /\ \A i \in 1 .. Len(s) + Len(t) : (s \o t)[i] = IF i <= Len(s) THEN s[i] ELSE t[i - Len(s)]
    BY ConcatProperties DEF Texts
<1>2. Len(s) <= Len(s \o t) /\ \A i \in 1 .. Len(s) : s[i] = (s \o t)[i]
    BY <1>1, TextFacts
<1> QED
    BY <1>1, <1>2, PrefixByCharacter

\* What NextWord sends when text s has been sent and c is what has been drawn.
LEMMA WhatGoesOut ==
    ASSUME NEW s \in Texts, NEW c \in Texts, NEW stops \in SUBSET Stops,
           IsPrefix(s, c), Begins(s, stops) = {},
           NEW t, t = Cut(c, stops),
           NEW delta, delta = SubSeq(t, Len(s) + 1, Len(t))
    PROVE  /\ t \in Texts /\ delta \in Texts /\ IsPrefix(t, c) /\ Begins(t, stops) = {}
           /\ t = c \/ delta # <<>> => s \o delta = t
           /\ t # c /\ delta = <<>> => IsPrefix(t, s) /\ s # c
<1>1. PICK n \in 0 .. Len(c) :
         /\ t = SubSeq(c, 1, n)
         /\ t \in Texts /\ Len(t) = n
         /\ Begins(t, stops) = {}
         /\ Begins(c, stops) = {} => n = Len(c) /\ t = c
         /\ Begins(c, stops) # {} => n < Len(c)
    BY CutProperties
<1>2. Len(s) \in Nat /\ Len(c) \in Nat /\ n \in Nat /\ n <= Len(c)
    BY TextFacts
<1>3. \A i \in 1 .. n : t[i] = c[i]
  <2>1. \A i \in 1 .. n - 1 + 1 : SubSeq(c, 1, n)[i] = c[1 + i - 1]
      BY <1>2, SliceFacts
  <2> QED
      BY <1>1, <1>2, <2>1
<1>4. IsPrefix(t, c)
    BY <1>1, <1>2, <1>3, PrefixByCharacter
<1>5. Len(s) <= Len(c) /\ \A i \in 1 .. Len(s) : s[i] = c[i]
    BY PrefixByCharacter
<1>6. delta \in Texts
  <2>1. delta = SubSeq(t, Len(s) + 1, n)
      BY <1>1
  <2>2. Len(s) + 1 \in Nat \ {0} /\ n <= Len(t) /\ t \in Texts
      BY <1>1, <1>2
  <2>3. SubSeq(t, Len(s) + 1, n) \in Texts
      BY <2>2, <1>2, SliceFacts
  <2> QED
      BY <2>1, <2>3
<1>7. Len(s) <= n => s \o delta = t
  <2> SUFFICES ASSUME Len(s) <= n
               PROVE  s \o delta = t
      OBVIOUS
  <2>1. IsPrefix(s, t)
    <3>1. Len(s) <= Len(t) /\ \A i \in 1 .. Len(s) : s[i] = t[i]
        BY <1>1, <1>2, <1>3, <1>5
    <3>2. t \in Texts
        BY <1>1
    <3> QED
        BY <3>1, <3>2, PrefixByCharacter
  <2>2. s \o SubSeq(t, Len(s) + 1, n) = SubSeq(t, 1, n)
      BY <1>1, <1>2, <2>1, PrefixGoesOn
  <2>3. SubSeq(t, 1, n) = t
      BY <1>1, SubSeqFull DEF Texts
  <2> QED
      BY <1>1, <2>2, <2>3
<1>8. n < Len(s) => delta = <<>>
    BY <1>1, <1>2, SliceFacts
<1>9. Len(s) < n => delta # <<>>
  <2> SUFFICES ASSUME Len(s) < n
               PROVE  delta # <<>>
      OBVIOUS
  <2>1. Len(delta) = n - (Len(s) + 1) + 1
      BY <1>1, <1>2, SliceFacts
  <2>2. Len(delta) # 0
      BY <1>2, <2>1
  <2> QED
      BY <2>2, EmptySeq
<1>10. n <= Len(s) => IsPrefix(t, s)
  <2> SUFFICES ASSUME n <= Len(s)
               PROVE  IsPrefix(t, s)
      OBVIOUS
  <2>1. Len(t) <= Len(s) /\ \A i \in 1 .. Len(t) : t[i] = s[i]
      BY <1>1, <1>2, <1>3, <1>5
  <2>2. t \in Texts
      BY <1>1
  <2> QED
      BY <2>1, <2>2, PrefixByCharacter
<1>11. s = c => t = c
    BY <1>1
<1>12. t = c => Len(s) <= n
    BY <1>1, <1>2, <1>5
<1> QED
  <2>1. n <= Len(s) \/ Len(s) < n
      BY <1>2
  <2>2. n < Len(s) \/ Len(s) <= n
      BY <1>2
  <2> QED
      BY <1>1, <1>4, <1>6, <1>7, <1>8, <1>9, <1>10, <1>11, <1>12, <2>1, <2>2, Zenon

-----------------------------------------------------------------------------
(* The invariant *)

ServerOutcomes == {"pending", "stop", "length", "timeout", "error", "client_disconnect"}
ClientOutcomes == {"waiting", "ok", "stream_error", "http_error"}

Recorders == [arrived : Int, first : Int, last : Int, finished : Int,
              gaps : Seq(Int), tokens : Nat, outcome : ServerOutcomes]

Clients == [ttft : Int, last : Int, itls : Seq(Int), tokens : Nat,
            got : Texts, e2e : Int, outcome : ClientOutcomes]

Frames == [data : {"delta", "final", "error", "[DONE]"}, text : Texts]

StreamTyped ==
    /\ now \in Nat
    /\ stop \in SUBSET Stops
    /\ gen \in {"none", "decoding", "yielded", "stopping", "ended"}
    /\ text \in Texts /\ made \in Texts /\ sent \in Texts /\ emitted \in Nat
    /\ rec \in Recorders /\ client \in Clients /\ wire \in Seq(Frames)

\* All of the text drawn has been sent, but for what follows a stop sequence;
\* what has been sent holds none.
TextFits ==
    /\ gen \in {"none", "decoding", "yielded"} => text = sent /\ made = sent
    /\ gen = "stopping" => sent # made
    /\ Begins(sent, stop) = {}
    /\ IsPrefix(sent, made) /\ IsPrefix(Cut(made, stop), sent)
    /\ gen # "ended" => rec.outcome = "pending"
    /\ rec.outcome = "stop" => sent # made
    /\ rec.outcome = "length" => sent = made

\* Text s is got and the texts of the frames of w, one after the other: mark
\* says how far each of them reaches.
Marks(mark, got, w, s) ==
    /\ mark[1] = Len(got) /\ got = SubSeq(s, 1, mark[1])
    /\ mark[Len(w) + 1] = Len(s)
    /\ \A i \in 1 .. Len(w) + 1 : mark[i] <= Len(s)
    /\ \A i \in 1 .. Len(w) :
          mark[i] <= mark[i + 1] /\ w[i].text = SubSeq(s, mark[i] + 1, mark[i + 1])

AllOf(got, w, s) == \E mark \in [1 .. Len(w) + 1 -> Nat] : Marks(mark, got, w, s)

\* Nothing is lost between the two ends.
OnTheWay ==
    /\ client.outcome = "waiting" => AllOf(client.got, wire, sent)
    /\ client.outcome = "ok" => client.got = sent

\* Frames follow each other: a delta for each token that is not yet counted at
\* the other end, then the last frames, and [DONE] at the very end.
FramesFit ==
    /\ \A i \in 1 .. Len(wire) :
          /\ wire[i].data # "delta" => wire[i].text = <<>> /\ gen = "ended"
          /\ wire[i].data = "[DONE]" => i = Len(wire)
    /\ client.outcome = "waiting" =>
          /\ client.tokens <= rec.tokens
          /\ rec.tokens - client.tokens <= Len(wire)
          /\ \A i \in 1 .. Len(wire) :
                wire[i].data = "delta" <=> i <= rec.tokens - client.tokens
    /\ client.outcome = "ok" => gen = "ended" /\ client.tokens = rec.tokens

\* The readings of the clock at the server, in their order.
ServerClock ==
    /\ rec.arrived <= now /\ rec.last <= now /\ rec.finished <= now
    /\ rec.arrived = Never \/ rec.arrived >= 0
    /\ gen # "none" => rec.arrived # Never
    /\ gen = "none" => rec.tokens = 0
    /\ gen = "ended" => rec.finished >= rec.last /\ rec.finished >= 0
    /\ rec.tokens = 0 => rec.first = Never /\ rec.last = Never /\ rec.gaps = <<>>
    /\ rec.tokens > 0 =>
          /\ rec.first >= 0 /\ rec.last >= rec.first
          /\ Len(rec.gaps) = rec.tokens - 1

\* The client's, and how they follow the server's.
ClientClock ==
    /\ client.outcome = "waiting" /\ client.tokens = 0 =>
          client.ttft = Never /\ client.itls = <<>>
    /\ client.tokens > 0 =>
          /\ client.tokens <= rec.tokens
          /\ client.ttft >= rec.first /\ client.ttft >= 0
          /\ Len(client.itls) = client.tokens - 1
    /\ client.outcome = "ok" => client.e2e >= rec.finished

\* The gaps of each end make up the time from its first token to its last.
GapsFit ==
    /\ rec.tokens > 0 => rec.first + Total(rec.gaps) = rec.last
    /\ client.tokens > 0 => client.ttft + Total(client.itls) = client.last

StreamInv ==
    /\ StreamTyped /\ TextFits /\ OnTheWay /\ FramesFit
    /\ ServerClock /\ ClientClock /\ GapsFit

-----------------------------------------------------------------------------
(* Text on its way *)

LEMMA SliceOfConcat ==
    ASSUME NEW s \in Texts, NEW d \in Texts, NEW m \in Nat \ {0}, NEW n \in Nat, n <= Len(s)
    PROVE  SubSeq(s \o d, m, n) = SubSeq(s, m, n)
<1> DEFINE b == s \o d
<1>1. Len(s) \in Nat /\ Len(d) \in Nat
    BY TextFacts
<1>2. /\ b \in Texts /\ Len(b) = Len(s) + Len(d)
      /\ \A i \in 1 .. Len(s) : b[i] = s[i]
  <2>1. \A i \in 1 .. Len(s) + Len(d) : b[i] = IF i <= Len(s) THEN s[i] ELSE d[i - Len(s)]
      BY ConcatProperties DEF Texts
  <2> QED
      BY <1>1, <2>1, PrefixOfConcat
<1> HIDE DEF b
<1>3. n <= Len(b)
    BY <1>1, <1>2
<1>4. CASE n < m
    BY <1>2, <1>3, <1>4, SliceFacts
<1>5. CASE m <= n
  <2> DEFINE x == SubSeq(b, m, n)
             y == SubSeq(s, m, n)
  <2>1. /\ x \in Texts /\ Len(x) = n - m + 1
        /\ \A i \in 1 .. n - m + 1 : x[i] = b[m + i - 1]
      BY <1>2, <1>3, <1>5, SliceFacts
  <2>2. /\ y \in Texts /\ Len(y) = n - m + 1
        /\ \A i \in 1 .. n - m + 1 : y[i] = s[m + i - 1]
      BY <1>5, SliceFacts
  <2>3. \A i \in 1 .. n - m + 1 : m + i - 1 \in 1 .. Len(s)
      BY <1>1, <1>5
  <2>4. \A i \in 1 .. n - m + 1 : x[i] = y[i]
      BY <1>2, <2>1, <2>2, <2>3
  <2> HIDE DEF x, y
  <2>5. x = y
      BY <2>1, <2>2, <2>4, SeqEqual DEF Texts
  <2> QED
      BY <2>5 DEF x, y, b
<1> QED
    BY <1>4, <1>5 DEF b

LEMMA EndOfConcat ==
    ASSUME NEW s \in Texts, NEW d \in Texts
    PROVE  SubSeq(s \o d, Len(s) + 1, Len(s) + Len(d)) = d
<1> DEFINE b == s \o d
           m == Len(s) + 1
           n == Len(s) + Len(d)
           x == SubSeq(b, m, n)
<1>1. Len(s) \in Nat /\ Len(d) \in Nat
    BY TextFacts
<1>2. /\ b \in Texts /\ Len(b) = n
      /\ \A i \in 1 .. n : b[i] = IF i <= Len(s) THEN s[i] ELSE d[i - Len(s)]
    BY PrefixOfConcat, ConcatProperties DEF Texts
<1> HIDE DEF b
<1>3. m \in Nat \ {0} /\ n \in Nat /\ n - m + 1 = Len(d) /\ (m <= n <=> Len(d) # 0)
    BY <1>1
<1>4. /\ x \in Texts
      /\ m <= n => Len(x) = n - m + 1
      /\ n < m => Len(x) = 0
      /\ \A i \in 1 .. n - m + 1 : x[i] = b[m + i - 1]
    BY <1>2, <1>3, SliceFacts
<1>5. Len(x) = Len(d)
    BY <1>1, <1>3, <1>4
<1>6. \A i \in 1 .. Len(d) : x[i] = d[i]
  <2> TAKE i \in 1 .. Len(d)
  <2>1. x[i] = b[m + i - 1]
      BY <1>3, <1>4
  <2>2. m + i - 1 \in 1 .. n /\ ~ (m + i - 1 <= Len(s)) /\ m + i - 1 - Len(s) = i
      BY <1>1
  <2>3. b[m + i - 1] = d[m + i - 1 - Len(s)]
      BY <1>2, <2>2
  <2> QED
      BY <2>1, <2>2, <2>3
<1> HIDE DEF x
<1>7. x = d
    BY <1>4, <1>5, <1>6, SeqEqual DEF Texts
<1> QED
    BY <1>7 DEF x, b

\* A frame goes out, with what its text adds to the text sent.
LEMMA FrameGoesOut ==
    ASSUME NEW got \in Texts, NEW w \in Seq(Frames), NEW s \in Texts, NEW f \in Frames,
           AllOf(got, w, s)
    PROVE  AllOf(got, Append(w, f), s \o f.text)
<1> DEFINE d == f.text
           b == s \o d
           v == Append(w, f)
<1>1. PICK mark \in [1 .. Len(w) + 1 -> Nat] : Marks(mark, got, w, s)
    BY DEF AllOf
<1>2. d \in Texts /\ Len(d) \in Nat /\ Len(s) \in Nat /\ Len(w) \in Nat
  <2>1. d \in Texts
      BY DEF Frames
  <2> QED
      BY <2>1, TextFacts, LenProperties
<1>3. b \in Texts /\ Len(b) = Len(s) + Len(d)
    BY <1>2, PrefixOfConcat
<1>4. /\ Len(v) = Len(w) + 1
      /\ \A i \in 1 .. Len(w) : v[i] = w[i]
      /\ v[Len(w) + 1] = f
    BY <1>2
<1>5. /\ \A m \in Nat \ {0}, n \in Nat : n <= Len(s) => SubSeq(b, m, n) = SubSeq(s, m, n)
      /\ SubSeq(b, Len(s) + 1, Len(b)) = d
    BY <1>2, <1>3, SliceOfConcat, EndOfConcat
<1> DEFINE mark2 == [i \in 1 .. Len(v) + 1 |-> IF i <= Len(w) + 1 THEN mark[i] ELSE Len(b)]
<1> HIDE DEF d, b, v
<1>6. /\ \A i \in 1 .. Len(w) + 1 : mark2[i] = mark[i]
      /\ mark2[Len(w) + 2] = Len(b)
    BY <1>2, <1>4
<1>7. mark2 \in [1 .. Len(v) + 1 -> Nat]
    BY <1>2, <1>3, <1>4
<1> HIDE DEF mark2
<1>8. /\ mark[1] = Len(got) /\ got = SubSeq(s, 1, mark[1])
      /\ mark[Len(w) + 1] = Len(s)
      /\ \A i \in 1 .. Len(w) + 1 : mark[i] \in Nat /\ mark[i] <= Len(s)
      /\ \A i \in 1 .. Len(w) :
            mark[i] <= mark[i + 1] /\ w[i].text = SubSeq(s, mark[i] + 1, mark[i + 1])
    BY <1>1 DEF Marks
<1>9. mark2[1] = Len(got) /\ got = SubSeq(b, 1, mark2[1])
  <2>1. 1 \in 1 .. Len(w) + 1 /\ 1 \in Nat \ {0}
      BY <1>2
  <2> QED
      BY <2>1, <1>5, <1>6, <1>8
<1>10. mark2[Len(v) + 1] = Len(b)
  <2>1. Len(v) + 1 = Len(w) + 2
      BY <1>2, <1>4
  <2> QED
      BY <1>6, <2>1
<1>11. \A i \in 1 .. Len(v) + 1 : mark2[i] <= Len(b)
  <2> TAKE i \in 1 .. Len(v) + 1
  <2>1. i \in 1 .. Len(w) + 1 \/ i = Len(w) + 2
      BY <1>2, <1>4
  <2> QED
      BY <1>2, <1>3, <1>6, <1>8, <2>1
<1>12. \A i \in 1 .. Len(v) :
          mark2[i] <= mark2[i + 1] /\ v[i].text = SubSeq(b, mark2[i] + 1, mark2[i + 1])
  <2> TAKE i \in 1 .. Len(v)
  <2>1. CASE i \in 1 .. Len(w)
    <3>1. i \in 1 .. Len(w) + 1 /\ i + 1 \in 1 .. Len(w) + 1
        BY <1>2, <2>1
    <3>2. mark2[i] = mark[i] /\ mark2[i + 1] = mark[i + 1]
        BY <1>6, <3>1
    <3>3. mark[i] + 1 \in Nat \ {0} /\ mark[i + 1] \in Nat /\ mark[i + 1] <= Len(s)
        BY <1>8, <3>1
    <3> QED
        BY <1>4, <1>5, <1>8, <2>1, <3>2, <3>3
  <2>2. CASE i = Len(w) + 1
    <3>1. mark2[i] = Len(s) /\ mark2[i + 1] = Len(b)
      <4>1. i \in 1 .. Len(w) + 1 /\ i + 1 = Len(w) + 2
          BY <1>2, <2>2
      <4> QED
          BY <1>6, <1>8, <2>2, <4>1
    <3>2. v[i].text = d
        BY <1>4, <2>2 DEF d
    <3> QED
        BY <1>2, <1>3, <1>5, <3>1, <3>2
  <2>3. i \in 1 .. Len(w) \/ i = Len(w) + 1
      BY <1>2, <1>4
  <2> QED
      BY <2>1, <2>2, <2>3
<1>13. Marks(mark2, got, v, b)
    BY <1>9, <1>10, <1>11, <1>12 DEF Marks
<1>14. AllOf(got, v, b)
    BY <1>7, <1>13 DEF AllOf
<1> QED
    BY <1>14 DEF v, b, d

\* A frame comes in, and its text is added to the text got.
LEMMA FrameComesIn ==
    ASSUME NEW got \in Texts, NEW w \in Seq(Frames), NEW s \in Texts, w # <<>>,
           AllOf(got, w, s)
    PROVE  AllOf(got \o Head(w).text, Tail(w), s)
<1> DEFINE d == Head(w).text
           v == Tail(w)
<1>1. PICK mark \in [1 .. Len(w) + 1 -> Nat] : Marks(mark, got, w, s)
    BY DEF AllOf
<1>2. Len(w) \in Nat \ {0} /\ Len(v) = Len(w) - 1 /\ \A i \in 1 .. Len(v) : v[i] = w[i + 1]
    BY EmptySeq, HeadTailProperties
<1>3. Len(s) \in Nat
    BY TextFacts
<1>4. /\ mark[1] = Len(got) /\ got = SubSeq(s, 1, mark[1])
      /\ mark[Len(w) + 1] = Len(s)
      /\ \A i \in 1 .. Len(w) + 1 : mark[i] \in Nat /\ mark[i] <= Len(s)
      /\ \A i \in 1 .. Len(w) :
            mark[i] <= mark[i + 1] /\ w[i].text = SubSeq(s, mark[i] + 1, mark[i + 1])
    BY <1>1 DEF Marks
<1>5. 1 \in 1 .. Len(w) /\ 1 \in 1 .. Len(w) + 1 /\ 2 \in 1 .. Len(w) + 1
    BY <1>2
<1>6. /\ mark[1] \in Nat /\ mark[2] \in Nat /\ mark[1] <= mark[2] /\ mark[2] <= Len(s)
      /\ d = SubSeq(s, mark[1] + 1, mark[2])
  <2>1. mark[1] \in Nat /\ mark[2] \in Nat /\ mark[2] <= Len(s)
      BY <1>4, <1>5
  <2>2. mark[1] <= mark[1 + 1] /\ w[1].text = SubSeq(s, mark[1] + 1, mark[1 + 1])
      BY <1>4, <1>5
  <2>3. 1 + 1 = 2 /\ Head(w) = w[1]
      BY <1>2
  <2> QED
      BY <2>1, <2>2, <2>3
<1> HIDE DEF d, v
<1>7. got \o d = SubSeq(s, 1, mark[2])
  <2>1. 1 \in 1 .. Len(s) + 1 /\ mark[1] \in 1 - 1 .. Len(s) /\ mark[2] \in mark[1] .. Len(s)
      BY <1>3, <1>6
  <2>2. SubSeq(s, 1, mark[1]) \o SubSeq(s, mark[1] + 1, mark[2]) = SubSeq(s, 1, mark[2])
      BY <2>1, ConcatAdjacentSubSeq DEF Texts
  <2> QED
      BY <1>4, <1>6, <2>2
<1>8. Len(got \o d) = mark[2]
  <2>1. 1 \in Nat \ {0}
      OBVIOUS
  <2>2. /\ 1 <= mark[2] => Len(SubSeq(s, 1, mark[2])) = mark[2] - 1 + 1
        /\ mark[2] < 1 => Len(SubSeq(s, 1, mark[2])) = 0
      BY <1>6, <2>1, SliceFacts
  <2>3. Len(SubSeq(s, 1, mark[2])) = mark[2]
      BY <1>6, <2>2
  <2> QED
      BY <1>7, <2>3
<1> DEFINE mark2 == [i \in 1 .. Len(v) + 1 |-> mark[i + 1]]
<1>9. \A i \in 1 .. Len(v) + 1 : mark2[i] = mark[i + 1] /\ i + 1 \in 1 .. Len(w) + 1
    BY <1>2
<1>10. mark2 \in [1 .. Len(v) + 1 -> Nat]
    BY <1>2, <1>4
<1> HIDE DEF mark2
<1>11. mark2[1] = Len(got \o d) /\ got \o d = SubSeq(s, 1, mark2[1])
  <2>1. 1 \in 1 .. Len(v) + 1 /\ 1 + 1 = 2
      BY <1>2
  <2>2. mark2[1] = mark[2]
      BY <1>9, <2>1
  <2> QED
      BY <1>7, <1>8, <2>2
<1>12. mark2[Len(v) + 1] = Len(s)
  <2>1. Len(v) + 1 \in 1 .. Len(v) + 1 /\ Len(v) + 1 + 1 = Len(w) + 1
      BY <1>2
  <2> QED
      BY <1>4, <1>9, <2>1
<1>13. \A i \in 1 .. Len(v) + 1 : mark2[i] <= Len(s)
    BY <1>4, <1>9
<1>14. \A i \in 1 .. Len(v) :
          mark2[i] <= mark2[i + 1] /\ v[i].text = SubSeq(s, mark2[i] + 1, mark2[i + 1])
  <2> TAKE i \in 1 .. Len(v)
  <2>1. i \in 1 .. Len(v) + 1 /\ i + 1 \in 1 .. Len(v) + 1 /\ i + 1 \in 1 .. Len(w)
      BY <1>2
  <2>2. mark2[i] = mark[i + 1] /\ mark2[i + 1] = mark[i + 1 + 1]
      BY <1>9, <2>1
  <2>3. /\ mark[i + 1] <= mark[i + 1 + 1]
        /\ w[i + 1].text = SubSeq(s, mark[i + 1] + 1, mark[i + 1 + 1])
      BY <1>4, <2>1
  <2>4. v[i] = w[i + 1]
      BY <1>2
  <2> QED
      BY <2>2, <2>3, <2>4
<1>15. Marks(mark2, got \o d, v, s)
    BY <1>11, <1>12, <1>13, <1>14 DEF Marks
<1>16. AllOf(got \o d, v, s)
    BY <1>10, <1>15 DEF AllOf
<1> QED
    BY <1>16 DEF d, v

\* Frames without text change nothing about the text on its way.
LEMMA SilentFrame ==
    ASSUME NEW got \in Texts, NEW w \in Seq(Frames), NEW s \in Texts, NEW f \in Frames,
           f.text = <<>>, AllOf(got, w, s)
    PROVE  AllOf(got, Append(w, f), s)
<1>1. s \o <<>> = s
    BY ConcatEmptySeq DEF Texts
<1>2. AllOf(got, Append(w, f), s \o f.text)
    BY FrameGoesOut
<1> QED
    BY <1>1, <1>2

\* With nothing on its way, all is got.
LEMMA NothingOnItsWay ==
    ASSUME NEW got \in Texts, NEW s \in Texts, AllOf(got, <<>>, s)
    PROVE  got = s
<1>1. PICK mark \in [1 .. Len(<<>>) + 1 -> Nat] : Marks(mark, got, <<>>, s)
    BY DEF AllOf
<1>2. mark[1] = Len(s) /\ got = SubSeq(s, 1, mark[1])
    BY <1>1 DEF Marks
<1>3. SubSeq(s, 1, Len(s)) = s
    BY SubSeqFull DEF Texts
<1> QED
    BY <1>2, <1>3

LEMMA AtTheStart == AllOf(<<>>, <<>>, <<>>)
<1> DEFINE mark == [i \in 1 .. 1 |-> 0]
<1>1. mark \in [1 .. Len(<<>>) + 1 -> Nat] /\ mark[1] = 0
    OBVIOUS
<1>2. Len(<<>>) = 0 /\ SubSeq(<<>>, 1, 0) = <<>>
    BY SubSeqEmpty
<1> HIDE DEF mark
<1>3. Marks(mark, <<>>, <<>>, <<>>)
    BY <1>1, <1>2 DEF Marks
<1> QED
    BY <1>1, <1>3 DEF AllOf

-----------------------------------------------------------------------------
(* What the steps do *)

LEMMA NeverIsBeforeTime == Never \in Int /\ Never < 0
BY DEF Never

\* on_token().
LEMMA TokenCounted ==
    ASSUME NEW r \in Recorders, NEW q, q = OnToken(r), now \in Nat
    PROVE  /\ q \in Recorders
           /\ q.arrived = r.arrived /\ q.finished = r.finished /\ q.outcome = r.outcome
           /\ q.tokens = r.tokens + 1 /\ q.last = now
           /\ q.first = IF r.first = Never THEN now ELSE r.first
           /\ r.first = Never => q.gaps = r.gaps
           /\ r.first # Never =>
                 q.gaps = Append(r.gaps, now - r.last) /\ Len(q.gaps) = Len(r.gaps) + 1
<1>1. now - r.last \in Int /\ now \in Int /\ r.tokens + 1 \in Nat
    BY DEF Recorders
<1>2. r.gaps \in Seq(Int)
    BY DEF Recorders
<1>3. Append(r.gaps, now - r.last) \in Seq(Int) /\ Len(Append(r.gaps, now - r.last)) = Len(r.gaps) + 1
    BY <1>1, <1>2
<1>4. /\ q.arrived = r.arrived /\ q.finished = r.finished /\ q.outcome = r.outcome
      /\ q.tokens = r.tokens + 1 /\ q.last = now
      /\ q.first = IF r.first = Never THEN now ELSE r.first
      /\ q.gaps = IF r.first = Never THEN r.gaps ELSE Append(r.gaps, now - r.last)
    BY DEF OnToken, Recorders
<1>5. q \in Recorders
  <2> DEFINE g == IF r.first = Never THEN r.gaps ELSE Append(r.gaps, now - r.last)
             n == now - r.last
  <2>1. g \in Seq(Int)
      BY <1>2, <1>3
  <2>2. q = [r EXCEPT !.gaps = g, !.first = IF @ = Never THEN now ELSE @, !.last = now, !.tokens = @ + 1]
      BY DEF OnToken
  <2> HIDE DEF g
  <2> QED
      BY <1>1, <2>1, <2>2 DEF Recorders
<1> QED
    BY <1>3, <1>4, <1>5

\* finish().
LEMMA RecorderClosed ==
    ASSUME rec \in Recorders, now \in Nat, NEW o \in ServerOutcomes, Finish(o)
    PROVE  /\ rec' \in Recorders
           /\ rec'.arrived = rec.arrived /\ rec'.first = rec.first /\ rec'.last = rec.last
           /\ rec'.gaps = rec.gaps /\ rec'.tokens = rec.tokens
           /\ rec'.finished = now /\ rec'.outcome = o
<1>1. now \in Int
    OBVIOUS
<1> QED
    BY <1>1 DEF Finish, Recorders

\* A frame on the wire.
LEMMA OneFrameMore ==
    ASSUME wire \in Seq(Frames), NEW f \in Frames, NEW w, w = Append(wire, f)
    PROVE  /\ w \in Seq(Frames) /\ Len(w) = Len(wire) + 1
           /\ \A i \in 1 .. Len(wire) : w[i] = wire[i]
           /\ w[Len(wire) + 1] = f
OBVIOUS

LEMMA TheFrames ==
    /\ \A d \in Texts : Frame(d) \in Frames /\ Frame(d).data = "delta" /\ Frame(d).text = d
    /\ ErrorFrame \in Frames /\ ErrorFrame.data = "error" /\ ErrorFrame.text = <<>>
<1>1. <<>> \in Texts
    BY EmptySeq DEF Texts
<1> QED
    BY <1>1 DEF Frame, ErrorFrame, Frames

\* The last two frames.
LEMMA FinalFramesSent ==
    ASSUME wire \in Seq(Frames), NEW w, w = wire \o FinalFrames
    PROVE  \E final \in Frames, done \in Frames :
              /\ w = Append(Append(wire, final), done)
              /\ final.data = "final" /\ final.text = <<>>
              /\ done.data = "[DONE]" /\ done.text = <<>>
<1> DEFINE final == [data |-> "final", text |-> <<>>]
           done == [data |-> "[DONE]", text |-> <<>>]
<1>1. <<>> \in Texts
    BY EmptySeq DEF Texts
<1>2. /\ final \in Frames /\ done \in Frames
      /\ final.data = "final" /\ final.text = <<>>
      /\ done.data = "[DONE]" /\ done.text = <<>>
    BY <1>1 DEF Frames
<1>3. FinalFrames = <<final, done>>
    BY DEF FinalFrames
<1> HIDE DEF final, done
<1>4. wire \o <<final, done>> = Append(Append(wire, final), done)
    BY <1>2
<1> QED
    BY <1>2, <1>3, <1>4

\* A word: the text goes on, or is cut and the rest of it sent, or it ends.
LEMMA WordDrawn ==
    ASSUME StreamTyped, TextFits, NEW w \in Vocab, NextWord(w)
    PROVE  \E c \in Texts, delta \in Texts :
              /\ gen = "decoding" /\ client.outcome = "waiting"
              /\ made' = c /\ IsPrefix(sent, c)
              /\ UNCHANGED <<now, stop, client>>
              /\ \/ /\ gen' = "yielded" /\ text' = c /\ Deliver(delta)
                    /\ sent' = c /\ Cut(c, stop) = c /\ Begins(c, stop) = {}
                 \/ /\ gen' = "stopping" /\ text' = text /\ Deliver(delta)
                    /\ sent' = Cut(c, stop) /\ sent' # c /\ sent' \in Texts
                    /\ IsPrefix(sent', c) /\ Begins(sent', stop) = {}
                 \/ /\ EndStream("stop") /\ UNCHANGED <<text, emitted, sent>>
                    /\ IsPrefix(Cut(c, stop), sent) /\ sent # c
<1> DEFINE piece == IF emitted = 0 THEN w ELSE Space \o w
           c == text \o piece
           t == Cut(c, stop)
           delta == SubSeq(t, Len(text) + 1, Len(t))
<1>1. gen = "decoding" /\ client.outcome = "waiting" /\ text = sent
    BY DEF NextWord, TextFits
<1>2. text \in Texts /\ stop \in SUBSET Stops /\ Begins(text, stop) = {}
    BY <1>1 DEF StreamTyped, TextFits
<1>3. piece \in Texts
    BY TextsAssumption, ConcatProperties DEF Texts
<1>4. /\ made' = c
      /\ \/ t = c /\ gen' = "yielded" /\ text' = c /\ Deliver(SubSeq(c, Len(text) + 1, Len(c)))
         \/ /\ t # c /\ delta # <<>> /\ gen' = "stopping" /\ Deliver(delta) /\ UNCHANGED text
         \/ /\ t # c /\ delta = <<>> /\ EndStream("stop") /\ UNCHANGED <<text, emitted, sent>>
      /\ UNCHANGED <<now, stop, client>>
    BY DEF NextWord
<1> HIDE DEF piece
<1>5. c \in Texts /\ IsPrefix(text, c)
    BY <1>2, <1>3, PrefixOfConcat
<1> HIDE DEF c
<1>6. /\ t = Cut(c, stop) /\ delta = SubSeq(t, Len(text) + 1, Len(t))
      /\ t = c => delta = SubSeq(c, Len(text) + 1, Len(c))
    OBVIOUS
<1> HIDE DEF t, delta
<1>7. /\ t \in Texts /\ delta \in Texts /\ IsPrefix(t, c) /\ Begins(t, stop) = {}
      /\ t = c \/ delta # <<>> => text \o delta = t
      /\ t # c /\ delta = <<>> => IsPrefix(t, text) /\ text # c
  <2>1. text \in Texts /\ c \in Texts /\ stop \in SUBSET Stops /\ IsPrefix(text, c) /\ Begins(text, stop) = {}
      BY <1>2, <1>5
  <2>2. t = Cut(c, stop)
      BY <1>6
  <2>3. delta = SubSeq(t, Len(text) + 1, Len(t))
      BY <1>6
  <2>4. t \in Texts
      BY <2>1, <2>2, <2>3, WhatGoesOut
  <2>5. delta \in Texts
    <3>1. Len(text) + 1 \in Nat \ {0} /\ Len(t) \in Nat /\ Len(t) <= Len(t)
        BY <2>1, <2>4, TextFacts
    <3> QED
        BY <2>3, <2>4, <3>1, SliceFacts
  <2>6. IsPrefix(t, c)
      BY <2>1, <2>2, <2>3, WhatGoesOut
  <2>7. Begins(t, stop) = {}
      BY <2>1, <2>2, <2>3, WhatGoesOut
  <2>8. t = c \/ delta # <<>> => text \o delta = t
      BY <2>1, <2>2, <2>3, WhatGoesOut
  <2>9. t # c /\ delta = <<>> => IsPrefix(t, text) /\ text # c
      BY <2>1, <2>2, <2>3, WhatGoesOut
  <2> QED
      BY <2>4, <2>5, <2>6, <2>7, <2>8, <2>9
<1>8. Deliver(delta) => sent' = sent \o delta
    BY DEF Deliver
<1>9. CASE t = c /\ gen' = "yielded" /\ text' = c /\ Deliver(SubSeq(c, Len(text) + 1, Len(c)))
  <2>1. Deliver(delta) /\ sent' = c
      BY <1>1, <1>6, <1>7, <1>8, <1>9
  <2> QED
      BY <1>1, <1>4, <1>5, <1>6, <1>7, <1>9, <2>1, Zenon
<1>10. CASE t # c /\ delta # <<>> /\ gen' = "stopping" /\ Deliver(delta) /\ UNCHANGED text
  <2>1. sent' = t
      BY <1>1, <1>7, <1>8, <1>10
  <2> QED
      BY <1>1, <1>4, <1>5, <1>6, <1>7, <1>10, <2>1, Zenon
<1>11. CASE t # c /\ delta = <<>> /\ EndStream("stop") /\ UNCHANGED <<text, emitted, sent>>
    BY <1>1, <1>4, <1>5, <1>6, <1>7, <1>11, Zenon
<1> QED
    BY <1>4, <1>9, <1>10, <1>11

\* A token is recorded and sent.
LEMMA TokenDelivered ==
    ASSUME StreamTyped, NEW d \in Texts, Deliver(d)
    PROVE  /\ emitted' \in Nat /\ sent' = sent \o d
           /\ rec' = OnToken(rec) /\ rec' \in Recorders
           /\ wire' = Append(wire, Frame(d)) /\ wire' \in Seq(Frames)
<1>1. now \in Nat /\ rec \in Recorders /\ wire \in Seq(Frames) /\ emitted \in Nat
    BY DEF StreamTyped
<1>2. rec' = OnToken(rec) /\ wire' = Append(wire, Frame(d)) /\ emitted' = emitted + 1 /\ sent' = sent \o d
    BY DEF Deliver
<1>3. rec' \in Recorders
    BY <1>1, <1>2, TokenCounted
<1>4. Frame(d) \in Frames
    BY TheFrames
<1>5. wire' \in Seq(Frames)
    BY <1>1, <1>2, <1>4, OneFrameMore
<1> QED
    BY <1>1, <1>2, <1>3, <1>5

\* The stream comes to its end.
LEMMA StreamEnded ==
    ASSUME StreamTyped, NEW o \in ServerOutcomes, EndStream(o)
    PROVE  /\ gen' = "ended" /\ rec' \in Recorders /\ wire' \in Seq(Frames)
           /\ \E final \in Frames, done \in Frames :
                 /\ wire' = Append(Append(wire, final), done)
                 /\ final.data = "final" /\ final.text = <<>>
                 /\ done.data = "[DONE]" /\ done.text = <<>>
<1>1. now \in Nat /\ rec \in Recorders /\ wire \in Seq(Frames)
    BY DEF StreamTyped
<1>2. gen' = "ended" /\ Finish(o) /\ wire' = wire \o FinalFrames
    BY DEF EndStream
<1>3. rec' \in Recorders
    BY <1>1, <1>2, RecorderClosed
<1>4. PICK final \in Frames, done \in Frames :
         /\ wire' = Append(Append(wire, final), done)
         /\ final.data = "final" /\ final.text = <<>>
         /\ done.data = "[DONE]" /\ done.text = <<>>
    BY <1>1, <1>2, FinalFramesSent
<1>5. Append(wire, final) \in Seq(Frames)
    BY <1>1, OneFrameMore
<1>6. wire' \in Seq(Frames)
    BY <1>4, <1>5
<1> QED
    BY <1>2, <1>3, <1>4, <1>6

\* What the client does with a frame.
LEMMA FrameRead ==
    ASSUME StreamTyped, ReadFrame
    PROVE  /\ client.outcome = "waiting" /\ wire # <<>> /\ wire' = Tail(wire)
           /\ Head(wire) \in Frames /\ Head(wire) = wire[1]
           /\ UNCHANGED <<now, engineVars, sent, rec>>
           /\ client' \in Clients
           /\ \/ /\ Head(wire).data = "delta"
                 /\ client'.got = client.got \o Head(wire).text
                 /\ client'.outcome = "waiting"
                 /\ client'.tokens = client.tokens + 1 /\ client'.last = now
                 /\ client'.ttft = IF client.ttft = Never THEN now ELSE client.ttft
                 /\ client.ttft = Never => client'.itls = client.itls
                 /\ client.ttft # Never =>
                       /\ client'.itls = Append(client.itls, now - client.last)
                       /\ Len(client'.itls) = Len(client.itls) + 1
              \/ Head(wire).data = "final" /\ client' = client
              \/ \E o \in {"stream_error", "ok"} :
                    /\ o = "ok" => Head(wire).data = "[DONE]"
                    /\ o = "stream_error" => Head(wire).data = "error"
                    /\ client' = [client EXCEPT !.outcome = o, !.e2e = now]
<1> DEFINE f == Head(wire)
<1>1. /\ client.outcome = "waiting" /\ wire # <<>> /\ wire' = Tail(wire)
      /\ UNCHANGED <<now, engineVars, sent, rec>>
      /\ \/ f.data = "delta" /\ GotDelta(f.text)
         \/ f.data = "final" /\ UNCHANGED client
         \/ f.data = "error" /\ Leaves("stream_error")
         \/ f.data = "[DONE]" /\ Leaves("ok")
    BY DEF ReadFrame
<1>2. now \in Nat /\ now \in Int /\ client \in Clients /\ wire \in Seq(Frames)
    BY DEF StreamTyped
<1>3. f \in Frames /\ f = wire[1]
    BY <1>1, <1>2
<1> HIDE DEF f
<1>4. CASE f.data = "delta" /\ GotDelta(f.text)
  <2> DEFINE g == IF client.ttft = Never THEN client.itls ELSE Append(client.itls, now - client.last)
             got2 == client.got \o f.text
             first == IF client.ttft = Never THEN now ELSE client.ttft
  <2>1. client' = [client EXCEPT !.ttft = first, !.itls = g, !.last = now, !.tokens = @ + 1, !.got = got2]
      BY <1>4 DEF GotDelta
  <2>2. client.itls \in Seq(Int) /\ now - client.last \in Int /\ first \in Int
      BY <1>2 DEF Clients
  <2>3. /\ g \in Seq(Int)
        /\ client.ttft # Never =>
              g = Append(client.itls, now - client.last) /\ Len(g) = Len(client.itls) + 1
        /\ client.ttft = Never => g = client.itls
      BY <2>2
  <2>4. f.text \in Texts /\ client.got \in Texts
      BY <1>2, <1>3 DEF Frames, Clients
  <2>5. got2 \in Texts
      BY <2>4, PrefixOfConcat
  <2>6. first = IF client.ttft = Never THEN now ELSE client.ttft
      OBVIOUS
  <2>7. got2 = client.got \o f.text
      OBVIOUS
  <2> HIDE DEF g, got2, first
  <2>8. client.tokens + 1 \in Nat
      BY <1>2 DEF Clients
  <2>9. client' \in Clients
      BY <1>2, <2>1, <2>2, <2>3, <2>5, <2>8 DEF Clients
  <2>10. /\ client'.got = got2 /\ client'.outcome = client.outcome
         /\ client'.tokens = client.tokens + 1 /\ client'.ttft = first /\ client'.itls = g
         /\ client'.last = now
      BY <1>2, <2>1 DEF Clients
  <2> QED
      BY <1>1, <1>3, <1>4, <2>3, <2>6, <2>7, <2>9, <2>10 DEF f
<1>5. CASE f.data = "final" /\ UNCHANGED client
    BY <1>1, <1>2, <1>3, <1>5 DEF f
<1>6. ASSUME NEW o \in {"stream_error", "ok"}, Leaves(o),
             o = "ok" => f.data = "[DONE]", o = "stream_error" => f.data = "error"
      PROVE  /\ client' \in Clients /\ client' = [client EXCEPT !.outcome = o, !.e2e = now]
             /\ \E x \in {"stream_error", "ok"} :
                   /\ x = "ok" => f.data = "[DONE]"
                   /\ x = "stream_error" => f.data = "error"
                   /\ client' = [client EXCEPT !.outcome = x, !.e2e = now]
  <2>1. client' = [client EXCEPT !.outcome = o, !.e2e = now]
      BY <1>6 DEF Leaves
  <2>2. o \in ClientOutcomes
      BY DEF ClientOutcomes
  <2>3. client' \in Clients
      BY <1>2, <2>1, <2>2 DEF Clients
  <2> QED
      BY <1>6, <2>1, <2>3
<1>7. CASE f.data = "error" /\ Leaves("stream_error")
  <2>1. "stream_error" # "ok"
      OBVIOUS
  <2> QED
      BY <1>1, <1>3, <1>6, <1>7, <2>1 DEF f
<1>8. CASE f.data = "[DONE]" /\ Leaves("ok")
  <2>1. "stream_error" # "ok"
      OBVIOUS
  <2> QED
      BY <1>1, <1>3, <1>6, <1>8, <2>1 DEF f
<1> QED
    BY <1>1, <1>4, <1>5, <1>7, <1>8

-----------------------------------------------------------------------------
(* The invariant is kept *)

LEMMA TypedInitially == MeasuredInit => StreamTyped
<1> SUFFICES ASSUME MeasuredInit
             PROVE  StreamTyped
    OBVIOUS
<1>1. <<>> \in Texts /\ <<>> \in Seq(Int) /\ <<>> \in Seq(Frames)
    BY EmptySeq DEF Texts
<1>2. Never \in Int /\ 0 \in Nat
    BY NeverIsBeforeTime
<1>3. rec \in Recorders
    BY <1>1, <1>2 DEF MeasuredInit, Recorders, ServerOutcomes
<1>4. client \in Clients
    BY <1>1, <1>2 DEF MeasuredInit, Clients, ClientOutcomes
<1> QED
    BY <1>1, <1>2, <1>3, <1>4 DEF MeasuredInit, StreamTyped

LEMMA TypedStep ==
    ASSUME StreamTyped, TextFits, [MeasuredNext]_measuredVars
    PROVE  StreamTyped'
<1> USE DEF engineVars
<1>0. /\ now \in Nat /\ stop \in SUBSET Stops
      /\ gen \in {"none", "decoding", "yielded", "stopping", "ended"}
      /\ text \in Texts /\ made \in Texts /\ sent \in Texts /\ emitted \in Nat
      /\ rec \in Recorders /\ client \in Clients /\ wire \in Seq(Frames)
    BY DEF StreamTyped
<1>1. CASE UNCHANGED measuredVars
    BY <1>0, <1>1 DEF measuredVars, StreamTyped
<1>2. CASE Tick
  <2>1. now' \in Nat
      BY <1>0, <1>2 DEF Tick
  <2> QED
      BY <1>0, <1>2, <2>1 DEF Tick, StreamTyped
<1>3. CASE Arrive
  <2>1. rec' \in Recorders
    <3>1. now \in Int
        BY <1>0
    <3> QED
        BY <1>0, <1>3, <3>1 DEF Arrive, Recorders
  <2> QED
      BY <1>0, <1>3, <2>1 DEF Arrive, StreamTyped
<1>4. CASE Admitted
    BY <1>0, <1>4 DEF Admitted, StreamTyped
<1>5. ASSUME NEW w \in Vocab, NextWord(w)
      PROVE  StreamTyped'
  <2>1. PICK c \in Texts, delta \in Texts :
              /\ made' = c
              /\ UNCHANGED <<now, stop, client>>
              /\ \/ gen' = "yielded" /\ text' = c /\ Deliver(delta) /\ sent' = c
                 \/ gen' = "stopping" /\ text' = text /\ Deliver(delta) /\ sent' \in Texts
                 \/ EndStream("stop") /\ UNCHANGED <<text, emitted, sent>>
      BY <1>5, WordDrawn, Zenon
  <2>2. CASE Deliver(delta) /\ gen' \in {"yielded", "stopping"} /\ text' \in Texts /\ sent' \in Texts
    <3>1. emitted' \in Nat /\ rec' \in Recorders /\ wire' \in Seq(Frames)
        BY <2>2, TokenDelivered
    <3> QED
        BY <1>0, <2>1, <2>2, <3>1 DEF StreamTyped
  <2>3. CASE EndStream("stop") /\ UNCHANGED <<text, emitted, sent>>
    <3>1. "stop" \in ServerOutcomes
        BY DEF ServerOutcomes
    <3>2. gen' = "ended" /\ rec' \in Recorders /\ wire' \in Seq(Frames)
        BY <2>3, <3>1, StreamEnded
    <3> QED
        BY <1>0, <2>1, <2>3, <3>2 DEF StreamTyped
  <2> QED
      BY <1>0, <2>1, <2>2, <2>3
<1>6. CASE AfterDelta
  <2>1. ASSUME NEW o \in {"timeout", "stop", "length"}, EndStream(o),
               UNCHANGED <<now, stop, text, emitted, made, sent, client>>
        PROVE  StreamTyped'
    <3>1. o \in ServerOutcomes
        BY DEF ServerOutcomes
    <3>2. gen' = "ended" /\ rec' \in Recorders /\ wire' \in Seq(Frames)
        BY <2>1, <3>1, StreamEnded
    <3> QED
        BY <1>0, <2>1, <3>2 DEF StreamTyped
  <2>2. CASE gen' = "decoding" /\ UNCHANGED <<rec, wire>>
      BY <1>0, <1>6, <2>2 DEF AfterDelta, StreamTyped
  <2>3. UNCHANGED <<now, stop, text, emitted, made, sent, client>>
      BY <1>6 DEF AfterDelta
  <2> QED
      BY <1>6, <2>1, <2>2, <2>3 DEF AfterDelta
<1>7. CASE EngineRaises
  <2>1. /\ Finish("error") /\ wire' = Append(wire, ErrorFrame) /\ gen' = "ended"
        /\ UNCHANGED <<now, stop, text, emitted, made, sent, client>>
      BY <1>7 DEF EngineRaises
  <2>2. rec' \in Recorders
    <3>1. "error" \in ServerOutcomes
        BY DEF ServerOutcomes
    <3> QED
        BY <1>0, <2>1, <3>1, RecorderClosed
  <2>3. wire' \in Seq(Frames)
      BY <1>0, <2>1, TheFrames, OneFrameMore
  <2> QED
      BY <1>0, <2>1, <2>2, <2>3 DEF StreamTyped
<1>8. CASE HangUp
  <2>1. rec' \in Recorders
    <3>1. "client_disconnect" \in ServerOutcomes
        BY DEF ServerOutcomes
    <3> QED
        BY <1>0, <1>8, <3>1, RecorderClosed DEF HangUp
  <2> QED
      BY <1>0, <1>8, <2>1 DEF HangUp, StreamTyped
<1>9. CASE ReadFrame
  <2>1. /\ wire # <<>> /\ wire' = Tail(wire) /\ client' \in Clients
        /\ UNCHANGED <<now, stop, gen, text, emitted, made, sent, rec>>
      BY <1>9, FrameRead
  <2>2. wire' \in Seq(Frames)
      BY <1>0, <2>1
  <2> QED
      BY <1>0, <2>1, <2>2 DEF StreamTyped
<1>10. CASE ClientTimeout
  <2>1. client' \in Clients
    <3>1. now \in Int /\ <<>> \in Seq(Int) /\ Never \in Int /\ 0 \in Nat
        BY <1>0, NeverIsBeforeTime
    <3>2. client' = [client EXCEPT !.outcome = "http_error", !.e2e = now, !.ttft = Never,
                                   !.itls = <<>>, !.tokens = 0]
        BY <1>10 DEF ClientTimeout
    <3> QED
        BY <1>0, <3>1, <3>2 DEF Clients, ClientOutcomes
  <2> QED
      BY <1>0, <1>10, <2>1 DEF ClientTimeout, StreamTyped
<1> QED
    BY <1>1, <1>2, <1>3, <1>4, <1>5, <1>6, <1>7, <1>8, <1>9, <1>10 DEF MeasuredNext

\* After a delta the stream ends, for one of three reasons, or goes on.
LEMMA DeltaFollowed ==
    ASSUME AfterDelta
    PROVE  /\ gen \in {"yielded", "stopping"} /\ client.outcome = "waiting"
           /\ UNCHANGED <<now, stop, text, emitted, made, sent, client>>
           /\ \/ gen = "yielded" /\ gen' = "decoding" /\ UNCHANGED <<rec, wire>>
              \/ \E o \in {"timeout", "stop", "length"} :
                    /\ EndStream(o)
                    /\ o = "stop" => gen = "stopping"
                    /\ o = "length" => gen = "yielded"
BY DEF AfterDelta

LEMMA TextInitially == MeasuredInit => TextFits
<1> SUFFICES ASSUME MeasuredInit
             PROVE  TextFits
    OBVIOUS
<1>1. <<>> \in Texts /\ stop \in SUBSET Stops
    BY EmptySeq DEF MeasuredInit, Texts
<1>2. Begins(<<>>, stop) = {}
  <2> SUFFICES ASSUME NEW i \in Begins(<<>>, stop)
               PROVE  FALSE
      OBVIOUS
  <2> QED
      BY <1>1, WhereStopsBegin
<1>3. Cut(<<>>, stop) = <<>>
    BY <1>2 DEF Cut
<1>4. IsPrefix(<<>>, <<>>)
    BY <1>1, PrefixByCharacter
<1> QED
    BY <1>2, <1>3, <1>4 DEF MeasuredInit, TextFits

LEMMA TextStep ==
    ASSUME StreamTyped, TextFits, [MeasuredNext]_measuredVars
    PROVE  TextFits'
<1> USE DEF engineVars
<1>0. stop \in SUBSET Stops /\ text \in Texts /\ made \in Texts /\ sent \in Texts
      /\ now \in Nat /\ rec \in Recorders /\ wire \in Seq(Frames)
    BY DEF StreamTyped
\* Nothing that is sent or drawn, and no outcome that speaks of it.
<1>1. ASSUME UNCHANGED <<stop, text, made, sent>>,
             \/ gen' = gen /\ rec'.outcome = rec.outcome
             \/ gen = "none" /\ gen' = "decoding" /\ rec' = rec
             \/ gen = "yielded" /\ gen' = "decoding" /\ rec' = rec
             \/ gen' = "ended" /\ rec'.outcome \in {"timeout", "error", "client_disconnect"}
             \/ gen = "stopping" /\ gen' = "ended" /\ rec'.outcome = "stop"
             \/ gen = "yielded" /\ gen' = "ended" /\ rec'.outcome = "length"
      PROVE  TextFits'
  <2>1. /\ gen' \in {"none", "decoding", "yielded"} => text = sent /\ made = sent
        /\ gen' = "stopping" => sent # made
        /\ gen' # "ended" => rec'.outcome = "pending"
        /\ rec'.outcome = "stop" => sent # made
        /\ rec'.outcome = "length" => sent = made
      BY <1>1 DEF TextFits
  <2>2. Begins(sent, stop) = {} /\ IsPrefix(sent, made) /\ IsPrefix(Cut(made, stop), sent)
      BY DEF TextFits
  <2>3. /\ Begins(sent', stop') = {}
        /\ IsPrefix(sent', made') /\ IsPrefix(Cut(made', stop'), sent')
      BY <1>1, <2>2, Zenon
  <2> QED
      BY <1>1, <2>1, <2>3 DEF TextFits
<1>2. CASE UNCHANGED measuredVars
    BY <1>1, <1>2 DEF measuredVars
<1>3. CASE Tick
    BY <1>1, <1>3 DEF Tick
<1>4. CASE Arrive
  <2>1. rec'.outcome = rec.outcome
      BY <1>0, <1>4 DEF Arrive, Recorders
  <2> QED
      BY <1>1, <1>4, <2>1 DEF Arrive
<1>5. CASE Admitted
    BY <1>1, <1>5 DEF Admitted
<1>6. ASSUME NEW w \in Vocab, NextWord(w)
      PROVE  TextFits'
  <2>1. PICK c \in Texts, delta \in Texts :
              /\ gen = "decoding" /\ client.outcome = "waiting"
              /\ made' = c /\ IsPrefix(sent, c)
              /\ UNCHANGED <<now, stop, client>>
              /\ \/ /\ gen' = "yielded" /\ text' = c /\ Deliver(delta)
                    /\ sent' = c /\ Cut(c, stop) = c /\ Begins(c, stop) = {}
                 \/ /\ gen' = "stopping" /\ text' = text /\ Deliver(delta)
                    /\ sent' = Cut(c, stop) /\ sent' # c /\ sent' \in Texts
                    /\ IsPrefix(sent', c) /\ Begins(sent', stop) = {}
                 \/ /\ EndStream("stop") /\ UNCHANGED <<text, emitted, sent>>
                    /\ IsPrefix(Cut(c, stop), sent) /\ sent # c
      BY <1>6, WordDrawn, Zenon
  <2>2. rec.outcome = "pending" /\ Begins(sent, stop) = {}
      BY <2>1 DEF TextFits
  <2>3. Deliver(delta) => rec'.outcome = "pending"
    <3>1. Deliver(delta) => rec' = OnToken(rec)
        BY TokenDelivered
    <3> QED
        BY <1>0, <2>2, <3>1, TokenCounted
  <2>4. \A t \in Texts : IsPrefix(t, t)
      BY PrefixByCharacter, TextFacts
  <2>5. CASE /\ gen' = "yielded" /\ text' = c /\ Deliver(delta)
             /\ sent' = c /\ Cut(c, stop) = c /\ Begins(c, stop) = {}
    <3>1. /\ Begins(sent', stop') = {}
          /\ IsPrefix(sent', made') /\ IsPrefix(Cut(made', stop'), sent')
        BY <2>1, <2>4, <2>5, Zenon
    <3> QED
        BY <2>1, <2>3, <2>5, <3>1 DEF TextFits
  <2>6. CASE /\ gen' = "stopping" /\ text' = text /\ Deliver(delta)
             /\ sent' = Cut(c, stop) /\ sent' # c /\ sent' \in Texts
             /\ IsPrefix(sent', c) /\ Begins(sent', stop) = {}
    <3>1. /\ Begins(sent', stop') = {}
          /\ IsPrefix(sent', made') /\ IsPrefix(Cut(made', stop'), sent')
        BY <2>1, <2>4, <2>6, Zenon
    <3> QED
        BY <2>1, <2>3, <2>6, <3>1 DEF TextFits
  <2>7. CASE /\ EndStream("stop") /\ UNCHANGED <<text, emitted, sent>>
             /\ IsPrefix(Cut(c, stop), sent) /\ sent # c
    <3>1. /\ Begins(sent', stop') = {}
          /\ IsPrefix(sent', made') /\ IsPrefix(Cut(made', stop'), sent')
        BY <2>1, <2>2, <2>7, Zenon
    <3>2. gen' = "ended" /\ rec'.outcome = "stop"
        BY <1>0, <2>7, RecorderClosed DEF EndStream, ServerOutcomes
    <3> QED
        BY <2>1, <2>7, <3>1, <3>2 DEF TextFits
  <2> QED
      BY <2>1, <2>5, <2>6, <2>7
<1>7. CASE AfterDelta
  <2>1. ASSUME NEW o \in {"timeout", "stop", "length"}, EndStream(o)
        PROVE  gen' = "ended" /\ rec'.outcome = o
    <3>1. o \in ServerOutcomes
        BY DEF ServerOutcomes
    <3> QED
        BY <1>0, <2>1, <3>1, RecorderClosed DEF EndStream
  <2> QED
      BY <1>1, <1>7, <2>1, DeltaFollowed
<1>8. CASE EngineRaises
  <2>1. rec'.outcome = "error"
      BY <1>0, <1>8, RecorderClosed DEF EngineRaises, ServerOutcomes
  <2> QED
      BY <1>1, <1>8, <2>1 DEF EngineRaises
<1>9. CASE HangUp
  <2>1. rec'.outcome = "client_disconnect"
      BY <1>0, <1>9, RecorderClosed DEF HangUp, ServerOutcomes
  <2> QED
      BY <1>1, <1>9, <2>1 DEF HangUp
<1>10. CASE ReadFrame
    BY <1>1, <1>10 DEF ReadFrame
<1>11. CASE ClientTimeout
    BY <1>1, <1>11 DEF ClientTimeout
<1> QED
    BY <1>2, <1>3, <1>4, <1>5, <1>6, <1>7, <1>8, <1>9, <1>10, <1>11 DEF MeasuredNext

LEMMA OnTheWayStep ==
    ASSUME StreamTyped, TextFits, OnTheWay, FramesFit, [MeasuredNext]_measuredVars
    PROVE  OnTheWay'
<1> USE DEF engineVars
<1>0. /\ now \in Nat /\ rec \in Recorders /\ wire \in Seq(Frames) /\ sent \in Texts
      /\ client \in Clients /\ client.got \in Texts
    BY DEF StreamTyped, Clients
<1>1. ASSUME UNCHANGED <<wire, sent, client>>
      PROVE  OnTheWay'
    BY <1>1 DEF OnTheWay, AllOf, Marks
\* Something is put on the wire.
<1>2. ASSUME UNCHANGED client, client.outcome = "waiting",
             AllOf(client.got, wire, sent) => AllOf(client.got, wire', sent')
      PROVE  OnTheWay'
  <2>1. AllOf(client.got, wire', sent')
      BY <1>2 DEF OnTheWay
  <2>2. AllOf(client'.got, wire', sent')
      BY <1>2, <2>1, Zenon
  <2>3. client'.outcome = "waiting"
      BY <1>2
  <2> QED
      BY <2>2, <2>3 DEF OnTheWay
<1>3. ASSUME NEW o \in ServerOutcomes, EndStream(o), UNCHANGED sent,
             AllOf(client.got, wire, sent)
      PROVE  AllOf(client.got, wire', sent')
  <2>1. PICK final \in Frames, done \in Frames :
           /\ wire' = Append(Append(wire, final), done)
           /\ final.text = <<>> /\ done.text = <<>>
      BY <1>3, StreamEnded
  <2>2. Append(wire, final) \in Seq(Frames)
      BY <1>0, OneFrameMore
  <2>3. AllOf(client.got, Append(wire, final), sent)
      BY <1>0, <1>3, <2>1, SilentFrame
  <2>4. AllOf(client.got, Append(Append(wire, final), done), sent)
      BY <1>0, <2>1, <2>2, <2>3, SilentFrame
  <2> QED
      BY <1>3, <2>1, <2>4
<1>4. CASE UNCHANGED measuredVars
    BY <1>1, <1>4 DEF measuredVars
<1>5. CASE Tick
    BY <1>1, <1>5 DEF Tick
<1>6. CASE Arrive
    BY <1>1, <1>6 DEF Arrive
<1>7. CASE Admitted
    BY <1>1, <1>7 DEF Admitted
<1>8. ASSUME NEW w \in Vocab, NextWord(w)
      PROVE  OnTheWay'
  <2>1. PICK delta \in Texts :
              /\ client.outcome = "waiting" /\ UNCHANGED client
              /\ \/ Deliver(delta)
                 \/ EndStream("stop") /\ UNCHANGED sent
      BY <1>8, WordDrawn, Zenon
  <2>2. CASE Deliver(delta)
    <3>1. wire' = Append(wire, Frame(delta)) /\ sent' = sent \o delta
        BY <2>2, TokenDelivered
    <3>2. Frame(delta) \in Frames /\ Frame(delta).text = delta
        BY TheFrames
    <3>3. AllOf(client.got, wire, sent) => AllOf(client.got, Append(wire, Frame(delta)), sent \o delta)
      <4>1. AllOf(client.got, wire, sent) =>
               AllOf(client.got, Append(wire, Frame(delta)), sent \o Frame(delta).text)
          BY <1>0, <3>2, FrameGoesOut
      <4> QED
          BY <3>2, <4>1, Zenon
    <3> QED
        BY <1>2, <2>1, <3>1, <3>3
  <2>3. CASE EndStream("stop") /\ UNCHANGED sent
    <3>1. "stop" \in ServerOutcomes
        BY DEF ServerOutcomes
    <3> QED
        BY <1>2, <1>3, <2>1, <2>3, <3>1
  <2> QED
      BY <2>1, <2>2, <2>3
<1>9. CASE AfterDelta
  <2>1. ASSUME NEW o \in {"timeout", "stop", "length"}, EndStream(o), UNCHANGED sent
        PROVE  AllOf(client.got, wire, sent) => AllOf(client.got, wire', sent')
    <3>1. o \in ServerOutcomes
        BY DEF ServerOutcomes
    <3> QED
        BY <1>3, <2>1, <3>1
  <2>2. client.outcome = "waiting" /\ UNCHANGED <<sent, client>>
      BY <1>9, DeltaFollowed
  <2>3. UNCHANGED wire \/ \E o \in {"timeout", "stop", "length"} : EndStream(o)
      BY <1>9, DeltaFollowed
  <2> QED
      BY <1>1, <1>2, <2>1, <2>2, <2>3
<1>10. CASE EngineRaises
  <2>1. client.outcome = "waiting" /\ wire' = Append(wire, ErrorFrame) /\ UNCHANGED <<client, sent>>
      BY <1>10 DEF EngineRaises
  <2>2. AllOf(client.got, wire, sent) => AllOf(client.got, Append(wire, ErrorFrame), sent)
      BY <1>0, TheFrames, SilentFrame
  <2>3. AllOf(client.got, wire, sent) => AllOf(client.got, wire', sent')
      BY <2>1, <2>2, Zenon
  <2> QED
      BY <1>2, <2>1, <2>3
<1>11. CASE HangUp
    BY <1>1, <1>11 DEF HangUp
<1>12. CASE ReadFrame
  <2>1. /\ client.outcome = "waiting" /\ wire # <<>> /\ wire' = Tail(wire) /\ sent' = sent
        /\ Head(wire) \in Frames /\ Head(wire) = wire[1]
      BY <1>12, FrameRead
  <2>2. Len(wire) \in Nat \ {0}
      BY <1>0, <2>1, EmptySeq
  <2>3. Head(wire).data # "delta" => Head(wire).text = <<>>
    <3>1. 1 \in 1 .. Len(wire)
        BY <2>2
    <3> QED
        BY <2>1, <3>1 DEF FramesFit
  <2>4. AllOf(client.got \o Head(wire).text, wire', sent')
    <3>1. AllOf(client.got, wire, sent)
        BY <2>1 DEF OnTheWay
    <3>2. AllOf(client.got \o Head(wire).text, Tail(wire), sent)
        BY <1>0, <2>1, <3>1, FrameComesIn
    <3> QED
        BY <2>1, <3>2, Zenon
  <2>5. client.got \o <<>> = client.got
      BY <1>0, ConcatEmptySeq DEF Texts
  <2>6. CASE client'.got = client.got \o Head(wire).text /\ client'.outcome = "waiting"
    <3>1. AllOf(client'.got, wire', sent')
        BY <2>4, <2>6, Zenon
    <3> QED
        BY <2>6, <3>1 DEF OnTheWay
  <2>7. CASE Head(wire).data = "final" /\ client' = client
    <3>1. client.got \o Head(wire).text = client'.got
        BY <2>3, <2>5, <2>7
    <3>2. AllOf(client'.got, wire', sent')
        BY <2>4, <3>1, Zenon
    <3>3. client'.outcome = "waiting"
        BY <2>1, <2>7
    <3> QED
        BY <3>2, <3>3 DEF OnTheWay
  <2>8. ASSUME NEW o \in {"stream_error", "ok"}, o = "ok" => Head(wire).data = "[DONE]",
               client' = [client EXCEPT !.outcome = o, !.e2e = now]
        PROVE  OnTheWay'
    <3>1. client'.outcome = o /\ client'.got = client.got
        BY <1>0, <2>8 DEF Clients
    <3>2. ASSUME o = "ok"
          PROVE  client'.got = sent'
      <4>1. 1 \in 1 .. Len(wire) /\ wire[1].data = "[DONE]"
          BY <2>1, <2>2, <2>8, <3>2
      <4>2. 1 = Len(wire)
          BY <4>1 DEF FramesFit
      <4>3. wire' = <<>>
          BY <1>0, <2>1, <4>2
      <4>4. Head(wire).text = <<>>
          BY <2>3, <2>8, <3>2
      <4>5. client.got \o Head(wire).text = client.got
          BY <2>5, <4>4
      <4>6. AllOf(client.got, <<>>, sent)
          BY <2>1, <2>4, <4>3, <4>5, Zenon
      <4> QED
          BY <1>0, <2>1, <3>1, <4>6, NothingOnItsWay
    <3>3. client'.outcome # "waiting"
        BY <3>1
    <3> QED
        BY <3>1, <3>2, <3>3 DEF OnTheWay
  <2>9. \/ client'.got = client.got \o Head(wire).text /\ client'.outcome = "waiting"
        \/ Head(wire).data = "final" /\ client' = client
        \/ \E o \in {"stream_error", "ok"} :
              /\ o = "ok" => Head(wire).data = "[DONE]"
              /\ client' = [client EXCEPT !.outcome = o, !.e2e = now]
      BY <1>12, FrameRead
  <2> QED
      BY <2>6, <2>7, <2>8, <2>9
<1>13. CASE ClientTimeout
  <2>1. client'.outcome = "http_error"
      BY <1>0, <1>13 DEF ClientTimeout, Clients
  <2> QED
      BY <2>1 DEF OnTheWay
<1> QED
    BY <1>4, <1>5, <1>6, <1>7, <1>8, <1>9, <1>10, <1>11, <1>12, <1>13 DEF MeasuredNext

LEMMA FramesStep ==
    ASSUME StreamTyped, TextFits, FramesFit, [MeasuredNext]_measuredVars
    PROVE  FramesFit'
<1> USE DEF engineVars
<1>0. /\ now \in Nat /\ rec \in Recorders /\ wire \in Seq(Frames) /\ client \in Clients
      /\ rec.tokens \in Nat /\ client.tokens \in Nat /\ Len(wire) \in Nat
    BY DEF StreamTyped, Recorders, Clients
\* The wire and the counts at both ends stay.
<1>1. ASSUME UNCHANGED <<wire, client>>, rec'.tokens = rec.tokens, gen = "ended" => gen' = "ended"
      PROVE  FramesFit'
    BY <1>1 DEF FramesFit
\* A last frame goes out.
<1>2. ASSUME NEW w \in Seq(Frames), NEW f \in Frames, NEW v, v = Append(w, f),
             f.data # "delta", f.text = <<>>,
             client.outcome = "waiting", UNCHANGED client, rec'.tokens = rec.tokens, gen' = "ended",
             rec.tokens - client.tokens <= Len(w), wire' = v,
             \A i \in 1 .. Len(w) :
                /\ w[i].data # "delta" => w[i].text = <<>>
                /\ w[i].data # "[DONE]"
                /\ w[i].data = "delta" <=> i <= rec.tokens - client.tokens,
             client.tokens <= rec.tokens
      PROVE  FramesFit'
  <2>1. /\ Len(w) \in Nat /\ Len(v) = Len(w) + 1 /\ v[Len(w) + 1] = f
        /\ \A i \in 1 .. Len(w) : v[i] = w[i]
      BY <1>2
  <2>2. \A i \in 1 .. Len(v) : i \in 1 .. Len(w) \/ i = Len(v)
      BY <2>1
  <2>3. \A i \in 1 .. Len(v) :
          /\ v[i].data # "delta" => v[i].text = <<>>
          /\ v[i].data = "[DONE]" => i = Len(v)
      BY <1>2, <2>1, <2>2
  <2>4. /\ rec.tokens - client.tokens <= Len(v)
        /\ \A i \in 1 .. Len(v) : v[i].data = "delta" <=> i <= rec.tokens - client.tokens
    <3>1. ~ (Len(v) <= rec.tokens - client.tokens) /\ v[Len(v)].data # "delta"
        BY <1>0, <1>2, <2>1
    <3>2. rec.tokens - client.tokens <= Len(v)
        BY <1>0, <1>2, <2>1
    <3> QED
        BY <1>2, <2>1, <2>2, <3>1, <3>2
  <2> QED
      BY <1>2, <2>3, <2>4 DEF FramesFit
<1>3. ASSUME gen # "ended", client.outcome = "waiting"
      PROVE  /\ \A i \in 1 .. Len(wire) : wire[i].data = "delta"
             /\ rec.tokens - client.tokens = Len(wire) /\ client.tokens <= rec.tokens
  <2>1. \A i \in 1 .. Len(wire) : wire[i].data = "delta"
      BY <1>3 DEF FramesFit
  <2>2. /\ client.tokens <= rec.tokens
        /\ rec.tokens - client.tokens <= Len(wire)
        /\ \A i \in 1 .. Len(wire) : i <= rec.tokens - client.tokens
      BY <1>3, <2>1 DEF FramesFit
  <2>3. Len(wire) <= rec.tokens - client.tokens
    <3>1. CASE Len(wire) = 0
        BY <1>0, <2>2, <3>1
    <3>2. CASE Len(wire) # 0
      <4>1. Len(wire) \in 1 .. Len(wire)
          BY <1>0, <3>2
      <4> QED
          BY <2>2, <4>1
    <3> QED
        BY <3>1, <3>2
  <2> QED
      BY <1>0, <2>1, <2>2, <2>3
<1>4. ASSUME NEW o \in ServerOutcomes, EndStream(o), gen # "ended", UNCHANGED client,
             client.outcome = "waiting"
      PROVE  FramesFit'
  <2>1. PICK final \in Frames, done \in Frames :
           /\ wire' = Append(Append(wire, final), done)
           /\ final.data = "final" /\ final.text = <<>>
           /\ done.data = "[DONE]" /\ done.text = <<>>
      BY <1>4, StreamEnded
  <2>2. gen' = "ended" /\ rec'.tokens = rec.tokens
      BY <1>0, <1>4, RecorderClosed DEF EndStream
  <2> DEFINE w == Append(wire, final)
  <2>3. /\ w \in Seq(Frames) /\ Len(w) = Len(wire) + 1 /\ w[Len(wire) + 1] = final
        /\ \A i \in 1 .. Len(wire) : w[i] = wire[i]
      BY <1>0, OneFrameMore
  <2>4. wire' = Append(w, done)
      BY <2>1
  <2> HIDE DEF w
  <2>5. \A i \in 1 .. Len(w) : i \in 1 .. Len(wire) \/ i = Len(wire) + 1
      BY <1>0, <2>3
  <2>6. /\ rec.tokens - client.tokens = Len(wire) /\ client.tokens <= rec.tokens
        /\ \A i \in 1 .. Len(wire) : wire[i].data = "delta"
      BY <1>3, <1>4
  <2>7. \A i \in 1 .. Len(w) :
          /\ w[i].data # "delta" => w[i].text = <<>>
          /\ w[i].data # "[DONE]"
          /\ w[i].data = "delta" <=> i <= rec.tokens - client.tokens
    <3> TAKE i \in 1 .. Len(w)
    <3>1. CASE i \in 1 .. Len(wire)
      <4>1. w[i].data = "delta" /\ i <= Len(wire)
          BY <1>0, <2>3, <2>6, <3>1
      <4> QED
          BY <2>6, <4>1
    <3>2. CASE i = Len(wire) + 1
      <4>1. w[i].data = "final" /\ w[i].text = <<>> /\ ~ (i <= Len(wire))
          BY <1>0, <2>1, <2>3, <3>2
      <4> QED
          BY <2>6, <4>1
    <3> QED
        BY <2>5, <3>1, <3>2
  <2>8. rec.tokens - client.tokens <= Len(w)
      BY <1>0, <2>3, <2>6
  <2>9. done.data # "delta"
      BY <2>1
  <2> QED
      BY <1>2, <1>4, <2>1, <2>2, <2>3, <2>4, <2>6, <2>7, <2>8, <2>9
<1>5. CASE UNCHANGED measuredVars
    BY <1>1, <1>5 DEF measuredVars
<1>6. CASE Tick
    BY <1>1, <1>6 DEF Tick
<1>7. CASE Arrive
  <2>1. rec'.tokens = rec.tokens
      BY <1>0, <1>7 DEF Arrive, Recorders
  <2> QED
      BY <1>1, <1>7, <2>1 DEF Arrive
<1>8. CASE Admitted
    BY <1>1, <1>8 DEF Admitted
<1>9. ASSUME NEW w \in Vocab, NextWord(w)
      PROVE  FramesFit'
  <2>1. PICK delta \in Texts :
              /\ gen = "decoding" /\ client.outcome = "waiting" /\ UNCHANGED client
              /\ \/ Deliver(delta) /\ gen' \in {"yielded", "stopping"}
                 \/ EndStream("stop")
    <3>1. \A g : g = "yielded" \/ g = "stopping" => g \in {"yielded", "stopping"}
        OBVIOUS
    <3> QED
        BY <1>9, <3>1, WordDrawn, Zenon
  <2>2. CASE Deliver(delta) /\ gen' \in {"yielded", "stopping"}
    <3>1. wire' = Append(wire, Frame(delta)) /\ rec'.tokens = rec.tokens + 1
        BY <1>0, <2>2, TokenDelivered, TokenCounted
    <3>2. Frame(delta) \in Frames /\ Frame(delta).data = "delta"
        BY TheFrames
    <3>3. /\ Len(wire') = Len(wire) + 1
          /\ \A i \in 1 .. Len(wire) : wire'[i] = wire[i]
          /\ wire'[Len(wire) + 1].data = "delta"
        BY <1>0, <3>1, <3>2, OneFrameMore
    <3>4. /\ \A i \in 1 .. Len(wire) : wire[i].data = "delta"
          /\ rec.tokens - client.tokens = Len(wire) /\ client.tokens <= rec.tokens
        BY <1>3, <2>1
    <3>5. \A i \in 1 .. Len(wire') : wire'[i].data = "delta" /\ i <= rec'.tokens - client.tokens
      <4>1. \A i \in 1 .. Len(wire') : i \in 1 .. Len(wire) \/ i = Len(wire) + 1
          BY <1>0, <3>3
      <4>2. rec'.tokens - client.tokens = Len(wire')
          BY <1>0, <3>1, <3>3, <3>4
      <4> QED
          BY <1>0, <3>3, <3>4, <4>1, <4>2
    <3>6. client.tokens <= rec'.tokens /\ rec'.tokens - client.tokens <= Len(wire')
        BY <1>0, <3>1, <3>3, <3>4
    <3> QED
        BY <2>1, <3>5, <3>6 DEF FramesFit
  <2>3. CASE EndStream("stop")
    <3>1. "stop" \in ServerOutcomes
        BY DEF ServerOutcomes
    <3> QED
        BY <1>4, <2>1, <2>3, <3>1
  <2> QED
      BY <2>1, <2>2, <2>3
<1>10. CASE AfterDelta
  <2>1. /\ gen \in {"yielded", "stopping"} /\ client.outcome = "waiting" /\ UNCHANGED client
        /\ \/ UNCHANGED <<rec, wire>>
           \/ \E o \in {"timeout", "stop", "length"} : EndStream(o)
      BY <1>10, DeltaFollowed
  <2>2. \A o \in {"timeout", "stop", "length"} : o \in ServerOutcomes
      BY DEF ServerOutcomes
  <2> QED
      BY <1>1, <1>4, <2>1, <2>2
<1>11. CASE EngineRaises
  <2>1. /\ gen = "decoding" /\ client.outcome = "waiting" /\ UNCHANGED client
        /\ gen' = "ended" /\ Finish("error") /\ wire' = Append(wire, ErrorFrame)
      BY <1>11 DEF EngineRaises
  <2>2. rec'.tokens = rec.tokens
      BY <1>0, <2>1, RecorderClosed DEF ServerOutcomes
  <2>3. ErrorFrame \in Frames /\ ErrorFrame.data # "delta" /\ ErrorFrame.text = <<>>
      BY TheFrames
  <2>4. /\ \A i \in 1 .. Len(wire) : wire[i].data = "delta"
        /\ rec.tokens - client.tokens = Len(wire) /\ client.tokens <= rec.tokens
      BY <1>3, <2>1
  <2>5. \A i \in 1 .. Len(wire) :
          /\ wire[i].data # "delta" => wire[i].text = <<>>
          /\ wire[i].data # "[DONE]"
          /\ wire[i].data = "delta" <=> i <= rec.tokens - client.tokens
      BY <1>0, <2>4
  <2>6. rec.tokens - client.tokens <= Len(wire)
      BY <1>0, <2>4
  <2> QED
      BY <1>0, <1>2, <2>1, <2>2, <2>3, <2>4, <2>5, <2>6
<1>12. CASE HangUp
  <2>1. rec'.tokens = rec.tokens
      BY <1>0, <1>12, RecorderClosed DEF HangUp, ServerOutcomes
  <2> QED
      BY <1>1, <1>12, <2>1 DEF HangUp
<1>13. CASE ReadFrame
  <2>1. /\ client.outcome = "waiting" /\ wire # <<>> /\ wire' = Tail(wire)
        /\ UNCHANGED <<gen, rec>> /\ Head(wire) = wire[1]
      BY <1>13, FrameRead
  <2>2. /\ Len(wire) \in Nat \ {0} /\ Len(wire') = Len(wire) - 1
        /\ \A i \in 1 .. Len(wire') : i + 1 \in 1 .. Len(wire) /\ wire'[i] = wire[i + 1]
      BY <1>0, <2>1, EmptySeq, HeadTailProperties
  <2>3. \A i \in 1 .. Len(wire') :
          /\ wire'[i].data # "delta" => wire'[i].text = <<>> /\ gen' = "ended"
          /\ wire'[i].data = "[DONE]" => i = Len(wire')
    <3> TAKE i \in 1 .. Len(wire')
    <3>1. wire'[i] = wire[i + 1] /\ i + 1 \in 1 .. Len(wire)
        BY <2>2
    <3>2. /\ wire[i + 1].data # "delta" => wire[i + 1].text = <<>> /\ gen = "ended"
          /\ wire[i + 1].data = "[DONE]" => i + 1 = Len(wire)
        BY <3>1 DEF FramesFit
    <3>3. i + 1 = Len(wire) => i = Len(wire')
        BY <2>2
    <3> QED
        BY <2>1, <3>1, <3>2, <3>3
  <2>4. /\ client.tokens <= rec.tokens
        /\ rec.tokens - client.tokens <= Len(wire)
        /\ \A i \in 1 .. Len(wire) :
              wire[i].data = "delta" <=> i <= rec.tokens - client.tokens
      BY <2>1 DEF FramesFit
  <2>5. 1 \in 1 .. Len(wire)
      BY <2>2
  <2>6. CASE Head(wire).data = "delta" /\ client'.tokens = client.tokens + 1
    <3>1. 1 <= rec.tokens - client.tokens
        BY <2>1, <2>4, <2>5, <2>6
    <3>2. client'.tokens <= rec.tokens /\ rec.tokens - client'.tokens <= Len(wire')
        BY <1>0, <2>2, <2>4, <2>6, <3>1
    <3>3. \A i \in 1 .. Len(wire') :
            wire'[i].data = "delta" <=> i <= rec.tokens - client'.tokens
      <4> TAKE i \in 1 .. Len(wire')
      <4>1. wire'[i] = wire[i + 1] /\ i + 1 \in 1 .. Len(wire)
          BY <2>2
      <4>2. wire[i + 1].data = "delta" <=> i + 1 <= rec.tokens - client.tokens
          BY <2>4, <4>1
      <4>3. i + 1 <= rec.tokens - client.tokens <=> i <= rec.tokens - client'.tokens
          BY <1>0, <2>6
      <4> QED
          BY <4>1, <4>2, <4>3
    <3>4. client'.outcome = "waiting"
        BY <1>13, <2>6, FrameRead
    <3> QED
        BY <2>1, <2>3, <3>2, <3>3, <3>4 DEF FramesFit
  <2>7. ASSUME Head(wire).data # "delta"
        PROVE  /\ rec.tokens = client.tokens
               /\ \A i \in 1 .. Len(wire') : ~ (i <= 0)
    <3>1. ~ (1 <= rec.tokens - client.tokens)
        BY <2>1, <2>4, <2>5, <2>7
    <3> QED
        BY <1>0, <2>2, <2>4, <3>1
  <2>8. CASE Head(wire).data = "final" /\ client' = client
    <3>1. rec.tokens = client.tokens
        BY <2>7, <2>8
    <3>2. \A i \in 1 .. Len(wire') :
            wire'[i].data = "delta" <=> i <= rec.tokens - client.tokens
      <4> TAKE i \in 1 .. Len(wire')
      <4>1. wire'[i] = wire[i + 1] /\ i + 1 \in 1 .. Len(wire)
          BY <2>2
      <4>2. wire[i + 1].data = "delta" <=> i + 1 <= rec.tokens - client.tokens
          BY <2>4, <4>1
      <4>3. ~ (i + 1 <= rec.tokens - client.tokens) /\ ~ (i <= rec.tokens - client.tokens)
          BY <1>0, <3>1
      <4> QED
          BY <4>1, <4>2, <4>3
    <3>3. rec.tokens - client.tokens <= Len(wire')
        BY <1>0, <2>2, <3>1
    <3> QED
        BY <2>1, <2>3, <2>4, <2>8, <3>2, <3>3 DEF FramesFit
  <2>9. ASSUME NEW o \in {"stream_error", "ok"},
               o = "ok" => Head(wire).data = "[DONE]", o = "stream_error" => Head(wire).data = "error",
               client' = [client EXCEPT !.outcome = o, !.e2e = now]
        PROVE  FramesFit'
    <3>1. client'.outcome = o /\ client'.tokens = client.tokens
        BY <1>0, <2>9 DEF Clients
    <3>2. Head(wire).data # "delta"
        BY <2>9
    <3>3. rec.tokens = client.tokens /\ gen = "ended"
      <4>1. gen = "ended"
          BY <2>1, <2>5, <3>2 DEF FramesFit
      <4> QED
          BY <2>7, <3>2, <4>1
    <3> QED
        BY <2>1, <2>3, <3>1, <3>3 DEF FramesFit
  <2>10. \/ Head(wire).data = "delta" /\ client'.tokens = client.tokens + 1
         \/ Head(wire).data = "final" /\ client' = client
         \/ \E o \in {"stream_error", "ok"} :
               /\ o = "ok" => Head(wire).data = "[DONE]"
               /\ o = "stream_error" => Head(wire).data = "error"
               /\ client' = [client EXCEPT !.outcome = o, !.e2e = now]
      BY <1>13, FrameRead
  <2> QED
      BY <2>6, <2>8, <2>9, <2>10
<1>14. CASE ClientTimeout
  <2>1. client'.outcome = "http_error"
      BY <1>0, <1>14 DEF ClientTimeout, Clients
  <2> QED
      BY <1>14, <2>1 DEF FramesFit, ClientTimeout
<1> QED
    BY <1>5, <1>6, <1>7, <1>8, <1>9, <1>10, <1>11, <1>12, <1>13, <1>14 DEF MeasuredNext

LEMMA ServerClockStep ==
    ASSUME StreamTyped, TextFits, ServerClock, [MeasuredNext]_measuredVars
    PROVE  ServerClock'
<1> USE DEF engineVars
<1>0. /\ now \in Nat /\ rec \in Recorders
      /\ rec.arrived \in Int /\ rec.first \in Int /\ rec.last \in Int /\ rec.finished \in Int
      /\ rec.tokens \in Nat
    BY DEF StreamTyped, Recorders
<1>1. Never \in Int /\ Never < 0
    BY NeverIsBeforeTime
<1>2. rec.tokens > 0 \/ rec.tokens = 0
    BY <1>0
\* finish() reads the clock.
<1>3. ASSUME NEW o \in ServerOutcomes, Finish(o), gen # "none", gen' = "ended", now' = now
      PROVE  ServerClock'
  <2>1. /\ rec'.arrived = rec.arrived /\ rec'.first = rec.first /\ rec'.last = rec.last
        /\ rec'.gaps = rec.gaps /\ rec'.tokens = rec.tokens /\ rec'.finished = now
      BY <1>0, <1>3, RecorderClosed
  <2>2. rec.last <= now /\ rec.arrived <= now /\ rec.arrived >= 0 /\ now <= now /\ now >= 0
      BY <1>0, <1>3 DEF ServerClock
  <2> QED
      BY <1>3, <2>1, <2>2 DEF ServerClock
<1>4. CASE UNCHANGED measuredVars
    BY <1>4 DEF measuredVars, ServerClock
<1>5. CASE Tick
  <2>1. now' = now + 1 /\ UNCHANGED <<rec, gen>>
      BY <1>5 DEF Tick
  <2>2. rec.arrived <= now' /\ rec.last <= now' /\ rec.finished <= now'
      BY <1>0, <2>1 DEF ServerClock
  <2> QED
      BY <2>1, <2>2 DEF ServerClock
<1>6. CASE Arrive
  <2>1. rec' = [rec EXCEPT !.arrived = now] /\ UNCHANGED <<now, gen>>
      BY <1>6 DEF Arrive
  <2>2. /\ rec'.arrived = now /\ rec'.first = rec.first /\ rec'.last = rec.last
        /\ rec'.gaps = rec.gaps /\ rec'.tokens = rec.tokens /\ rec'.finished = rec.finished
      BY <1>0, <2>1 DEF Recorders
  <2>3. now <= now /\ now >= 0 /\ now # Never
      BY <1>0, <1>1
  <2> QED
      BY <2>1, <2>2, <2>3 DEF ServerClock
<1>7. CASE Admitted
  <2>1. gen' = "decoding" /\ rec.arrived # Never /\ UNCHANGED <<now, rec>>
      BY <1>7 DEF Admitted
  <2> QED
      BY <2>1 DEF ServerClock
<1>8. ASSUME NEW w \in Vocab, NextWord(w)
      PROVE  ServerClock'
  <2>1. PICK delta \in Texts :
              /\ gen = "decoding" /\ UNCHANGED now
              /\ \/ Deliver(delta) /\ gen' \in {"yielded", "stopping"}
                 \/ EndStream("stop")
    <3>1. \A g : g = "yielded" \/ g = "stopping" => g \in {"yielded", "stopping"}
        OBVIOUS
    <3> QED
        BY <1>8, <3>1, WordDrawn, Zenon
  <2>2. CASE Deliver(delta) /\ gen' \in {"yielded", "stopping"}
    <3>1. /\ rec'.arrived = rec.arrived /\ rec'.finished = rec.finished
          /\ rec'.tokens = rec.tokens + 1 /\ rec'.last = now
          /\ rec'.first = IF rec.first = Never THEN now ELSE rec.first
          /\ rec.first = Never => rec'.gaps = rec.gaps
          /\ rec.first # Never => Len(rec'.gaps) = Len(rec.gaps) + 1
        BY <1>0, <2>2, TokenDelivered, TokenCounted
    <3>2. CASE rec.tokens = 0
      <4>1. rec.first = Never /\ rec.gaps = <<>> /\ rec'.first = now /\ rec'.gaps = <<>>
          BY <3>1, <3>2 DEF ServerClock
      <4>2. rec'.tokens = 1 /\ Len(rec'.gaps) = 0
          BY <3>1, <3>2, <4>1
      <4>3. /\ rec'.arrived <= now' /\ rec'.last <= now' /\ rec'.finished <= now'
            /\ rec'.arrived >= 0 /\ rec'.arrived # Never
          BY <1>0, <2>1, <3>1 DEF ServerClock
      <4>4. rec'.first >= 0 /\ rec'.last >= rec'.first /\ Len(rec'.gaps) = rec'.tokens - 1
          BY <1>0, <3>1, <4>1, <4>2
      <4>5. rec'.tokens # 0 /\ gen' # "none" /\ gen' # "ended"
          BY <2>2, <4>2
      <4> QED
          BY <4>3, <4>4, <4>5 DEF ServerClock
    <3>3. CASE rec.tokens > 0
      <4>1. rec.first >= 0 /\ rec.last >= rec.first /\ Len(rec.gaps) = rec.tokens - 1 /\ rec.last <= now
          BY <3>3 DEF ServerClock
      <4>2. rec'.first = rec.first /\ Len(rec'.gaps) = Len(rec.gaps) + 1
          BY <1>0, <1>1, <3>1, <4>1
      <4>3. /\ rec'.arrived <= now' /\ rec'.last <= now' /\ rec'.finished <= now'
            /\ rec'.arrived >= 0 /\ rec'.arrived # Never
          BY <1>0, <2>1, <3>1 DEF ServerClock
      <4>4. rec'.first >= 0 /\ rec'.last >= rec'.first /\ Len(rec'.gaps) = rec'.tokens - 1
          BY <1>0, <3>1, <4>1, <4>2
      <4>5. rec'.tokens # 0 /\ gen' # "none" /\ gen' # "ended"
          BY <1>0, <2>2, <3>1
      <4> QED
          BY <4>3, <4>4, <4>5 DEF ServerClock
    <3> QED
        BY <1>2, <3>2, <3>3
  <2>3. CASE EndStream("stop")
      BY <1>3, <2>1, <2>3 DEF EndStream, ServerOutcomes
  <2> QED
      BY <2>1, <2>2, <2>3
<1>9. CASE AfterDelta
  <2>1. /\ gen \in {"yielded", "stopping"} /\ UNCHANGED now
        /\ \/ gen' = "decoding" /\ UNCHANGED rec
           \/ \E o \in {"timeout", "stop", "length"} : EndStream(o)
      BY <1>9, DeltaFollowed
  <2>2. CASE gen' = "decoding" /\ UNCHANGED rec
      BY <2>1, <2>2 DEF ServerClock
  <2>3. ASSUME NEW o \in {"timeout", "stop", "length"}, EndStream(o)
        PROVE  ServerClock'
      BY <1>3, <2>1, <2>3 DEF EndStream, ServerOutcomes
  <2> QED
      BY <2>1, <2>2, <2>3
<1>10. CASE EngineRaises
    BY <1>3, <1>10 DEF EngineRaises, ServerOutcomes
<1>11. CASE HangUp
    BY <1>3, <1>11 DEF HangUp, ServerOutcomes
<1>12. CASE ReadFrame
    BY <1>12 DEF ReadFrame, ServerClock
<1>13. CASE ClientTimeout
    BY <1>13 DEF ClientTimeout, ServerClock
<1> QED
    BY <1>4, <1>5, <1>6, <1>7, <1>8, <1>9, <1>10, <1>11, <1>12, <1>13 DEF MeasuredNext

LEMMA ClientClockStep ==
    ASSUME StreamTyped, TextFits, FramesFit, ServerClock, ClientClock, [MeasuredNext]_measuredVars
    PROVE  ClientClock'
<1> USE DEF engineVars
<1>0. /\ now \in Nat /\ rec \in Recorders /\ client \in Clients /\ wire \in Seq(Frames)
      /\ rec.first \in Int /\ rec.last \in Int /\ rec.finished \in Int /\ rec.tokens \in Nat
      /\ client.ttft \in Int /\ client.tokens \in Nat
    BY DEF StreamTyped, Recorders, Clients
<1>1. Never \in Int /\ Never < 0
    BY NeverIsBeforeTime
\* The client does nothing; what it has counted happened before.
<1>2. ASSUME UNCHANGED client,
             client.tokens > 0 => rec'.tokens >= rec.tokens /\ rec'.first = rec.first,
             client.outcome = "ok" => rec'.finished = rec.finished,
             rec'.tokens \in Nat
      PROVE  ClientClock'
  <2>1. client.tokens > 0 => client.tokens <= rec'.tokens /\ client.ttft >= rec'.first
      BY <1>0, <1>2 DEF ClientClock
  <2> QED
      BY <1>2, <2>1 DEF ClientClock
<1>3. ASSUME UNCHANGED client, rec' = rec
      PROVE  ClientClock'
    BY <1>3 DEF ClientClock
<1>4. client.outcome = "ok" => gen = "ended"
    BY DEF FramesFit
<1>5. ASSUME UNCHANGED client, gen # "ended", NEW o \in ServerOutcomes, Finish(o)
      PROVE  ClientClock'
  <2>1. rec'.tokens = rec.tokens /\ rec'.first = rec.first
      BY <1>0, <1>5, RecorderClosed
  <2>2. client.outcome # "ok" /\ rec.tokens >= rec.tokens
      BY <1>0, <1>4, <1>5
  <2> QED
      BY <1>0, <1>2, <1>5, <2>1, <2>2
<1>6. CASE UNCHANGED measuredVars
    BY <1>3, <1>6 DEF measuredVars
<1>7. CASE Tick
    BY <1>3, <1>7 DEF Tick
<1>8. CASE Arrive
  <2>1. rec'.tokens = rec.tokens /\ rec'.first = rec.first /\ rec'.finished = rec.finished
      BY <1>0, <1>8 DEF Arrive, Recorders
  <2>2. rec.tokens >= rec.tokens
      BY <1>0
  <2> QED
      BY <1>0, <1>2, <1>8, <2>1, <2>2 DEF Arrive
<1>9. CASE Admitted
    BY <1>3, <1>9 DEF Admitted
<1>10. ASSUME NEW w \in Vocab, NextWord(w)
      PROVE  ClientClock'
  <2>1. PICK delta \in Texts :
              /\ gen = "decoding" /\ UNCHANGED client /\ client.outcome = "waiting"
              /\ Deliver(delta) \/ EndStream("stop")
      BY <1>10, WordDrawn, Zenon
  <2>2. CASE Deliver(delta)
    <3>1. /\ rec'.tokens = rec.tokens + 1
          /\ rec'.first = IF rec.first = Never THEN now ELSE rec.first
        BY <1>0, <2>2, TokenDelivered, TokenCounted
    <3>2. client.tokens > 0 => rec.tokens > 0
        BY <1>0 DEF ClientClock
    <3>3. rec.tokens > 0 => rec.first # Never
        BY <1>0, <1>1 DEF ServerClock
    <3>4. rec'.tokens \in Nat /\ rec'.tokens >= rec.tokens
        BY <1>0, <3>1
    <3> QED
        BY <1>2, <2>1, <3>1, <3>2, <3>3, <3>4
  <2>3. CASE EndStream("stop")
      BY <1>5, <2>1, <2>3 DEF EndStream, ServerOutcomes
  <2> QED
      BY <2>1, <2>2, <2>3
<1>11. CASE AfterDelta
  <2>1. /\ gen \in {"yielded", "stopping"} /\ UNCHANGED client
        /\ \/ UNCHANGED rec
           \/ \E o \in {"timeout", "stop", "length"} : EndStream(o)
      BY <1>11, DeltaFollowed
  <2>2. ASSUME NEW o \in {"timeout", "stop", "length"}, EndStream(o)
        PROVE  ClientClock'
      BY <1>5, <2>1, <2>2 DEF EndStream, ServerOutcomes
  <2> QED
      BY <1>3, <2>1, <2>2
<1>12. CASE EngineRaises
    BY <1>5, <1>12 DEF EngineRaises, ServerOutcomes
<1>13. CASE HangUp
    BY <1>5, <1>13 DEF HangUp, ServerOutcomes
<1>14. CASE ReadFrame
  <2>1. /\ client.outcome = "waiting" /\ wire # <<>> /\ rec' = rec /\ now' = now
        /\ Head(wire) = wire[1]
      BY <1>14, FrameRead
  <2>2. 1 \in 1 .. Len(wire)
    <3>1. Len(wire) \in Nat \ {0}
        BY <1>0, <2>1, EmptySeq
    <3> QED
        BY <3>1
  <2>3. CASE /\ Head(wire).data = "delta"
             /\ client'.outcome = "waiting"
             /\ client'.tokens = client.tokens + 1
             /\ client'.ttft = IF client.ttft = Never THEN now ELSE client.ttft
             /\ client.ttft = Never => client'.itls = client.itls
             /\ client.ttft # Never => Len(client'.itls) = Len(client.itls) + 1
    <3>1. client'.tokens <= rec.tokens /\ rec.tokens > 0
      <4>1. 1 <= rec.tokens - client.tokens
          BY <2>1, <2>2, <2>3 DEF FramesFit
      <4> QED
          BY <1>0, <2>3, <4>1
    <3>2. rec.first <= now
        BY <1>0, <3>1 DEF ServerClock
    <3>3. CASE client.tokens = 0
      <4>1. client.ttft = Never /\ client.itls = <<>>
          BY <2>1, <3>3 DEF ClientClock
      <4>2. client'.ttft = now /\ client'.itls = <<>> /\ client'.tokens = 1
          BY <2>3, <3>3, <4>1
      <4>3. client'.ttft >= rec.first /\ client'.ttft >= 0 /\ Len(client'.itls) = client'.tokens - 1
          BY <1>0, <3>2, <4>2
      <4> QED
          BY <2>1, <2>3, <3>1, <4>2, <4>3 DEF ClientClock
    <3>4. CASE client.tokens > 0
      <4>1. client.ttft >= rec.first /\ client.ttft >= 0 /\ Len(client.itls) = client.tokens - 1
          BY <3>4 DEF ClientClock
      <4>2. client'.ttft = client.ttft /\ Len(client'.itls) = Len(client.itls) + 1
          BY <1>0, <1>1, <2>3, <4>1
      <4>3. client'.ttft >= rec.first /\ client'.ttft >= 0 /\ Len(client'.itls) = client'.tokens - 1
          BY <1>0, <2>3, <4>1, <4>2
      <4>4. client'.tokens # 0 /\ client'.outcome # "ok"
          BY <1>0, <2>3
      <4> QED
          BY <2>1, <3>1, <4>3, <4>4 DEF ClientClock
    <3> QED
        BY <1>0, <3>3, <3>4
  <2>4. CASE client' = client
      BY <1>3, <2>1, <2>4
  <2>5. ASSUME NEW o \in {"stream_error", "ok"},
               client' = [client EXCEPT !.outcome = o, !.e2e = now]
        PROVE  ClientClock'
    <3>1. /\ client'.outcome = o /\ client'.e2e = now /\ client'.tokens = client.tokens
          /\ client'.ttft = client.ttft /\ client'.itls = client.itls
        BY <1>0, <2>5 DEF Clients
    <3>2. now >= rec.finished
        BY <1>0 DEF ServerClock
    <3>3. client'.outcome # "waiting"
        BY <3>1
    <3> QED
        BY <2>1, <3>1, <3>2, <3>3 DEF ClientClock
  <2>6. \/ /\ Head(wire).data = "delta"
           /\ client'.outcome = "waiting"
           /\ client'.tokens = client.tokens + 1
           /\ client'.ttft = IF client.ttft = Never THEN now ELSE client.ttft
           /\ client.ttft = Never => client'.itls = client.itls
           /\ client.ttft # Never => Len(client'.itls) = Len(client.itls) + 1
        \/ client' = client
        \/ \E o \in {"stream_error", "ok"} : client' = [client EXCEPT !.outcome = o, !.e2e = now]
      BY <1>14, FrameRead
  <2> QED
      BY <2>3, <2>4, <2>5, <2>6
<1>15. CASE ClientTimeout
  <2>1. client'.outcome = "http_error" /\ client'.tokens = 0
      BY <1>0, <1>15 DEF ClientTimeout, Clients
  <2> QED
      BY <2>1 DEF ClientClock
<1> QED
    BY <1>6, <1>7, <1>8, <1>9, <1>10, <1>11, <1>12, <1>13, <1>14, <1>15 DEF MeasuredNext

LEMMA GapsStep ==
    ASSUME StreamTyped, TextFits, FramesFit, ServerClock, ClientClock, GapsFit,
           [MeasuredNext]_measuredVars
    PROVE  GapsFit'
<1> USE DEF engineVars
<1>0. /\ now \in Nat /\ rec \in Recorders /\ client \in Clients
      /\ rec.first \in Int /\ rec.last \in Int /\ rec.tokens \in Nat /\ rec.gaps \in Seq(Int)
      /\ client.ttft \in Int /\ client.last \in Int /\ client.tokens \in Nat
      /\ client.itls \in Seq(Int)
    BY DEF StreamTyped, Recorders, Clients
<1>1. Never \in Int /\ Never < 0
    BY NeverIsBeforeTime
\* Neither end gets a token.
<1>2. ASSUME UNCHANGED client, rec' = rec
      PROVE  GapsFit'
    BY <1>2 DEF GapsFit
<1>3. ASSUME UNCHANGED client, NEW o \in ServerOutcomes, Finish(o)
      PROVE  GapsFit'
  <2>1. /\ rec'.first = rec.first /\ rec'.last = rec.last
        /\ rec'.gaps = rec.gaps /\ rec'.tokens = rec.tokens
      BY <1>0, <1>3, RecorderClosed
  <2> QED
      BY <1>3, <2>1 DEF GapsFit
<1>4. ASSUME UNCHANGED rec,
             /\ client'.tokens = client.tokens /\ client'.ttft = client.ttft
             /\ client'.itls = client.itls /\ client'.last = client.last
      PROVE  GapsFit'
    BY <1>4 DEF GapsFit
<1>5. CASE UNCHANGED measuredVars
    BY <1>2, <1>5 DEF measuredVars
<1>6. CASE Tick
    BY <1>2, <1>6 DEF Tick
<1>7. CASE Arrive
  <2>1. /\ rec'.first = rec.first /\ rec'.last = rec.last
        /\ rec'.gaps = rec.gaps /\ rec'.tokens = rec.tokens
      BY <1>0, <1>7 DEF Arrive, Recorders
  <2> QED
      BY <1>7, <2>1 DEF Arrive, GapsFit
<1>8. CASE Admitted
    BY <1>2, <1>8 DEF Admitted
<1>9. ASSUME NEW w \in Vocab, NextWord(w)
      PROVE  GapsFit'
  <2>1. PICK delta \in Texts :
              /\ UNCHANGED client
              /\ Deliver(delta) \/ EndStream("stop")
      BY <1>9, WordDrawn, Zenon
  <2>2. CASE Deliver(delta)
    <3>1. /\ rec'.last = now
          /\ rec'.first = IF rec.first = Never THEN now ELSE rec.first
          /\ rec.first = Never => rec'.gaps = rec.gaps
          /\ rec.first # Never => rec'.gaps = Append(rec.gaps, now - rec.last)
        BY <1>0, <2>2, TokenDelivered, TokenCounted
    <3>2. rec'.first + Total(rec'.gaps) = rec'.last
      <4>1. CASE rec.tokens = 0
        <5>1. rec'.first = now /\ rec'.gaps = <<>>
            BY <3>1, <4>1 DEF ServerClock
        <5> QED
            BY <1>0, <3>1, <5>1, TotalOfNone
      <4>2. CASE rec.tokens > 0
        <5>1. rec.first # Never /\ rec.first + Total(rec.gaps) = rec.last
            BY <1>1, <4>2 DEF ServerClock, GapsFit
        <5>2. rec'.first = rec.first /\ rec'.gaps = Append(rec.gaps, now - rec.last)
            BY <3>1, <5>1
        <5>3. now - rec.last \in Int
            BY <1>0
        <5>4. Total(rec.gaps) \in Int /\ Total(rec'.gaps) = Total(rec.gaps) + (now - rec.last)
            BY <1>0, <5>2, <5>3, TotalOfAppend
        <5> QED
            BY <1>0, <3>1, <5>1, <5>2, <5>4
      <4> QED
          BY <1>0, <4>1, <4>2
    <3> QED
        BY <2>1, <3>2 DEF GapsFit
  <2>3. CASE EndStream("stop")
      BY <1>3, <2>1, <2>3 DEF EndStream, ServerOutcomes
  <2> QED
      BY <2>1, <2>2, <2>3
<1>10. CASE AfterDelta
  <2>1. /\ UNCHANGED client
        /\ \/ UNCHANGED rec
           \/ \E o \in {"timeout", "stop", "length"} : EndStream(o)
      BY <1>10, DeltaFollowed
  <2>2. ASSUME NEW o \in {"timeout", "stop", "length"}, EndStream(o)
        PROVE  GapsFit'
      BY <1>3, <2>1, <2>2 DEF EndStream, ServerOutcomes
  <2> QED
      BY <1>2, <2>1, <2>2
<1>11. CASE EngineRaises
    BY <1>3, <1>11 DEF EngineRaises, ServerOutcomes
<1>12. CASE HangUp
    BY <1>3, <1>12 DEF HangUp, ServerOutcomes
<1>13. CASE ReadFrame
  <2>1. rec' = rec /\ client.outcome = "waiting"
      BY <1>13, FrameRead
  <2>2. CASE /\ client'.last = now
             /\ client'.ttft = IF client.ttft = Never THEN now ELSE client.ttft
             /\ client.ttft = Never => client'.itls = client.itls
             /\ client.ttft # Never => client'.itls = Append(client.itls, now - client.last)
    <3>1. CASE client.tokens = 0
      <4>1. client.ttft = Never /\ client.itls = <<>>
          BY <2>1, <3>1 DEF ClientClock
      <4>2. client'.ttft = now /\ client'.itls = <<>>
          BY <2>2, <4>1
      <4>3. client'.ttft + Total(client'.itls) = client'.last
          BY <1>0, <2>2, <4>2, TotalOfNone
      <4> QED
          BY <2>1, <4>3 DEF GapsFit
    <3>2. CASE client.tokens > 0
      <4>1. client.ttft # Never /\ client.ttft + Total(client.itls) = client.last
          BY <1>1, <3>2 DEF ClientClock, GapsFit
      <4>2. client'.ttft = client.ttft /\ client'.itls = Append(client.itls, now - client.last)
          BY <2>2, <4>1
      <4>3. now - client.last \in Int
          BY <1>0
      <4>4. /\ Total(client.itls) \in Int
            /\ Total(client'.itls) = Total(client.itls) + (now - client.last)
          BY <1>0, <4>2, <4>3, TotalOfAppend
      <4>5. client'.ttft + Total(client'.itls) = client'.last
          BY <1>0, <2>2, <4>1, <4>2, <4>4
      <4> QED
          BY <2>1, <4>5 DEF GapsFit
    <3> QED
        BY <1>0, <3>1, <3>2
  <2>3. CASE client' = client
      BY <1>2, <2>1, <2>3
  <2>4. ASSUME NEW o \in {"stream_error", "ok"},
               client' = [client EXCEPT !.outcome = o, !.e2e = now]
        PROVE  GapsFit'
    <3>1. /\ client'.tokens = client.tokens /\ client'.ttft = client.ttft
          /\ client'.itls = client.itls /\ client'.last = client.last
        BY <1>0, <2>4 DEF Clients
    <3> QED
        BY <1>4, <2>1, <3>1
  <2>5. \/ /\ client'.last = now
           /\ client'.ttft = IF client.ttft = Never THEN now ELSE client.ttft
           /\ client.ttft = Never => client'.itls = client.itls
           /\ client.ttft # Never => client'.itls = Append(client.itls, now - client.last)
        \/ client' = client
        \/ \E o \in {"stream_error", "ok"} : client' = [client EXCEPT !.outcome = o, !.e2e = now]
      BY <1>13, FrameRead
  <2> QED
      BY <2>2, <2>3, <2>4, <2>5
<1>14. CASE ClientTimeout
  <2>1. client'.tokens = 0 /\ rec' = rec
      BY <1>0, <1>14 DEF ClientTimeout, Clients
  <2> QED
      BY <2>1 DEF GapsFit
<1> QED
    BY <1>5, <1>6, <1>7, <1>8, <1>9, <1>10, <1>11, <1>12, <1>13, <1>14 DEF MeasuredNext

-----------------------------------------------------------------------------
(* Percentiles *)

\* p sorts the first n values.
SortsFirst(p, values, n) ==
    /\ p \in [1 .. n -> 1 .. n]
    /\ \A i \in 1 .. n : \E j \in 1 .. n : p[j] = i
    /\ \A i, j \in 1 .. n : i < j => values[p[i]] <= values[p[j]]

\* What is sorted takes in one value more.
LEMMA OneValueMore ==
    ASSUME NEW values \in Seq(Int), NEW n \in Nat, n + 1 <= Len(values),
           NEW p, SortsFirst(p, values, n)
    PROVE  \E q : SortsFirst(q, values, n + 1)
<1>1. \A i \in 1 .. n + 1 : values[i] \in Int
    BY LenProperties, ElementOfSeq
<1>2. /\ \A i \in 1 .. n : p[i] \in 1 .. n
      /\ \A i, j \in 1 .. n : i < j => values[p[i]] <= values[p[j]]
    BY DEF SortsFirst
<1>3. \A i \in 1 .. n : values[p[i]] \in Int
    BY <1>1, <1>2
<1> DEFINE new == values[n + 1]
           Beyond == {i \in 1 .. n : values[p[i]] > new} \union {n + 1}
           k == Min(Beyond)
<1>4. k \in Beyond /\ \A i \in Beyond : k <= i
  <2>1. Beyond \in SUBSET Nat /\ Beyond # {}
      OBVIOUS
  <2> QED
      BY <2>1, LeastNatural
<1>5. /\ k \in 1 .. n + 1
      /\ \A i \in 1 .. n : i < k => values[p[i]] <= new
      /\ \A i \in 1 .. n : k <= i => new <= values[p[i]]
  <2>1. k \in 1 .. n + 1
      BY <1>4
  <2>2. ASSUME NEW i \in 1 .. n, i < k
        PROVE  values[p[i]] <= new
    <3>1. i \notin Beyond
        BY <1>4, <2>1, <2>2
    <3> QED
        BY <1>1, <1>3, <3>1
  <2>3. ASSUME NEW i \in 1 .. n, k <= i
        PROVE  new <= values[p[i]]
    <3>1. k \in 1 .. n /\ values[p[k]] > new
        BY <1>4, <2>1, <2>3
    <3>2. values[p[k]] <= values[p[i]]
        BY <1>2, <1>3, <2>3, <3>1
    <3> QED
        BY <1>1, <1>3, <3>1, <3>2
  <2> QED
      BY <2>1, <2>2, <2>3
<1> HIDE DEF k
<1> DEFINE q == [i \in 1 .. n + 1 |-> IF i < k THEN p[i] ELSE IF i = k THEN n + 1 ELSE p[i - 1]]
<1>6. /\ \A i \in 1 .. n : i < k => q[i] = p[i]
      /\ q[k] = n + 1
      /\ \A i \in 1 .. n : k <= i => q[i + 1] = p[i]
    BY <1>5
<1>7. q \in [1 .. n + 1 -> 1 .. n + 1]
  <2>1. ASSUME NEW i \in 1 .. n + 1
        PROVE  (IF i < k THEN p[i] ELSE IF i = k THEN n + 1 ELSE p[i - 1]) \in 1 .. n + 1
    <3>1. i < k => i \in 1 .. n
        BY <1>5
    <3>2. i > k => i - 1 \in 1 .. n
        BY <1>5
    <3> QED
        BY <1>2, <1>5, <3>1, <3>2
  <2> QED
      BY <2>1
<1> HIDE DEF q
<1>8. ASSUME NEW i \in 1 .. n + 1
      PROVE  \E j \in 1 .. n + 1 : q[j] = i
  <2>1. CASE i = n + 1
      BY <1>5, <1>6, <2>1
  <2>2. CASE i # n + 1
    <3>1. i \in 1 .. n
        BY <2>2
    <3>2. PICK j \in 1 .. n : p[j] = i
        BY <3>1 DEF SortsFirst
    <3>3. CASE j < k
        BY <1>6, <3>2, <3>3
    <3>4. CASE k <= j
      <4>1. j + 1 \in 1 .. n + 1 /\ q[j + 1] = i
          BY <1>6, <3>2, <3>4
      <4> QED
          BY <4>1
    <3> QED
        BY <1>5, <3>3, <3>4
  <2> QED
      BY <2>1, <2>2
\* A place of q is a place of p, before or after k, or k itself.
<1>9. \A i \in 1 .. n + 1 :
         /\ i < k => i \in 1 .. n /\ q[i] = p[i] /\ values[q[i]] <= new
         /\ i = k => values[q[i]] = new
         /\ i > k => i - 1 \in 1 .. n /\ q[i] = p[i - 1] /\ new <= values[q[i]]
  <2> TAKE i \in 1 .. n + 1
  <2>1. CASE i < k
    <3>1. i \in 1 .. n
        BY <1>5, <2>1
    <3> QED
        BY <1>5, <1>6, <2>1, <3>1
  <2>2. CASE i = k
      BY <1>6, <2>2
  <2>3. CASE i > k
    <3>1. i - 1 \in 1 .. n /\ k <= i - 1 /\ (i - 1) + 1 = i
        BY <1>5, <2>3
    <3>2. q[i] = p[i - 1]
        BY <1>6, <3>1
    <3> QED
        BY <1>5, <2>3, <3>1, <3>2
  <2> QED
      BY <1>5, <2>1, <2>2, <2>3
<1>10. ASSUME NEW i \in 1 .. n + 1, NEW j \in 1 .. n + 1, i < j
       PROVE  values[q[i]] <= values[q[j]]
  <2>1. q[i] \in 1 .. n + 1 /\ q[j] \in 1 .. n + 1
      BY <1>7
  <2>2. values[q[i]] \in Int /\ values[q[j]] \in Int /\ new \in Int
      BY <1>1, <2>1
  <2>3. CASE j < k
    <3>1. /\ i \in 1 .. n /\ j \in 1 .. n
          /\ q[i] = p[i] /\ q[j] = p[j]
        BY <1>5, <1>9, <1>10, <2>3
    <3> QED
        BY <1>2, <1>10, <3>1
  <2>4. CASE i > k
    <3>1. /\ i - 1 \in 1 .. n /\ j - 1 \in 1 .. n /\ i - 1 < j - 1
          /\ q[i] = p[i - 1] /\ q[j] = p[j - 1]
        BY <1>5, <1>9, <1>10, <2>4
    <3> QED
        BY <1>2, <3>1
  <2>5. CASE i <= k /\ k <= j
    <3>1. values[q[i]] <= new
        BY <1>5, <1>9, <2>2, <2>5
    <3>2. new <= values[q[j]]
        BY <1>5, <1>9, <2>2, <2>5
    <3> QED
        BY <2>2, <3>1, <3>2
  <2> QED
      BY <1>5, <2>3, <2>4, <2>5
<1>11. SortsFirst(q, values, n + 1)
    BY <1>7, <1>8, <1>10 DEF SortsFirst
<1> QED
    BY <1>11

\* Every list can be sorted ...
LEMMA SortExists ==
    ASSUME NEW values \in Seq(Int)
    PROVE  \E p : SortsFirst(p, values, Len(values))
<1> DEFINE Unsorted == {n \in 0 .. Len(values) : ~ \E p : SortsFirst(p, values, n)}
<1>1. Len(values) \in Nat
    BY LenProperties
<1>2. ASSUME Unsorted # {}
      PROVE  FALSE
  <2> DEFINE m == Min(Unsorted)
  <2>1. m \in Unsorted /\ \A n \in Unsorted : m <= n
    <3>1. Unsorted \in SUBSET Nat
        BY <1>1
    <3> HIDE DEF Unsorted
    <3> QED
        BY <1>2, <3>1, LeastNatural
  <2> HIDE DEF m
  <2>2. m \in 0 .. Len(values)
      BY <2>1
  <2>3. CASE m = 0
    <3> DEFINE none == [i \in 1 .. 0 |-> i]
    <3>1. 1 .. 0 = {}
        OBVIOUS
    <3>2. SortsFirst(none, values, 0)
        BY <3>1 DEF SortsFirst
    <3> QED
        BY <2>1, <2>3, <3>2
  <2>4. CASE m # 0
    <3>1. /\ m - 1 \in Nat /\ m - 1 \in 0 .. Len(values)
          /\ ~ (m <= m - 1) /\ (m - 1) + 1 = m
        BY <1>1, <2>2, <2>4
    <3>2. PICK p : SortsFirst(p, values, m - 1)
        BY <2>1, <3>1
    <3>3. (m - 1) + 1 <= Len(values)
        BY <1>1, <2>2, <3>1
    <3>4. \E q : SortsFirst(q, values, (m - 1) + 1)
        BY <3>1, <3>2, <3>3, OneValueMore
    <3> QED
        BY <2>1, <3>1, <3>4
  <2> QED
      BY <2>3, <2>4
<1>3. Len(values) \in 0 .. Len(values)
    BY <1>1
<1> QED
    BY <1>2, <1>3, Zenon

\* ... so that Ordered has the values in ascending order.
LEMMA SortedValues ==
    ASSUME NEW values \in Seq(Int)
    PROVE  /\ Ordered(values) \in Seq(Int) /\ Len(Ordered(values)) = Len(values)
           /\ \A i \in 1 .. Len(values) : Ordered(values)[i] \in Int
           /\ \A i, j \in 1 .. Len(values) :
                 i < j => Ordered(values)[i] <= Ordered(values)[j]
           /\ \E p \in [1 .. Len(values) -> 1 .. Len(values)] :
                 /\ \A i \in 1 .. Len(values) : \E j \in 1 .. Len(values) : p[j] = i
                 /\ \A i \in 1 .. Len(values) : Ordered(values)[i] = values[p[i]]
<1> DEFINE places == 1 .. Len(values)
           p == CHOOSE p \in [places -> places] : Sorts(p, values)
<1>1. \E s \in [places -> places] : Sorts(s, values)
    BY SortExists DEF SortsFirst, Sorts
<1>2. p \in [places -> places] /\ Sorts(p, values)
    BY <1>1
<1>3. Ordered(values) = [i \in places |-> values[p[i]]]
    BY DEF Ordered
<1> HIDE DEF p
<1>4. \A i \in places : \E j \in places : p[j] = i
    BY <1>2 DEF Sorts
<1>5. \A i, j \in places : i < j => values[p[i]] <= values[p[j]]
    BY <1>2 DEF Sorts
<1>6. \A i, j \in places : i < j => Ordered(values)[i] <= Ordered(values)[j]
    BY <1>3, <1>5
<1>7. Len(values) \in Nat /\ \A i \in places : values[p[i]] \in Int
    BY <1>2, LenProperties, ElementOfSeq
<1>8. Ordered(values) \in [1 .. Len(values) -> Int]
    BY <1>3, <1>7
<1>9. Ordered(values) \in Seq(Int)
    BY <1>7, <1>8
<1>10. Len(Ordered(values)) = Len(values)
    BY <1>7, <1>8, <1>9, LenProperties
<1> QED
    BY <1>2, <1>3, <1>4, <1>6, <1>8, <1>9, <1>10


\* A weighted mean of two values lies between them, and grows with the weight
\* of the larger.
LEMMA MeanOfTwo ==
    ASSUME NEW a \in Int, NEW b \in Int, a <= b, NEW f \in 0 .. 100, NEW g \in 0 .. 100, f <= g
    PROVE  /\ a * (100 - f) + b * f \in Int
           /\ a * 100 <= a * (100 - f) + b * f
           /\ a * (100 - f) + b * f <= b * 100
           /\ a * (100 - f) + b * f <= a * (100 - g) + b * g
           /\ a * (100 - f) + b * f = a * 100 + (b - a) * f
<1> DEFINE d == b - a
<1>1. d \in Nat /\ b = a + d
    OBVIOUS
<1> HIDE DEF d
<1>2. \A w \in 0 .. 100 : a * (100 - w) + b * w = a * 100 + d * w
    BY <1>1
<1>3. \A w \in 0 .. 100 : d * w \in Nat /\ 0 <= d * w /\ d * w <= d * 100
  <2> TAKE w \in 0 .. 100
  <2>1. d * w \in Nat /\ d * (100 - w) \in Nat
      BY <1>1
  <2>2. d * 100 = d * w + d * (100 - w)
      BY <1>1
  <2> QED
      BY <2>1, <2>2
<1>4. d * f <= d * g
  <2>1. d * (g - f) \in Nat
      BY <1>1
  <2>2. d * g = d * f + d * (g - f)
      BY <1>1
  <2>3. d * f \in Nat
      BY <1>3
  <2> QED
      BY <2>1, <2>2, <2>3
<1>5. b * 100 = a * 100 + d * 100
    BY <1>1
<1>6. d = b - a
    BY <1>1
<1>7. /\ a * (100 - f) + b * f = a * 100 + d * f
      /\ a * (100 - g) + b * g = a * 100 + d * g
    BY <1>2
<1>8. /\ d * f \in Nat /\ d * g \in Nat /\ d * 100 \in Nat /\ a * 100 \in Int
      /\ 0 <= d * f /\ d * f <= d * 100
    BY <1>1, <1>3
<1>9. a * 100 + d * f \in Int /\ a * 100 <= a * 100 + d * f
    BY <1>8
<1>10. a * 100 + d * f <= b * 100
    BY <1>5, <1>8
<1>11. a * 100 + d * f <= a * 100 + d * g
    BY <1>4, <1>8
<1> QED
    BY <1>6, <1>7, <1>9, <1>10, <1>11

\* The place after low, in n places counted from 0.
PlaceAfter(low, n) == IF low < n - 1 THEN low + 1 ELSE low

LEMMA LeastOfTwo ==
    ASSUME NEW a \in Int, NEW b \in Int
    PROVE  Min({a, b}) = IF a <= b THEN a ELSE b
<1>1. \A c \in {a, b} : (\A x \in {a, b} : c <= x) <=> c = IF a <= b THEN a ELSE b
    OBVIOUS
<1> QED
    BY <1>1 DEF Min

\* Where a percentile lies: frac hundredths of the way from a place, counted
\* from 0, to the place after it.
LiesAt(low, frac, values, q) ==
    /\ low \in 0 .. Len(values) - 1 /\ frac \in 0 .. 99
    /\ (Len(values) - 1) * q = 100 * low + frac
    /\ LET v == Ordered(values)
           high == PlaceAfter(low, Len(values))
       IN  /\ Percentile(values, q) = v[low + 1] * (100 - frac) + v[high + 1] * frac
           /\ Len(values) # 1 =>
                DemoPercentile(values, q) = v[low + 1] * 100 + (v[high + 1] - v[low + 1]) * frac

LEMMA PercentileLies ==
    ASSUME NEW values \in Seq(Int), Len(values) > 0, NEW q \in 0 .. 100
    PROVE  \E low, frac \in Nat : LiesAt(low, frac, values, q)
<1> DEFINE n == Len(values)
           v == Ordered(values)
           pos == (n - 1) * q
           low == pos \div 100
           frac == pos % 100
<1>1. n \in Nat /\ n >= 1 /\ Len(v) = n
    BY LenProperties, SortedValues
<1>2. pos \in Nat /\ pos <= (n - 1) * 100
  <2>1. (n - 1) * q \in Nat /\ (n - 1) * (100 - q) \in Nat
      BY <1>1
  <2>2. (n - 1) * 100 = (n - 1) * q + (n - 1) * (100 - q)
      BY <1>1
  <2> QED
      BY <2>1, <2>2
<1>3. /\ low \in Nat /\ frac \in 0 .. 99 /\ pos = 100 * low + frac
      /\ low <= n - 1 /\ pos - low * 100 = frac
  <2> HIDE DEF pos, n
  <2> QED
      BY <1>1, <1>2
<1>4. Min({low + 1, n - 1}) = PlaceAfter(low, n)
  <2> HIDE DEF low, n
  <2>1. low + 1 \in Int /\ n - 1 \in Int
      BY <1>1, <1>3
  <2>2. Min({low + 1, n - 1}) = IF low + 1 <= n - 1 THEN low + 1 ELSE n - 1
      BY <2>1, LeastOfTwo
  <2> QED
      BY <1>1, <1>3, <2>2 DEF PlaceAfter
<1>5. Percentile(values, q) = v[low + 1] * (100 - frac) + v[PlaceAfter(low, n) + 1] * frac
  <2>1. Percentile(values, q) = v[low + 1] * (100 - frac) + v[Min({low + 1, Len(v) - 1}) + 1] * frac
    <3>1. (Len(v) - 1) * q = pos
        BY <1>1
    <3> QED
        BY <3>1 DEF Percentile
  <2> QED
      BY <1>1, <1>4, <2>1
<1>6. n # 1 => DemoPercentile(values, q) =
                 v[low + 1] * 100 + (v[PlaceAfter(low, n) + 1] - v[low + 1]) * frac
  <2>1. n # 1 => DemoPercentile(values, q) =
                   v[low + 1] * 100
                     + (v[Min({low + 1, Len(v) - 1}) + 1] - v[low + 1]) * (pos - low * 100)
    <3>1. (Len(v) - 1) * q = pos
        BY <1>1
    <3> QED
        BY <3>1 DEF DemoPercentile
  <2> QED
      BY <1>1, <1>3, <1>4, <2>1
<1>7. low \in 0 .. n - 1
    BY <1>1, <1>3
<1>8. LiesAt(low, frac, values, q)
    BY <1>3, <1>5, <1>6, <1>7 DEF LiesAt
<1> QED
    BY <1>3, <1>8

\* The ends it lies between, and what comes before and after them.
LEMMA PercentileBounds ==
    ASSUME NEW values \in Seq(Int), Len(values) > 0, NEW q \in 0 .. 100,
           NEW low \in Nat, NEW frac \in Nat, LiesAt(low, frac, values, q)
    PROVE  LET v == Ordered(values)
               high == PlaceAfter(low, Len(values))
           IN  /\ Percentile(values, q) \in Int
               /\ v[low + 1] * 100 <= Percentile(values, q)
               /\ Percentile(values, q) <= v[high + 1] * 100
               /\ frac = 0 => Percentile(values, q) = v[low + 1] * 100
<1> DEFINE n == Len(values)
           v == Ordered(values)
           high == PlaceAfter(low, n)
<1>1. n \in Nat /\ low \in 0 .. n - 1 /\ frac \in 0 .. 99
    BY LenProperties DEF LiesAt
<1>2. high \in 0 .. n - 1 /\ low <= high
    BY <1>1 DEF PlaceAfter
<1>3. low + 1 \in 1 .. n /\ high + 1 \in 1 .. n /\ low + 1 <= high + 1
    BY <1>1, <1>2
<1>4. v[low + 1] \in Int /\ v[high + 1] \in Int
    BY <1>3, SortedValues
<1>5. v[low + 1] <= v[high + 1]
  <2>1. CASE low = high
      BY <1>4, <2>1
  <2>2. CASE low # high
    <3>1. low + 1 < high + 1
        BY <1>1, <1>2, <2>2
    <3> QED
        BY <1>3, <3>1, SortedValues
  <2> QED
      BY <2>1, <2>2
<1>6. Percentile(values, q) = v[low + 1] * (100 - frac) + v[high + 1] * frac
    BY DEF LiesAt
<1> DEFINE a == v[low + 1]
           b == v[high + 1]
           mean == a * (100 - frac) + b * frac
<1>7. a \in Int /\ b \in Int /\ a <= b /\ Percentile(values, q) = mean
    BY <1>4, <1>5, <1>6
<1> HIDE DEF v, high, a, b
<1>8. mean \in Int /\ a * 100 <= mean /\ mean <= b * 100
  <2>1. frac \in 0 .. 100 /\ frac <= frac
      BY <1>1
  <2> QED
      BY <1>7, <2>1, MeanOfTwo
<1>9. frac = 0 => mean = a * 100
    BY <1>7
<1> HIDE DEF mean
<1> QED
    BY <1>7, <1>8, <1>9 DEF v, high, a, b

\* Counting among the values or in the sorted list is the same: here for the
\* values within a set of places of the sorted list.
LEMMA CountedInOrder ==
    ASSUME NEW values \in Seq(Int), NEW I \in SUBSET (1 .. Len(values)),
           NEW from \in 1 .. Len(values) + 1, NEW to \in 0 .. Len(values), from <= to + 1,
           NEW p \in [1 .. Len(values) -> 1 .. Len(values)],
           \A i \in I : \E j \in from .. to : p[j] = i
    PROVE  Cardinality(I) \in Nat /\ Cardinality(I) <= to - from + 1
<1>1. Len(values) \in Nat
    BY LenProperties
<1> DEFINE J == {j \in from .. to : p[j] \in I}
           f == [j \in J |-> p[j]]
<1>2. /\ IsFiniteSet(from .. to) /\ Cardinality(from .. to) = to - from + 1
  <2>1. from \in Int /\ to \in Int
      BY <1>1
  <2>2. /\ IsFiniteSet(from .. to)
        /\ Cardinality(from .. to) = IF from > to THEN 0 ELSE to - from + 1
      BY <2>1, FS_Interval
  <2>3. from > to => to - from + 1 = 0
      BY <2>1
  <2> QED
      BY <2>1, <2>2, <2>3
<1>3. J \subseteq from .. to
    OBVIOUS
<1>4. IsFiniteSet(J) /\ Cardinality(J) <= to - from + 1
    BY <1>2, <1>3, FS_Subset
<1>5. f \in Surjection(J, I)
    BY DEF Surjection
<1> HIDE DEF J, f
<1>6. IsFiniteSet(I) /\ Cardinality(I) <= Cardinality(J)
    BY <1>4, <1>5, FS_Surjection
<1>7. Cardinality(I) \in Nat /\ Cardinality(J) \in Nat
    BY <1>4, <1>6, FS_CardinalityType
<1> QED
    BY <1>1, <1>4, <1>6, <1>7

\* No more than its share of the values is below a percentile, and no more
\* than the rest above.
LEMMA SharesOfPercentile ==
    ASSUME NEW values \in Seq(Int), Len(values) > 0, NEW q \in 0 .. 100
    PROVE  LET n == Len(values)
               Below == {i \in 1 .. n : values[i] * 100 < Percentile(values, q)}
               Above == {i \in 1 .. n : values[i] * 100 > Percentile(values, q)}
           IN  /\ Cardinality(Below) * 100 < (n - 1) * q + 100
               /\ Cardinality(Above) * 100 < (n - 1) * (100 - q) + 100
<1> DEFINE n == Len(values)
           v == Ordered(values)
           P == Percentile(values, q)
           Below == {i \in 1 .. n : values[i] * 100 < P}
           Above == {i \in 1 .. n : values[i] * 100 > P}
<1>1. PICK low \in Nat, frac \in Nat : LiesAt(low, frac, values, q)
    BY PercentileLies
<1> DEFINE high == PlaceAfter(low, n)
<1>2. /\ n \in Nat /\ low \in 0 .. n - 1 /\ frac \in 0 .. 99
      /\ (n - 1) * q = 100 * low + frac
    BY <1>1, LenProperties DEF LiesAt
<1>3. /\ P \in Int
      /\ v[low + 1] * 100 <= P /\ P <= v[high + 1] * 100
      /\ frac = 0 => P = v[low + 1] * 100
    BY <1>1, PercentileBounds
<1>4. PICK p \in [1 .. n -> 1 .. n] :
         /\ \A i \in 1 .. n : \E j \in 1 .. n : p[j] = i
         /\ \A i \in 1 .. n : v[i] = values[p[i]]
    BY SortedValues
<1>5. /\ \A i \in 1 .. n : v[i] \in Int
      /\ \A i, j \in 1 .. n : i <= j => v[i] <= v[j]
  <2>1. /\ \A i \in 1 .. n : v[i] \in Int
        /\ \A i, j \in 1 .. n : i < j => v[i] <= v[j]
      BY SortedValues
  <2> QED
      BY <1>2, <2>1
<1>6. high \in 0 .. n - 1 /\ low + 1 \in 1 .. n /\ high + 1 \in 1 .. n
      /\ \A j \in 1 .. n : j > low + 1 => high = low + 1
    BY <1>2 DEF PlaceAfter
<1> HIDE DEF v, P, high
<1> DEFINE last == IF frac = 0 THEN low ELSE low + 1
<1>7. ASSUME NEW j \in 1 .. n, v[j] * 100 < P
      PROVE  j \in 1 .. last
  <2>1. CASE frac = 0
    <3>1. ~ (low + 1 <= j)
        BY <1>3, <1>5, <1>6, <1>7, <2>1
    <3> QED
        BY <1>2, <2>1, <3>1
  <2>2. CASE frac # 0
    <3>1. ~ (high + 1 <= j)
        BY <1>3, <1>5, <1>6, <1>7
    <3> QED
        BY <1>2, <1>6, <2>2, <3>1
  <2> QED
      BY <2>1, <2>2
<1>8. ASSUME NEW j \in 1 .. n, v[j] * 100 > P
      PROVE  j \in low + 2 .. n
  <2>1. ~ (j <= low + 1)
      BY <1>3, <1>5, <1>6, <1>8
  <2> QED
      BY <1>2, <2>1
<1>9. Cardinality(Below) \in Nat /\ Cardinality(Below) <= last
  <2>1. ASSUME NEW i \in Below
        PROVE  \E j \in 1 .. last : p[j] = i
      BY <1>4, <1>7
  <2>2. Below \in SUBSET (1 .. n) /\ last \in 0 .. n /\ 1 \in 1 .. n + 1 /\ 1 <= last + 1
      BY <1>2
  <2> HIDE DEF Below, last
  <2>3. Cardinality(Below) \in Nat /\ Cardinality(Below) <= last - 1 + 1
      BY <2>1, <2>2, CountedInOrder
  <2> QED
      BY <2>2, <2>3
<1>10. Cardinality(Above) \in Nat /\ Cardinality(Above) <= n - low - 1
  <2>1. ASSUME NEW i \in Above
        PROVE  \E j \in low + 2 .. n : p[j] = i
      BY <1>4, <1>8
  <2>2. Above \in SUBSET (1 .. n) /\ n \in 0 .. n /\ low + 2 \in 1 .. n + 1 /\ low + 2 <= n + 1
      BY <1>2
  <2> HIDE DEF Above
  <2>3. Cardinality(Above) \in Nat /\ Cardinality(Above) <= n - (low + 2) + 1
      BY <2>1, <2>2, CountedInOrder
  <2> QED
      BY <1>2, <2>3
<1>11. Cardinality(Below) * 100 < (n - 1) * q + 100
  <2> HIDE DEF Below
  <2> QED
      BY <1>2, <1>9
<1>12. Cardinality(Above) * 100 < (n - 1) * (100 - q) + 100
  <2> HIDE DEF Above
  <2>1. (n - 1) * (100 - q) = (n - 1) * 100 - (n - 1) * q
      BY <1>2
  <2>2. (n - 1) * (100 - q) = (n - 1) * 100 - (100 * low + frac)
      BY <1>2, <2>1
  <2> DEFINE rest == (n - 1) * (100 - q)
             above == Cardinality(Above)
  <2>3. above \in Nat /\ above <= n - low - 1 /\ rest = (n - 1) * 100 - (100 * low + frac)
      BY <1>10, <2>2
  <2> HIDE DEF rest, above
  <2>4. above * 100 < rest + 100
      BY <1>2, <2>3
  <2> QED
      BY <2>4 DEF rest, above
<1> QED
    BY <1>11, <1>12 DEF P

\* A larger percentile is no smaller.
LEMMA PercentilesInOrder ==
    ASSUME NEW values \in Seq(Int), Len(values) > 0,
           NEW p \in 0 .. 100, NEW q \in 0 .. 100, p < q
    PROVE  Percentile(values, p) <= Percentile(values, q)
<1> DEFINE n == Len(values)
           v == Ordered(values)
           After(low) == PlaceAfter(low, n)
<1>1. PICK lowp \in Nat, fracp \in Nat : LiesAt(lowp, fracp, values, p)
    BY PercentileLies
<1>2. PICK lowq \in Nat, fracq \in Nat : LiesAt(lowq, fracq, values, q)
    BY PercentileLies
<1>3. /\ n \in Nat
      /\ lowp \in 0 .. n - 1 /\ fracp \in 0 .. 99 /\ (n - 1) * p = 100 * lowp + fracp
      /\ lowq \in 0 .. n - 1 /\ fracq \in 0 .. 99 /\ (n - 1) * q = 100 * lowq + fracq
    BY <1>1, <1>2, LenProperties DEF LiesAt
<1>4. 100 * lowp + fracp <= 100 * lowq + fracq
  <2>1. \A m, d \in Nat : m * d \in Nat /\ m * (p + d) = m * p + m * d
      OBVIOUS
  <2>2. n - 1 \in Nat /\ q - p \in Nat /\ p + (q - p) = q
      BY <1>3
  <2>3. (n - 1) * (q - p) \in Nat /\ (n - 1) * q = (n - 1) * p + (n - 1) * (q - p)
      BY <2>1, <2>2
  <2> DEFINE more == (n - 1) * (q - p)
  <2>4. more \in Nat /\ 100 * lowq + fracq = (100 * lowp + fracp) + more
      BY <1>3, <2>3
  <2> HIDE DEF more
  <2> QED
      BY <1>3, <2>4
<1>5. /\ \A i \in 1 .. n : v[i] \in Int
      /\ \A i, j \in 1 .. n : i <= j => v[i] <= v[j]
  <2>1. /\ \A i \in 1 .. n : v[i] \in Int
        /\ \A i, j \in 1 .. n : i < j => v[i] <= v[j]
      BY SortedValues
  <2> QED
      BY <1>3, <2>1
<1>6. CASE lowp < lowq
  <2>1. After(lowp) + 1 \in 1 .. n /\ lowq + 1 \in 1 .. n /\ After(lowp) + 1 <= lowq + 1
      BY <1>3, <1>6 DEF PlaceAfter
  <2>2. Percentile(values, p) \in Int /\ Percentile(values, p) <= v[After(lowp) + 1] * 100
      BY <1>1, PercentileBounds
  <2>3. Percentile(values, q) \in Int /\ v[lowq + 1] * 100 <= Percentile(values, q)
      BY <1>2, PercentileBounds
  <2> HIDE DEF v
  <2>4. v[After(lowp) + 1] <= v[lowq + 1]
      BY <1>5, <2>1
  <2>5. v[After(lowp) + 1] \in Int /\ v[lowq + 1] \in Int
      BY <1>5, <2>1
  <2> HIDE DEF After
  <2> QED
      BY <2>2, <2>3, <2>4, <2>5
<1>7. CASE lowp >= lowq
  <2>1. lowp = lowq /\ fracp <= fracq
      BY <1>3, <1>4, <1>7
  <2>2. /\ lowp + 1 \in 1 .. n /\ After(lowp) + 1 \in 1 .. n /\ lowp + 1 <= After(lowp) + 1
      BY <1>3 DEF PlaceAfter
  <2> DEFINE a == v[lowp + 1]
             b == v[After(lowp) + 1]
  <2>3. /\ Percentile(values, p) = a * (100 - fracp) + b * fracp
        /\ Percentile(values, q) = a * (100 - fracq) + b * fracq
      BY <1>1, <1>2, <2>1 DEF LiesAt
  <2>4. a \in Int /\ b \in Int /\ a <= b
    <3> HIDE DEF v
    <3> QED
        BY <1>5, <2>2
  <2>5. fracp \in 0 .. 100 /\ fracq \in 0 .. 100
      BY <1>3
  <2> HIDE DEF a, b
  <2>6. a * (100 - fracp) + b * fracp <= a * (100 - fracq) + b * fracq
      BY <2>1, <2>4, <2>5, MeanOfTwo
  <2> QED
      BY <2>3, <2>6
<1> QED
    BY <1>3, <1>6, <1>7

\* Both definitions give the same figure.
LEMMA DefinitionsAgree ==
    ASSUME NEW values \in Seq(Int), Len(values) > 0, NEW q \in 0 .. 100
    PROVE  DemoPercentile(values, q) = Percentile(values, q)
<1> DEFINE n == Len(values)
           v == Ordered(values)
<1>1. PICK low \in Nat, frac \in Nat : LiesAt(low, frac, values, q)
    BY PercentileLies
<1> DEFINE high == PlaceAfter(low, n)
           a == v[low + 1]
           b == v[high + 1]
<1>2. /\ n \in Nat /\ low \in 0 .. n - 1 /\ frac \in 0 .. 99
      /\ Percentile(values, q) = a * (100 - frac) + b * frac
      /\ n # 1 => DemoPercentile(values, q) = a * 100 + (b - a) * frac
      /\ (n - 1) * q = 100 * low + frac
    BY <1>1, LenProperties DEF LiesAt
<1>3. low + 1 \in 1 .. n /\ high + 1 \in 1 .. n
    BY <1>2 DEF PlaceAfter
<1>4. a \in Int /\ b \in Int
    BY <1>3, SortedValues
<1>5. CASE n # 1
  <2>1. \A x, y \in Int : x * (100 - frac) + y * frac = x * 100 + (y - x) * frac
      BY <1>2
  <2> HIDE DEF a, b
  <2> QED
      BY <1>2, <1>4, <1>5, <2>1
<1>6. CASE n = 1
  <2>1. low = 0 /\ frac = 0
      BY <1>2, <1>6
  <2>2. v[1] = values[1]
    <3>1. PICK p \in [1 .. n -> 1 .. n] : \A i \in 1 .. n : v[i] = values[p[i]]
        BY SortedValues
    <3>2. 1 \in 1 .. n /\ p[1] \in 1 .. n
        BY <1>6
    <3> QED
        BY <1>6, <3>1, <3>2
  <2>3. Percentile(values, q) = v[1] * 100
    <3>1. Percentile(values, q) = v[low + 1] * 100
        BY <1>1, <2>1, PercentileBounds
    <3> QED
        BY <2>1, <3>1
  <2>4. DemoPercentile(values, q) = values[1] * 100
      BY <1>6 DEF DemoPercentile
  <2> QED
      BY <2>2, <2>3, <2>4
<1> QED
    BY <1>5, <1>6

-----------------------------------------------------------------------------
(* Theorems *)

LEMMA StreamInvariant == MeasuredSpec => []StreamInv
<1>1. MeasuredInit => StreamInv
  <2> SUFFICES ASSUME MeasuredInit
               PROVE  StreamInv
      OBVIOUS
  <2>1. StreamTyped /\ TextFits
      BY TypedInitially, TextInitially
  <2>2. OnTheWay
      BY AtTheStart DEF MeasuredInit, OnTheWay
  <2>3. FramesFit /\ ServerClock /\ ClientClock /\ GapsFit
      BY NeverIsBeforeTime DEF MeasuredInit, FramesFit, ServerClock, ClientClock, GapsFit
  <2> QED
      BY <2>1, <2>2, <2>3 DEF StreamInv
<1>2. StreamInv /\ [MeasuredNext]_measuredVars => StreamInv'
    BY TypedStep, TextStep, OnTheWayStep, FramesStep, ServerClockStep, ClientClockStep,
       GapsStep DEF StreamInv
<1> QED
    BY <1>1, <1>2, PTL DEF MeasuredSpec

\* No stop sequence goes out, whatever the vocabulary, the stop sequences a
\* client asks for, the clock and the moment anybody gives up: what is sent is
\* the text up to the first of them, and a client that saw [DONE] has all of
\* it (MockEngine.generate, apply_stop_sequences, _one_request).
THEOREM StopsAlwaysHonoured == MeasuredSpec => []StopsHonoured
<1>1. StreamInv => StopsHonoured
    BY DEF StreamInv, TextFits, OnTheWay, StopsHonoured
<1> QED
    BY <1>1, StreamInvariant, PTL

\* The figures of a stream add up, however many tokens it has and however the
\* clock runs: at each end the gaps make up the time from the first token to
\* the last, one gap less than tokens, and those of the client enclose those
\* of the server (LatencyRecorder, _one_request).
THEOREM FiguresAlwaysAddUp == MeasuredSpec => []FiguresAddUp
<1>1. StreamInv => EndsAgree
  <2> SUFFICES ASSUME StreamInv
               PROVE  EndsAgree
      OBVIOUS
  <2>1. /\ rec.arrived \in Int /\ rec.first \in Int /\ rec.last \in Int /\ rec.finished \in Int
        /\ rec.tokens \in Nat /\ client.tokens \in Nat /\ client.ttft \in Int /\ client.e2e \in Int
      BY DEF StreamInv, StreamTyped, Recorders, Clients
  <2>2. /\ rec.tokens > 0 => Len(rec.gaps) = rec.tokens - 1
        /\ client.tokens > 0 => Len(client.itls) = client.tokens - 1
      BY DEF StreamInv, ServerClock, ClientClock
  <2>3. ASSUME client.outcome = "ok"
        PROVE  /\ client.tokens = rec.tokens
               /\ client.e2e >= Duration
               /\ rec.tokens > 0 => client.ttft >= TTFT /\ Duration >= TTFT + Decode
    <3>1. gen = "ended" /\ client.tokens = rec.tokens
        BY <2>3 DEF StreamInv, FramesFit
    <3>2. rec.arrived >= 0 /\ rec.finished >= rec.last
        BY <3>1 DEF StreamInv, ServerClock
    <3>3. client.e2e >= rec.finished
        BY <2>3 DEF StreamInv, ClientClock
    <3>4. rec.tokens > 0 => client.ttft >= rec.first
        BY <3>1 DEF StreamInv, ClientClock
    <3>5. client.e2e >= Duration
        BY <2>1, <3>2, <3>3 DEF Duration
    <3>6. rec.tokens > 0 => client.ttft >= TTFT /\ Duration >= TTFT + Decode
        BY <2>1, <3>2, <3>4 DEF TTFT, Duration, Decode
    <3> QED
        BY <3>1, <3>5, <3>6
  <2> QED
      BY <2>2, <2>3 DEF EndsAgree
<1>2. StreamInv => GapsTelescope
  <2> SUFFICES ASSUME StreamInv
               PROVE  GapsTelescope
      OBVIOUS
  <2>1. rec.first \in Int /\ rec.last \in Int /\ rec.gaps \in Seq(Int)
      BY DEF StreamInv, StreamTyped, Recorders
  <2>2. Total(rec.gaps) \in Int
      BY <2>1, 0 \in Int, TotalOfAppend
  <2>3. rec.tokens > 0 => Total(rec.gaps) = Decode
      BY <2>1, <2>2 DEF StreamInv, GapsFit, Decode
  <2> QED
      BY <2>3 DEF StreamInv, GapsFit, GapsTelescope
<1>3. StreamInv => FiguresAddUp
    BY <1>1, <1>2 DEF FiguresAddUp
<1> QED
    BY <1>3, StreamInvariant, PTL

\* The percentiles _summarise reports lie where their definition puts them, are
\* in order, and are those of the demo's own definition, for any figures.
THEOREM PercentilesAlwaysHold == MeasuredSpec => []PercentilesHold
<1>1. ASSUME StreamTyped PROVE PercentilesHold
  <2> DEFINE gaps == client.itls
             n == Len(gaps)
             summary == Summarise(gaps)
  <2>1. gaps \in Seq(Int)
      BY <1>1 DEF StreamTyped, Clients
  <2>2. SUFFICES ASSUME n > 0
                 PROVE  /\ \A q \in DOMAIN summary :
                             /\ Cardinality({i \in 1 .. n : gaps[i] * 100 < summary[q]}) * 100
                                  < (n - 1) * q + 100
                             /\ Cardinality({i \in 1 .. n : gaps[i] * 100 > summary[q]}) * 100
                                  < (n - 1) * (100 - q) + 100
                        /\ \A p, q \in DOMAIN summary : p < q => summary[p] <= summary[q]
                        /\ \A q \in DOMAIN summary : DemoPercentile(gaps, q) = summary[q]
      BY DEF PercentilesHold
  <2>3. /\ DOMAIN summary \subseteq 0 .. 100
        /\ \A q \in DOMAIN summary : summary[q] = Percentile(gaps, q)
      BY DEF Summarise
  <2> HIDE DEF gaps, summary
  <2>4. ASSUME NEW q \in DOMAIN summary
        PROVE  /\ Cardinality({i \in 1 .. n : gaps[i] * 100 < summary[q]}) * 100
                    < (n - 1) * q + 100
               /\ Cardinality({i \in 1 .. n : gaps[i] * 100 > summary[q]}) * 100
                    < (n - 1) * (100 - q) + 100
    <3>1. q \in 0 .. 100 /\ summary[q] = Percentile(gaps, q)
        BY <2>3
    <3> QED
        BY <2>1, <2>2, <3>1, SharesOfPercentile
  <2>5. \A p, q \in DOMAIN summary : p < q => summary[p] <= summary[q]
      BY <2>1, <2>2, <2>3, PercentilesInOrder
  <2>6. \A q \in DOMAIN summary : DemoPercentile(gaps, q) = summary[q]
      BY <2>1, <2>2, <2>3, DefinitionsAgree
  <2> QED
      BY <2>4, <2>5, <2>6
<1> QED
    BY <1>1, StreamInvariant, PTL DEF StreamInv

=============================================================================
