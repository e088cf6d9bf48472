------------------------ MODULE ActorJobQueueProofs -------------------------
(***************************************************************************)
(* The job lists of a default actor for any number of jobs and any         *)
(* priorities: the lists partition the jobs, the tails of the priorities   *)
(* are in place, and jobs are handed out highest priority first, in        *)
(* arrival order within a priority, each once.                             *)
(***************************************************************************)
EXTENDS ActorJobQueue, SequenceTheorems, FiniteSetTheorems, WellFoundedInduction, TLAPS

-----------------------------------------------------------------------------
(* Induction, by sets of numbers *)

\* A set of naturals has a least member.
LEMMA LeastNatural ==
  ASSUME NEW S \in SUBSET Nat, S # {}
  PROVE  \E m \in S : \A k \in S : m <= k
<1>1. PICK m \in S : \A k \in S : <<k, m>> \notin OpToRel(<, Nat)
  BY NatLessThanWellFounded, WFMin, Zenon
<1>2. \A k \in S : ~(k < m)
  BY <1>1 DEF OpToRel
<1>. QED
  BY <1>2

\* What holds of 0, and of n + 1 when it holds of the numbers up to n, holds up to N.
LEMMA UpTo ==
  ASSUME NEW N \in Nat, NEW S, 0 \in S,
         \A n \in 0..N : n > 0 /\ (\A k \in 0..N : k < n => k \in S) => n \in S
  PROVE  \A n \in 0..N : n \in S
<1>. DEFINE T == {n \in Nat : n \in 0..N /\ n \notin S}
<1>1. SUFFICES ASSUME T # {}
               PROVE  FALSE
  OBVIOUS
<1>2. T \in SUBSET Nat
  OBVIOUS
<1>3. PICK m \in T : \A k \in T : m <= k
  <2>. HIDE DEF T
  <2>. QED
    BY <1>1, <1>2, LeastNatural
<1>. QED
  BY <1>3

\* A nonempty set of naturals up to a bound has a greatest member.
LEMMA GreatestNatural ==
  ASSUME NEW N \in Nat, NEW S \in SUBSET 0..N, S # {}
  PROVE  \E m \in S : \A k \in S : m >= k
<1>. DEFINE T == {d \in Nat : \E k \in S : k + d = N}
<1>1. T \in SUBSET Nat
  OBVIOUS
<1>2. T # {}
  <2>1. PICK k \in S : TRUE
    OBVIOUS
  <2>2. k \in 0..N
    OBVIOUS
  <2>3. N - k \in T
    BY <2>2
  <2>. QED
    BY <2>3
<1>3. PICK d \in T : \A e \in T : d <= e
  <2>. HIDE DEF T
  <2>. QED
    BY <1>1, <1>2, LeastNatural
<1>4. PICK m \in S : m + d = N
  OBVIOUS
<1>5. ASSUME NEW k \in S
      PROVE  m >= k
  <2>1. k \in 0..N /\ m \in 0..N
    OBVIOUS
  <2>2. N - k \in T
    BY <2>1
  <2>3. d <= N - k
    BY <2>2, <1>3
  <2>4. d \in Nat
    OBVIOUS
  <2>. QED
    BY <2>1, <2>3, <2>4, <1>4
<1>. QED
  BY <1>5

-----------------------------------------------------------------------------
(* The recursive functions take the values of their defining equations *)

\* f[0] is first, and f[n] a step from an earlier value of f.
Computes(f, N, first, step, before) ==
  \A n \in 0..N : f[n] = IF n = 0 THEN first ELSE step[n][f[before[n]]]

\* A function exists whose value at n is computed from one of its earlier values.
LEMMA RecursionHolds ==
  ASSUME NEW V, NEW N \in Nat, NEW first \in V, NEW step \in [1..N -> [V -> V]],
         NEW before \in [1..N -> 0..N], \A n \in 1..N : before[n] < n
  PROVE  \E f \in [0..N -> V] : Computes(f, N, first, step, before)
<1>. DEFINE Holds(f, m) == Computes(f, m, first, step, before)
            S == {m \in Nat : \E f \in [0..m -> V] : Holds(f, m)}
<1>. USE DEF Computes
<1>1. 0 \in S
  <2>. DEFINE f == [n \in 0..0 |-> first]
  <2>1. f \in [0..0 -> V] /\ Holds(f, 0)
    OBVIOUS
  <2>. QED
    BY <2>1
<1>2. ASSUME NEW n \in 0..N, n > 0, n - 1 \in S
      PROVE  n \in S
  <2>1. PICK f \in [0..(n - 1) -> V] : Holds(f, n - 1)
    BY <1>2
  <2>2. /\ n \in 1..N /\ n \in Nat
        /\ before[n] \in 0..(n - 1)
    BY <1>2
  <2>. DEFINE g == [k \in 0..n |-> IF k = n THEN step[n][f[before[n]]] ELSE f[k]]
  <2>3. g \in [0..n -> V]
    <3>1. step[n][f[before[n]]] \in V
      BY <2>2
    <3>. QED
      BY <3>1, <2>2
  <2>4. ASSUME NEW k \in 0..n
        PROVE  g[k] = IF k = 0 THEN first ELSE step[k][g[before[k]]]
    <3>1. CASE k = n
      BY <3>1, <1>2, <2>2
    <3>2. CASE k # n
      <4>1. k \in 0..(n - 1) /\ g[k] = f[k]
        BY <3>2, <2>2
      <4>2. ASSUME k # 0
            PROVE  g[before[k]] = f[before[k]]
        <5>1. before[k] \in 0..(k - 1)
          BY <4>1, <4>2, <2>2
        <5>. QED
          BY <5>1, <4>1, <2>2
      <4>. QED
        BY <2>1, <4>1, <4>2
    <3>. QED
      BY <3>1, <3>2
  <2>. HIDE DEF g
  <2>. QED
    BY <2>2, <2>3, <2>4
<1>3. \A n \in 0..N : n \in S
  <2>. HIDE DEF S
  <2>1. \A n \in 0..N : n > 0 /\ (\A k \in 0..N : k < n => k \in S) => n \in S
    BY <1>2
  <2>. QED
    BY <2>1, <1>1, UpTo
<1>. QED
  BY <1>3

\* The walk along next references satisfies its definition,
LEMMA WalkUnfolds ==
  ASSUME NEW next \in [Node -> Reference], NEW h \in Reference
  PROVE  /\ Cardinality(Node) \in Nat
         /\ DOMAIN Walk(next, h) = 0..Cardinality(Node)
         /\ \A n \in DOMAIN Walk(next, h) :
              Walk(next, h)[n] = IF n = 0 THEN h
                                 ELSE IF Walk(next, h)[n - 1] = Null THEN Null
                                 ELSE next[Walk(next, h)[n - 1]]
<1>. DEFINE N == Cardinality(Node)
            Value(f, n) == IF n = 0 THEN h
                           ELSE IF f[n - 1] = Null THEN Null ELSE next[f[n - 1]]
            step == [n \in 1..N |-> [v \in Reference |-> IF v = Null THEN Null ELSE next[v]]]
            before == [n \in 1..N |-> n - 1]
<1>1. N \in Nat
  BY QueueAssumption, FS_CardinalityType
<1>. HIDE DEF N
<1>2. /\ step \in [1..N -> [Reference -> Reference]]
      /\ before \in [1..N -> 0..N] /\ \A n \in 1..N : before[n] < n
  BY <1>1 DEF Reference
<1>3. PICK f \in [0..N -> Reference] : Computes(f, N, h, step, before)
  <2>. HIDE DEF step, before
  <2>2. \A n \in 1..N : before[n] < n
    BY <1>2
  <2>3. step \in [1..N -> [Reference -> Reference]] /\ before \in [1..N -> 0..N]
    BY <1>2
  <2>4. N \in Nat /\ h \in Reference
    BY <1>1
  <2>. QED
    BY <2>2, <2>3, <2>4, RecursionHolds
<1>4. ASSUME NEW n \in 0..N
      PROVE  f[n] = Value(f, n)
  <2>1. n # 0 => n \in 1..N /\ f[n - 1] \in Reference /\ before[n] = n - 1
    BY <1>1
  <2>2. n # 0 => step[n][f[n - 1]] = Value(f, n)
    BY <2>1
  <2>. QED
    BY <1>3, <2>1, <2>2 DEF Computes
<1>5. f = [n \in 0..N |-> Value(f, n)]
  <2>. HIDE DEF Value
  <2>. QED
    BY <1>4
<1>6. Walk(next, h) = [n \in 0..N |-> Value(Walk(next, h), n)]
  <2>1. \E at : at = [n \in 0..N |-> Value(at, n)]
    <3>. HIDE DEF Value
    <3>. QED
      BY <1>5
  <2>. QED
    BY <2>1 DEF Walk, N
<1>7. /\ DOMAIN Walk(next, h) = 0..N
      /\ \A n \in 0..N : Walk(next, h)[n] = Value(Walk(next, h), n)
  <2>. HIDE DEF Value
  <2>. QED
    BY <1>6, Zenon
<1>. QED
  BY <1>1, <1>7 DEF N

\* and so does the selection of the jobs of a priority.
LEMMA KeptUnfolds ==
  ASSUME NEW S, NEW s \in Seq(S), NEW priority, NEW i
  PROVE  /\ DOMAIN Kept(s, priority, i) = 0..Len(s)
         /\ \A n \in 0..Len(s) :
              Kept(s, priority, i)[n] =
                IF n = 0 THEN <<>>
                ELSE IF priority[s[n]] = i THEN Append(Kept(s, priority, i)[n - 1], s[n])
                ELSE Kept(s, priority, i)[n - 1]
<1>. DEFINE N == Len(s)
            Value(f, n) == IF n = 0 THEN <<>>
                           ELSE IF priority[s[n]] = i THEN Append(f[n - 1], s[n])
                           ELSE f[n - 1]
            step == [n \in 1..N |->
                       [v \in Seq(S) |-> IF priority[s[n]] = i THEN Append(v, s[n]) ELSE v]]
            before == [n \in 1..N |-> n - 1]
<1>1. N \in Nat /\ \A n \in 1..N : s[n] \in S
  OBVIOUS
<1>. HIDE DEF N
<1>2. /\ step \in [1..N -> [Seq(S) -> Seq(S)]]
      /\ before \in [1..N -> 0..N] /\ \A n \in 1..N : before[n] < n
  BY <1>1, AppendProperties
<1>3. PICK f \in [0..N -> Seq(S)] : Computes(f, N, <<>>, step, before)
  <2>1. <<>> \in Seq(S)
    OBVIOUS
  <2>. HIDE DEF step, before
  <2>2. \A n \in 1..N : before[n] < n
    BY <1>2
  <2>3. step \in [1..N -> [Seq(S) -> Seq(S)]] /\ before \in [1..N -> 0..N]
    BY <1>2
  <2>4. N \in Nat /\ <<>> \in Seq(S)
    BY <1>1, <2>1
  <2>. QED
    BY <2>2, <2>3, <2>4, RecursionHolds
<1>4. ASSUME NEW n \in 0..N
      PROVE  f[n] = Value(f, n)
  <2>1. n # 0 => n \in 1..N /\ f[n - 1] \in Seq(S) /\ before[n] = n - 1
    BY <1>1
  <2>2. n # 0 => step[n][f[n - 1]] = Value(f, n)
    BY <2>1
  <2>. QED
    BY <1>3, <2>1, <2>2 DEF Computes
<1>5. f = [n \in 0..N |-> Value(f, n)]
  <2>. HIDE DEF Value
  <2>. QED
    BY <1>4
<1>6. Kept(s, priority, i) = [n \in 0..N |-> Value(Kept(s, priority, i), n)]
  <2>1. \E kept : kept = [n \in 0..N |-> Value(kept, n)]
    <3>. HIDE DEF Value
    <3>. QED
      BY <1>5
  <2>. QED
    BY <2>1 DEF Kept, N
<1>7. /\ DOMAIN Kept(s, priority, i) = 0..N
      /\ \A n \in 0..N : Kept(s, priority, i)[n] = Value(Kept(s, priority, i), n)
  <2>. HIDE DEF Value
  <2>. QED
    BY <1>6, Zenon
<1>. QED
  BY <1>7 DEF N

-----------------------------------------------------------------------------
(* The jobs of one priority *)

\* A set of sequences with the empty one and closed under Append has them all.
LEMMA SequenceInduction ==
  ASSUME NEW S, NEW T, <<>> \in T,
         \A s \in Seq(S) : s \in T => \A e \in S : Append(s, e) \in T
  PROVE  \A s \in Seq(S) : s \in T
<1>. SUFFICES ASSUME NEW s \in Seq(S)
              PROVE  s \in T
  OBVIOUS
<1>. DEFINE P == {n \in 0..Len(s) : SubSeq(s, 1, n) \in T}
<1>0. Len(s) \in Nat
  OBVIOUS
<1>1. 0 \in P
  <2>1. SubSeq(s, 1, 0) = <<>>
    BY SubSeqEmpty
  <2>2. SubSeq(s, 1, 0) \in T
    BY <2>1
  <2>. QED
    BY <2>2, <1>0
<1>2. ASSUME NEW n \in 0..Len(s), n > 0, n - 1 \in P
      PROVE  n \in P
  <2>. DEFINE u == SubSeq(s, 1, n - 1)
  <2>1. n \in 1..Len(s) /\ s[n] \in S
    BY <1>2
  <2>2. u \in Seq(S) /\ u \in T
    BY <1>2, <2>1, SubSeqProperties
  <2>3. SubSeq(s, 1, n) = u \o <<s[n]>>
    BY <2>1, SubSeqRecursiveSecond
  <2>4. Append(u, s[n]) = u \o <<s[n]>>
    <3>. HIDE DEF u
    <3>. QED
      BY <2>1, <2>2, AppendIsConcat
  <2>. HIDE DEF u
  <2>. QED
    BY <2>1, <2>2, <2>3, <2>4
<1>3. \A n \in 0..Len(s) : n \in P
  <2>. HIDE DEF P
  <2>1. \A n \in 0..Len(s) : n > 0 /\ (\A k \in 0..Len(s) : k < n => k \in P) => n \in P
    BY <1>0, <1>2
  <2>. QED
    BY <1>0, <1>1, <2>1, UpTo
<1>4. SubSeq(s, 1, Len(s)) \in T
  BY <1>0, <1>3
<1>. QED
  BY <1>4, SubSeqFull

\* The selection takes one job after the other.
LEMMA OfPriorityAppend ==
  ASSUME NEW S, NEW s \in Seq(S), NEW e \in S, NEW priority, NEW i
  PROVE  OfPriority(Append(s, e), priority, i) =
           IF priority[e] = i THEN Append(OfPriority(s, priority, i), e)
           ELSE OfPriority(s, priority, i)
<1>. DEFINE t == Append(s, e)
            K(u) == Kept(u, priority, i)
            P == {n \in 0..Len(s) : K(t)[n] = K(s)[n]}
<1>1. /\ t \in Seq(S) /\ Len(t) = Len(s) + 1 /\ Len(s) \in Nat
      /\ \A n \in 1..Len(s) : t[n] = s[n]
      /\ t[Len(s) + 1] = e
  BY AppendProperties
<1>. HIDE DEF t
<1>2. \A n \in 0..Len(s) : K(s)[n] =
        IF n = 0 THEN <<>>
        ELSE IF priority[s[n]] = i THEN Append(K(s)[n - 1], s[n]) ELSE K(s)[n - 1]
  BY KeptUnfolds
<1>3. \A n \in 0..Len(t) : K(t)[n] =
        IF n = 0 THEN <<>>
        ELSE IF priority[t[n]] = i THEN Append(K(t)[n - 1], t[n]) ELSE K(t)[n - 1]
  BY <1>1, KeptUnfolds
<1>. HIDE DEF K
<1>4. 0 \in P
  BY <1>1, <1>2, <1>3
<1>5. ASSUME NEW n \in 0..Len(s), n > 0, n - 1 \in P
      PROVE  n \in P
  <2>1. n \in 1..Len(s) /\ n \in 0..Len(t)
    BY <1>1, <1>5
  <2>. QED
    BY <1>1, <1>2, <1>3, <1>5, <2>1
<1>6. \A n \in 0..Len(s) : n \in P
  <2>. HIDE DEF P
  <2>1. \A n \in 0..Len(s) : n > 0 /\ (\A k \in 0..Len(s) : k < n => k \in P) => n \in P
    BY <1>1, <1>5
  <2>. QED
    BY <1>1, <1>4, <2>1, UpTo
<1>7. K(t)[Len(s)] = K(s)[Len(s)]
  BY <1>1, <1>6
<1>8. K(t)[Len(s) + 1] = IF priority[e] = i THEN Append(K(t)[Len(s)], e) ELSE K(t)[Len(s)]
  BY <1>1, <1>3
<1>. QED
  BY <1>1, <1>7, <1>8 DEF OfPriority, K, t

\* There are none in the empty sequence.
LEMMA OfPriorityEmpty ==
  ASSUME NEW priority, NEW i
  PROVE  OfPriority(<<>>, priority, i) = <<>>
<1>1. <<>> \in Seq({}) /\ Len(<<>>) = 0
  OBVIOUS
<1>2. Kept(<<>>, priority, i)[0] = <<>>
  <2>. DEFINE s == <<>>
  <2>1. s \in Seq({}) /\ 0 \in 0..Len(s)
    BY <1>1
  <2>. HIDE DEF s
  <2>2. Kept(s, priority, i)[0] = <<>>
    BY <2>1, KeptUnfolds
  <2>. QED
    BY <2>2 DEF s
<1>. QED
  BY <1>1, <1>2 DEF OfPriority

\* It is a sequence of the jobs of s that have the priority.
LEMMA OfPriorityRange ==
  ASSUME NEW S, NEW priority, NEW i
  PROVE  \A s \in Seq(S) : /\ OfPriority(s, priority, i) \in Seq(S)
                           /\ Range(OfPriority(s, priority, i)) =
                                {n \in Range(s) : priority[n] = i}
<1>. DEFINE O(s) == OfPriority(s, priority, i)
            T == {s \in Seq(S) : /\ O(s) \in Seq(S)
                                 /\ Range(O(s)) = {n \in Range(s) : priority[n] = i}}
<1>0. ASSUME NEW u \in Seq(S), NEW e \in S
      PROVE  Range(Append(u, e)) = Range(u) \cup {e}
  <2>1. /\ Append(u, e) \in Seq(S) /\ Len(Append(u, e)) = Len(u) + 1 /\ Len(u) \in Nat
        /\ \A k \in 1..Len(u) : Append(u, e)[k] = u[k]
        /\ Append(u, e)[Len(u) + 1] = e
    BY AppendProperties
  <2>2. /\ DOMAIN Append(u, e) = 1..(Len(u) + 1)
        /\ DOMAIN u = 1..Len(u)
    BY <2>1
  <2>. DEFINE v == Append(u, e)
  <2>. HIDE DEF v
  <2>. QED
    BY <2>1, <2>2 DEF Range, v
<1>1. <<>> \in T
  <2>1. Range(<<>>) = {} /\ <<>> \in Seq(S)
    BY DEF Range
  <2>2. O(<<>>) = <<>>
    BY OfPriorityEmpty
  <2>. HIDE DEF O
  <2>. QED
    BY <2>1, <2>2
<1>2. ASSUME NEW s \in Seq(S), s \in T, NEW e \in S
      PROVE  Append(s, e) \in T
  <2>1. O(Append(s, e)) = IF priority[e] = i THEN Append(O(s), e) ELSE O(s)
    BY OfPriorityAppend
  <2>2. O(s) \in Seq(S) /\ Range(O(s)) = {n \in Range(s) : priority[n] = i}
    BY <1>2
  <2>. HIDE DEF O
  <2>3. O(Append(s, e)) \in Seq(S) /\ Append(s, e) \in Seq(S)
    BY <2>1, <2>2
  <2>4. Range(Append(s, e)) = Range(s) \cup {e}
    BY <1>0
  <2>5. Range(Append(O(s), e)) = Range(O(s)) \cup {e}
    BY <1>0, <2>2
  <2>6. Range(O(Append(s, e))) = {n \in Range(Append(s, e)) : priority[n] = i}
    <3>1. CASE priority[e] = i
      BY <2>1, <2>2, <2>4, <2>5, <3>1
    <3>2. CASE priority[e] # i
      BY <2>1, <2>2, <2>4, <3>2
    <3>. QED
      BY <3>1, <3>2
  <2>. QED
    BY <2>3, <2>6
<1>3. \A s \in Seq(S) : s \in T
  <2>. HIDE DEF T
  <2>. QED
    BY <1>1, <1>2, SequenceInduction
<1>. QED
  BY <1>3

\* The selection from a concatenation is the concatenation of the selections.
LEMMA OfPriorityConcat ==
  ASSUME NEW S, NEW s \in Seq(S), NEW priority, NEW i
  PROVE  \A t \in Seq(S) : OfPriority(s \o t, priority, i) =
                             OfPriority(s, priority, i) \o OfPriority(t, priority, i)
<1>. DEFINE O(u) == OfPriority(u, priority, i)
            T == {t \in Seq(S) : O(s \o t) = O(s) \o O(t)}
<1>0. \A u \in Seq(S) : O(u) \in Seq(S)
  BY OfPriorityRange
<1>1. <<>> \in T
  <2>1. s \o <<>> = s /\ O(s) \o <<>> = O(s)
    BY <1>0, ConcatEmptySeq
  <2>2. O(<<>>) = <<>> /\ <<>> \in Seq(S)
    BY OfPriorityEmpty
  <2>. HIDE DEF O
  <2>3. O(s \o <<>>) = O(s) \o O(<<>>)
    BY <2>1, <2>2
  <2>. QED
    BY <2>2, <2>3
<1>2. ASSUME NEW t \in Seq(S), t \in T, NEW e \in S
      PROVE  Append(t, e) \in T
  <2>0. ASSUME NEW u \in Seq(S), NEW v \in Seq(S)
        PROVE  u \o Append(v, e) = Append(u \o v, e)
    <3>1. u \o v \in Seq(S) /\ <<e>> \in Seq(S)
      OBVIOUS
    <3>2. Append(v, e) = v \o <<e>> /\ Append(u \o v, e) = (u \o v) \o <<e>>
      BY <3>1, AppendIsConcat
    <3>. QED
      BY <3>1, <3>2, ConcatAssociative
  <2>1. O(Append(t, e)) = IF priority[e] = i THEN Append(O(t), e) ELSE O(t)
    BY OfPriorityAppend
  <2>2. s \o t \in Seq(S) /\ s \o Append(t, e) = Append(s \o t, e)
    BY <2>0
  <2>3. O(Append(s \o t, e)) = IF priority[e] = i THEN Append(O(s \o t), e) ELSE O(s \o t)
    <3>. DEFINE w == s \o t
    <3>1. w \in Seq(S)
      BY <2>2
    <3>. HIDE DEF w
    <3>2. O(Append(w, e)) = IF priority[e] = i THEN Append(O(w), e) ELSE O(w)
      BY <3>1, OfPriorityAppend
    <3>. QED
      BY <3>2 DEF w
  <2>4. O(s \o t) = O(s) \o O(t)
    BY <1>2
  <2>5. O(s) \o Append(O(t), e) = Append(O(s) \o O(t), e)
    BY <1>0, <2>0
  <2>6. Append(t, e) \in Seq(S)
    OBVIOUS
  <2>. HIDE DEF O
  <2>. QED
    BY <2>1, <2>2, <2>3, <2>4, <2>5, <2>6
<1>3. \A t \in Seq(S) : t \in T
  <2>. HIDE DEF T
  <2>. QED
    BY <1>1, <1>2, SequenceInduction
<1>. QED
  BY <1>3

\* It is everything when all jobs have the priority, and nothing when none has.
LEMMA OfPriorityUniform ==
  ASSUME NEW S, NEW priority, NEW i
  PROVE  \A s \in Seq(S) :
           /\ (\A k \in 1..Len(s) : priority[s[k]] = i) => OfPriority(s, priority, i) = s
           /\ (\A k \in 1..Len(s) : priority[s[k]] # i) => OfPriority(s, priority, i) = <<>>
<1>. DEFINE O(s) == OfPriority(s, priority, i)
            T == {s \in Seq(S) : /\ (\A k \in 1..Len(s) : priority[s[k]] = i) => O(s) = s
                                 /\ (\A k \in 1..Len(s) : priority[s[k]] # i) => O(s) = <<>>}
<1>1. <<>> \in T
  <2>1. O(<<>>) = <<>>
    BY OfPriorityEmpty
  <2>. HIDE DEF O
  <2>. QED
    BY <2>1
<1>2. ASSUME NEW s \in Seq(S), s \in T, NEW e \in S
      PROVE  Append(s, e) \in T
  <2>1. O(Append(s, e)) = IF priority[e] = i THEN Append(O(s), e) ELSE O(s)
    BY OfPriorityAppend
  <2>. DEFINE t == Append(s, e)
  <2>2. /\ t \in Seq(S) /\ Len(t) = Len(s) + 1 /\ Len(s) \in Nat
        /\ \A k \in 1..Len(s) : t[k] = s[k]
        /\ t[Len(s) + 1] = e
    BY AppendProperties
  <2>3. /\ (\A k \in 1..Len(s) : priority[s[k]] = i) => O(s) = s
        /\ (\A k \in 1..Len(s) : priority[s[k]] # i) => O(s) = <<>>
    BY <1>2
  <2>4. O(t) = IF priority[e] = i THEN Append(O(s), e) ELSE O(s)
    BY <2>1
  <2>5. t = Append(s, e)
    OBVIOUS
  <2>. HIDE DEF O, t
  <2>6. (\A k \in 1..Len(t) : priority[t[k]] = i) => O(t) = t
    <3>. SUFFICES ASSUME \A k \in 1..Len(t) : priority[t[k]] = i
                  PROVE  O(t) = t
      OBVIOUS
    <3>1. \A k \in 1..Len(s) : k \in 1..Len(t)
      BY <2>2
    <3>2. Len(s) + 1 \in 1..Len(t)
      BY <2>2
    <3>3. priority[e] = i /\ \A k \in 1..Len(s) : priority[s[k]] = i
      BY <2>2, <3>1, <3>2
    <3>. QED
      BY <2>3, <2>4, <2>5, <3>3
  <2>7. (\A k \in 1..Len(t) : priority[t[k]] # i) => O(t) = <<>>
    <3>. SUFFICES ASSUME \A k \in 1..Len(t) : priority[t[k]] # i
                  PROVE  O(t) = <<>>
      OBVIOUS
    <3>1. \A k \in 1..Len(s) : k \in 1..Len(t)
      BY <2>2
    <3>2. Len(s) + 1 \in 1..Len(t)
      BY <2>2
    <3>3. priority[e] # i /\ \A k \in 1..Len(s) : priority[s[k]] # i
      BY <2>2, <3>1, <3>2
    <3>. QED
      BY <2>3, <2>4, <3>3
  <2>. QED
    BY <2>2, <2>5, <2>6, <2>7
<1>3. \A s \in Seq(S) : s \in T
  <2>. HIDE DEF T
  <2>. QED
    BY <1>1, <1>2, SequenceInduction
<1>. QED
  BY <1>3

\* Only the priorities of the jobs in s matter.
LEMMA OfPrioritySame ==
  ASSUME NEW S, NEW p, NEW q, NEW i, \A n \in S : p[n] = q[n]
  PROVE  \A s \in Seq(S) : OfPriority(s, p, i) = OfPriority(s, q, i)
<1>. DEFINE T == {s \in Seq(S) : OfPriority(s, p, i) = OfPriority(s, q, i)}
<1>1. <<>> \in T
  BY OfPriorityEmpty
<1>2. ASSUME NEW s \in Seq(S), s \in T, NEW e \in S
      PROVE  Append(s, e) \in T
  <2>1. Append(s, e) \in Seq(S) /\ p[e] = q[e]
    OBVIOUS
  <2>2. /\ OfPriority(Append(s, e), p, i) =
             IF p[e] = i THEN Append(OfPriority(s, p, i), e) ELSE OfPriority(s, p, i)
        /\ OfPriority(Append(s, e), q, i) =
             IF q[e] = i THEN Append(OfPriority(s, q, i), e) ELSE OfPriority(s, q, i)
    BY OfPriorityAppend
  <2>. QED
    BY <1>2, <2>1, <2>2
<1>3. \A s \in Seq(S) : s \in T
  <2>. HIDE DEF T
  <2>. QED
    BY <1>1, <1>2, SequenceInduction
<1>. QED
  BY <1>3

-----------------------------------------------------------------------------
(* Linked lists *)

\* What follows position k of a list
Follower(s, k) == IF k = Len(s) THEN Null ELSE s[k + 1]

\* The nodes of s, all different, are linked in order from h to the null reference.
IsList(next, h, s) ==
  /\ s \in Seq(Node)
  /\ \A a, b \in 1..Len(s) : s[a] = s[b] => a = b
  /\ h = Follower(s, 0)
  /\ \A k \in 1..Len(s) : next[s[k]] = Follower(s, k)

\* A list has as many nodes as it is long.
LEMMA ListCardinality ==
  ASSUME NEW s \in Seq(Node), \A a, b \in 1..Len(s) : s[a] = s[b] => a = b
  PROVE  /\ IsFiniteSet(Range(s))
         /\ Cardinality(Range(s)) = Len(s)
         /\ Len(s) <= Cardinality(Node)
<1>1. Len(s) \in Nat /\ DOMAIN s = 1..Len(s) /\ s \in [1..Len(s) -> Node]
  OBVIOUS
<1>2. s \in Bijection(1..Len(s), Range(s))
  BY <1>1 DEF Bijection, Injection, Surjection, IsInjective, Range
<1>3. Cardinality(Range(s)) = Len(s)
  BY <1>1, <1>2, FS_CountingElements DEF ExistsBijection
<1>4. Range(s) \in SUBSET Node
  BY <1>1 DEF Range
<1>5. IsFiniteSet(Range(s)) /\ Cardinality(Range(s)) <= Cardinality(Node)
  BY <1>4, QueueAssumption, FS_Subset
<1>. QED
  BY <1>3, <1>5

\* The chain from the head of a list is the list.
LEMMA ChainOfList ==
  ASSUME NEW next \in [Node -> Reference], NEW h \in Reference, NEW s, IsList(next, h, s)
  PROVE  Chain(next, h) = s
<1>. DEFINE N == Cardinality(Node)
            L == Len(s)
            at == Walk(next, h)
            P == {n \in 0..N : at[n] = IF n < L THEN s[n + 1] ELSE Null}
<1>1. /\ L \in Nat /\ s \in [1..L -> Node]
      /\ h = (IF L = 0 THEN Null ELSE s[1])
      /\ \A k \in 1..L : next[s[k]] = IF k = L THEN Null ELSE s[k + 1]
      /\ L <= N
  BY ListCardinality DEF IsList, Follower
<1>2. /\ N \in Nat
      /\ DOMAIN at = 0..N
      /\ \A n \in 0..N : at[n] = IF n = 0 THEN h
                                 ELSE IF at[n - 1] = Null THEN Null ELSE next[at[n - 1]]
  BY WalkUnfolds
<1>. HIDE DEF N, L, at
<1>3. 0 \in P
  BY <1>1, <1>2
<1>4. ASSUME NEW n \in 0..N, n > 0, n - 1 \in P
      PROVE  n \in P
  <2>1. at[n] = IF at[n - 1] = Null THEN Null ELSE next[at[n - 1]]
    BY <1>2, <1>4
  <2>2. at[n - 1] = IF n - 1 < L THEN s[n] ELSE Null
    BY <1>4
  <2>3. CASE n - 1 < L
    <3>1. n \in 1..L /\ s[n] # Null
      BY <2>3, <1>1, <1>4, QueueAssumption
    <3>. QED
      BY <1>1, <2>1, <2>2, <2>3, <3>1
  <2>4. CASE ~(n - 1 < L)
    BY <1>1, <2>1, <2>2, <2>4
  <2>. QED
    BY <2>3, <2>4
<1>5. \A n \in 0..N : n \in P
  <2>. HIDE DEF P
  <2>1. \A n \in 0..N : n > 0 /\ (\A k \in 0..N : k < n => k \in P) => n \in P
    BY <1>2, <1>4
  <2>. QED
    BY <1>2, <1>3, <2>1, UpTo
<1>6. {n \in DOMAIN at : at[n] # Null} = 0..(L - 1)
  BY <1>1, <1>2, <1>5, QueueAssumption
<1>7. Cardinality({n \in DOMAIN at : at[n] # Null}) = L
  <2>1. Cardinality(0..(L - 1)) = L
    BY <1>1, FS_Interval
  <2>. QED
    BY <1>6, <2>1
<1>8. [n \in 1..L |-> at[n - 1]] = s
  <2>1. \A n \in 1..L : at[n - 1] = s[n]
    BY <1>1, <1>2, <1>5
  <2>. QED
    BY <1>1, <2>1
<1>. QED
  BY <1>7, <1>8 DEF Chain, at

\* Two lists without a node in common have as many nodes as they are long together.
LEMMA PartitionCardinality ==
  ASSUME NEW s \in Seq(Node), \A a, b \in 1..Len(s) : s[a] = s[b] => a = b,
         NEW t \in Seq(Node), \A a, b \in 1..Len(t) : t[a] = t[b] => a = b,
         Range(s) \cap Range(t) = {}
  PROVE  Len(s) + Len(t) = Cardinality(Range(s) \cup Range(t))
<1>1. /\ IsFiniteSet(Range(s)) /\ Cardinality(Range(s)) = Len(s)
      /\ IsFiniteSet(Range(t)) /\ Cardinality(Range(t)) = Len(t)
  BY ListCardinality
<1>2. Cardinality(Range(s) \cup Range(t)) =
        Cardinality(Range(s)) + Cardinality(Range(t)) - Cardinality(Range(s) \cap Range(t))
  BY <1>1, FS_Union
<1>3. Cardinality(Range(s) \cap Range(t)) = 0
  BY FS_EmptySet
<1>4. Len(s) \in Nat /\ Len(t) \in Nat
  OBVIOUS
<1>. QED
  BY <1>1, <1>2, <1>3, <1>4

-----------------------------------------------------------------------------
(* The priority queue *)

\* Max is a member of a nonempty set with a bound, and no member is greater.
LEMMA MaxIsGreatest ==
  ASSUME NEW N \in Nat, NEW S \in SUBSET 0..N, S # {}
  PROVE  Max(S) \in S /\ \A k \in S : Max(S) >= k
BY GreatestNatural DEF Max

\* Min is a member of the set, and no member is smaller.
LEMMA MinIsLeast ==
  ASSUME NEW S \in SUBSET Nat, S # {}
  PROVE  Min(S) \in S /\ \A k \in S : Min(S) <= k
BY LeastNatural DEF Min

\* t is the last node of priority i in a list, and null if it has none.
LastOf(list, priority, i, t) ==
  \/ /\ t = Null
     /\ \A k \in 1..Len(list) : priority[list[k]] # i
  \/ \E k \in 1..Len(list) :
       /\ t = list[k]
       /\ priority[list[k]] = i
       /\ \A m \in 1..Len(list) : priority[list[m]] = i => m <= k

\* The queue q holds a list: from its head, sorted, with the tails in place.
HoldsQueue(q, priority, list) ==
  /\ q \in Queue
  /\ IsList(q.next, q.head, list)
  /\ \A a, b \in 1..Len(list) : a <= b => priority[list[a]] <= priority[list[b]]
  /\ \A i \in Index : LastOf(list, priority, i, q.tails[i])

\* p nodes of a list have at most priority index i, and the last of them is the
\* last of the lowest priority present up to i.
CutsAt(q, priority, list, i, p) ==
  LET present == {k \in 0..i : q.tails[k] # Null}
  IN /\ p \in 0..Len(list)
     /\ \A k \in 1..Len(list) : priority[list[k]] <= i <=> k <= p
     /\ present = {} => p = 0
     /\ present # {} => p > 0 /\ q.tails[Max(present)] = list[p]

\* Every priority index cuts the list that a queue holds in two: jobs of at most that
\* index, and the rest.
LEMMA CutExists ==
  ASSUME NEW priority \in [Node -> Index], NEW q, NEW list, HoldsQueue(q, priority, list),
         NEW i \in Index
  PROVE  \E p : CutsAt(q, priority, list, i, p)
<1>. DEFINE present == {k \in 0..i : q.tails[k] # Null}
            L == Len(list)
<1>1. /\ L \in Nat /\ list \in [1..L -> Node]
      /\ \A k \in 1..L : priority[list[k]] \in Index /\ list[k] # Null
      /\ i \in Nat /\ \A j \in 0..i : j \in Index
  BY QueueAssumption DEF HoldsQueue, IsList, Index, PrioritiesCount
<1>2. /\ \A a, b \in 1..L : a <= b => priority[list[a]] <= priority[list[b]]
      /\ \A j \in Index : LastOf(list, priority, j, q.tails[j])
  BY DEF HoldsQueue
<1>3. ASSUME NEW k \in 1..L, priority[list[k]] <= i
      PROVE  priority[list[k]] \in present
  <2>1. priority[list[k]] \in 0..i
    BY <1>1, <1>3 DEF Index, PrioritiesCount
  <2>2. LastOf(list, priority, priority[list[k]], q.tails[priority[list[k]]])
    BY <1>1, <1>2
  <2>3. q.tails[priority[list[k]]] # Null
    BY <1>1, <2>2 DEF LastOf
  <2>. QED
    BY <2>1, <2>3
<1>4. CASE present = {}
  <2>1. \A k \in 1..L : ~(priority[list[k]] <= i)
    BY <1>3, <1>4
  <2>2. \A k \in 1..L : ~(k <= 0)
    BY <1>1
  <2>3. CutsAt(q, priority, list, i, 0)
    BY <1>1, <1>4, <2>1, <2>2 DEF CutsAt
  <2>. QED
    BY <2>3
<1>5. CASE present # {}
  <2>. DEFINE j == Max(present)
  <2>1. j \in present /\ \A k \in present : j >= k
    BY <1>1, <1>5, MaxIsGreatest
  <2>2. j \in Nat /\ j <= i /\ j \in Index /\ q.tails[j] # Null
    BY <1>1, <2>1
  <2>3. LastOf(list, priority, j, q.tails[j])
    BY <1>2, <2>2
  <2>4. PICK p \in 1..L : /\ q.tails[j] = list[p] /\ priority[list[p]] = j
                          /\ \A m \in 1..L : priority[list[m]] = j => m <= p
    BY <2>2, <2>3 DEF LastOf
  <2>. HIDE DEF j
  <2>5. ASSUME NEW k \in 1..L
        PROVE  priority[list[k]] <= i <=> k <= p
    <3>1. ASSUME k <= p
          PROVE  priority[list[k]] <= i
      <4>1. priority[list[k]] <= j
        BY <1>2, <2>4, <3>1
      <4>. QED
        BY <1>1, <2>2, <4>1 DEF Index, PrioritiesCount
    <3>2. ASSUME priority[list[k]] <= i, k > p
          PROVE  FALSE
      <4>1. priority[list[k]] <= j
        BY <1>3, <2>1, <3>2
      <4>2. j <= priority[list[k]]
        BY <1>1, <1>2, <2>4, <3>2
      <4>3. priority[list[k]] = j
        BY <1>1, <2>2, <4>1, <4>2 DEF Index, PrioritiesCount
      <4>. QED
        BY <1>1, <2>4, <3>2, <4>3
    <3>. QED
      BY <1>1, <3>1, <3>2
  <2>6. CutsAt(q, priority, list, i, p)
    BY <1>1, <1>5, <2>4, <2>5 DEF CutsAt, j
  <2>. QED
    BY <2>6
<1>. QED
  BY <1>4, <1>5

\* A list with a run behind its first p nodes
Inserted(list, p, run) == (SubSeq(list, 1, p) \o run) \o SubSeq(list, p + 1, Len(list))

\* Length, elements and range of a list with a run put in
LEMMA InsertedElements ==
  ASSUME NEW list \in Seq(Node), NEW run \in Seq(Node), NEW p \in 0..Len(list)
  PROVE  /\ Inserted(list, p, run) \in Seq(Node)
         /\ Len(Inserted(list, p, run)) = Len(list) + Len(run)
         /\ \A k \in 1..(Len(list) + Len(run)) :
              Inserted(list, p, run)[k] = IF k <= p THEN list[k]
                                          ELSE IF k <= p + Len(run) THEN run[k - p]
                                          ELSE list[k - Len(run)]
         /\ Range(Inserted(list, p, run)) = Range(list) \cup Range(run)
<1>. DEFINE L == Len(list)
            R == Len(run)
            a == SubSeq(list, 1, p)
            c == SubSeq(list, p + 1, L)
            M == Inserted(list, p, run)
<1>1. L \in Nat /\ R \in Nat /\ list \in [1..L -> Node] /\ run \in [1..R -> Node]
  OBVIOUS
<1>2. a \in Seq(Node) /\ Len(a) = p /\ \A k \in 1..p : a[k] = list[k]
  <2>1. \A k \in 1..p : list[k] \in Node
    BY <1>1
  <2>. QED
    BY <1>1, <2>1, SubSeqProperties
<1>3. c \in Seq(Node) /\ Len(c) = L - p /\ \A k \in 1..(L - p) : c[k] = list[p + k]
  <2>1. \A k \in (p + 1)..L : list[k] \in Node
    BY <1>1
  <2>2. /\ c \in Seq(Node)
        /\ Len(c) = IF p + 1 <= L THEN L - (p + 1) + 1 ELSE 0
        /\ \A k \in 1..(L - (p + 1) + 1) : c[k] = list[(p + 1) + k - 1]
    BY <1>1, <2>1, SubSeqProperties
  <2>. QED
    BY <1>1, <2>2
<1>. HIDE DEF a, c
<1>4. /\ a \o run \in Seq(Node) /\ Len(a \o run) = p + R
      /\ \A k \in 1..(p + R) : (a \o run)[k] = IF k <= p THEN list[k] ELSE run[k - p]
  <2>1. /\ a \o run \in Seq(Node) /\ Len(a \o run) = Len(a) + Len(run)
        /\ \A k \in 1..(Len(a) + Len(run)) :
             (a \o run)[k] = IF k <= Len(a) THEN a[k] ELSE run[k - Len(a)]
    BY <1>2, ConcatProperties
  <2>. QED
    BY <1>1, <1>2, <2>1
<1>. DEFINE b == a \o run
<1>5. M = b \o c
  BY DEF Inserted, a, c
<1>. HIDE DEF b, M, L, R
<1>6. /\ M \in Seq(Node) /\ Len(M) = L + R
      /\ \A k \in 1..(L + R) : M[k] = IF k <= p THEN list[k]
                                      ELSE IF k <= p + R THEN run[k - p] ELSE list[k - R]
  <2>0. b \in Seq(Node) /\ Len(b) = p + R
        /\ \A k \in 1..(p + R) : b[k] = IF k <= p THEN list[k] ELSE run[k - p]
    BY <1>4 DEF b
  <2>1. /\ M \in Seq(Node) /\ Len(M) = Len(b) + Len(c)
        /\ \A k \in 1..(Len(b) + Len(c)) :
             M[k] = IF k <= Len(b) THEN b[k] ELSE c[k - Len(b)]
    BY <1>3, <1>5, <2>0, ConcatProperties
  <2>2. Len(M) = L + R
    BY <1>1, <1>3, <2>0, <2>1 DEF L
  <2>3. ASSUME NEW k \in 1..(L + R)
        PROVE  M[k] = IF k <= p THEN list[k]
                      ELSE IF k <= p + R THEN run[k - p] ELSE list[k - R]
    <3>0. p \in Nat /\ p <= L
      BY <1>1 DEF L
    <3>1. M[k] = IF k <= p + R THEN b[k] ELSE c[k - (p + R)]
      BY <1>1, <1>3, <2>0, <2>1, <3>0
    <3>2. CASE k <= p + R
      BY <1>1, <2>0, <3>0, <3>1, <3>2
    <3>3. CASE ~(k <= p + R)
      <4>1. k - (p + R) \in 1..(L - p) /\ p + (k - (p + R)) = k - R
        BY <1>1, <3>0, <3>3
      <4>. QED
        BY <1>1, <1>3, <3>0, <3>1, <3>3, <4>1
    <3>. QED
      BY <3>2, <3>3
  <2>. QED
    BY <2>1, <2>2, <2>3
<1>7. Range(M) = Range(list) \cup Range(run)
  <2>0. /\ DOMAIN M = 1..(L + R) /\ DOMAIN list = 1..L /\ DOMAIN run = 1..R
        /\ p \in Nat /\ p <= L
    BY <1>1, <1>6 DEF L
  <2>1. ASSUME NEW k \in 1..(L + R)
        PROVE  M[k] \in Range(list) \cup Range(run)
    <3>1. CASE k <= p
      <4>1. k \in 1..L /\ M[k] = list[k]
        BY <1>1, <1>6, <2>0, <3>1
      <4>. QED
        BY <2>0, <4>1 DEF Range
    <3>2. CASE ~(k <= p) /\ k <= p + R
      <4>1. k - p \in 1..R /\ M[k] = run[k - p]
        BY <1>1, <1>6, <2>0, <3>2
      <4>. QED
        BY <2>0, <4>1 DEF Range
    <3>3. CASE ~(k <= p) /\ ~(k <= p + R)
      <4>1. k - R \in 1..L /\ M[k] = list[k - R]
        BY <1>1, <1>6, <2>0, <3>3
      <4>. QED
        BY <2>0, <4>1 DEF Range
    <3>. QED
      BY <3>1, <3>2, <3>3
  <2>2. ASSUME NEW k \in 1..L
        PROVE  list[k] \in Range(M)
    <3>1. CASE k <= p
      <4>1. k \in 1..(L + R) /\ M[k] = list[k]
        BY <1>1, <1>6, <2>0, <3>1
      <4>. QED
        BY <2>0, <4>1 DEF Range
    <3>2. CASE ~(k <= p)
      <4>1. k + R \in 1..(L + R) /\ M[k + R] = list[k]
        BY <1>1, <1>6, <2>0, <3>2
      <4>. QED
        BY <2>0, <4>1 DEF Range
    <3>. QED
      BY <3>1, <3>2
  <2>3. ASSUME NEW k \in 1..R
        PROVE  run[k] \in Range(M)
    <3>1. k + p \in 1..(L + R) /\ M[k + p] = run[k]
      BY <1>1, <1>6, <2>0
    <3>. QED
      BY <2>0, <3>1 DEF Range
  <2>4. Range(M) \subseteq Range(list) \cup Range(run)
    <3>. SUFFICES ASSUME NEW x \in Range(M)
                  PROVE  x \in Range(list) \cup Range(run)
      OBVIOUS
    <3>1. PICK k \in 1..(L + R) : x = M[k]
      BY <2>0 DEF Range
    <3>. QED
      BY <2>1, <3>1
  <2>5. Range(list) \subseteq Range(M)
    BY <2>0, <2>2 DEF Range
  <2>6. Range(run) \subseteq Range(M)
    BY <2>0, <2>3 DEF Range
  <2>. QED
    BY <2>4, <2>5, <2>6
<1>. QED
  BY <1>6, <1>7 DEF M, L, R

\* A run of linked nodes of priority i
IsRun(next, priority, i, run) ==
  /\ run \in Seq(Node)
  /\ run # <<>>
  /\ \A a, b \in 1..Len(run) : run[a] = run[b] => a = b
  /\ \A k \in 1..Len(run) : priority[run[k]] = i
  /\ \A k \in 1..Len(run) : k < Len(run) => next[run[k]] = run[k + 1]

\* enqueueRun puts a run behind the nodes that have at most its priority index, and
\* changes no next reference but those of the list and of the end of the run.
LEMMA RunIsEnqueued ==
  ASSUME NEW priority \in [Node -> Index], NEW q, NEW list, HoldsQueue(q, priority, list),
         NEW i \in Index, NEW run, IsRun(q.next, priority, i, run),
         Range(run) \cap Range(list) = {},
         NEW p, CutsAt(q, priority, list, i, p),
         NEW r, r = enqueueRun(q, i, run[1], run[Len(run)])
  PROVE  /\ HoldsQueue(r, priority, Inserted(list, p, run))
         /\ \A n \in Node : n \notin Range(list) /\ n # run[Len(run)] => r.next[n] = q.next[n]
<1>. DEFINE L == Len(list)
            R == Len(run)
            M == Inserted(list, p, run)
            present == {k \in 0..i : q.tails[k] # Null}
            F(s, k) == Follower(s, k)
<1>1. /\ L \in Nat /\ list \in [1..L -> Node] /\ list \in Seq(Node)
      /\ R \in Nat /\ R > 0 /\ run \in [1..R -> Node] /\ run \in Seq(Node)
      /\ p \in 0..L
  BY DEF HoldsQueue, IsList, IsRun, CutsAt
<1>2. /\ M \in Seq(Node) /\ Len(M) = L + R
      /\ \A k \in 1..(L + R) : M[k] = IF k <= p THEN list[k]
                                      ELSE IF k <= p + R THEN run[k - p] ELSE list[k - R]
      /\ Range(M) = Range(list) \cup Range(run)
  BY <1>1, InsertedElements
<1>3. /\ q.head \in Reference /\ q.tails \in [Index -> Reference]
      /\ q.next \in [Node -> Reference]
      /\ q.head = (IF L = 0 THEN Null ELSE list[1])
      /\ \A k \in 1..L : q.next[list[k]] = IF k = L THEN Null ELSE list[k + 1]
      /\ \A a, b \in 1..L : list[a] = list[b] => a = b
  BY <1>1 DEF HoldsQueue, Queue, IsList, Follower
<1>4. /\ \A a, b \in 1..R : run[a] = run[b] => a = b
      /\ \A k \in 1..R : priority[run[k]] = i
      /\ \A k \in 1..R : k < R => q.next[run[k]] = run[k + 1]
  BY DEF IsRun
<1>5. \A a \in 1..L, b \in 1..R : list[a] # run[b]
  BY <1>1 DEF Range
<1>6. /\ \A k \in 1..L : priority[list[k]] <= i <=> k <= p
      /\ present = {} => p = 0
      /\ present # {} => p > 0 /\ q.tails[Max(present)] = list[p]
  BY DEF CutsAt
<1>7. /\ r.head = IF p = 0 THEN run[1] ELSE q.head
      /\ r.next = IF p = 0 THEN [q.next EXCEPT ![run[R]] = q.head]
                  ELSE [q.next EXCEPT ![run[R]] = q.next[list[p]], ![list[p]] = run[1]]
      /\ r.tails = [q.tails EXCEPT ![i] = run[R]]
      /\ r = [head |-> r.head, next |-> r.next, tails |-> r.tails]
  <2>1. p = 0 <=> present = {}
    BY <1>1, <1>6
  <2>2. r = [head |-> IF p = 0 THEN run[1] ELSE q.head,
             next |-> IF p = 0 THEN [q.next EXCEPT ![run[R]] = q.head]
                      ELSE [q.next EXCEPT ![run[R]] = q.next[q.tails[Max(present)]],
                                          ![q.tails[Max(present)]] = run[1]],
             tails |-> [q.tails EXCEPT ![i] = run[R]]]
    BY <2>1 DEF enqueueRun
  <2>. HIDE DEF present
  <2>. QED
    BY <1>6, <2>1, <2>2
<1>. HIDE DEF present, L, R, M
<1>8. run[1] \in Node /\ run[R] \in Node /\ (p > 0 => list[p] \in Node /\ list[p] # run[R])
  BY <1>1, <1>5
<1>9. /\ p = 0 => r.next[run[R]] = q.head
      /\ p > 0 => r.next[run[R]] = q.next[list[p]] /\ r.next[list[p]] = run[1]
      /\ \A n \in Node : n # run[R] /\ (p > 0 => n # list[p]) => r.next[n] = q.next[n]
  BY <1>1, <1>3, <1>7, <1>8
<1>10. r \in Queue
  <2>1. r.head \in Reference
    BY <1>3, <1>7, <1>8 DEF Reference
  <2>2. r.next \in [Node -> Reference]
    <3>1. CASE p = 0
      BY <1>3, <1>7, <1>8, <3>1
    <3>2. CASE p # 0
      BY <1>1, <1>3, <1>7, <1>8, <3>2 DEF Reference
    <3>. QED
      BY <3>1, <3>2
  <2>3. r.tails \in [Index -> Reference]
    BY <1>3, <1>7, <1>8 DEF Reference
  <2>. QED
    BY <1>7, <2>1, <2>2, <2>3 DEF Queue
<1>11. r.head = F(M, 0)
  <2>1. 1 \in 1..(L + R) /\ 0 # L + R /\ p \in Nat /\ p <= L
    BY <1>1
  <2>2. M[1] = IF p = 0 THEN run[1] ELSE list[1]
    BY <1>1, <1>2, <2>1
  <2>3. r.head = M[1]
    BY <1>3, <1>7, <2>1, <2>2
  <2>. QED
    BY <1>2, <2>1, <2>3 DEF Follower
<1>12. ASSUME NEW k \in 1..(L + R)
       PROVE  r.next[M[k]] = F(M, k)
  <2>0. p \in Nat /\ p <= L /\ k \in Nat /\ k > 0 /\ k <= L + R
    BY <1>1
  <2>1. CASE k < p
    <3>1. /\ k \in 1..L /\ k + 1 \in 1..L /\ p \in 1..L /\ k # p /\ k # L /\ R \in 1..R
          /\ k + 1 \in 1..(L + R) /\ k # L + R
      BY <1>1, <2>0, <2>1
    <3>2. M[k] = list[k] /\ M[k + 1] = list[k + 1]
      BY <1>1, <1>2, <2>0, <2>1, <3>1
    <3>3. list[k] # run[R] /\ list[k] # list[p] /\ list[k] \in Node
      BY <1>1, <1>3, <1>5, <3>1
    <3>4. r.next[list[k]] = list[k + 1]
      BY <1>3, <1>9, <3>1, <3>3
    <3>. QED
      BY <1>2, <3>1, <3>2, <3>4 DEF Follower
  <2>2. CASE k = p
    <3>1. k + 1 \in 1..(L + R) /\ k # L + R
      BY <1>1, <2>0, <2>2
    <3>2. M[k] = list[p] /\ M[k + 1] = run[1]
      BY <1>1, <1>2, <2>0, <2>2, <3>1
    <3>. QED
      BY <1>2, <1>9, <2>0, <2>2, <3>1, <3>2 DEF Follower
  <2>3. CASE p < k /\ k < p + R
    <3>1. /\ k - p \in 1..R /\ (k + 1) - p = (k - p) + 1 /\ k - p < R /\ R \in 1..R
          /\ k + 1 \in 1..(L + R) /\ k # L + R /\ (p > 0 => p \in 1..L)
      BY <1>1, <2>0, <2>3
    <3>2. M[k] = run[k - p] /\ M[k + 1] = run[(k - p) + 1]
      BY <1>1, <1>2, <2>0, <2>3, <3>1
    <3>3. run[k - p] # run[R] /\ (p > 0 => run[k - p] # list[p]) /\ run[k - p] \in Node
      BY <1>1, <1>4, <1>5, <3>1
    <3>4. r.next[run[k - p]] = run[(k - p) + 1]
      BY <1>4, <1>9, <3>1, <3>3
    <3>. QED
      BY <1>2, <3>1, <3>2, <3>4 DEF Follower
  <2>4. CASE k = p + R
    <3>1. M[k] = run[R]
      BY <1>1, <1>2, <2>0, <2>4
    <3>2. r.next[run[R]] = IF p = L THEN Null ELSE list[p + 1]
      BY <1>1, <1>3, <1>9, <2>0
    <3>3. p # L => k + 1 \in 1..(L + R) /\ M[k + 1] = list[p + 1]
      BY <1>1, <1>2, <2>0, <2>4
    <3>4. k = L + R <=> p = L
      BY <1>1, <2>0, <2>4
    <3>. QED
      BY <1>2, <3>1, <3>2, <3>3, <3>4 DEF Follower
  <2>5. CASE p + R < k
    <3>1. /\ k - R \in 1..L /\ k - R > p /\ R \in 1..R /\ (k + 1) - R = (k - R) + 1
          /\ (p > 0 => p \in 1..L)
      BY <1>1, <2>0, <2>5
    <3>2. M[k] = list[k - R]
      BY <1>1, <1>2, <2>0, <2>5
    <3>3. list[k - R] # run[R] /\ (p > 0 => list[k - R] # list[p]) /\ list[k - R] \in Node
      BY <1>1, <1>3, <1>5, <3>1
    <3>4. r.next[list[k - R]] = IF k - R = L THEN Null ELSE list[(k - R) + 1]
      BY <1>3, <1>9, <3>1, <3>3
    <3>5. k - R # L => k + 1 \in 1..(L + R) /\ M[k + 1] = list[(k - R) + 1]
      BY <1>1, <1>2, <2>0, <2>5, <3>1
    <3>6. k = L + R <=> k - R = L
      BY <1>1, <2>0
    <3>. QED
      BY <1>2, <3>2, <3>4, <3>5, <3>6 DEF Follower
  <2>. QED
    BY <1>1, <2>0, <2>1, <2>2, <2>3, <2>4, <2>5
<1>13. ASSUME NEW a \in 1..(L + R), NEW b \in 1..(L + R), M[a] = M[b]
       PROVE  a = b
  <2>1. /\ p \in Nat /\ p <= L
        /\ M[a] = IF a <= p THEN list[a] ELSE IF a <= p + R THEN run[a - p] ELSE list[a - R]
        /\ M[b] = IF b <= p THEN list[b] ELSE IF b <= p + R THEN run[b - p] ELSE list[b - R]
    BY <1>1, <1>2
  <2>2. /\ a <= p => a \in 1..L
        /\ ~(a <= p) /\ a <= p + R => a - p \in 1..R
        /\ ~(a <= p) /\ ~(a <= p + R) => a - R \in 1..L /\ a - R > p
        /\ b <= p => b \in 1..L
        /\ ~(b <= p) /\ b <= p + R => b - p \in 1..R
        /\ ~(b <= p) /\ ~(b <= p + R) => b - R \in 1..L /\ b - R > p
    BY <1>1, <2>1
  <2>3. CASE a <= p
    <3>1. b <= p \/ (~(b <= p) /\ ~(b <= p + R))
      BY <1>5, <1>13, <2>1, <2>2, <2>3
    <3>2. CASE b <= p
      BY <1>3, <1>13, <2>1, <2>2, <2>3, <3>2
    <3>3. CASE ~(b <= p) /\ ~(b <= p + R)
      <4>1. a = b - R
        BY <1>3, <1>13, <2>1, <2>2, <2>3, <3>3
      <4>. QED
        BY <1>1, <2>1, <2>2, <2>3, <3>3, <4>1
    <3>. QED
      BY <3>1, <3>2, <3>3
  <2>4. CASE ~(a <= p) /\ a <= p + R
    <3>1. ~(b <= p) /\ b <= p + R
      BY <1>5, <1>13, <2>1, <2>2, <2>4
    <3>2. a - p = b - p
      BY <1>4, <1>13, <2>1, <2>2, <2>4, <3>1
    <3>. QED
      BY <2>1, <3>2
  <2>5. CASE ~(a <= p) /\ ~(a <= p + R)
    <3>1. b <= p \/ (~(b <= p) /\ ~(b <= p + R))
      BY <1>5, <1>13, <2>1, <2>2, <2>5
    <3>2. CASE b <= p
      <4>1. a - R = b
        BY <1>3, <1>13, <2>1, <2>2, <2>5, <3>2
      <4>. QED
        BY <1>1, <2>1, <2>2, <2>5, <3>2, <4>1
    <3>3. CASE ~(b <= p) /\ ~(b <= p + R)
      <4>1. a - R = b - R
        BY <1>3, <1>13, <2>1, <2>2, <2>5, <3>3
      <4>. QED
        BY <1>1, <4>1
    <3>. QED
      BY <3>1, <3>2, <3>3
  <2>. QED
    BY <2>3, <2>4, <2>5
<1>14. ASSUME NEW a \in 1..(L + R), NEW b \in 1..(L + R), a <= b
       PROVE  priority[M[a]] <= priority[M[b]]
  <2>1. \A k \in 1..L : priority[list[k]] \in Nat /\ i \in Nat
    BY <1>1 DEF Index, PrioritiesCount
  <2>2. \A k \in 1..L : k > p => priority[list[k]] > i
    BY <1>1, <1>6, <2>1
  <2>3. \A c, d \in 1..L : c <= d => priority[list[c]] <= priority[list[d]]
    BY DEF HoldsQueue, L
  <2>4. /\ p \in Nat /\ p <= L
        /\ M[a] = IF a <= p THEN list[a] ELSE IF a <= p + R THEN run[a - p] ELSE list[a - R]
        /\ M[b] = IF b <= p THEN list[b] ELSE IF b <= p + R THEN run[b - p] ELSE list[b - R]
    BY <1>1, <1>2
  <2>5. /\ a <= p => a \in 1..L
        /\ ~(a <= p) /\ a <= p + R => a - p \in 1..R
        /\ ~(a <= p + R) => a - R \in 1..L /\ a - R > p
        /\ b <= p => b \in 1..L
        /\ ~(b <= p) /\ b <= p + R => b - p \in 1..R
        /\ ~(b <= p + R) => b - R \in 1..L /\ b - R > p
    BY <1>1, <2>4
  <2>6. CASE b <= p
    BY <1>14, <2>3, <2>4, <2>5, <2>6
  <2>7. CASE ~(b <= p) /\ b <= p + R
    <3>1. priority[M[b]] = i
      BY <1>4, <2>4, <2>5, <2>7
    <3>2. CASE a <= p
      BY <1>6, <2>4, <2>5, <3>1, <3>2
    <3>3. CASE ~(a <= p)
      <4>1. priority[M[a]] = i
        BY <1>1, <1>4, <1>14, <2>4, <2>5, <2>7, <3>3
      <4>. QED
        BY <2>1, <3>1, <4>1 DEF Index, PrioritiesCount
    <3>. QED
      BY <3>2, <3>3
  <2>8. CASE ~(b <= p + R)
    <3>1. M[b] = list[b - R] /\ priority[M[b]] > i /\ b - R \in 1..L
      BY <1>1, <2>2, <2>4, <2>5, <2>8
    <3>2. CASE a <= p
      <4>1. priority[M[a]] <= i /\ priority[M[a]] \in Nat
        BY <1>6, <2>1, <2>4, <2>5, <3>2
      <4>. QED
        BY <2>1, <3>1, <4>1 DEF Index, PrioritiesCount
    <3>3. CASE ~(a <= p) /\ a <= p + R
      <4>1. priority[M[a]] = i
        BY <1>4, <2>4, <2>5, <3>3
      <4>. QED
        BY <2>1, <3>1, <4>1 DEF Index, PrioritiesCount
    <3>4. CASE ~(a <= p + R)
      <4>1. M[a] = list[a - R] /\ a - R \in 1..L /\ a - R <= b - R
        BY <1>1, <1>14, <2>4, <2>5, <3>4
      <4>. QED
        BY <2>3, <3>1, <4>1
    <3>. QED
      BY <3>2, <3>3, <3>4
  <2>. QED
    BY <2>6, <2>7, <2>8
<1>15. ASSUME NEW j \in Index
       PROVE  LastOf(M, priority, j, r.tails[j])
  <2>0. p \in Nat /\ p <= L
    BY <1>1
  <2>1. CASE j = i
    <3>1. r.tails[j] = run[R]
      BY <1>3, <1>7, <2>1
    <3>2. p + R \in 1..(L + R) /\ M[p + R] = run[R] /\ priority[run[R]] = i
      BY <1>1, <1>2, <1>4, <2>0
    <3>3. ASSUME NEW m \in 1..(L + R), priority[M[m]] = i
          PROVE  m <= p + R
      <4>1. SUFFICES ASSUME m > p + R
                     PROVE  FALSE
        BY <1>1, <2>0
      <4>2. m - R \in 1..L /\ M[m] = list[m - R] /\ ~(m - R <= p)
        BY <1>1, <1>2, <2>0, <4>1
      <4>3. i <= i
        BY DEF Index, PrioritiesCount
      <4>. QED
        BY <1>6, <3>3, <4>2, <4>3
    <3>. QED
      BY <1>2, <2>1, <3>1, <3>2, <3>3 DEF LastOf
  <2>2. CASE j # i
    <3>1. r.tails[j] = q.tails[j] /\ LastOf(list, priority, j, q.tails[j])
      BY <1>3, <1>7, <2>2 DEF HoldsQueue
    <3>2. ASSUME NEW m \in 1..(L + R), priority[M[m]] = j
          PROVE  /\ m <= p => m \in 1..L /\ M[m] = list[m]
                 /\ ~(m <= p) => m - R \in 1..L /\ m - R > p /\ M[m] = list[m - R]
      <4>1. CASE m <= p
        BY <1>1, <1>2, <2>0, <4>1
      <4>2. CASE ~(m <= p) /\ m <= p + R
        BY <1>1, <1>2, <1>4, <2>0, <2>2, <3>2, <4>2
      <4>3. CASE ~(m <= p + R)
        BY <1>1, <1>2, <2>0, <4>3
      <4>. QED
        BY <4>1, <4>2, <4>3
    <3>3. CASE r.tails[j] = Null /\ \A k \in 1..L : priority[list[k]] # j
      <4>1. \A m \in 1..(L + R) : priority[M[m]] # j
        BY <3>2, <3>3
      <4>. QED
        BY <1>2, <3>3, <4>1 DEF LastOf
    <3>4. ASSUME NEW k \in 1..L, r.tails[j] = list[k], priority[list[k]] = j,
                 \A m \in 1..L : priority[list[m]] = j => m <= k
          PROVE  LastOf(M, priority, j, r.tails[j])
      <4>. DEFINE c == IF k <= p THEN k ELSE k + R
      <4>1. c \in 1..(L + R) /\ M[c] = list[k]
        <5>1. CASE k <= p
          <6>1. c = k /\ k \in 1..(L + R)
            BY <1>1, <5>1
          <6>. QED
            BY <1>2, <5>1, <6>1
        <5>2. CASE ~(k <= p)
          <6>1. c = k + R /\ k + R \in 1..(L + R) /\ ~(k + R <= p + R) /\ (k + R) - R = k
            BY <1>1, <2>0, <5>2
          <6>2. ~(k + R <= p)
            BY <1>1, <2>0, <6>1
          <6>. QED
            BY <1>2, <6>1, <6>2
        <5>. QED
          BY <5>1, <5>2
      <4>2. ASSUME NEW m \in 1..(L + R), priority[M[m]] = j
            PROVE  m <= c
        <5>1. CASE m <= p
          <6>1. m \in 1..L /\ m <= k
            BY <3>2, <3>4, <4>2, <5>1
          <6>. QED
            BY <1>1, <2>0, <5>1, <6>1
        <5>2. CASE ~(m <= p)
          <6>1. m - R \in 1..L /\ m - R > p /\ m - R <= k
            BY <3>2, <3>4, <4>2, <5>2
          <6>. QED
            BY <1>1, <2>0, <5>2, <6>1
        <5>. QED
          BY <5>1, <5>2
      <4>. HIDE DEF c
      <4>. QED
        BY <1>2, <3>4, <4>1, <4>2 DEF LastOf
    <3>. QED
      BY <3>1, <3>3, <3>4 DEF LastOf, L
  <2>. QED
    BY <2>1, <2>2
<1>16. HoldsQueue(r, priority, M)
  <2>1. IsList(r.next, r.head, M)
    BY <1>2, <1>11, <1>12, <1>13 DEF IsList
  <2>. QED
    BY <1>2, <1>10, <1>14, <1>15, <2>1 DEF HoldsQueue
<1>17. ASSUME NEW n \in Node, n \notin Range(list), n # run[R]
       PROVE  r.next[n] = q.next[n]
  <2>1. p > 0 => n # list[p]
    BY <1>1, <1>17 DEF Range
  <2>. QED
    BY <1>9, <1>17, <2>1
<1>. QED
  BY <1>16, <1>17 DEF M, R

\* In the order of a priority, a run that is put behind the nodes of its priority comes last.
LEMMA InsertedOfPriority ==
  ASSUME NEW priority, NEW q, NEW list, HoldsQueue(q, priority, list), NEW i \in Index, NEW p,
         CutsAt(q, priority, list, i, p), NEW next, NEW run, IsRun(next, priority, i, run),
         NEW j
  PROVE  OfPriority(Inserted(list, p, run), priority, j) =
           OfPriority(list, priority, j) \o OfPriority(run, priority, j)
<1>. DEFINE a == SubSeq(list, 1, p)
            c == SubSeq(list, p + 1, Len(list))
            O(s) == OfPriority(s, priority, j)
<1>1. /\ Len(list) \in Nat /\ list \in [1..Len(list) -> Node]
      /\ p \in Nat /\ p \in 0..Len(list)
      /\ list \in Seq(Node) /\ run \in Seq(Node)
      /\ \A k \in 1..Len(list) : k > p => priority[list[k]] # i
      /\ \A k \in 1..Len(run) : priority[run[k]] = i
  BY DEF HoldsQueue, IsList, CutsAt, IsRun, Index, PrioritiesCount
<1>2. a \in Seq(Node)
  <2>1. \A k \in 1..p : list[k] \in Node
    BY <1>1
  <2>. QED
    BY <1>1, <2>1, SubSeqProperties
<1>3. c \in Seq(Node) /\ \A k \in 1..Len(c) : k + p \in 1..Len(list) /\ c[k] = list[k + p]
  <2>1. \A k \in (p + 1)..Len(list) : list[k] \in Node
    BY <1>1
  <2>2. /\ c \in Seq(Node)
        /\ Len(c) = IF p + 1 <= Len(list) THEN Len(list) - (p + 1) + 1 ELSE 0
        /\ \A k \in 1..(Len(list) - (p + 1) + 1) : c[k] = list[(p + 1) + k - 1]
    BY <1>1, <2>1, SubSeqProperties
  <2>. QED
    BY <1>1, <2>2
<1>4. list = a \o c
  <2>1. /\ 1 \in 1..(Len(list) + 1) /\ p \in (1 - 1)..Len(list) /\ Len(list) \in p..Len(list)
    BY <1>1
  <2>2. SubSeq(list, 1, p) \o SubSeq(list, p + 1, Len(list)) = SubSeq(list, 1, Len(list))
    BY <1>1, <2>1, ConcatAdjacentSubSeq
  <2>. QED
    BY <1>1, <2>2, SubSeqFull
<1>5. Inserted(list, p, run) = (a \o run) \o c
  BY DEF Inserted
<1>. HIDE DEF a, c
<1>6. \A s \in Seq(Node) : O(s) \in Seq(Node)
  BY OfPriorityRange
<1>7. \A s, t \in Seq(Node) : s \o t \in Seq(Node) /\ O(s \o t) = O(s) \o O(t)
  BY OfPriorityConcat
<1>8. O(run) = <<>> \/ O(c) = <<>>
  <2>1. CASE j = i
    <3>1. \A k \in 1..Len(c) : priority[c[k]] # j
      BY <1>1, <1>3, <2>1
    <3>. QED
      BY <1>3, <3>1, OfPriorityUniform
  <2>2. CASE j # i
    <3>1. \A k \in 1..Len(run) : priority[run[k]] # j
      BY <1>1, <2>2
    <3>. QED
      BY <1>1, <3>1, OfPriorityUniform
  <2>. QED
    BY <2>1, <2>2
<1>. HIDE DEF O
<1>9. O((a \o run) \o c) = (O(a) \o O(run)) \o O(c)
  <2>. DEFINE b == a \o run
  <2>1. b \in Seq(Node) /\ O(b) = O(a) \o O(run)
    BY <1>1, <1>2, <1>7
  <2>. HIDE DEF b
  <2>2. O(b \o c) = O(b) \o O(c)
    BY <1>3, <1>7, <2>1
  <2>. QED
    BY <2>1, <2>2 DEF b
<1>10. O(list) = O(a) \o O(c)
  BY <1>2, <1>3, <1>4, <1>7
<1>11. (O(a) \o O(run)) \o O(c) = (O(a) \o O(c)) \o O(run)
  <2>1. O(a) \in Seq(Node) /\ O(run) \in Seq(Node) /\ O(c) \in Seq(Node)
    BY <1>1, <1>2, <1>3, <1>6
  <2>2. O(a) \o O(run) \in Seq(Node) /\ O(a) \o O(c) \in Seq(Node)
    BY <2>1
  <2>3. CASE O(run) = <<>>
    BY <2>1, <2>2, <2>3, ConcatEmptySeq
  <2>4. CASE O(c) = <<>>
    BY <2>1, <2>2, <2>4, ConcatEmptySeq
  <2>. QED
    BY <1>8, <2>3, <2>4
<1>. QED
  BY <1>5, <1>9, <1>10, <1>11 DEF O

-----------------------------------------------------------------------------
(* Merging a list into the priority queue *)

\* The run that reaches position k starts at or before it and has one priority.
LEMMA RunStartHolds ==
  ASSUME NEW priority, NEW list, NEW k \in Nat, k > 0
  PROVE  /\ RunStart(priority, list, k) \in 1..k
         /\ \A b \in RunStart(priority, list, k)..k : priority[list[b]] = priority[list[k]]
<1>. DEFINE A == {a \in 1..k : \A b \in a..k : priority[list[b]] = priority[list[k]]}
<1>1. A \in SUBSET Nat /\ k \in A
  OBVIOUS
<1>2. Min(A) \in A
  <2>. HIDE DEF A
  <2>. QED
    BY <1>1, MinIsLeast
<1>. QED
  BY <1>2 DEF RunStart

\* Splicing a run gives a queue record.
LEMMA EnqueueRunType ==
  ASSUME NEW q \in Queue, NEW i \in Index, NEW a \in Node, NEW b \in Node
  PROVE  enqueueRun(q, i, a, b) \in Queue
<1>. DEFINE present == {k \in 0..i : q.tails[k] # Null}
            last == q.tails[Max(present)]
            r == enqueueRun(q, i, a, b)
<1>1. /\ q.head \in Reference /\ q.tails \in [Index -> Reference]
      /\ q.next \in [Node -> Reference]
  BY DEF Queue
<1>2. r = [head |-> IF present = {} THEN a ELSE q.head,
           next |-> IF present = {} THEN [q.next EXCEPT ![b] = q.head]
                    ELSE [q.next EXCEPT ![b] = q.next[last], ![last] = a],
           tails |-> [q.tails EXCEPT ![i] = b]]
  BY DEF enqueueRun
<1>3. ASSUME present # {}
      PROVE  last \in Node
  <2>1. i \in Nat /\ \A k \in 0..i : k \in Index
    BY DEF Index, PrioritiesCount
  <2>2. Max(present) \in present
    BY <1>3, <2>1, MaxIsGreatest
  <2>. QED
    BY <1>1, <2>1, <2>2 DEF Reference
<1>. HIDE DEF present, last
<1>4. (IF present = {} THEN a ELSE q.head) \in Reference
  BY <1>1 DEF Reference
<1>5. [q.tails EXCEPT ![i] = b] \in [Index -> Reference]
  BY <1>1 DEF Reference
<1>6. [q.next EXCEPT ![b] = q.head] \in [Node -> Reference]
  BY <1>1
<1>7. present # {} => [q.next EXCEPT ![b] = q.next[last], ![last] = a] \in [Node -> Reference]
  BY <1>1, <1>3 DEF Reference
<1>. QED
  BY <1>2, <1>4, <1>5, <1>6, <1>7 DEF Queue

\* The merge satisfies its definition.
LEMMA MergeUnfolds ==
  ASSUME NEW priority \in [Node -> Index], NEW q \in Queue, NEW list \in Seq(Node)
  PROVE  \A n \in 0..Len(list) :
           Merge(q, priority, list)[n] =
             IF n = 0 THEN q
             ELSE enqueueRun(Merge(q, priority, list)[RunStart(priority, list, n) - 1],
                             priority[list[n]], list[RunStart(priority, list, n)], list[n])
<1>. DEFINE N == Len(list)
            start(n) == RunStart(priority, list, n)
            Splice(v, n) == enqueueRun(v, priority[list[n]], list[start(n)], list[n])
            Value(f, n) == IF n = 0 THEN q ELSE Splice(f[start(n) - 1], n)
            step == [n \in 1..N |-> [v \in Queue |-> Splice(v, n)]]
            before == [n \in 1..N |-> start(n) - 1]
<1>1. N \in Nat /\ \A n \in 1..N : list[n] \in Node /\ priority[list[n]] \in Index
  OBVIOUS
<1>2. \A n \in 1..N : start(n) \in 1..n
  BY RunStartHolds
<1>3. \A n \in 1..N, v \in Queue : Splice(v, n) \in Queue
  <2>. SUFFICES ASSUME NEW n \in 1..N, NEW v \in Queue
                PROVE  Splice(v, n) \in Queue
    OBVIOUS
  <2>1. start(n) \in 1..N
    BY <1>1, <1>2
  <2>. QED
    BY <1>1, <2>1, EnqueueRunType
<1>. HIDE DEF N, start, Splice
<1>4. /\ step \in [1..N -> [Queue -> Queue]]
      /\ before \in [1..N -> 0..N] /\ \A n \in 1..N : before[n] < n
  BY <1>1, <1>2, <1>3
<1>5. PICK f \in [0..N -> Queue] : Computes(f, N, q, step, before)
  <2>. HIDE DEF step, before
  <2>2. \A n \in 1..N : before[n] < n
    BY <1>4
  <2>3. step \in [1..N -> [Queue -> Queue]] /\ before \in [1..N -> 0..N]
    BY <1>4
  <2>4. N \in Nat /\ q \in Queue
    BY <1>1
  <2>. QED
    BY <2>2, <2>3, <2>4, RecursionHolds
<1>6. ASSUME NEW n \in 0..N
      PROVE  f[n] = Value(f, n)
  <2>1. n # 0 => n \in 1..N /\ f[start(n) - 1] \in Queue /\ before[n] = start(n) - 1
    BY <1>1, <1>2
  <2>2. n # 0 => step[n][f[start(n) - 1]] = Value(f, n)
    BY <2>1
  <2>. QED
    BY <1>5, <2>1, <2>2 DEF Computes
<1>7. f = [n \in 0..N |-> Value(f, n)]
  <2>. HIDE DEF Value
  <2>. QED
    BY <1>6
<1>8. Merge(q, priority, list) = [n \in 0..N |-> Value(Merge(q, priority, list), n)]
  <2>1. \E merged : merged = [n \in 0..N |-> Value(merged, n)]
    <3>. HIDE DEF Value
    <3>. QED
      BY <1>7
  <2>. QED
    BY <2>1 DEF Merge, N, start, Splice
<1>9. \A n \in 0..N : Merge(q, priority, list)[n] = Value(Merge(q, priority, list), n)
  <2>. HIDE DEF Value
  <2>. QED
    BY <1>8, Zenon
<1>. QED
  BY <1>9 DEF N, start, Splice

\* What the queue m is after the first k nodes of a list were merged into one that
\* held base: it holds those nodes too, each priority's behind the ones it had, and
\* the rest of the list is linked as it was.
MergedAt(m, priority, base, list, k) ==
  /\ \E s : /\ HoldsQueue(m, priority, s)
            /\ Range(s) = Range(base) \cup {list[j] : j \in 1..k}
            /\ \A i \in Index :
                 OfPriority(s, priority, i) = OfPriority(base, priority, i)
                                                \o OfPriority(SubSeq(list, 1, k), priority, i)
  /\ \A j \in 1..Len(list) : j > k => m.next[list[j]] = Follower(list, j)

\* After any number of runs enqueueContentsOf has merged what precedes its position, and the
\* successors it still has to read are untouched.
LEMMA MergeHolds ==
  ASSUME NEW priority \in [Node -> Index], NEW q, NEW base, HoldsQueue(q, priority, base),
         NEW h, NEW list, IsList(q.next, h, list), Range(list) \cap Range(base) = {}
  PROVE  \A k \in 0..Len(list) : MergedAt(Merge(q, priority, list)[k], priority, base, list, k)
<1>. DEFINE N == Len(list)
            m(k) == Merge(q, priority, list)[k]
            start(k) == RunStart(priority, list, k)
            P == {k \in 0..N : MergedAt(m(k), priority, base, list, k)}
<1>1. /\ N \in Nat /\ list \in Seq(Node) /\ list \in [1..N -> Node]
      /\ \A a, b \in 1..N : list[a] = list[b] => a = b
      /\ \A k \in 1..N : q.next[list[k]] = Follower(list, k)
      /\ q \in Queue /\ base \in Seq(Node)
      /\ \A k \in 1..N : list[k] \notin Range(base)
  <2>1. list \in Seq(Node) /\ base \in Seq(Node) /\ q \in Queue
    BY DEF IsList, HoldsQueue
  <2>2. N \in Nat /\ DOMAIN list = 1..N /\ list \in [1..N -> Node]
    BY <2>1
  <2>3. \A k \in 1..N : list[k] \in Range(list)
    BY <2>2 DEF Range
  <2>4. /\ \A a, b \in 1..N : list[a] = list[b] => a = b
        /\ \A k \in 1..N : q.next[list[k]] = Follower(list, k)
    BY DEF IsList
  <2>. QED
    BY <2>1, <2>2, <2>3, <2>4
<1>2. \A k \in 0..N :
        m(k) = IF k = 0 THEN q
               ELSE enqueueRun(m(start(k) - 1), priority[list[k]], list[start(k)], list[k])
  BY <1>1, MergeUnfolds
<1>3. \A k \in 1..N : /\ start(k) \in 1..k
                     /\ \A b \in start(k)..k : priority[list[b]] = priority[list[k]]
  BY RunStartHolds
<1>. HIDE DEF m, start
<1>4. 0 \in P
  <2>1. SubSeq(list, 1, 0) = <<>>
    BY SubSeqEmpty
  <2>2. ASSUME NEW i \in Index
        PROVE  OfPriority(base, priority, i) = OfPriority(base, priority, i)
                                                 \o OfPriority(SubSeq(list, 1, 0), priority, i)
    <3>1. OfPriority(base, priority, i) \in Seq(Node)
      BY <1>1, OfPriorityRange
    <3>2. OfPriority(SubSeq(list, 1, 0), priority, i) = <<>>
      BY <2>1, OfPriorityEmpty
    <3>. QED
      BY <3>1, <3>2, ConcatEmptySeq
  <2>3. m(0) = q /\ 0 \in 0..N
    <3>1. N \in Nat
      BY <1>1
    <3>. HIDE DEF N
    <3>2. 0 \in 0..N
      BY <3>1
    <3>. QED
      BY <1>2, <3>2
  <2>4. MergedAt(q, priority, base, list, 0)
    <3>1. {list[j] : j \in 1..0} = {}
      OBVIOUS
    <3>2. Range(base) = Range(base) \cup {list[j] : j \in 1..0}
      BY <3>1
    <3>3. \A j \in 1..Len(list) : j > 0 => q.next[list[j]] = Follower(list, j)
      BY <1>1
    <3>. QED
      BY <2>2, <3>2, <3>3 DEF MergedAt
  <2>. QED
    BY <2>3, <2>4
<1>5. ASSUME NEW k \in 0..N, k > 0, \A j \in 0..N : j < k => j \in P
      PROVE  k \in P
  <2>. DEFINE a == start(k)
              i == priority[list[k]]
              run == SubSeq(list, a, k)
              R == k - a + 1
              m0 == m(a - 1)
  <2>1. k \in 1..N /\ a \in 1..k /\ a \in Nat /\ k \in Nat /\ a - 1 \in 0..N /\ a - 1 < k
    BY <1>1, <1>3, <1>5
  <2>2. i \in Index
    BY <1>1, <2>1
  <2>3. m(k) = enqueueRun(m0, i, list[a], list[k])
    BY <1>2, <1>5, <2>1
  <2>4. MergedAt(m0, priority, base, list, a - 1)
    BY <1>5, <2>1
  <2>5. PICK s : /\ HoldsQueue(m0, priority, s)
                 /\ Range(s) = Range(base) \cup {list[j] : j \in 1..(a - 1)}
                 /\ \A j \in Index :
                      OfPriority(s, priority, j) =
                        OfPriority(base, priority, j)
                          \o OfPriority(SubSeq(list, 1, a - 1), priority, j)
    BY <2>4 DEF MergedAt
  <2>6. \A j \in 1..N : j >= a => m0.next[list[j]] = Follower(list, j)
    BY <1>1, <2>1, <2>4 DEF MergedAt
  <2>7. /\ run \in Seq(Node) /\ Len(run) = R /\ R \in Nat /\ R > 0
        /\ \A j \in 1..R : run[j] = list[a + j - 1] /\ a + j - 1 \in a..k /\ a + j - 1 \in 1..N
    <3>1. \A j \in a..k : list[j] \in Node
      BY <1>1, <2>1
    <3>2. /\ run \in Seq(Node)
          /\ Len(run) = IF a <= k THEN k - a + 1 ELSE 0
          /\ \A j \in 1..(k - a + 1) : run[j] = list[a + j - 1]
      BY <2>1, <3>1, SubSeqProperties
    <3>. QED
      BY <2>1, <3>2
  <2>7a. \A b \in a..k : priority[list[b]] = i
    BY <1>3, <2>1
  <2>. HIDE DEF a, i, run, m0
  <2>8. /\ run[1] = list[a] /\ run[R] = list[k]
    <3>1. 1 \in 1..R /\ R \in 1..R /\ a + 1 - 1 = a /\ a + R - 1 = k
      BY <2>1, <2>7
    <3>. QED
      BY <2>7, <3>1
  <2>9. IsRun(m0.next, priority, i, run)
    <3>1. run # <<>>
      BY <2>7
    <3>2. ASSUME NEW b \in 1..R, NEW c \in 1..R, run[b] = run[c]
          PROVE  b = c
      <4>1. a + b - 1 = a + c - 1
        BY <1>1, <2>7, <3>2
      <4>. QED
        BY <2>1, <2>7, <4>1
    <3>3. \A j \in 1..R : priority[run[j]] = i
      BY <2>7, <2>7a
    <3>4. ASSUME NEW j \in 1..R, j < R
          PROVE  m0.next[run[j]] = run[j + 1]
      <4>1. /\ a + j - 1 \in 1..N /\ a + j - 1 >= a /\ a + j - 1 # N
            /\ j + 1 \in 1..R /\ a + (j + 1) - 1 = (a + j - 1) + 1
        BY <1>1, <2>1, <2>7, <3>4
      <4>2. m0.next[list[a + j - 1]] = list[(a + j - 1) + 1]
        BY <2>6, <4>1 DEF Follower
      <4>. QED
        BY <2>7, <4>1, <4>2
    <3>. QED
      BY <2>7, <3>1, <3>2, <3>3, <3>4 DEF IsRun
  <2>10. \A j \in 1..N : j >= a => list[j] \notin Range(s)
    BY <1>1, <2>1, <2>5
  <2>11. Range(run) = {list[j] : j \in a..k}
    <3>1. DOMAIN run = 1..R
      BY <2>7
    <3>2. Range(run) \subseteq {list[j] : j \in a..k}
      BY <2>7, <3>1 DEF Range
    <3>3. ASSUME NEW j \in a..k
          PROVE  list[j] \in Range(run)
      <4>1. j - a + 1 \in 1..R /\ a + (j - a + 1) - 1 = j
        BY <2>1
      <4>2. run[j - a + 1] = list[j]
        BY <2>7, <4>1
      <4>. QED
        BY <3>1, <4>1, <4>2 DEF Range
    <3>. QED
      BY <3>2, <3>3
  <2>12. Range(run) \cap Range(s) = {}
    BY <1>1, <2>1, <2>10, <2>11
  <2>13. PICK p : CutsAt(m0, priority, s, i, p)
    BY <2>2, <2>5, CutExists
  <2>. DEFINE t == Inserted(s, p, run)
  <2>14. /\ HoldsQueue(m(k), priority, t)
         /\ \A n \in Node : n \notin Range(s) /\ n # list[k] => m(k).next[n] = m0.next[n]
    <3>1. m(k) = enqueueRun(m0, i, run[1], run[Len(run)])
      BY <2>3, <2>7, <2>8
    <3>. DEFINE r == m(k)
    <3>2. r = enqueueRun(m0, i, run[1], run[Len(run)])
      BY <3>1
    <3>. HIDE DEF r
    <3>3. /\ HoldsQueue(r, priority, Inserted(s, p, run))
          /\ \A n \in Node : n \notin Range(s) /\ n # run[Len(run)] => r.next[n] = m0.next[n]
      BY <2>2, <2>5, <2>9, <2>12, <2>13, <3>2, RunIsEnqueued
    <3>. QED
      BY <2>7, <2>8, <3>3 DEF r
  <2>15. s \in Seq(Node) /\ p \in 0..Len(s)
    BY <2>5, <2>13 DEF HoldsQueue, IsList, CutsAt
  <2>16. Range(t) = Range(base) \cup {list[j] : j \in 1..k}
    <3>1. Range(t) = Range(s) \cup Range(run)
      BY <2>7, <2>15, InsertedElements
    <3>2. {list[j] : j \in 1..k} = {list[j] : j \in 1..(a - 1)} \cup {list[j] : j \in a..k}
      BY <2>1
    <3>. QED
      BY <2>5, <2>11, <3>1, <3>2
  <2>17. ASSUME NEW j \in Index
         PROVE  OfPriority(t, priority, j) =
                  OfPriority(base, priority, j) \o OfPriority(SubSeq(list, 1, k), priority, j)
    <3>. DEFINE O(u) == OfPriority(u, priority, j)
                c == SubSeq(list, 1, a - 1)
                d == SubSeq(list, 1, k)
    <3>1. O(t) = O(s) \o O(run)
      <4>1. OfPriority(Inserted(s, p, run), priority, j) =
              OfPriority(s, priority, j) \o OfPriority(run, priority, j)
        BY <2>2, <2>5, <2>9, <2>13, InsertedOfPriority
      <4>. QED
        BY <4>1
    <3>2. c \in Seq(Node) /\ c \o run = d
      <4>1. \A b \in 1..(a - 1) : list[b] \in Node
        BY <1>1, <2>1
      <4>2. c \in Seq(Node)
        BY <2>1, <4>1, SubSeqProperties
      <4>3. /\ 1 \in 1..(N + 1) /\ a - 1 \in (1 - 1)..N /\ k \in (a - 1)..N
            /\ (a - 1) + 1 = a
        BY <1>1, <2>1
      <4>4. SubSeq(list, 1, a - 1) \o SubSeq(list, (a - 1) + 1, k) = SubSeq(list, 1, k)
        BY <1>1, <4>3, ConcatAdjacentSubSeq
      <4>. QED
        BY <4>2, <4>3, <4>4 DEF run
    <3>3. O(s) = O(base) \o O(c)
      BY <2>5
    <3>. HIDE DEF c, d
    <3>4. O(d) = O(c) \o O(run)
      <4>1. c \in Seq(Node) /\ run \in Seq(Node)
        BY <2>7, <3>2
      <4>2. O(c \o run) = O(c) \o O(run)
        BY <4>1, OfPriorityConcat
      <4>. QED
        BY <3>2, <4>2
    <3>5. O(base) \in Seq(Node) /\ O(c) \in Seq(Node) /\ O(run) \in Seq(Node)
      BY <1>1, <2>7, <3>2, OfPriorityRange
    <3>. HIDE DEF O, t
    <3>6. O(t) = O(base) \o (O(c) \o O(run))
      <4>1. (O(base) \o O(c)) \o O(run) = O(base) \o (O(c) \o O(run))
        BY <3>5, ConcatAssociative
      <4>. QED
        BY <3>1, <3>3, <4>1
    <3>7. O(t) = O(base) \o O(d)
      BY <3>4, <3>6
    <3>. QED
      BY <3>7 DEF O, d
  <2>18. ASSUME NEW j \in 1..N, j > k
         PROVE  m(k).next[list[j]] = Follower(list, j)
    <3>1. list[j] \notin Range(s) /\ list[j] # list[k] /\ list[j] \in Node /\ j >= a
      BY <1>1, <2>1, <2>10, <2>18
    <3>. QED
      BY <2>6, <2>14, <3>1
  <2>. HIDE DEF t
  <2>19. MergedAt(m(k), priority, base, list, k)
    BY <2>14, <2>16, <2>17, <2>18 DEF MergedAt
  <2>. QED
    BY <2>19
<1>6. \A k \in 0..N : k \in P
  <2>. HIDE DEF P
  <2>1. \A k \in 0..N : k > 0 /\ (\A j \in 0..N : j < k => j \in P) => k \in P
    BY <1>5
  <2>. QED
    BY <1>1, <1>4, <2>1, UpTo
<1>. QED
  BY <1>6 DEF m

-----------------------------------------------------------------------------
(* Steps on the lists *)

\* A list stays one when its nodes' next references stay.
LEMMA ListFrame ==
  ASSUME NEW next, NEW h, NEW s, IsList(next, h, s), NEW other,
         \A n \in Range(s) : other[n] = next[n]
  PROVE  IsList(other, h, s)
<1>1. s \in Seq(Node) /\ \A k \in 1..Len(s) : s[k] \in Range(s)
  <2>1. s \in Seq(Node) /\ DOMAIN s = 1..Len(s)
    BY DEF IsList
  <2>. QED
    BY <2>1 DEF Range
<1>. QED
  BY <1>1 DEF IsList

\* So does what a queue holds, when its head and tails and its nodes' priorities stay too.
LEMMA QueueFrame ==
  ASSUME NEW q, NEW priority, NEW s, HoldsQueue(q, priority, s),
         NEW r \in Queue, r.head = q.head, r.tails = q.tails,
         \A n \in Range(s) : r.next[n] = q.next[n],
         NEW other, \A n \in Range(s) : other[n] = priority[n]
  PROVE  HoldsQueue(r, other, s)
<1>1. s \in Seq(Node) /\ \A k \in 1..Len(s) : s[k] \in Range(s)
  <2>1. s \in Seq(Node) /\ DOMAIN s = 1..Len(s)
    BY DEF HoldsQueue, IsList
  <2>. QED
    BY <2>1 DEF Range
<1>2. IsList(r.next, q.head, s)
  BY ListFrame DEF HoldsQueue
<1>3. \A k \in 1..Len(s) : other[s[k]] = priority[s[k]]
  BY <1>1
<1>4. \A a, b \in 1..Len(s) : a <= b => other[s[a]] <= other[s[b]]
  BY <1>3 DEF HoldsQueue
<1>5. ASSUME NEW i \in Index
      PROVE  LastOf(s, other, i, r.tails[i])
  <2>1. LastOf(s, priority, i, q.tails[i])
    BY DEF HoldsQueue
  <2>. QED
    BY <1>3, <2>1 DEF LastOf
<1>. QED
  BY <1>2, <1>4, <1>5 DEF HoldsQueue

\* dequeue takes the first node off the list.
LEMMA FirstIsDequeued ==
  ASSUME NEW q, NEW priority \in [Node -> Index], NEW s, HoldsQueue(q, priority, s), s # <<>>,
         NEW r, r = dequeue(q, priority)
  PROVE  /\ q.head = s[1]
         /\ r.next = q.next
         /\ HoldsQueue(r, priority, Tail(s))
<1>. DEFINE L == Len(s)
            t == Tail(s)
            rest == q.next[s[1]]
            emptied == rest = Null \/ priority[s[1]] # priority[rest]
<1>1. /\ s \in Seq(Node) /\ L \in Nat /\ L > 0 /\ s \in [1..L -> Node]
      /\ \A a, b \in 1..L : s[a] = s[b] => a = b
      /\ \A k \in 1..L : q.next[s[k]] = IF k = L THEN Null ELSE s[k + 1]
      /\ \A a, b \in 1..L : a <= b => priority[s[a]] <= priority[s[b]]
      /\ \A i \in Index : LastOf(s, priority, i, q.tails[i])
      /\ q \in Queue
  BY DEF HoldsQueue, IsList, Follower
<1>2. q.head = s[1] /\ s[1] \in Node /\ 1 \in 1..L
  BY <1>1 DEF HoldsQueue, IsList, Follower
<1>3. t \in Seq(Node) /\ Len(t) = L - 1 /\ \A k \in 1..(L - 1) : t[k] = s[k + 1] /\ k + 1 \in 1..L
  BY <1>1, HeadTailProperties
<1>4. /\ q.head \in Reference /\ q.tails \in [Index -> Reference]
      /\ q.next \in [Node -> Reference] /\ DOMAIN q = {"head", "tails", "next"}
  BY <1>1 DEF Queue
<1>5. rest = IF L = 1 THEN Null ELSE s[2]
  BY <1>1, <1>2
<1>. HIDE DEF rest, emptied, L
<1>5a. rest \in Reference
  BY <1>1, <1>2, <1>4, <1>5 DEF Reference
<1>5b. emptied <=> L = 1 \/ priority[s[1]] # priority[s[2]]
  <2>1. CASE L = 1
    BY <1>5, <2>1 DEF emptied
  <2>2. CASE L # 1
    <3>1. 2 \in 1..L /\ s[2] \in Node
      BY <1>1, <2>2
    <3>. QED
      BY <1>5, <2>2, <3>1, QueueAssumption DEF emptied
  <2>. QED
    BY <2>1, <2>2
<1>6. r = [q EXCEPT !.head = rest,
                    !.tails[priority[s[1]]] = IF emptied THEN Null ELSE @]
  <2>1. q.head # Null
    BY <1>2, QueueAssumption
  <2>. QED
    BY <1>2, <2>1 DEF dequeue, rest, emptied
<1>7. /\ r.head = rest /\ r.next = q.next
      /\ r.tails = [q.tails EXCEPT ![priority[s[1]]] = IF emptied THEN Null ELSE @]
      /\ r \in Queue
  <2>1. /\ r.head = rest /\ r.next = q.next
        /\ r.tails = [q.tails EXCEPT ![priority[s[1]]] = IF emptied THEN Null ELSE @]
    BY <1>1, <1>4, <1>6 DEF Queue
  <2>2. r = [head |-> r.head, tails |-> r.tails, next |-> r.next]
    BY <1>1, <1>6 DEF Queue
  <2>3. r.tails \in [Index -> Reference]
    BY <1>2, <1>4, <2>1 DEF Reference
  <2>. QED
    BY <1>4, <1>5a, <2>1, <2>2, <2>3 DEF Queue
<1>. HIDE DEF t
<1>8. IsList(r.next, r.head, t)
  <2>1. ASSUME NEW a \in 1..Len(t), NEW b \in 1..Len(t), t[a] = t[b]
        PROVE  a = b
    <3>1. s[a + 1] = s[b + 1] /\ a + 1 \in 1..L /\ b + 1 \in 1..L
      BY <1>1, <1>3, <2>1
    <3>2. a + 1 = b + 1
      BY <1>1, <3>1
    <3>. QED
      BY <1>3, <3>2
  <2>2. r.head = Follower(t, 0)
    BY <1>1, <1>3, <1>5, <1>7 DEF Follower
  <2>3. ASSUME NEW k \in 1..Len(t)
        PROVE  r.next[t[k]] = Follower(t, k)
    <3>1. t[k] = s[k + 1] /\ k + 1 \in 1..L /\ k \in 1..(L - 1)
      BY <1>1, <1>3
    <3>2. q.next[s[k + 1]] = IF k + 1 = L THEN Null ELSE s[(k + 1) + 1]
      BY <1>1, <3>1
    <3>3. k # L - 1 => k + 1 \in 1..(L - 1) /\ t[k + 1] = s[(k + 1) + 1]
      BY <1>1, <1>3, <3>1
    <3>. QED
      BY <1>1, <1>3, <1>7, <3>1, <3>2, <3>3 DEF Follower
  <2>. QED
    BY <1>3, <2>1, <2>2, <2>3 DEF IsList
<1>9. ASSUME NEW a \in 1..Len(t), NEW b \in 1..Len(t), a <= b
      PROVE  priority[t[a]] <= priority[t[b]]
  <2>1. /\ a + 1 \in 1..L /\ b + 1 \in 1..L /\ a + 1 <= b + 1
        /\ t[a] = s[a + 1] /\ t[b] = s[b + 1]
    BY <1>1, <1>3, <1>9
  <2>. QED
    BY <1>1, <2>1
<1>10. ASSUME NEW i \in Index
       PROVE  LastOf(t, priority, i, r.tails[i])
  <2>0. LastOf(s, priority, i, q.tails[i])
    BY <1>1
  <2>1. CASE i # priority[s[1]]
    <3>1. r.tails[i] = q.tails[i]
      BY <1>4, <1>7, <2>1
    <3>2. ASSUME NEW k \in 1..L, priority[s[k]] = i
          PROVE  k - 1 \in 1..(L - 1) /\ t[k - 1] = s[k]
      <4>1. k # 1
        BY <2>1, <3>2
      <4>2. k - 1 \in 1..(L - 1) /\ (k - 1) + 1 = k
        BY <1>1, <4>1
      <4>. QED
        BY <1>3, <4>2
    <3>3. CASE q.tails[i] = Null /\ \A k \in 1..L : priority[s[k]] # i
      BY <1>1, <1>3, <3>1, <3>3 DEF LastOf
    <3>4. CASE \E k \in 1..L : /\ q.tails[i] = s[k]
                               /\ priority[s[k]] = i
                               /\ \A m \in 1..L : priority[s[m]] = i => m <= k
      <4>1. PICK k \in 1..L : /\ q.tails[i] = s[k]
                              /\ priority[s[k]] = i
                              /\ \A m \in 1..L : priority[s[m]] = i => m <= k
        BY <3>4
      <4>2. k - 1 \in 1..Len(t) /\ t[k - 1] = s[k]
        BY <1>3, <3>2, <4>1
      <4>3. \A m \in 1..Len(t) : priority[t[m]] = i => m <= k - 1
        BY <1>1, <1>3, <4>1
      <4>. QED
        BY <3>1, <4>1, <4>2, <4>3 DEF LastOf
    <3>. QED
      BY <2>0, <3>3, <3>4 DEF LastOf, L
  <2>2. CASE i = priority[s[1]] /\ emptied
    <3>1. r.tails[i] = Null
      BY <1>4, <1>7, <2>2
    <3>2. ASSUME NEW k \in 1..Len(t), priority[t[k]] = i
          PROVE  FALSE
      <4>1. /\ k + 1 \in 1..L /\ t[k] = s[k + 1] /\ 2 \in 1..L /\ 2 <= k + 1 /\ L # 1
        BY <1>1, <1>3
      <4>2. priority[s[1]] # priority[s[2]]
        BY <1>5b, <2>2, <4>1
      <4>3. priority[s[1]] <= priority[s[2]] /\ priority[s[2]] <= priority[s[k + 1]]
        BY <1>1, <4>1
      <4>4. s[1] \in Node /\ s[2] \in Node
        BY <1>1, <4>1
      <4>5. priority[s[1]] \in Index /\ priority[s[2]] \in Index
        BY <4>4
      <4>6. priority[s[k + 1]] = priority[s[1]]
        BY <2>2, <3>2, <4>1
      <4>. QED
        BY <4>2, <4>3, <4>5, <4>6 DEF Index, PrioritiesCount
    <3>. QED
      BY <3>1, <3>2 DEF LastOf
  <2>3. CASE i = priority[s[1]] /\ ~emptied
    <3>1. r.tails[i] = q.tails[i]
      BY <1>4, <1>7, <2>3
    <3>2. L # 1 /\ priority[s[2]] = i
      BY <1>5b, <2>3
    <3>3. 2 \in 1..L
      BY <1>1, <3>2
    <3>4. PICK k \in 1..L : /\ q.tails[i] = s[k]
                            /\ priority[s[k]] = i
                            /\ \A m \in 1..L : priority[s[m]] = i => m <= k
      BY <2>0, <2>3, <1>2 DEF LastOf, L
    <3>5. 2 <= k
      BY <3>2, <3>3, <3>4
    <3>6. k - 1 \in 1..(L - 1) /\ (k - 1) + 1 = k
      BY <1>1, <3>5
    <3>7. k - 1 \in 1..Len(t) /\ t[k - 1] = s[k]
      BY <1>3, <3>6
    <3>8. \A m \in 1..Len(t) : priority[t[m]] = i => m <= k - 1
      BY <1>1, <1>3, <3>4
    <3>. QED
      BY <3>1, <3>4, <3>7, <3>8 DEF LastOf
  <2>. QED
    BY <2>1, <2>2, <2>3
<1>11. HoldsQueue(r, priority, t)
  BY <1>7, <1>8, <1>9, <1>10 DEF HoldsQueue
<1>. QED
  BY <1>2, <1>7, <1>11 DEF t

\* An empty queue stays as it is.
LEMMA NoneIsDequeued ==
  ASSUME NEW q, NEW priority, NEW s, HoldsQueue(q, priority, s), s = <<>>
  PROVE  q.head = Null /\ dequeue(q, priority) = q
<1>1. q.head = Null
  BY DEF HoldsQueue, IsList, Follower
<1>. QED
  BY <1>1 DEF dequeue

\* The last job of a priority in a list is the last of the jobs selected for it.
LEMMA LastOfPriority ==
  ASSUME NEW priority, NEW i
  PROVE  \A s \in Seq(Node) : \A t :
           LastOf(s, priority, i, t) =>
             t = IF OfPriority(s, priority, i) = <<>> THEN Null
                 ELSE Last(OfPriority(s, priority, i))
<1>. DEFINE O(s) == OfPriority(s, priority, i)
            Good(s) == \A t : LastOf(s, priority, i, t) =>
                                t = IF O(s) = <<>> THEN Null ELSE Last(O(s))
            T == {s \in Seq(Node) : Good(s)}
<1>1. <<>> \in T
  <2>1. O(<<>>) = <<>>
    BY OfPriorityEmpty
  <2>2. \A t : LastOf(<<>>, priority, i, t) => t = Null
    BY DEF LastOf
  <2>. QED
    BY <2>1, <2>2
<1>2. ASSUME NEW s \in Seq(Node), s \in T, NEW e \in Node
      PROVE  Append(s, e) \in T
  <2>. DEFINE L == Len(s)
              u == Append(s, e)
  <2>1. /\ L \in Nat /\ u \in Seq(Node) /\ Len(u) = L + 1
        /\ \A k \in 1..L : u[k] = s[k]
        /\ u[L + 1] = e
    BY AppendProperties
  <2>2. O(s) \in Seq(Node)
    BY OfPriorityRange
  <2>3. O(u) = IF priority[e] = i THEN Append(O(s), e) ELSE O(s)
    BY OfPriorityAppend
  <2>. HIDE DEF u, O, L
  <2>4. ASSUME NEW t, LastOf(u, priority, i, t)
        PROVE  t = IF O(u) = <<>> THEN Null ELSE Last(O(u))
    <3>1. CASE priority[e] = i
      <4>1. PICK k \in 1..(L + 1) : /\ t = u[k]
                                    /\ \A m \in 1..(L + 1) : priority[u[m]] = i => m <= k
        BY <2>1, <2>4, <3>1 DEF LastOf
      <4>2. k = L + 1
        BY <2>1, <3>1, <4>1
      <4>. DEFINE w == Append(O(s), e)
      <4>3. w # <<>> /\ w[Len(w)] = e
        BY <2>2, AppendProperties
      <4>. HIDE DEF w
      <4>4. O(u) = w
        BY <2>3, <3>1 DEF w
      <4>. QED
        BY <2>1, <4>1, <4>2, <4>3, <4>4 DEF Last
    <3>2. CASE priority[e] # i
      <4>1. LastOf(s, priority, i, t)
        <5>1. CASE t = Null /\ \A k \in 1..(L + 1) : priority[u[k]] # i
          BY <2>1, <5>1 DEF LastOf, L
        <5>2. CASE \E k \in 1..(L + 1) :
                     /\ t = u[k] /\ priority[u[k]] = i
                     /\ \A m \in 1..(L + 1) : priority[u[m]] = i => m <= k
          <6>1. PICK k \in 1..(L + 1) :
                  /\ t = u[k] /\ priority[u[k]] = i
                  /\ \A m \in 1..(L + 1) : priority[u[m]] = i => m <= k
            BY <5>2
          <6>2. k \in 1..L
            BY <2>1, <3>2, <6>1
          <6>3. t = s[k] /\ priority[s[k]] = i
            BY <2>1, <6>1, <6>2
          <6>4. \A m \in 1..L : priority[s[m]] = i => m <= k
            BY <2>1, <6>1
          <6>. QED
            BY <6>2, <6>3, <6>4 DEF LastOf, L
        <5>. QED
          BY <2>1, <2>4, <5>1, <5>2 DEF LastOf
      <4>2. Good(s)
        BY <1>2
      <4>3. O(u) = O(s)
        BY <2>3, <3>2
      <4>. QED
        BY <4>1, <4>2, <4>3
    <3>. QED
      BY <3>1, <3>2
  <2>. QED
    BY <2>1, <2>4 DEF u
<1>3. \A s \in Seq(Node) : s \in T
  <2>. HIDE DEF T
  <2>. QED
    BY <1>1, <1>2, SequenceInduction
<1>. QED
  BY <1>3

\* Linking every job of a list to the one before reverses the list.
LEMMA ListIsReversed ==
  ASSUME NEW next, NEW h, NEW s, IsList(next, h, s), s # <<>>, NEW other,
         \A k \in 1..Len(s) : other[s[k]] = IF k = 1 THEN Null ELSE s[k - 1]
  PROVE  IsList(other, Last(s), Reverse(s)) /\ Range(Reverse(s)) = Range(s)
<1>. DEFINE L == Len(s)
            u == Reverse(s)
<1>1. /\ s \in Seq(Node) /\ L \in Nat /\ L > 0 /\ s \in [1..L -> Node] /\ DOMAIN s = 1..L
      /\ \A a, b \in 1..L : s[a] = s[b] => a = b
  BY DEF IsList
<1>2. u = [k \in 1..L |-> s[L - k + 1]]
  BY DEF Reverse
<1>3. \A k \in 1..L : L - k + 1 \in 1..L /\ L - (L - k + 1) + 1 = k
  BY <1>1
<1>4. u \in [1..L -> Node] /\ \A k \in 1..L : u[k] = s[L - k + 1]
  BY <1>1, <1>2, <1>3
<1>5. u \in Seq(Node) /\ Len(u) = L /\ DOMAIN u = 1..L
  BY <1>1, <1>4
<1>. HIDE DEF u, L
<1>6. \A a, b \in 1..L : u[a] = u[b] => a = b
  <2>. SUFFICES ASSUME NEW a \in 1..L, NEW b \in 1..L, u[a] = u[b]
                PROVE  a = b
    OBVIOUS
  <2>0. /\ u[a] = s[L - a + 1] /\ u[b] = s[L - b + 1]
        /\ L - a + 1 \in 1..L /\ L - b + 1 \in 1..L
    BY <1>3, <1>4
  <2>1. L - a + 1 = L - b + 1
    BY <1>1, <2>0 DEF L
  <2>. QED
    BY <1>1, <2>1
<1>7. Last(s) = Follower(u, 0)
  <2>1. 1 \in 1..L /\ L - 1 + 1 = L
    BY <1>1
  <2>2. u[1] = s[L]
    BY <1>4, <2>1
  <2>. QED
    BY <1>1, <1>5, <2>2 DEF Follower, Last, L
<1>8. ASSUME NEW k \in 1..L
      PROVE  other[u[k]] = Follower(u, k)
  <2>1. other[s[L - k + 1]] = IF L - k + 1 = 1 THEN Null ELSE s[(L - k + 1) - 1]
    BY <1>3 DEF L
  <2>2. L - k + 1 = 1 <=> k = L
    BY <1>1
  <2>3. k # L => k + 1 \in 1..L /\ (L - k + 1) - 1 = L - (k + 1) + 1
    BY <1>1
  <2>4. k # L => u[k + 1] = s[(L - k + 1) - 1]
    BY <1>4, <2>3
  <2>. QED
    BY <1>4, <1>5, <2>1, <2>2, <2>4 DEF Follower
<1>9. Range(u) = Range(s)
  <2>1. Range(u) \subseteq Range(s)
    BY <1>1, <1>3, <1>4, <1>5 DEF Range
  <2>2. \A k \in 1..L : s[k] = u[L - k + 1]
    BY <1>3, <1>4
  <2>3. Range(s) \subseteq Range(u)
    BY <1>1, <1>3, <1>5, <2>2 DEF Range
  <2>. QED
    BY <2>1, <2>3
<1>10. IsList(other, Last(s), u)
  BY <1>5, <1>6, <1>7, <1>8 DEF IsList, L
<1>. QED
  BY <1>9, <1>10 DEF u

\* The queue r holds the jobs of base, and those of list behind them.
HoldsBoth(r, priority, base, list) ==
  \E t : /\ HoldsQueue(r, priority, t)
         /\ Range(t) = Range(base) \cup Range(list)
         /\ \A i \in Index : OfPriority(t, priority, i) =
              OfPriority(base, priority, i) \o OfPriority(list, priority, i)

\* The whole of a merge, from the chain of an unsorted list
LEMMA EnqueueContentsHolds ==
  ASSUME NEW priority \in [Node -> Index], NEW q, NEW base, HoldsQueue(q, priority, base),
         NEW h \in Reference, NEW list, IsList(q.next, h, list),
         Range(list) \cap Range(base) = {}, NEW r, r = enqueueContentsOf(q, priority, h)
  PROVE  HoldsBoth(r, priority, base, list)
<1>1. q.next \in [Node -> Reference]
  BY DEF HoldsQueue, Queue
<1>2. Chain(q.next, h) = list
  BY <1>1, ChainOfList
<1>3. r = Merge(q, priority, list)[Len(list)]
  BY <1>2 DEF enqueueContentsOf
<1>4. /\ list \in Seq(Node) /\ Len(list) \in Nat /\ DOMAIN list = 1..Len(list)
      /\ Len(list) \in 0..Len(list)
  BY DEF IsList
<1>5. MergedAt(r, priority, base, list, Len(list))
  <2>1. \A k \in 0..Len(list) : MergedAt(Merge(q, priority, list)[k], priority, base, list, k)
    BY MergeHolds
  <2>. QED
    BY <1>3, <1>4, <2>1
<1>6. SubSeq(list, 1, Len(list)) = list
  BY <1>4, SubSeqFull
<1>7. {list[j] : j \in 1..Len(list)} = Range(list)
  BY <1>4 DEF Range
<1>. QED
  BY <1>5, <1>6, <1>7 DEF MergedAt, HoldsBoth

\* handleUnprioritizedJobs() adds the incoming jobs behind those of their priority,
\* oldest first.
LEMMA ClaimHolds ==
  ASSUME index \in [Node -> Index], NEW q, NEW base, HoldsQueue(q, index, base),
         NEW h \in Reference, NEW s, IsList(q.next, h, s), s # <<>>,
         Range(s) \cap Range(base) = {}, NEW r, r = handleUnprioritizedJobs(q, h)
  PROVE  /\ HoldsBoth(r, index, base, Reverse(s))
         /\ Range(Reverse(s)) = Range(s)
<1>. DEFINE Before(k) == IF k = 1 THEN Null ELSE s[k - 1]
            Position(n) == CHOOSE k \in DOMAIN s : s[k] = n
            next == [n \in Node |-> IF n \in Range(s) THEN Before(Position(n)) ELSE q.next[n]]
            q1 == [q EXCEPT !.next = next]
<1>1. /\ s \in Seq(Node) /\ Len(s) \in Nat /\ DOMAIN s = 1..Len(s) /\ s \in [1..Len(s) -> Node]
      /\ \A a, b \in 1..Len(s) : s[a] = s[b] => a = b
      /\ q \in Queue /\ q.next \in [Node -> Reference] /\ base \in Seq(Node)
  BY DEF IsList, HoldsQueue, Queue
<1>2. Chain(q.next, h) = s
  BY <1>1, ChainOfList
<1>3. r = enqueueContentsOf(q1, index, Last(s))
  BY <1>2 DEF handleUnprioritizedJobs
<1>4. ASSUME NEW k \in 1..Len(s)
      PROVE  next[s[k]] = IF k = 1 THEN Null ELSE s[k - 1]
  <2>1. s[k] \in Node /\ s[k] \in Range(s)
    BY <1>1 DEF Range
  <2>2. next[s[k]] = Before(Position(s[k]))
    BY <2>1
  <2>3. Position(s[k]) \in DOMAIN s /\ s[Position(s[k])] = s[k]
    BY <1>1
  <2>. HIDE DEF Position
  <2>4. Position(s[k]) = k
    BY <1>1, <2>3
  <2>. QED
    BY <2>2, <2>4
<1>5. next \in [Node -> Reference]
  <2>. SUFFICES ASSUME NEW n \in Node
                PROVE  next[n] \in Reference
    OBVIOUS
  <2>1. CASE n \in Range(s)
    <3>1. PICK k \in 1..Len(s) : n = s[k]
      BY <1>1, <2>1 DEF Range
    <3>2. next[n] = IF k = 1 THEN Null ELSE s[k - 1]
      BY <1>4, <3>1
    <3>3. k # 1 => k - 1 \in 1..Len(s)
      BY <1>1
    <3>. QED
      BY <1>1, <3>2, <3>3 DEF Reference
  <2>2. CASE n \notin Range(s)
    BY <1>1, <2>2
  <2>. QED
    BY <2>1, <2>2
<1>6. \A n \in Range(base) : next[n] = q.next[n]
  <2>1. \A n \in Range(base) : n \in Node /\ n \notin Range(s)
    BY <1>1 DEF Range
  <2>. QED
    BY <2>1
<1>. HIDE DEF next
<1>7. q1 \in Queue /\ q1.head = q.head /\ q1.tails = q.tails /\ q1.next = next
  BY <1>1, <1>5 DEF Queue
<1>. HIDE DEF q1
<1>8. HoldsQueue(q1, index, base)
  BY <1>6, <1>7, QueueFrame
<1>. DEFINE u == Reverse(s)
            l == Last(s)
<1>9. IsList(next, l, u) /\ Range(u) = Range(s)
  BY <1>4, ListIsReversed
<1>10. l \in Reference
  <2>1. Len(s) \in 1..Len(s)
    BY <1>1
  <2>. QED
    BY <1>1, <2>1 DEF Last, Reference
<1>. HIDE DEF u, l
<1>11. r = enqueueContentsOf(q1, index, l)
  BY <1>3 DEF l
<1>12. IsList(q1.next, l, u) /\ Range(u) \cap Range(base) = {}
  BY <1>7, <1>9
<1>13. HoldsBoth(r, index, base, u)
  BY <1>8, <1>10, <1>11, <1>12, EnqueueContentsHolds
<1>. QED
  BY <1>9, <1>13 DEF u

-----------------------------------------------------------------------------
(* The invariant *)

\* The two lists, p sorted and s as pushed, hold the actor's jobs, each once.
Holds(p, s) ==
  /\ HoldsQueue(queue, index, p)
  /\ IsList(queue.next, firstJob, s)
  /\ Range(s) \cap Range(p) = {}
  /\ Range(s) \cup Range(p) = queued

IInv == TypeOK /\ Holds(Prioritized, Incoming)

\* Every priority has a bucket.
LEMMA BucketIsIndex ==
  ASSUME NEW p
  PROVE  getPriorityBucketIndex(p) \in Index
<1>. DEFINE K == {UserInitiated, Default, Utility, Background}
            S == {q \in K : p <= q}
<1>1. IsFiniteSet(K) /\ Cardinality(K) <= 4
  <2>1. IsFiniteSet({}) /\ Cardinality({}) = 0
    BY FS_EmptySet
  <2>2. /\ IsFiniteSet({UserInitiated}) /\ Cardinality({UserInitiated}) = 1
    BY FS_Singleton
  <2>3. IsFiniteSet({UserInitiated, Default}) /\ Cardinality({UserInitiated, Default}) = 2
    <3>1. {UserInitiated, Default} = {UserInitiated} \cup {Default}
      OBVIOUS
    <3>2. Default \notin {UserInitiated}
      BY DEF UserInitiated, Default
    <3>. QED
      BY <2>2, <3>1, <3>2, FS_AddElement
  <2>4. /\ IsFiniteSet({UserInitiated, Default, Utility})
        /\ Cardinality({UserInitiated, Default, Utility}) = 3
    <3>1. {UserInitiated, Default, Utility} = {UserInitiated, Default} \cup {Utility}
      OBVIOUS
    <3>2. Utility \notin {UserInitiated, Default}
      BY DEF UserInitiated, Default, Utility
    <3>. QED
      BY <2>3, <3>1, <3>2, FS_AddElement
  <2>5. K = {UserInitiated, Default, Utility} \cup {Background}
    OBVIOUS
  <2>6. Background \notin {UserInitiated, Default, Utility}
    BY DEF UserInitiated, Default, Utility, Background
  <2>. QED
    BY <2>4, <2>5, <2>6, FS_AddElement
<1>2. S \subseteq K
  OBVIOUS
<1>. HIDE DEF K, S
<1>3. Cardinality(S) \in Nat /\ Cardinality(K) \in Nat /\ Cardinality(S) <= Cardinality(K)
  BY <1>1, <1>2, FS_Subset, FS_CardinalityType
<1>4. getPriorityBucketIndex(p) = Cardinality(S)
  BY DEF getPriorityBucketIndex, S, K
<1>. QED
  BY <1>1, <1>3, <1>4 DEF Index, PrioritiesCount

\* The lists that the state holds are its chains.
LEMMA ListsAreChains ==
  ASSUME TypeOK, NEW p, NEW s, Holds(p, s)
  PROVE  Prioritized = p /\ Incoming = s
<1>1. queue.next \in [Node -> Reference] /\ queue.head \in Reference /\ firstJob \in Reference
  BY DEF TypeOK, Queue
<1>2. IsList(queue.next, queue.head, p) /\ IsList(queue.next, firstJob, s)
  BY DEF Holds, HoldsQueue
<1>. QED
  BY <1>1, <1>2, ChainOfList DEF Prioritized, Incoming

\* Any two lists that hold the jobs show the invariant.
LEMMA IInvFromLists ==
  ASSUME TypeOK, NEW p, NEW s, Holds(p, s)
  PROVE  IInv
BY ListsAreChains DEF IInv

\* At first there are no jobs, and the empty lists hold them.
LEMMA InitHolds ==
  ASSUME Init
  PROVE  TypeOK /\ Holds(<<>>, <<>>)
<1>. DEFINE next == [n \in Node |-> Null]
<1>1. queue = [head |-> Null, tails |-> [i \in Index |-> Null], next |-> next]
  BY DEF Init, EmptyQueue
<1>2. next \in [Node -> Reference] /\ [i \in Index |-> Null] \in [Index -> Reference]
      /\ Null \in Reference
  BY DEF Reference
<1>. HIDE DEF next
<1>3. queue \in Queue
  BY <1>1, <1>2 DEF Queue
<1>4. TypeOK
  <2>1. 0 \in Index
    BY DEF Index, PrioritiesCount
  <2>. QED
    BY <1>3, <1>2, <2>1 DEF TypeOK, Init
<1>5. \A n : IsList(n, Null, <<>>)
  BY DEF IsList, Follower
<1>6. \A i \in Index : LastOf(<<>>, index, i, queue.tails[i])
  BY <1>1 DEF LastOf
<1>7. HoldsQueue(queue, index, <<>>)
  <2>1. IsList(queue.next, queue.head, <<>>)
    BY <1>1, <1>5
  <2>. QED
    BY <1>3, <2>1, <1>6 DEF HoldsQueue
<1>8. Range(<<>>) = {}
  BY DEF Range
<1>. QED
  BY <1>4, <1>5, <1>7, <1>8 DEF Holds, Init

\* A job in front of a list makes a list.
LEMMA ListPushed ==
  ASSUME NEW next, NEW h, NEW s, IsList(next, h, s), NEW n \in Node, n \notin Range(s),
         next[n] = h
  PROVE  IsList(next, n, <<n>> \o s) /\ Range(<<n>> \o s) = {n} \cup Range(s)
<1>. DEFINE L == Len(s)
            u == <<n>> \o s
<1>1. /\ s \in Seq(Node) /\ L \in Nat /\ DOMAIN s = 1..L
      /\ \A a, b \in 1..L : s[a] = s[b] => a = b
      /\ \A k \in 1..L : next[s[k]] = IF k = L THEN Null ELSE s[k + 1]
      /\ h = IF L = 0 THEN Null ELSE s[1]
  BY DEF IsList, Follower
<1>2. \A k \in 1..L : s[k] # n
  BY <1>1 DEF Range
<1>3. /\ u \in Seq(Node) /\ Len(u) = L + 1 /\ DOMAIN u = 1..(L + 1)
      /\ u[1] = n /\ \A k \in 2..(L + 1) : u[k] = s[k - 1] /\ k - 1 \in 1..L
  <2>. DEFINE v == <<n>>
  <2>1. v \in Seq(Node) /\ Len(v) = 1 /\ v[1] = n
    OBVIOUS
  <2>2. u = v \o s
    OBVIOUS
  <2>. HIDE DEF u, v, L
  <2>0. s \in Seq(Node) /\ Len(s) = L
    BY <1>1 DEF L
  <2>3. /\ u \in Seq(Node) /\ Len(u) = Len(v) + L
        /\ \A k \in 1..(Len(v) + L) : u[k] = IF k <= Len(v) THEN v[k] ELSE s[k - Len(v)]
    BY <2>0, <2>1, <2>2, ConcatProperties
  <2>4. L \in Nat
    BY <1>1
  <2>5. DOMAIN u = 1..(L + 1) /\ Len(u) = L + 1 /\ u \in Seq(Node)
    BY <2>1, <2>3, <2>4
  <2>6. u[1] = n
    BY <2>1, <2>3, <2>4
  <2>7. \A k \in 2..(L + 1) : u[k] = s[k - 1] /\ k - 1 \in 1..L
    BY <2>1, <2>3, <2>4
  <2>. QED
    BY <2>5, <2>6, <2>7
<1>. HIDE DEF u, L
<1>4. ASSUME NEW a \in 1..(L + 1), NEW b \in 1..(L + 1), u[a] = u[b]
      PROVE  a = b
  <2>1. a # 1 => a \in 2..(L + 1)
    BY <1>1
  <2>2. b # 1 => b \in 2..(L + 1)
    BY <1>1
  <2>3. CASE a = 1 \/ b = 1
    BY <1>2, <1>3, <1>4, <2>1, <2>2, <2>3
  <2>4. CASE a # 1 /\ b # 1
    <3>1. s[a - 1] = s[b - 1] /\ a - 1 \in 1..L /\ b - 1 \in 1..L
      BY <1>3, <1>4, <2>1, <2>2, <2>4
    <3>2. a - 1 = b - 1
      BY <1>1, <3>1
    <3>. QED
      BY <1>1, <3>2
  <2>. QED
    BY <2>3, <2>4
<1>5. ASSUME NEW k \in 1..(L + 1)
      PROVE  next[u[k]] = IF k = L + 1 THEN Null ELSE u[k + 1]
  <2>1. CASE k = 1
    <3>1. L # 0 => 2 \in 2..(L + 1)
      BY <1>1
    <3>2. L # 0 => u[2] = s[1]
      BY <1>3, <3>1
    <3>. QED
      BY <1>1, <1>3, <2>1, <3>2
  <2>2. CASE k # 1
    <3>1. k \in 2..(L + 1) /\ k - 1 \in 1..L
      BY <1>1, <2>2
    <3>2. next[u[k]] = IF k - 1 = L THEN Null ELSE s[(k - 1) + 1]
      BY <1>1, <1>3, <3>1
    <3>3. k # L + 1 => k + 1 \in 2..(L + 1) /\ (k + 1) - 1 = (k - 1) + 1
      BY <1>1, <3>1
    <3>4. k # L + 1 => u[k + 1] = s[(k - 1) + 1]
      BY <1>3, <3>3
    <3>. QED
      BY <1>1, <3>1, <3>2, <3>4
  <2>. QED
    BY <2>1, <2>2
<1>6. n = Follower(u, 0)
  BY <1>1, <1>3 DEF Follower
<1>7. IsList(next, n, u)
  BY <1>3, <1>4, <1>5, <1>6 DEF IsList, Follower
<1>8. Range(u) = {n} \cup Range(s)
  <2>1. Range(u) \subseteq {n} \cup Range(s)
    <3>. SUFFICES ASSUME NEW k \in 1..(L + 1)
                  PROVE  u[k] \in {n} \cup Range(s)
      BY <1>3 DEF Range
    <3>1. k # 1 => k \in 2..(L + 1)
      BY <1>1
    <3>. QED
      BY <1>1, <1>3, <3>1 DEF Range
  <2>2. n \in Range(u)
    <3>1. 1 \in 1..(L + 1)
      BY <1>1
    <3>. QED
      BY <1>3, <3>1 DEF Range
  <2>3. ASSUME NEW k \in 1..L
        PROVE  s[k] \in Range(u)
    <3>1. k + 1 \in 2..(L + 1) /\ (k + 1) - 1 = k /\ k + 1 \in 1..(L + 1)
      BY <1>1
    <3>2. u[k + 1] = s[k]
      BY <1>3, <3>1
    <3>. QED
      BY <1>3, <3>1, <3>2 DEF Range
  <2>4. Range(s) \subseteq Range(u)
    BY <1>1, <2>3 DEF Range
  <2>. QED
    BY <2>1, <2>2, <2>4
<1>. QED
  BY <1>7, <1>8 DEF u

\* Enqueue puts its job in front of the incoming list.
LEMMA EnqueueLists ==
  ASSUME TypeOK, NEW p, NEW s, Holds(p, s), NEW n \in Node, NEW jp \in JobPriority,
         Enqueue(n, jp)
  PROVE  TypeOK' /\ Holds(p, <<n>> \o s)'
<1>1. /\ queue' = [queue EXCEPT !.next[n] = firstJob]
      /\ index' = [index EXCEPT ![n] = getPriorityBucketIndex(jp)]
      /\ firstJob' = n /\ drained' = drained
      /\ n \notin queued /\ queued' = queued \cup {n}
  BY DEF Enqueue
<1>2. /\ queue \in Queue /\ firstJob \in Reference /\ index \in [Node -> Index]
      /\ queue.next \in [Node -> Reference]
      /\ drained \in Reference /\ queued \subseteq Node
  BY DEF TypeOK, Queue
<1>3. /\ HoldsQueue(queue, index, p) /\ IsList(queue.next, firstJob, s)
      /\ Range(s) \cap Range(p) = {} /\ Range(s) \cup Range(p) = queued
  BY DEF Holds
<1>4. /\ queue' \in Queue /\ queue'.head = queue.head /\ queue'.tails = queue.tails
      /\ queue'.next = [queue.next EXCEPT ![n] = firstJob]
  BY <1>1, <1>2 DEF Queue
<1>5. index' \in [Node -> Index]
  BY <1>1, <1>2, BucketIsIndex
<1>6. n \notin Range(s) /\ n \notin Range(p)
  BY <1>1, <1>3
<1>7. TypeOK'
  BY <1>1, <1>2, <1>4, <1>5 DEF TypeOK, Reference
<1>8. /\ \A m \in Range(p) : queue'.next[m] = queue.next[m]
      /\ \A m \in Range(p) : index'[m] = index[m]
  <2>1. Range(p) \subseteq Node
    BY <1>2, <1>3
  <2>. QED
    BY <1>1, <1>2, <1>4, <1>6, <2>1
<1>9. HoldsQueue(queue', index', p)
  BY <1>3, <1>4, <1>8, QueueFrame
<1>10. \A m \in Range(s) : queue'.next[m] = queue.next[m]
  <2>1. Range(s) \subseteq Node
    BY <1>2, <1>3
  <2>. QED
    BY <1>2, <1>4, <1>6, <2>1
<1>11. IsList(queue'.next, firstJob, s)
  BY <1>3, <1>10, ListFrame
<1>12. queue'.next[n] = firstJob
  BY <1>2, <1>4
<1>13. IsList(queue'.next, n, <<n>> \o s) /\ Range(<<n>> \o s) = {n} \cup Range(s)
  BY <1>6, <1>11, <1>12, ListPushed
<1>14. /\ Range(<<n>> \o s) \cap Range(p) = {}
       /\ Range(<<n>> \o s) \cup Range(p) = queued'
  BY <1>1, <1>3, <1>6, <1>13
<1>. QED
  BY <1>1, <1>7, <1>9, <1>13, <1>14 DEF Holds

\* ProcessIncomingQueue moves the incoming jobs behind those of their priority.
LEMMA ProcessLists ==
  ASSUME TypeOK, NEW p, NEW s, Holds(p, s), ProcessIncomingQueue
  PROVE  /\ TypeOK'
         /\ \E t : /\ Holds(t, <<>>)'
                   /\ \A i \in Index : OfPriority(t, index, i) =
                        OfPriority(p, index, i) \o OfPriority(Reverse(s), index, i)
<1>1. /\ queue' = handleUnprioritizedJobs(queue, firstJob)
      /\ firstJob # Null /\ firstJob' = Null /\ drained' = drained
      /\ index' = index /\ queued' = queued
  BY DEF ProcessIncomingQueue
<1>2. /\ firstJob \in Reference /\ index \in [Node -> Index]
      /\ drained \in Reference /\ queued \subseteq Node /\ Null \in Reference
  BY DEF TypeOK, Reference
<1>3. /\ HoldsQueue(queue, index, p) /\ IsList(queue.next, firstJob, s)
      /\ Range(s) \cap Range(p) = {} /\ Range(s) \cup Range(p) = queued
  BY DEF Holds
<1>4. s # <<>>
  BY <1>1, <1>3 DEF IsList, Follower
<1>5. HoldsBoth(queue', index, p, Reverse(s)) /\ Range(Reverse(s)) = Range(s)
  BY <1>1, <1>2, <1>3, <1>4, ClaimHolds
<1>6. PICK t : /\ HoldsQueue(queue', index, t)
               /\ Range(t) = Range(p) \cup Range(s)
               /\ \A i \in Index : OfPriority(t, index, i) =
                    OfPriority(p, index, i) \o OfPriority(Reverse(s), index, i)
  BY <1>5 DEF HoldsBoth
<1>7. queue' \in Queue
  BY <1>6 DEF HoldsQueue
<1>8. TypeOK'
  BY <1>1, <1>2, <1>7 DEF TypeOK
<1>9. IsList(queue'.next, Null, <<>>) /\ Range(<<>>) = {}
  BY DEF IsList, Follower, Range
<1>10. Holds(t, <<>>)'
  BY <1>1, <1>3, <1>6, <1>9 DEF Holds
<1>. QED
  BY <1>6, <1>8, <1>10

\* DrainOne takes the first job off the sorted list, if there is one.
LEMMA DrainLists ==
  ASSUME TypeOK, NEW p, NEW s, Holds(p, s), DrainOne
  PROVE  /\ TypeOK'
         /\ p = <<>> => drained' = Null /\ Holds(p, s)'
         /\ p # <<>> => drained' = p[1] /\ Holds(Tail(p), s)'
<1>1. /\ queue' = dequeue(queue, index) /\ drained' = queue.head
      /\ queued' = queued \ {queue.head} /\ firstJob' = firstJob /\ index' = index
  BY DEF DrainOne
<1>2. /\ queue \in Queue /\ queue.head \in Reference /\ firstJob \in Reference
      /\ index \in [Node -> Index] /\ queued \subseteq Node
  BY DEF TypeOK, Queue
<1>3. /\ HoldsQueue(queue, index, p) /\ IsList(queue.next, firstJob, s)
      /\ Range(s) \cap Range(p) = {} /\ Range(s) \cup Range(p) = queued
  BY DEF Holds
<1>4. CASE p = <<>>
  <2>1. queue.head = Null /\ queue' = queue
    BY <1>1, <1>3, <1>4, NoneIsDequeued
  <2>2. queued' = queued
    BY <1>1, <1>2, <2>1, QueueAssumption
  <2>3. TypeOK'
    BY <1>1, <1>2, <2>1, <2>2 DEF TypeOK
  <2>4. Holds(p, s)'
    BY <1>1, <1>3, <2>1, <2>2 DEF Holds
  <2>. QED
    BY <1>1, <1>4, <2>1, <2>3, <2>4
<1>5. CASE p # <<>>
  <2>1. /\ queue.head = p[1] /\ queue'.next = queue.next
        /\ HoldsQueue(queue', index, Tail(p))
    BY <1>1, <1>2, <1>3, <1>5, FirstIsDequeued
  <2>2. Range(Tail(p)) = Range(p) \ {p[1]} /\ p[1] \in Range(p)
    <3>. DEFINE t == Tail(p)
                L == Len(p)
    <3>1. /\ p \in Seq(Node) /\ L \in Nat /\ L > 0 /\ DOMAIN p = 1..L
          /\ \A a, b \in 1..L : p[a] = p[b] => a = b
      BY <1>3, <1>5 DEF HoldsQueue, IsList
    <3>2. /\ t \in Seq(Node) /\ DOMAIN t = 1..(L - 1)
          /\ \A k \in 1..(L - 1) : t[k] = p[k + 1] /\ k + 1 \in 1..L
      BY <1>5, <3>1, HeadTailProperties
    <3>. HIDE DEF t, L
    <3>3. 1 \in 1..L /\ \A k \in 1..L : k # 1 => k - 1 \in 1..(L - 1) /\ (k - 1) + 1 = k
      BY <3>1
    <3>4. \A k \in 1..(L - 1) : t[k] \in Range(p) \ {p[1]}
      <4>. SUFFICES ASSUME NEW k \in 1..(L - 1)
                    PROVE  t[k] \in Range(p) /\ t[k] # p[1]
        OBVIOUS
      <4>1. t[k] = p[k + 1] /\ k + 1 \in 1..L /\ k + 1 # 1
        BY <3>1, <3>2
      <4>. QED
        BY <3>1, <3>3, <4>1 DEF Range
    <3>5. \A k \in 1..L : k # 1 => p[k] \in Range(t)
      <4>. SUFFICES ASSUME NEW k \in 1..L, k # 1
                    PROVE  p[k] \in Range(t)
        OBVIOUS
      <4>1. k - 1 \in 1..(L - 1) /\ t[k - 1] = p[k]
        BY <3>2, <3>3
      <4>. QED
        BY <3>2, <4>1 DEF Range
    <3>6. Range(t) \subseteq Range(p) \ {p[1]}
      BY <3>2, <3>4 DEF Range
    <3>7. Range(p) \ {p[1]} \subseteq Range(t)
      BY <3>1, <3>5 DEF Range
    <3>8. p[1] \in Range(p)
      BY <3>1, <3>3 DEF Range
    <3>. QED
      BY <3>6, <3>7, <3>8 DEF t
  <2>3. queue' \in Queue
    BY <2>1 DEF HoldsQueue
  <2>4. TypeOK'
    BY <1>1, <1>2, <2>3 DEF TypeOK
  <2>5. /\ Range(s) \cap Range(Tail(p)) = {}
        /\ Range(s) \cup Range(Tail(p)) = queued'
    BY <1>1, <1>3, <2>1, <2>2
  <2>6. Holds(Tail(p), s)'
    BY <1>1, <1>3, <2>1, <2>5 DEF Holds
  <2>. QED
    BY <1>1, <1>5, <2>1, <2>4, <2>6
<1>. QED
  BY <1>4, <1>5

\* Whatever lists the next state has, they are its chains.
LEMMA IInvFromListsNext ==
  ASSUME TypeOK', NEW p, NEW s, Holds(p, s)'
  PROVE  IInv' /\ Prioritized' = p /\ Incoming' = s
<1>1. /\ queue'.next \in [Node -> Reference] /\ queue'.head \in Reference
      /\ firstJob' \in Reference
  BY DEF TypeOK, Queue
<1>2. IsList(queue'.next, queue'.head, p) /\ IsList(queue'.next, firstJob', s)
  BY DEF Holds, HoldsQueue
<1>3. Prioritized' = p /\ Incoming' = s
  BY <1>1, <1>2, ChainOfList DEF Prioritized, Incoming
<1>4. Holds(Prioritized, Incoming)' <=> Holds(p, s)'
  BY <1>3 DEF Holds
<1>. QED
  BY <1>3, <1>4 DEF IInv

\* What IInv says, with names for the two lists
LEMMA ListsOfState ==
  ASSUME IInv
  PROVE  \E p, s : p = Prioritized /\ s = Incoming /\ Holds(p, s)
BY DEF IInv

\* Every step preserves the invariant.
LEMMA NextHolds ==
  ASSUME IInv, [Next]_vars
  PROVE  IInv'
<1>1. TypeOK
  BY DEF IInv
<1>2. PICK p, s : Holds(p, s)
  BY ListsOfState
<1>3. ASSUME NEW n \in Node, NEW jp \in JobPriority, Enqueue(n, jp)
      PROVE  IInv'
  <2>1. TypeOK' /\ Holds(p, <<n>> \o s)'
    BY <1>1, <1>2, <1>3, EnqueueLists
  <2>. QED
    BY <2>1, IInvFromListsNext
<1>4. ASSUME ProcessIncomingQueue
      PROVE  IInv'
  <2>1. TypeOK' /\ \E t : Holds(t, <<>>)'
    BY <1>1, <1>2, <1>4, ProcessLists
  <2>. QED
    BY <2>1, IInvFromListsNext
<1>5. ASSUME DrainOne
      PROVE  IInv'
  <2>1. TypeOK' /\ (Holds(p, s)' \/ Holds(Tail(p), s)')
    BY <1>1, <1>2, <1>5, DrainLists
  <2>. QED
    BY <2>1, IInvFromListsNext
<1>6. ASSUME UNCHANGED vars
      PROVE  IInv'
  BY <1>6 DEF IInv, vars, TypeOK, Holds, Prioritized, Incoming
<1>. QED
  BY <1>3, <1>4, <1>5, <1>6 DEF Next

\* The invariant holds in every reachable state.
THEOREM Invariance == Spec => []IInv
<1>1. Init => IInv
  BY InitHolds, IInvFromLists
<1>2. IInv /\ [Next]_vars => IInv'
  BY NextHolds
<1>. QED
  BY <1>1, <1>2, PTL DEF Spec

-----------------------------------------------------------------------------
(* The properties *)

\* Heads, tails, next references and priority indices keep their types.
THEOREM TypeCorrect == Spec => []TypeOK
BY Invariance, PTL DEF IInv

\* The invariant says that the lists are well formed.
LEMMA ListsHold ==
  ASSUME IInv
  PROVE  ListsAreWellFormed
<1>1. PICK p, s : p = Prioritized /\ s = Incoming /\ Holds(p, s)
  BY ListsOfState
<1>2. /\ HoldsQueue(queue, index, p) /\ IsList(queue.next, firstJob, s)
      /\ Range(s) \cap Range(p) = {} /\ Range(s) \cup Range(p) = queued
  BY <1>1 DEF Holds
<1>3. ListsPartitionJobs
  <2>1. /\ s \in Seq(Node) /\ \A a, b \in 1..Len(s) : s[a] = s[b] => a = b
        /\ p \in Seq(Node) /\ \A a, b \in 1..Len(p) : p[a] = p[b] => a = b
    BY <1>2 DEF HoldsQueue, IsList
  <2>2. Len(s) + Len(p) = Cardinality(Range(s) \cup Range(p))
    BY <1>2, <2>1, PartitionCardinality
  <2>. QED
    BY <1>1, <1>2, <2>2 DEF ListsPartitionJobs
<1>4. ASSUME NEW i \in Index
      PROVE  queue.tails[i] = IF Bucket(i) = <<>> THEN Null ELSE Last(Bucket(i))
  <2>1. LastOf(p, index, i, queue.tails[i]) /\ p \in Seq(Node)
    BY <1>2 DEF HoldsQueue, IsList
  <2>2. queue.tails[i] = IF OfPriority(p, index, i) = <<>> THEN Null
                         ELSE Last(OfPriority(p, index, i))
    BY <2>1, LastOfPriority
  <2>. QED
    BY <1>1, <2>2 DEF Bucket
<1>. QED
  BY <1>3, <1>4 DEF ListsAreWellFormed, TailsAreLast, IInv

\* The lists partition the actor's jobs, and every tail is the last node of its priority
\* and null if the priority is empty, after any enqueues, claims and dequeues.
THEOREM WellFormed == Spec => []ListsAreWellFormed
<1>1. IInv => ListsAreWellFormed
  BY ListsHold
<1>. QED
  BY <1>1, Invariance, PTL

-----------------------------------------------------------------------------
(* Refinement *)

\* The first node of a sorted list is the first of its priority, and no higher one has jobs.
LEMMA FirstOfPriority ==
  ASSUME NEW priority \in [Node -> Index], NEW q, NEW p, HoldsQueue(q, priority, p), p # <<>>,
         NEW i, i = priority[p[1]]
  PROVE  /\ i \in Index
         /\ OfPriority(p, priority, i) # <<>>
         /\ Head(OfPriority(p, priority, i)) = p[1]
         /\ Tail(OfPriority(p, priority, i)) = OfPriority(Tail(p), priority, i)
         /\ \A j : j # i => OfPriority(p, priority, j) = OfPriority(Tail(p), priority, j)
         /\ \A k \in 0..(i - 1) : OfPriority(p, priority, k) = <<>>
<1>. DEFINE v == <<p[1]>>
            t == Tail(p)
            O(s, j) == OfPriority(s, priority, j)
<1>1. /\ p \in Seq(Node) /\ Len(p) \in Nat /\ Len(p) > 0
      /\ \A k \in 1..Len(p) : priority[p[k]] \in Index
      /\ \A a, b \in 1..Len(p) : a <= b => priority[p[a]] <= priority[p[b]]
  BY DEF HoldsQueue, IsList
<1>2. p[1] \in Node /\ 1 \in 1..Len(p) /\ i \in Index
  BY <1>1
<1>3. p \in Seq(Node)
  BY <1>1
<1>4. v \in Seq(Node) /\ t \in Seq(Node) /\ Len(v) = 1 /\ v[1] = p[1]
  BY <1>2, <1>3, HeadTailProperties
<1>5. p = v \o t
  BY <1>3, <1>4
<1>. HIDE DEF v, t, O
<1>6. \A j : O(p, j) = O(v, j) \o O(t, j)
  BY <1>4, <1>5, OfPriorityConcat DEF O
<1>7. O(v, i) = v
  <2>1. \A k \in 1..Len(v) : priority[v[k]] = i
    BY <1>4
  <2>. QED
    BY <1>4, <2>1, OfPriorityUniform DEF O
<1>8. ASSUME NEW j, j # i
      PROVE  O(p, j) = O(t, j)
  <2>1. \A k \in 1..Len(v) : priority[v[k]] # j
    BY <1>4, <1>8
  <2>2. O(v, j) = <<>>
    BY <1>4, <2>1, OfPriorityUniform DEF O
  <2>3. O(t, j) \in Seq(Node)
    BY <1>4, OfPriorityRange DEF O
  <2>4. O(p, j) = <<>> \o O(t, j)
    BY <1>6, <2>2
  <2>. QED
    BY <2>3, <2>4, ConcatEmptySeq
<1>9. O(p, i) # <<>> /\ Head(O(p, i)) = p[1] /\ Tail(O(p, i)) = O(t, i)
  <2>1. O(t, i) \in Seq(Node)
    BY <1>4, OfPriorityRange DEF O
  <2>2. O(p, i) = <<p[1]>> \o O(t, i)
    BY <1>6, <1>7 DEF v
  <2>. DEFINE u == O(t, i)
              x == p[1]
  <2>. HIDE DEF u, x
  <2>3. u \in Seq(Node) /\ x \in Node
    BY <1>2, <2>1 DEF u, x
  <2>4. <<x>> \o u # <<>> /\ Head(<<x>> \o u) = x /\ Tail(<<x>> \o u) = u
    BY <2>3
  <2>. QED
    BY <2>2, <2>4 DEF u, x
<1>10. ASSUME NEW k \in 0..(i - 1)
       PROVE  O(p, k) = <<>>
  <2>1. \A m \in 1..Len(p) : priority[p[m]] # k
    <3>. SUFFICES ASSUME NEW m \in 1..Len(p)
                  PROVE  priority[p[m]] # k
      OBVIOUS
    <3>1. i <= priority[p[m]] /\ priority[p[m]] \in Index
      BY <1>1, <1>2
    <3>. QED
      BY <1>2, <3>1 DEF Index, PrioritiesCount
  <2>. QED
    BY <1>3, <2>1, OfPriorityUniform DEF O
<1>. QED
  BY <1>2, <1>8, <1>9, <1>10 DEF O, t

\* The operators the abstract queue takes from the libraries are those of the lists.
LEMMA SameOperators ==
  /\ \A s : Abstract!Range(s) = Range(s)
  /\ \A s : Abstract!Reverse(s) = Reverse(s)
  /\ \A s, priority, i : Abstract!OfPriority(s, priority, i) = OfPriority(s, priority, i)
<1>1. \A s : Abstract!Range(s) = Range(s)
  BY DEF Abstract!Range, Range
<1>2. \A s : Abstract!Reverse(s) = Reverse(s)
  BY DEF Abstract!Reverse, Reverse
<1>3. \A s, priority, i : Abstract!Kept(s, priority, i) = Kept(s, priority, i)
  BY Zenon DEF Abstract!Kept, Kept
<1>4. \A s, priority, i : Abstract!OfPriority(s, priority, i) = OfPriority(s, priority, i)
  BY <1>3 DEF Abstract!OfPriority, OfPriority
<1>. QED
  BY <1>1, <1>2, <1>4

\* The initial lists are empty.
LEMMA InitRefines ==
  ASSUME Init
  PROVE  Abstract!Init
<1>1. Prioritized = <<>> /\ Incoming = <<>>
  BY InitHolds, ListsAreChains
<1>2. \A i \in Index : Bucket(i) = <<>>
  BY <1>1, OfPriorityEmpty DEF Bucket
<1>3. index \in [Node -> Index] /\ drained = Null
  <2>1. TypeOK
    BY InitHolds
  <2>. QED
    BY <2>1 DEF TypeOK, Init
<1>. QED
  BY <1>1, <1>2, <1>3 DEF Abstract!Init, Abstract!Index, Index

\* enqueue() pushes a job.
LEMMA EnqueueRefines ==
  ASSUME IInv, NEW n \in Node, NEW jp \in JobPriority, Enqueue(n, jp)
  PROVE  Abstract!Next
<1>. DEFINE i == getPriorityBucketIndex(jp)
<1>1. PICK p, s : p = Prioritized /\ s = Incoming /\ Holds(p, s)
  BY ListsOfState
<1>2. Prioritized' = p /\ Incoming' = <<n>> \o s
  <2>1. TypeOK' /\ Holds(p, <<n>> \o s)'
    BY <1>1, EnqueueLists DEF IInv
  <2>. QED
    BY <2>1, IInvFromListsNext
<1>3. /\ n \notin queued /\ drained' = drained /\ index' = [index EXCEPT ![n] = i]
      /\ index \in [Node -> Index]
  BY DEF Enqueue, IInv, TypeOK
<1>4. /\ p \in Seq(Node) /\ p \in Seq(Range(p)) /\ n \notin Range(s) /\ n \notin Range(p)
  <2>1. p \in Seq(Node)
    BY <1>1 DEF Holds, HoldsQueue, IsList
  <2>2. DOMAIN p = 1..Len(p) /\ \A k \in 1..Len(p) : p[k] \in Range(p)
    BY <2>1 DEF Range
  <2>3. p \in Seq(Range(p))
    BY <2>1, <2>2, IsASeq
  <2>4. n \notin Range(s) /\ n \notin Range(p)
    BY <1>1, <1>3 DEF Holds
  <2>. QED
    BY <2>1, <2>3, <2>4
<1>5. i \in Index
  BY BucketIsIndex
<1>. HIDE DEF i
<1>6. \A k : Bucket(k)' = Bucket(k)
  <2>1. \A m \in Range(p) : index'[m] = index[m]
    BY <1>3, <1>4
  <2>2. \A k : OfPriority(p, index', k) = OfPriority(p, index, k)
    BY <1>4, <2>1, OfPrioritySame
  <2>. QED
    BY <1>1, <1>2, <2>2 DEF Bucket
<1>7. ~Abstract!Waits(n)
  <2>1. \A k : n \notin Range(OfPriority(p, index, k))
    BY <1>4, OfPriorityRange
  <2>2. ASSUME NEW k \in Index
        PROVE  n \notin Range(Bucket(k))
    BY <1>1, <2>1 DEF Bucket
  <2>3. \A k \in Index : n \notin Range([j \in Index |-> Bucket(j)][k])
    BY <2>2
  <2>4. n \notin Range(Incoming)
    BY <1>1, <1>4
  <2>. QED
    BY <2>3, <2>4, SameOperators DEF Abstract!Waits, Abstract!Index, Index
<1>8. Abstract!Push(n, i)
  BY <1>1, <1>2, <1>3, <1>6, <1>7 DEF Abstract!Push
<1>. QED
  BY <1>5, <1>8 DEF Abstract!Next, Abstract!Index, Index

\* processIncomingQueue() claims what has come in.
LEMMA ProcessRefines ==
  ASSUME IInv, ProcessIncomingQueue
  PROVE  Abstract!Next
<1>1. PICK p, s : p = Prioritized /\ s = Incoming /\ Holds(p, s)
  BY ListsOfState
<1>2. /\ TypeOK'
      /\ \E t : /\ Holds(t, <<>>)'
                /\ \A i \in Index : OfPriority(t, index, i) =
                     OfPriority(p, index, i) \o OfPriority(Reverse(s), index, i)
  BY <1>1, ProcessLists DEF IInv
<1>3. PICK t : /\ Holds(t, <<>>)'
               /\ \A i \in Index : OfPriority(t, index, i) =
                    OfPriority(p, index, i) \o OfPriority(Reverse(s), index, i)
  BY <1>2
<1>4. Prioritized' = t /\ Incoming' = <<>>
  BY <1>2, <1>3, IInvFromListsNext
<1>5. drained' = drained /\ index' = index
  BY DEF ProcessIncomingQueue
<1>6. \A i \in Index : Bucket(i)' = Bucket(i) \o OfPriority(Reverse(Incoming), index, i)
  BY <1>1, <1>3, <1>4, <1>5 DEF Bucket
<1>7. [i \in Index |-> Bucket(i)'] =
        [i \in Index |-> [j \in Index |-> Bucket(j)][i]
                           \o OfPriority(Reverse(Incoming), index, i)]
  BY <1>6
<1>8. Abstract!Claim
  <2>1. [i \in Index |-> Bucket(i)]' =
          [i \in Index |-> [j \in Index |-> Bucket(j)][i]
                             \o Abstract!OfPriority(Abstract!Reverse(Incoming), index, i)]
    BY <1>7, SameOperators
  <2>. QED
    BY <1>4, <1>5, <2>1 DEF Abstract!Claim, Abstract!Index, Index
<1>. QED
  BY <1>8 DEF Abstract!Next

\* drainOne() hands out the first job of the highest priority that has one.
LEMMA DrainRefines ==
  ASSUME IInv, DrainOne
  PROVE  Abstract!Next
<1>1. PICK p, s : p = Prioritized /\ s = Incoming /\ Holds(p, s)
  BY ListsOfState
<1>2. /\ TypeOK'
      /\ p = <<>> => drained' = Null /\ Holds(p, s)'
      /\ p # <<>> => drained' = p[1] /\ Holds(Tail(p), s)'
  BY <1>1, DrainLists DEF IInv
<1>3. index' = index /\ index \in [Node -> Index]
  BY DEF DrainOne, IInv, TypeOK
<1>4. CASE p = <<>>
  <2>1. Prioritized' = p /\ Incoming' = s /\ drained' = Null
    BY <1>2, <1>4, IInvFromListsNext
  <2>2. \A i : Bucket(i) = <<>> /\ Bucket(i)' = Bucket(i)
    BY <1>1, <1>3, <1>4, <2>1, OfPriorityEmpty DEF Bucket
  <2>3. Abstract!Drain
    BY <1>1, <1>3, <2>1, <2>2 DEF Abstract!Drain, Abstract!Index, Index
  <2>. QED
    BY <2>3 DEF Abstract!Next
<1>5. CASE p # <<>>
  <2>. DEFINE i == index[p[1]]
  <2>1. Prioritized' = Tail(p) /\ Incoming' = s /\ drained' = p[1]
    BY <1>2, <1>5, IInvFromListsNext
  <2>2. HoldsQueue(queue, index, p)
    BY <1>1 DEF Holds
  <2>3. /\ i \in Index
        /\ OfPriority(p, index, i) # <<>>
        /\ Head(OfPriority(p, index, i)) = p[1]
        /\ Tail(OfPriority(p, index, i)) = OfPriority(Tail(p), index, i)
        /\ \A j : j # i => OfPriority(p, index, j) = OfPriority(Tail(p), index, j)
        /\ \A k \in 0..(i - 1) : OfPriority(p, index, k) = <<>>
    BY <1>3, <1>5, <2>2, FirstOfPriority
  <2>. HIDE DEF i
  <2>4. /\ \A j : Bucket(j) = OfPriority(p, index, j)
        /\ \A j : Bucket(j)' = OfPriority(Tail(p), index, j)
    BY <1>1, <1>3, <2>1 DEF Bucket
  <2>5. \A k \in 0..(i - 1) : k \in Index
    BY <2>3 DEF Index, PrioritiesCount
  <2>6. [j \in Index |-> Bucket(j)'] = [[j \in Index |-> Bucket(j)] EXCEPT ![i] = Tail(@)]
    BY <2>3, <2>4
  <2>7. Abstract!Drain
    <3>1. /\ i \in Index /\ Bucket(i) # <<>> /\ drained' = Head(Bucket(i))
          /\ \A k \in 0..(i - 1) : [j \in Index |-> Bucket(j)][k] = <<>>
      BY <2>1, <2>3, <2>4, <2>5
    <3>. QED
      BY <1>1, <1>3, <2>1, <2>6, <3>1 DEF Abstract!Drain, Abstract!Index, Index
  <2>. QED
    BY <2>7 DEF Abstract!Next
<1>. QED
  BY <1>4, <1>5

\* The pointer structure implements the abstract queue: jobs are claimed all at once and
\* handed out highest priority first, in arrival order within a priority, each once.
THEOREM Refinement == Spec => ImplementsJobQueue
<1>1. Init => Abstract!Init
  BY InitRefines
<1>2. IInv /\ [Next]_vars => [Abstract!Next]_(Abstract!vars)
  <2>. SUFFICES ASSUME IInv, [Next]_vars
                PROVE  [Abstract!Next]_(Abstract!vars)
    OBVIOUS
  <2>1. ASSUME NEW n \in Node, NEW jp \in JobPriority, Enqueue(n, jp)
        PROVE  Abstract!Next
    BY <2>1, EnqueueRefines
  <2>2. ASSUME ProcessIncomingQueue
        PROVE  Abstract!Next
    BY <2>2, ProcessRefines
  <2>3. ASSUME DrainOne
        PROVE  Abstract!Next
    BY <2>3, DrainRefines
  <2>4. ASSUME UNCHANGED vars
        PROVE  UNCHANGED Abstract!vars
    BY <2>4 DEF vars, Abstract!vars, Bucket, Prioritized, Incoming
  <2>. QED
    BY <2>1, <2>2, <2>3, <2>4 DEF Next
<1>. QED
  BY <1>1, <1>2, Invariance, PTL DEF Spec, ImplementsJobQueue, Abstract!Spec
=============================================================================
