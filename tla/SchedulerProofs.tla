-------------------------- MODULE SchedulerProofs --------------------------
(* Proofs about Scheduler, for any generators, workers and capacity of the   *)
(* queues, and any number of runs, errors and submissions.                   *)
EXTENDS Scheduler, FiniteSetTheorems, SequenceTheorems, TLAPS

-----------------------------------------------------------------------------
(* The smallest and the largest of a set of positions.                       *)

LEMMA MinOfNat ==
    ASSUME NEW S \in SUBSET Nat, S # {}
    PROVE  Min(S) \in S /\ \A y \in S : Min(S) <= y
<1> DEFINE R == {ss \in Nat \X Nat : ss[1] < ss[2]}
<1>1. OpToRel(<, Nat) = R
    BY DEF OpToRel
<1>2. IsWellFoundedOn(R, Nat)
    BY <1>1, NatLessThanWellFounded
<1> HIDE DEF R
<1>3. PICK m \in S : \A y \in S : ~(<<y, m>> \in R)
    BY <1>2, WFMin
<1>4. \A y \in S : m <= y
    <2> TAKE y \in S
    <2>1. y \in Nat /\ m \in Nat
        OBVIOUS
    <2>2. y < m => <<y, m>> \in R
        BY <2>1 DEF R
    <2> QED BY <1>3, <2>1, <2>2
<1> QED BY <1>4 DEF Min

\* A set of positions that is not empty has a largest.
LEMMA MaxOfPositions ==
    ASSUME NEW n \in Nat, NEW S \in SUBSET (1..n), S # {}
    PROVE  Max(S) \in S /\ \A y \in S : y <= Max(S)
<1> DEFINE T == {n - x : x \in S}
<1>1. T \in SUBSET Nat
    OBVIOUS
<1>a. T # {}
    OBVIOUS
<1>2. PICK m \in T : \A y \in T : m <= y
    BY <1>1, <1>a, MinOfNat
<1>3. PICK x \in S : m = n - x
    OBVIOUS
<1>4. \A y \in S : y <= x
    <2> TAKE y \in S
    <2>1. n - y \in T
        OBVIOUS
    <2> QED BY <1>2, <1>3, <2>1
<1> QED BY <1>4 DEF Max

\* Positions are natural numbers.
LEMMA PositionsAreNat ==
    ASSUME NEW n, NEW S \in SUBSET (1..n), NEW T \in SUBSET S
    PROVE  T \in SUBSET Nat
OBVIOUS

-----------------------------------------------------------------------------
(* The array of the priority queue keeps its generators.                     *)

\* What sifting may do to the array: the length stays and no element is lost.
Permuted(s, r) ==
    /\ r \in Seq(Gens) /\ Len(r) = Len(s)
    /\ \A x : Contains(s, x) => Contains(r, x)

\* The path of container/heap's up: from j to the root, by halves.
LEMMA PathUpFacts ==
    ASSUME NEW j \in Nat \ {0}
    PROVE  /\ PathUp(j) \subseteq 1..j /\ j \in PathUp(j)
           /\ \A i \in PathUp(j) : i > 1 => i \div 2 \in PathUp(j)
           /\ \A i \in PathUp(j) : i < j => \E c \in PathUp(j) : c > 1 /\ c \div 2 = i
<1>1. PathUp(j) \subseteq 1..j /\ j \in PathUp(j)
    BY DEF PathUp, ClosedUp
<1>2. ASSUME NEW i \in PathUp(j), i > 1
      PROVE  i \div 2 \in PathUp(j)
    <2>1. i \in 1..j /\ i \div 2 \in 1..j
        BY <1>1, <1>2
    <2> QED BY <1>2, <2>1 DEF PathUp, ClosedUp
<1>3. ASSUME NEW i \in PathUp(j), i < j,
             \A c \in PathUp(j) : ~(c > 1 /\ c \div 2 = i)
      PROVE  FALSE
    <2> DEFINE S == PathUp(j) \ {i}
    <2>1. S \in SUBSET (1..j) /\ j \in S
        BY <1>1, <1>3
    <2>2. \A h \in S \ {1} : h \div 2 \in S
        BY <1>1, <1>2, <1>3
    <2> HIDE DEF S
    <2>3. i \in S
        BY <1>3, <2>1, <2>2 DEF PathUp, ClosedUp
    <2> QED BY <2>3 DEF S
<1> QED BY <1>1, <1>2, <1>3

\* Sifting up permutes the heap.
LEMMA UpKeeps ==
    ASSUME NEW s \in Seq(Gens), s # <<>>, NEW count
    PROVE  Permuted(s, Up(s, Len(s), count))
<1> DEFINE j == Len(s)
           P == PathUp(j)
           K == {i \in P : \A h \in P : i <= h /\ h < j => Less(s[j], s[h], count)}
           k == Min(K)
           r == [i \in DOMAIN s |-> IF i = k THEN s[j]
                                    ELSE IF i \in P /\ i > k THEN s[i \div 2] ELSE s[i]]
<1>0. j \in Nat \ {0} /\ DOMAIN s = 1..j
    OBVIOUS
<1>1. /\ P \subseteq 1..j /\ j \in P
      /\ \A i \in P : i > 1 => i \div 2 \in P
      /\ \A i \in P : i < j => \E c \in P : c > 1 /\ c \div 2 = i
    BY <1>0, PathUpFacts
<1>2. Up(s, Len(s), count) = r
    BY DEF Up
<1> HIDE DEF P
<1>a. K \in SUBSET Nat
    <2>1. K \in SUBSET P
        BY Zenon
    <2> HIDE DEF K
    <2> QED BY <1>1, <2>1, PositionsAreNat
<1>b. \A h \in P : ~(j <= h /\ h < j)
    BY <1>0, <1>1
<1>3. j \in K
    BY <1>1, <1>b
<1>4. k \in K
    BY <1>a, <1>3, MinOfNat
<1> HIDE DEF K
<1>5. k \in P /\ k \in 1..j
    BY <1>1, <1>4 DEF K
<1> HIDE DEF k
<1>6. \A i \in 1..j : r[i] \in Gens
    BY <1>0, <1>1, <1>5
<1>7. r \in Seq(Gens) /\ Len(r) = j
    BY <1>0, <1>6
<1>8. ASSUME NEW n \in 1..j
      PROVE  \E m \in 1..j : r[m] = s[n]
    <2>1. CASE n \notin P \/ n < k
        BY <1>0, <1>5, <2>1
    <2>2. CASE n = j
        BY <1>0, <1>5, <2>2
    <2>3. CASE n \in P /\ ~(n < k) /\ n < j
        <3>1. PICK c \in P : c > 1 /\ c \div 2 = n
            BY <1>1, <2>3
        <3>a. c \in 1..j
            BY <1>1
        <3>2. c > n
            BY <1>0, <3>a, <3>1
        <3>3. c > k
            BY <1>0, <1>5, <2>3, <3>a, <3>2
        <3> QED BY <1>0, <1>5, <3>1, <3>a, <3>3
    <2> HIDE DEF r, j
    <2>4. n \in Nat /\ (n = j \/ n < j)
        BY <1>0
    <2> QED BY <2>1, <2>2, <2>3, <2>4
<1> HIDE DEF r
<1> QED BY <1>0, <1>2, <1>7, <1>8 DEF Permuted, Contains

\* Sifting down permutes the heap.
LEMMA DownKeeps ==
    ASSUME NEW s \in Seq(Gens), NEW count
    PROVE  Permuted(s, Down(s, count))
<1> DEFINE n == Len(s)
           P == PathDown(s, count)
           After(i) == {j \in P : j > i}
           r == [i \in DOMAIN s |-> IF i \notin P THEN s[i]
                                    ELSE IF i = Max(P) THEN s[1] ELSE s[Min(After(i))]]
<1>0. n \in Nat /\ DOMAIN s = 1..n
    OBVIOUS
<1>1. Down(s, count) = r
    BY DEF Down
<1>2. P \subseteq 1..n
    BY <1>0 DEF PathDown
<1>3. ASSUME n > 0 PROVE 1 \in P
    <2>1. PathUp(1) \ {1} = {}
        BY DEF PathUp
    <2> QED BY <1>0, <1>3, <2>1 DEF PathDown
<1> HIDE DEF P
<1>4. CASE n = 0
    <2>1. r \in Seq(Gens) /\ Len(r) = 0
        BY <1>0, <1>4
    <2>2. \A x : ~Contains(s, x)
        BY <1>4 DEF Contains
    <2> HIDE DEF r
    <2> QED BY <1>1, <1>4, <2>1, <2>2 DEF Permuted
<1>5. CASE n > 0
    <2>1. Max(P) \in P /\ \A y \in P : y <= Max(P)
        BY <1>0, <1>2, <1>3, <1>5, MaxOfPositions
    <2>2. ASSUME NEW i \in P, i # Max(P)
          PROVE  Min(After(i)) \in P /\ Min(After(i)) > i /\ \A y \in P : y > i => Min(After(i)) <= y
        <3>1. After(i) \in SUBSET P
            BY Zenon
        <3>a. After(i) \in SUBSET Nat
            BY <1>2, <3>1, PositionsAreNat
        <3>b. Max(P) \in 1..n /\ i \in 1..n /\ i <= Max(P)
            BY <1>2, <2>1
        <3>c. Max(P) \in After(i)
            BY <2>1, <2>2, <3>b
        <3>2. Min(After(i)) \in After(i) /\ \A y \in After(i) : Min(After(i)) <= y
            BY <3>a, <3>c, MinOfNat
        <3> QED BY <3>2
    <2> HIDE DEF After
    <2>a. \A i \in 1..n : s[i] \in Gens
        BY <1>0
    <2>3. ASSUME NEW i \in 1..n PROVE r[i] \in Gens
        <3>1. CASE i \notin P
            BY <1>0, <2>a, <3>1
        <3>2. CASE i = Max(P)
            BY <1>0, <1>5, <2>a, <2>1, <3>2
        <3>3. CASE i \in P /\ i # Max(P)
            <4>1. Min(After(i)) \in 1..n
                BY <1>2, <2>2, <3>3
            <4>2. r[i] = s[Min(After(i))]
                BY <1>0, <3>3
            <4> QED BY <2>a, <4>1, <4>2
        <3> QED BY <3>1, <3>2, <3>3
    <2>4. r \in Seq(Gens) /\ Len(r) = n
        BY <1>0, <2>3
    <2>5. ASSUME NEW m \in 1..n
          PROVE  \E i \in 1..n : r[i] = s[m]
        <3>1. CASE m \notin P
            BY <1>0, <3>1
        <3>2. CASE m = 1
            <4>1. Max(P) \in 1..n
                BY <1>2, <2>1
            <4>2. r[Max(P)] = s[1]
                BY <1>0, <2>1, <4>1
            <4> QED BY <3>2, <4>1, <4>2
        <3>3. CASE m \in P /\ m # 1
            <4> DEFINE B == {i \in P : i < m}
            <4>a. B \in SUBSET (1..n)
                BY <1>2
            <4>b. 1 \in B
                BY <1>0, <1>3, <1>5, <3>3
            <4>2. Max(B) \in B /\ \A y \in B : y <= Max(B)
                BY <1>0, <4>a, <4>b, MaxOfPositions
            <4>3. PICK p \in P : p < m /\ \A y \in P : y < m => y <= p
                BY <4>2
            <4>4. p # Max(P)
                BY <1>2, <2>1, <3>3, <4>3
            <4>5. /\ Min(After(p)) \in P /\ Min(After(p)) > p
                  /\ \A y \in P : y > p => Min(After(p)) <= y
                BY <2>2, <4>4
            <4>c. m > p /\ m \in P /\ p \in 1..n /\ Min(After(p)) \in 1..n
                BY <1>2, <3>3, <4>3, <4>5
            <4>d. Min(After(p)) <= m
                BY <4>5, <4>c
            <4>e. ~(Min(After(p)) < m)
                <5>1. Min(After(p)) < m => Min(After(p)) <= p
                    BY <4>3, <4>5
                <5> QED BY <4>5, <4>c, <5>1
            <4>6. Min(After(p)) = m
                BY <4>c, <4>d, <4>e
            <4>7. p \in 1..n /\ r[p] = s[m]
                BY <1>0, <1>2, <4>3, <4>4, <4>6
            <4> QED BY <4>7
        <3> QED BY <3>1, <3>2, <3>3
    <2> HIDE DEF r
    <2> QED BY <1>0, <1>1, <2>4, <2>5 DEF Permuted, Contains
<1> QED BY <1>0, <1>4, <1>5

\* heap.Push adds the generator, and keeps the others.
LEMMA PushKeeps ==
    ASSUME NEW s \in Seq(Gens), NEW g \in Gens, NEW count
    PROVE  /\ HeapPush(s, g, count) \in Seq(Gens)
           /\ \A x : Contains(s, x) \/ x = g => Contains(HeapPush(s, g, count), x)
<1> DEFINE a == Append(s, g)
<1>1. a \in Seq(Gens) /\ Len(a) = Len(s) + 1
    OBVIOUS
<1>a. a # <<>>
    <2>1. Len(<<>>) = 0 /\ Len(s) \in Nat
        OBVIOUS
    <2> HIDE DEF a
    <2> QED BY <1>1, <2>1
<1>2. \A x : Contains(s, x) \/ x = g => Contains(a, x)
    BY DEF Contains
<1> HIDE DEF a
<1>3. Permuted(a, Up(a, Len(a), count))
    BY <1>1, <1>a, UpKeeps
<1>4. HeapPush(s, g, count) = Up(a, Len(a), count)
    BY <1>1 DEF HeapPush, a
<1> QED BY <1>2, <1>3, <1>4 DEF Permuted

\* heap.Pop takes the root and keeps the others.
LEMMA PopKeeps ==
    ASSUME NEW s \in Seq(Gens), s # <<>>, NEW count
    PROVE  /\ HeapPop(s, count) \in Seq(Gens)
           /\ \A x : Contains(s, x) /\ x # s[1] => Contains(HeapPop(s, count), x)
<1> DEFINE w == SwapAt(s, 1, Len(s))
           f == Front(w)
<1>1. w \in Seq(Gens) /\ Len(w) = Len(s) /\ w[Len(s)] = s[1]
    BY DEF SwapAt
<1>2. \A x : Contains(s, x) => Contains(w, x)
    <2> SUFFICES ASSUME NEW i \in 1..Len(s)
                 PROVE  \E k \in 1..Len(s) : w[k] = s[i]
        BY <1>1 DEF Contains
    <2>1. CASE i = 1
        BY <1>1, <2>1
    <2>2. CASE i = Len(s)
        BY <2>2 DEF SwapAt
    <2>3. CASE i # 1 /\ i # Len(s)
        BY <2>3 DEF SwapAt
    <2> QED BY <2>1, <2>2, <2>3
<1> HIDE DEF w
<1>3. f \in Seq(Gens) /\ Len(f) = Len(s) - 1 /\ \A i \in 1..(Len(s) - 1) : f[i] = w[i]
    BY <1>1 DEF Front
<1> HIDE DEF f
<1>4. \A x : Contains(w, x) /\ x # s[1] => Contains(f, x)
    BY <1>1, <1>3 DEF Contains
<1>5. Permuted(f, Down(f, count))
    BY <1>3, DownKeeps
<1>6. HeapPop(s, count) = Down(f, count)
    BY DEF HeapPop, f, w
<1> QED BY <1>2, <1>4, <1>5, <1>6 DEF Permuted

\* heap.Fix loses no generator.
LEMMA FixKeeps ==
    ASSUME NEW s \in Seq(Gens), NEW count
    PROVE  /\ HeapFix(s, count) \in Seq(Gens)
           /\ \A x : Contains(s, x) => Contains(HeapFix(s, count), x)
BY DownKeeps DEF HeapFix, Permuted

\* Taking one entry out of a list keeps the others.
LEMMA RemoveKeeps ==
    ASSUME NEW s \in Seq(Gens), NEW i \in DOMAIN s
    PROVE  /\ RemoveAt(s, i) \in Seq(Gens)
           /\ \A x : Contains(s, x) /\ x # s[i] => Contains(RemoveAt(s, i), x)
<1> DEFINE a == SubSeq(s, 1, i - 1)
           b == SubSeq(s, i + 1, Len(s))
           r == RemoveAt(s, i)
<1>0. i \in 1..Len(s) /\ Len(s) \in Nat
    OBVIOUS
<1>1. a \in Seq(Gens) /\ Len(a) = i - 1 /\ \A k \in 1..(i - 1) : a[k] = s[k]
    BY <1>0
<1>2. b \in Seq(Gens) /\ Len(b) = Len(s) - i /\ \A k \in 1..(Len(s) - i) : b[k] = s[k + i]
    BY <1>0
<1>3. r = a \o b
    BY DEF RemoveAt
<1> HIDE DEF a, b, r
<1>4. r \in Seq(Gens) /\ Len(r) = Len(s) - 1
    BY <1>0, <1>1, <1>2, <1>3
<1>6. \A k \in 1..(i - 1) : r[k] = s[k]
    BY <1>0, <1>1, <1>2, <1>3
<1>7. ASSUME NEW k \in (i + 1)..Len(s)
      PROVE  r[k - 1] = s[k]
    <2>0. Len(a) = i - 1 /\ Len(b) = Len(s) - i /\ i \in Nat /\ k \in Nat /\ Len(s) \in Nat
        BY <1>0, <1>1, <1>2
    <2>b. i + 1 <= k /\ k <= Len(s) /\ 1 <= i
        BY <1>0, <2>0
    <2>1. k - i \in 1..(Len(s) - i) /\ k - 1 \in 1..Len(a) + Len(b) /\ ~(k - 1 <= Len(a))
        <3>1. k - i \in 1..(Len(s) - i)
            BY <2>0, <2>b
        <3>2. Len(a) + Len(b) = Len(s) - 1
            BY <2>0
        <3>3. k - 1 \in 1..(Len(s) - 1)
            BY <2>0, <2>b
        <3>4. ~(k - 1 <= i - 1)
            BY <2>0, <2>b
        <3> QED BY <2>0, <3>1, <3>2, <3>3, <3>4
    <2>a. \A m \in 1..Len(a) + Len(b) : (a \o b)[m] = IF m <= Len(a) THEN a[m] ELSE b[m - Len(a)]
        BY <1>1, <1>2, ConcatProperties
    <2>2. r[k - 1] = b[k - 1 - Len(a)]
        BY <1>3, <2>1, <2>a
    <2>3. k - 1 - Len(a) = k - i /\ (k - i) + i = k
        BY <1>0, <1>1
    <2>4. b[k - i] = s[(k - i) + i]
        BY <1>2, <2>1
    <2> QED BY <2>2, <2>3, <2>4
<1>5. ASSUME NEW k \in 1..Len(s), k # i
      PROVE  \E m \in 1..(Len(s) - 1) : r[m] = s[k]
    <2>1. CASE k < i
        <3>1. k \in 1..(i - 1) /\ k \in 1..(Len(s) - 1)
            BY <1>0, <2>1
        <3> QED BY <1>6, <3>1
    <2>2. CASE k > i
        <3>1. k \in (i + 1)..Len(s) /\ k - 1 \in 1..(Len(s) - 1)
            BY <1>0, <2>2
        <3> QED BY <1>7, <3>1
    <2> QED BY <1>0, <1>5, <2>1, <2>2
<1> QED BY <1>0, <1>4, <1>5 DEF Contains, r

-----------------------------------------------------------------------------
(* Type correctness.                                                         *)

LEMMA TypeInit == Init => TypeOK
<1> SUFFICES ASSUME Init PROVE TypeOK
    OBVIOUS
<1>1. /\ queue \in [Levels -> Seq(Task)] /\ workerChan \in Seq(Task)
      /\ heap \in Seq(Gens) /\ waiting \in Seq(Gens)
    BY DEF Init
<1>2. worker \in [Workers -> Task \cup {None, "exited"}]
    BY DEF Init
<1>3. /\ done \in [Gens -> BOOLEAN] /\ remaining \in [Gens -> BOOLEAN]
      /\ ready \in [Gens -> BOOLEAN] /\ elapsed \in [Gens -> BOOLEAN]
    BY DEF Init
<1>4. /\ taskCount \in [Gens -> Nat] /\ todo \in [Gens -> Nat]
      /\ produced \in [Gens -> Nat] /\ executed \in [Gens -> Nat]
    BY ConstantsAssumption DEF Init
<1>5. disp \in DispStates
    BY DEF Init, DispStates
<1> QED BY <1>1, <1>2, <1>3, <1>4, <1>5 DEF Init, TypeOK

\* One call of generate keeps the types.
LEMMA GenerateTypes ==
    ASSUME TypeOK, NEW g \in Gens, NextFails(g) \/ GenerateDone(g) \/ GenerateTask(g)
    PROVE  /\ done' \in [Gens -> BOOLEAN] /\ remaining' \in [Gens -> BOOLEAN]
           /\ ready' \in [Gens -> BOOLEAN] /\ elapsed' \in [Gens -> BOOLEAN]
           /\ taskCount' \in [Gens -> Nat] /\ todo' \in [Gens -> Nat]
           /\ produced' \in [Gens -> Nat] /\ errors' \in Nat
           /\ queue' \in [Levels -> Seq(Task)]
<1>0. Level[g] \in Levels /\ g \in Task /\ Tasks \in [Gens -> Nat]
    BY ConstantsAssumption DEF Task
<1>1. CASE NextFails(g)
    BY <1>1 DEF TypeOK, NextFails, genState
<1>2. CASE GenerateDone(g)
    BY <1>0, <1>2 DEF TypeOK, GenerateDone
<1>3. CASE GenerateTask(g)
    <2>1. queue' \in [Levels -> Seq(Task)]
        BY <1>0, <1>3 DEF TypeOK, GenerateTask
    <2>2. ready' \in [Gens -> BOOLEAN]
        BY <1>3 DEF TypeOK, GenerateTask
    <2>3. todo' \in [Gens -> Nat] /\ produced' \in [Gens -> Nat]
        <3>1. CASE remaining[g]
            BY <1>3, <3>1 DEF TypeOK, GenerateTask
        <3>2. CASE ~remaining[g]
            <4>1. todo[g] \in Nat /\ todo[g] > 0
                BY <1>3, <3>2 DEF TypeOK, GenerateTask
            <4>2. todo[g] - 1 \in Nat /\ produced[g] + 1 \in Nat
                BY <4>1 DEF TypeOK
            <4>3. /\ todo' = [todo EXCEPT ![g] = todo[g] - 1]
                  /\ produced' = [produced EXCEPT ![g] = produced[g] + 1]
                BY <1>3, <3>2 DEF GenerateTask
            <4> QED BY <4>2, <4>3 DEF TypeOK
        <3> QED BY <3>1, <3>2
    <2>6. taskCount' \in [Gens -> Nat]
        BY <1>3 DEF TypeOK, GenerateTask
    <2>4. /\ done' \in [Gens -> BOOLEAN] /\ remaining' \in [Gens -> BOOLEAN]
          /\ elapsed' \in [Gens -> BOOLEAN] /\ errors' \in Nat
        BY <1>3 DEF TypeOK, GenerateTask
    <2> QED BY <2>1, <2>2, <2>3, <2>4, <2>6
<1> QED BY <1>1, <1>2, <1>3

\* Every step keeps the types.
LEMMA TypeStep == TypeOK /\ [Next]_vars => TypeOK'
<1> SUFFICES ASSUME TypeOK, [Next]_vars PROVE TypeOK'
    OBVIOUS
<1> USE DEF genVars, genState, poolVars, stopVars, bounds
<1>1. ASSUME NEW g \in Gens, Elapse(g)
      PROVE  TypeOK'
    BY <1>1 DEF TypeOK, Elapse
<1>2. ASSUME NEW g \in Gens, BecomeReady(g)
      PROVE  TypeOK'
    BY <1>2 DEF TypeOK, BecomeReady
<1>3. ASSUME NEW g \in Gens, SubmitGenerator(g)
      PROVE  TypeOK'
    <2>1. heap' \in Seq(Gens)
        BY <1>3, PushKeeps DEF TypeOK, SubmitGenerator
    <2> QED BY <1>3, <2>1 DEF TypeOK, SubmitGenerator
<1>4. ASSUME NEW l \in Levels, SubmitTask(l)
      PROVE  TypeOK'
    <2>1. queue' \in [Levels -> Seq(Task)]
        <3>1. Append(queue[l], External) \in Seq(Task)
            BY DEF TypeOK, Task
        <3> QED BY <1>4, <3>1 DEF TypeOK, SubmitTask
    <2> QED BY <1>4, <2>1 DEF TypeOK, SubmitTask
<1>5. CASE Loop
    BY <1>5 DEF TypeOK, Loop, DispStates
<1>6. ASSUME NEW i \in DOMAIN waiting, PushReady(i)
      PROVE  TypeOK'
    <2>1. waiting[i] \in Gens
        BY DEF TypeOK
    <2>2. heap' \in Seq(Gens) /\ waiting' \in Seq(Gens)
        BY <1>6, <2>1, PushKeeps, RemoveKeeps DEF TypeOK, PushReady
    <2>3. done' \in [Gens -> BOOLEAN]
        BY <1>6, <2>1 DEF TypeOK, PushReady
    <2> QED BY <1>6, <2>2, <2>3 DEF TypeOK, PushReady
<1>7. CASE Generate
    <2>1. heap[1] \in Gens
        BY <1>7 DEF TypeOK, Generate
    <2>2. heap' \in Seq(Gens)
        BY <1>7, FixKeeps DEF TypeOK, Generate
    <2>3. NextFails(heap[1]) \/ GenerateDone(heap[1]) \/ GenerateTask(heap[1])
        BY <1>7 DEF Generate
    <2>4. disp' \in DispStates
        BY <1>7 DEF TypeOK, Generate, DispStates
    <2> QED BY <1>7, <2>1, <2>2, <2>3, <2>4, GenerateTypes DEF TypeOK, Generate
<1>8. CASE GenerateNothing
    BY <1>8 DEF TypeOK, GenerateNothing, DispStates
<1>9. CASE PopTop
    <2>1. heap[1] \in Gens /\ heap' \in Seq(Gens)
        BY <1>9, PopKeeps DEF TypeOK, PopTop
    <2> QED BY <1>9, <2>1 DEF TypeOK, PopTop, DispStates
<1>10. CASE File
    <2>2. disp.held \in Gens
        BY <1>10 DEF TypeOK, File, DispStates
    <2>3. disp' \in DispStates
        BY <1>10 DEF File, DispStates
    <2> QED BY <1>10, <2>2, <2>3 DEF TypeOK, File
<1>11. CASE Take
    <2>1. CASE disp' = [disp EXCEPT !.pc = "loop"] /\ UNCHANGED queue
        <3>1. disp' \in DispStates
            BY <1>11, <2>1 DEF TypeOK, Take, DispStates
        <3> QED BY <1>11, <2>1, <3>1 DEF TypeOK, Take
    <2>2. ASSUME NEW l \in Levels, HighestTask(l),
                 disp' = [pc |-> "send", held |-> Head(queue[l])],
                 queue' = [queue EXCEPT ![l] = Tail(@)]
          PROVE  TypeOK'
        <3>1. queue[l] \in Seq(Task) /\ queue[l] # <<>>
            BY <2>2 DEF TypeOK, HighestTask
        <3>2. Head(queue[l]) \in Task /\ Tail(queue[l]) \in Seq(Task)
            BY <3>1
        <3>3. queue' \in [Levels -> Seq(Task)]
            BY <2>2, <3>2 DEF TypeOK
        <3>4. disp' \in DispStates
            BY <2>2, <3>2 DEF DispStates
        <3> QED BY <1>11, <3>3, <3>4 DEF TypeOK, Take
    <2> QED BY <1>11, <2>1, <2>2 DEF Take
<1>12. CASE Send
    <2>1. disp.held \in Task
        BY <1>12 DEF TypeOK, Send, DispStates
    <2>2. workerChan' \in Seq(Task)
        BY <1>12, <2>1 DEF TypeOK, Send
    <2>3. disp' \in DispStates
        BY <1>12 DEF Send, DispStates
    <2> QED BY <1>12, <2>2, <2>3 DEF TypeOK, Send
<1>13. CASE Stop
    <2>1. disp' \in DispStates
        BY <1>13 DEF TypeOK, Stop, DispStates
    <2>2. metricsClosed' \in Nat
        BY <1>13 DEF TypeOK, Stop
    <2> QED BY <1>13, <2>1, <2>2 DEF TypeOK, Stop
<1>14. ASSUME NEW w \in Workers, WorkerTake(w)
      PROVE  TypeOK'
    <2>1. Head(workerChan) \in Task /\ Tail(workerChan) \in Seq(Task)
        BY <1>14 DEF TypeOK, WorkerTake
    <2> QED BY <1>14, <2>1 DEF TypeOK, WorkerTake
<1>15. ASSUME NEW w \in Workers, WorkerDone(w)
      PROVE  TypeOK'
    BY <1>15 DEF TypeOK, WorkerDone
<1>16. ASSUME NEW w \in Workers, WorkerExit(w)
      PROVE  TypeOK'
    BY <1>16 DEF TypeOK, WorkerExit
<1>17. CASE ShutdownCall
    BY <1>17 DEF TypeOK, ShutdownCall
<1>18. CASE ShutdownStore
    BY <1>18 DEF TypeOK, ShutdownStore
<1>19. CASE ShutdownCancel
    BY <1>19 DEF TypeOK, ShutdownCancel
<1>20. CASE ShutdownClose
    BY <1>20 DEF TypeOK, ShutdownClose
<1>21. CASE ShutdownReturn
    BY <1>21 DEF TypeOK, ShutdownReturn
<1>22. CASE UNCHANGED vars
    BY <1>22 DEF TypeOK, vars
<1> QED BY <1>1, <1>2, <1>3, <1>4, <1>5, <1>6, <1>7, <1>8, <1>9, <1>10, <1>11, <1>12, <1>13, <1>14, <1>15, <1>16, <1>17, <1>18, <1>19, <1>20, <1>21, <1>22
    DEF Next, Clock, Submit, Dispatcher, Work, Shutdown, Stopped

\* Every variable keeps its type: what the dispatcher, the workers and the callers of Submit
\* and Shutdown do to scheduler.go's queues, lists and flags.
THEOREM TypeCorrect == Spec => []TypeOK
<1>1. TypeOK /\ [Next]_vars => TypeOK'
    BY TypeStep
<1> QED BY TypeInit, <1>1, PTL DEF Spec

-----------------------------------------------------------------------------
(* The dispatcher never blocks.                                              *)

LEMMA NeverBlocksStep ==
    ASSUME TypeOK, NeverBlocks, [Next]_vars
    PROVE  NeverBlocks'
<1> USE DEF genVars, genState, poolVars, stopVars, bounds
<1>0. NumWorkers \in Nat
    BY ConstantsAssumption, FS_CardinalityType DEF NumWorkers
<1>1. CASE UNCHANGED <<disp, workerChan>>
    BY <1>1 DEF NeverBlocks
<1>2. CASE Loop
    BY <1>2 DEF NeverBlocks, Loop
<1>3. CASE disp.pc \in {"generate", "popped", "take"} /\ UNCHANGED workerChan
    BY <1>3 DEF NeverBlocks
<1>4. CASE Send
    BY <1>4 DEF NeverBlocks, Send
<1>5. CASE Stop
    BY <1>5 DEF NeverBlocks, Stop, TypeOK, DispStates
<1>6. ASSUME NEW w \in Workers, WorkerTake(w)
      PROVE  NeverBlocks'
    <2>1. Len(workerChan') <= Len(workerChan) /\ Len(workerChan') \in Nat /\ Len(workerChan) \in Nat
        BY <1>6 DEF TypeOK, WorkerTake
    <2> QED BY <1>0, <1>6, <2>1 DEF NeverBlocks, WorkerTake
<1>7. ASSUME NEW g \in Gens, Elapse(g) \/ BecomeReady(g) \/ SubmitGenerator(g)
      PROVE  NeverBlocks'
    BY <1>1, <1>7 DEF Elapse, BecomeReady, SubmitGenerator
<1>8. ASSUME NEW l \in Levels, SubmitTask(l)
      PROVE  NeverBlocks'
    BY <1>1, <1>8 DEF SubmitTask
<1>9. ASSUME NEW i \in DOMAIN waiting, PushReady(i)
      PROVE  NeverBlocks'
    BY <1>1, <1>9 DEF PushReady
<1>10. CASE Generate \/ GenerateNothing \/ PopTop \/ File \/ Take
    BY <1>3, <1>10 DEF Generate, GenerateNothing, PopTop, File, Take
<1>11. ASSUME NEW w \in Workers, WorkerDone(w) \/ WorkerExit(w)
       PROVE  NeverBlocks'
    BY <1>1, <1>11 DEF WorkerDone, WorkerExit
<1>12. CASE ShutdownCall \/ Shutdown
    BY <1>1, <1>12
       DEF ShutdownCall, Shutdown, ShutdownStore, ShutdownCancel, ShutdownClose, ShutdownReturn
<1>13. CASE UNCHANGED vars
    BY <1>1, <1>13 DEF vars
<1> QED BY <1>2, <1>4, <1>5, <1>6, <1>7, <1>8, <1>9, <1>10, <1>11, <1>12, <1>13
    DEF Next, Clock, Submit, Dispatcher, Work, Stopped

\* scheduler.go RunScheduler looks for room in the channel of the workers before it generates:
\* however tasks are taken and submitted meanwhile, there is room when it sends one.
THEOREM DispatcherNeverBlocks == Spec => []NeverBlocks
<1>1. Init => NeverBlocks
    BY DEF Init, NeverBlocks
<1>2. TypeOK /\ NeverBlocks /\ [Next]_vars => NeverBlocks'
    BY NeverBlocksStep
<1> QED BY <1>1, <1>2, TypeCorrect, PTL DEF Spec

-----------------------------------------------------------------------------
(* Shutdown.                                                                 *)

\* How far Shutdown, the dispatcher and the workers are, relative to each other.
StopInv ==
    /\ chanClosed <=> disp.pc = "exited"
    /\ disp.pc = "exited" => cancelled
    /\ cancelled => shuttingDown /\ stopper \in {"close", "wait", "returned"}
    /\ stopper \in {"none", "store"} => ~shuttingDown
    /\ stopper \in {"close", "wait", "returned"} => cancelled
    /\ metricsClosed = IF stopper \in {"wait", "returned"} THEN 1 ELSE 0
    /\ stopper \notin {"none", "store"} => shuttingDown
    /\ \A w \in Workers : worker[w] = "exited" => chanClosed /\ workerChan = <<>>
    /\ stopper = "returned" => \A w \in Workers : worker[w] = "exited"

\* Every step keeps the invariant of the shutdown.
LEMMA StopStep ==
    ASSUME TypeOK, StopInv, [Next]_vars
    PROVE  StopInv'
<1> USE DEF genVars, genState, poolVars, stopVars, bounds
<1>1. CASE UNCHANGED <<disp, workerChan, worker, chanClosed, stopVars>>
    BY <1>1 DEF StopInv
<1>2. CASE disp.pc # "exited" /\ disp'.pc # "exited"
           /\ UNCHANGED <<workerChan, worker, chanClosed, stopVars>>
    BY <1>2 DEF StopInv
<1>3. CASE Loop \/ Generate \/ GenerateNothing \/ PopTop \/ File \/ Take
    <2>1. disp.pc # "exited" /\ disp'.pc # "exited"
        BY <1>3 DEF TypeOK, DispStates, Loop, Generate, GenerateNothing, PopTop, File, Take
    <2> QED BY <1>2, <1>3, <2>1 DEF Loop, Generate, GenerateNothing, PopTop, File, Take
<1>4. CASE Send
    <2>1. ~chanClosed /\ disp'.pc # "exited"
        BY <1>4 DEF StopInv, Send
    <2> QED BY <1>4, <2>1 DEF StopInv, Send
<1>5. CASE Stop
    <2>1. disp'.pc = "exited"
        BY <1>5 DEF TypeOK, DispStates, Stop
    <2>2. shuttingDown
        BY <1>5 DEF StopInv, Stop
    <2> QED BY <1>5, <2>1, <2>2 DEF StopInv, Stop
<1>6. ASSUME NEW w \in Workers, WorkerTake(w)
      PROVE  StopInv'
    <2>1. Head(workerChan) \in Task
        BY <1>6 DEF TypeOK, WorkerTake
    <2>2. Head(workerChan) # "exited"
        BY <2>1, ConstantsAssumption
    <2>3. \A v \in Workers : worker[v] # "exited" /\ worker'[v] # "exited"
        BY <1>6, <2>2 DEF TypeOK, StopInv, WorkerTake
    <2>4. stopper # "returned"
        BY <2>3 DEF StopInv
    <2> QED BY <1>6, <2>3, <2>4 DEF StopInv, WorkerTake
<1>7. ASSUME NEW w \in Workers, WorkerDone(w)
      PROVE  StopInv'
    <2>1. worker[w] # "exited" /\ None # "exited"
        BY <1>7, ConstantsAssumption DEF WorkerDone
    <2>2. stopper # "returned"
        BY <2>1 DEF StopInv
    <2>3. \A v \in Workers : worker'[v] = "exited" => worker[v] = "exited"
        BY <1>7, <2>1 DEF TypeOK, WorkerDone
    <2> QED BY <1>7, <2>2, <2>3 DEF StopInv, WorkerDone
<1>8. ASSUME NEW w \in Workers, WorkerExit(w)
      PROVE  StopInv'
    BY <1>8 DEF TypeOK, StopInv, WorkerExit
<1>9. ASSUME NEW g \in Gens, Elapse(g) \/ BecomeReady(g) \/ SubmitGenerator(g)
      PROVE  StopInv'
    BY <1>1, <1>9 DEF Elapse, BecomeReady, SubmitGenerator
<1>10. ASSUME NEW l \in Levels, SubmitTask(l)
       PROVE  StopInv'
    BY <1>1, <1>10 DEF SubmitTask
<1>11. ASSUME NEW i \in DOMAIN waiting, PushReady(i)
       PROVE  StopInv'
    BY <1>1, <1>11 DEF PushReady
<1>12. CASE ShutdownCall
    BY <1>12 DEF StopInv, ShutdownCall
<1>13. CASE ShutdownStore
    BY <1>13 DEF StopInv, ShutdownStore
<1>14. CASE ShutdownCancel
    BY <1>14 DEF StopInv, ShutdownCancel
<1>15. CASE ShutdownClose
    BY <1>15 DEF StopInv, ShutdownClose
<1>16. CASE ShutdownReturn
    BY <1>16 DEF StopInv, ShutdownReturn
<1>17. CASE UNCHANGED vars
    BY <1>1, <1>17 DEF vars
<1> QED BY <1>3, <1>4, <1>5, <1>6, <1>7, <1>8, <1>9, <1>10, <1>11, <1>12, <1>13, <1>14,
           <1>15, <1>16, <1>17
    DEF Next, Clock, Submit, Dispatcher, Work, Shutdown, Stopped

\* scheduler.go Shutdown, for any number of workers: it returns only when no worker runs and
\* nothing that was handed out is left, and metricsChan is closed once, whoever sees the end first.
THEOREM ShutdownIsClean == Spec => []ShutdownClean
<1>1. Init => StopInv
    BY ConstantsAssumption DEF Init, StopInv
<1>2. TypeOK /\ StopInv /\ [Next]_vars => StopInv'
    BY StopStep
<1>3. TypeOK /\ StopInv => ShutdownClean
    <2> SUFFICES ASSUME TypeOK, StopInv PROVE ShutdownClean
        OBVIOUS
    <2>1. MetricsClosedOnce
        BY DEF StopInv, MetricsClosedOnce
    <2>2. ASSUME stopper = "returned"
          PROVE  workerChan = <<>> /\ disp.pc = "exited" /\ \A w \in Workers : worker[w] = "exited"
        BY <2>2, ConstantsAssumption DEF StopInv
    <2> QED BY <2>1, <2>2 DEF ShutdownClean, Drained
<1> QED BY <1>1, <1>2, <1>3, TypeCorrect, PTL DEF Spec

-----------------------------------------------------------------------------
(* Generators leave their places only in the race of two calls of getState.  *)

\* The state half of GeneratorsTraced, and why it stays: a generator without a delay is always
\* ready, so that one without an interval that was popped is done, and stays so.
TracedInv ==
    /\ finished \cap Periodic = {}
    /\ \A g \in submitted \ (Periodic \cup Delayed) : Placed(g)
    /\ \A g \in Gens \ Delayed : ready[g]
    /\ disp.pc = "popped" /\ disp.held \notin Periodic \cup Delayed => State(disp.held) = "done"

\* Appending keeps what was there, and adds one.
LEMMA AppendContains ==
    ASSUME NEW S, NEW s \in Seq(S), NEW y \in S
    PROVE  \A x : Contains(s, x) \/ x = y => Contains(Append(s, y), x)
<1> SUFFICES ASSUME NEW x, Contains(s, x) \/ x = y PROVE Contains(Append(s, y), x)
    OBVIOUS
<1>1. Len(Append(s, y)) = Len(s) + 1 /\ Len(s) \in Nat
    OBVIOUS
<1>2. CASE Contains(s, x)
    BY <1>1, <1>2 DEF Contains
<1>3. CASE x = y
    BY <1>1, <1>3 DEF Contains
<1> QED BY <1>2, <1>3

\* No step takes a generator out of its places but for one that ripened.
LEMMA PlacedStep ==
    ASSUME TypeOK, [Next]_vars, NEW g \in submitted, Placed(g), ~Ripened(g)
    PROVE  Placed(g)'
<1> USE DEF genVars, genState, poolVars, stopVars, bounds
<1>0. Contains(heap, g) \/ Contains(waiting, g) \/ g \in finished \/ (disp.pc = "popped" /\ disp.held = g)
    BY DEF Placed
<1>1. CASE UNCHANGED <<heap, waiting, finished, disp>>
    BY <1>1 DEF Placed
<1>2. CASE UNCHANGED <<heap, waiting, finished>> /\ disp.pc # "popped"
    BY <1>0, <1>2 DEF Placed
<1>3. ASSUME NEW h \in Gens, Elapse(h) \/ BecomeReady(h)
      PROVE  Placed(g)'
    BY <1>1, <1>3 DEF Elapse, BecomeReady
<1>4. ASSUME NEW h \in Gens, SubmitGenerator(h)
      PROVE  Placed(g)'
    <2>1. \A x : Contains(heap, x) \/ x = h => Contains(heap', x)
        BY <1>4, PushKeeps DEF TypeOK, SubmitGenerator
    <2> QED BY <1>0, <1>4, <2>1 DEF Placed, SubmitGenerator
<1>5. ASSUME NEW i \in DOMAIN waiting, PushReady(i)
      PROVE  Placed(g)'
    <2>1. waiting[i] \in Gens
        BY DEF TypeOK
    <2>2. \A x : Contains(heap, x) \/ x = waiting[i] => Contains(heap', x)
        BY <1>5, <2>1, PushKeeps DEF TypeOK, PushReady
    <2>3. \A x : Contains(waiting, x) /\ x # waiting[i] => Contains(waiting', x)
        BY <1>5, RemoveKeeps DEF TypeOK, PushReady
    <2> QED BY <1>0, <1>5, <2>2, <2>3 DEF Placed, PushReady
<1>6. CASE Generate
    <2>1. \A x : Contains(heap, x) => Contains(heap', x)
        BY <1>6, FixKeeps DEF TypeOK, Generate
    <2>2. disp.pc # "popped"
        BY <1>6 DEF Generate
    <2> QED BY <1>0, <1>6, <2>1, <2>2 DEF Placed, Generate
<1>7. CASE PopTop
    <2>1. \A x : Contains(heap, x) /\ x # heap[1] => Contains(heap', x)
        BY <1>7, PopKeeps DEF TypeOK, PopTop
    <2> QED BY <1>0, <1>7, <2>1 DEF Placed, PopTop
<1>8. CASE File
    <2> DEFINE h == disp.held
    <2>1. h \in Gens /\ disp.pc = "popped"
        BY <1>8 DEF TypeOK, DispStates, File
    <2>2. CASE State(h) = "waiting"
        <3>1. \A x : Contains(waiting, x) \/ x = h => Contains(waiting', x)
            BY <1>8, <2>1, <2>2, AppendContains DEF TypeOK, File
        <3> QED BY <1>0, <1>8, <2>2, <3>1 DEF Placed, File
    <2>3. CASE State(h) = "done"
        BY <1>0, <1>8, <2>3 DEF Placed, File
    <2>4. CASE State(h) = "ready"
        <3>1. g # h
            BY <2>1, <2>4 DEF Ripened
        <3> QED BY <1>0, <1>8, <2>4, <3>1 DEF Placed, File
    <2> QED BY <2>2, <2>3, <2>4 DEF State
<1>9. CASE Loop \/ GenerateNothing \/ Take \/ Send \/ Stop
    BY <1>2, <1>9 DEF Loop, GenerateNothing, Take, Send, Stop
<1>10. ASSUME NEW l \in Levels, SubmitTask(l)
       PROVE  Placed(g)'
    BY <1>1, <1>10 DEF SubmitTask
<1>11. ASSUME NEW w \in Workers, Work(w)
       PROVE  Placed(g)'
    BY <1>1, <1>11 DEF Work, WorkerTake, WorkerDone, WorkerExit
<1>12. CASE ShutdownCall \/ Shutdown
    BY <1>1, <1>12
       DEF ShutdownCall, Shutdown, ShutdownStore, ShutdownCancel, ShutdownClose, ShutdownReturn
<1>13. CASE UNCHANGED vars
    BY <1>1, <1>13 DEF vars
<1> QED BY <1>3, <1>4, <1>5, <1>6, <1>7, <1>8, <1>9, <1>10, <1>11, <1>12, <1>13
    DEF Next, Clock, Submit, Dispatcher, Stopped

\* A generator that is submitted in a step is in the heap after it.
LEMMA SubmittedPlaced ==
    ASSUME TypeOK, [Next]_vars, NEW g \in submitted', g \notin submitted
    PROVE  Placed(g)'
<1> USE DEF genVars, genState, poolVars, stopVars, bounds
<1>1. PICK h \in Gens : SubmitGenerator(h)
    BY DEF vars, Next, Clock, Elapse, BecomeReady, Submit, SubmitTask, Dispatcher, Loop, PushReady,
           Generate, GenerateNothing, PopTop, File, Take, Send, Stop, Work, WorkerTake, WorkerDone,
           WorkerExit, ShutdownCall, Shutdown, ShutdownStore, ShutdownCancel, ShutdownClose,
           ShutdownReturn, Stopped
<1>2. g = h
    BY <1>1 DEF SubmitGenerator
<1>3. \A x : Contains(heap, x) \/ x = h => Contains(heap', x)
    BY <1>1, PushKeeps DEF TypeOK, SubmitGenerator
<1> QED BY <1>2, <1>3 DEF Placed

LEMMA TracedStep ==
    ASSUME TypeOK, TypeOK', TracedInv, [Next]_vars
    PROVE  TracedInv'
<1> USE DEF genVars, genState, poolVars, stopVars, bounds
<1>1. \A g \in Gens \ Delayed : ready'[g]
    <2>1. CASE UNCHANGED ready
        BY <2>1 DEF TracedInv
    <2>2. ASSUME NEW h \in Gens, BecomeReady(h)
          PROVE  \A g \in Gens \ Delayed : ready'[g]
        BY <2>2 DEF TracedInv, TypeOK, BecomeReady
    <2>3. ASSUME Generate
          PROVE  \A g \in Gens \ Delayed : ready'[g]
        <3>1. heap[1] \in Gens
            BY <2>3 DEF TypeOK, Generate
        <3>2. CASE UNCHANGED ready
            BY <2>1, <3>2
        <3>3. CASE GenerateTask(heap[1]) /\ ~remaining[heap[1]]
            <4>1. PICK b \in (IF heap[1] \in Delayed THEN {TRUE, FALSE} ELSE {TRUE}) :
                     ready' = [ready EXCEPT ![heap[1]] = b]
                BY <3>3 DEF GenerateTask
            <4> QED BY <3>1, <4>1 DEF TracedInv, TypeOK
        <3> QED BY <2>3, <3>2, <3>3 DEF Generate, NextFails, GenerateDone, GenerateTask
    <2> QED BY <2>1, <2>2, <2>3
        DEF vars, Next, Clock, Elapse, Submit, SubmitGenerator, SubmitTask, Dispatcher, Loop, PushReady,
           GenerateNothing, PopTop, File, Take, Send, Stop, Work, WorkerTake, WorkerDone,
           WorkerExit, ShutdownCall, Shutdown, ShutdownStore, ShutdownCancel, ShutdownClose,
           ShutdownReturn, Stopped
<1>2. ASSUME disp'.pc = "popped", disp'.held \notin Periodic \cup Delayed
      PROVE  State(disp.held)' = "done"
    <2> DEFINE h == disp'.held
    <2>1. h \in Gens \ (Periodic \cup Delayed)
        BY <1>2 DEF TypeOK, DispStates
    <2>2. State(h) = "done" /\ done'[h] = done[h] /\ remaining'[h] = remaining[h]
        <3>1. CASE PopTop
            BY <2>1, <3>1 DEF PopTop, State, TracedInv
        <3>2. CASE disp' = disp /\ UNCHANGED <<done, remaining>>
            BY <1>2, <2>1, <3>2 DEF TracedInv
        <3>3. CASE Loop \/ Generate \/ GenerateNothing \/ File \/ Take \/ Send \/ Stop
            <4>1. disp'.pc # "popped"
                BY <3>3 DEF TypeOK, DispStates, Loop, Generate, GenerateNothing, File, Take, Send, Stop
            <4> QED BY <1>2, <4>1
        <3>4. ASSUME NEW i \in DOMAIN waiting, PushReady(i)
              PROVE  FALSE
            BY <1>2, <3>4 DEF PushReady
        <3> QED BY <3>1, <3>2, <3>3, <3>4
            DEF vars, Next, Clock, Elapse, BecomeReady, Submit, SubmitGenerator, SubmitTask, Dispatcher,
                Work, WorkerTake, WorkerDone, WorkerExit, ShutdownCall, Shutdown, ShutdownStore,
                ShutdownCancel, ShutdownClose, ShutdownReturn, Stopped
    <2> QED BY <2>1, <2>2 DEF State
<1>3. finished' \cap Periodic = {}
    <2>1. CASE UNCHANGED finished
        BY <2>1 DEF TracedInv
    <2>2. CASE File
        <3>1. finished' = finished \/ (State(disp.held) = "done" /\ finished' = finished \cup {disp.held})
            BY <2>2 DEF File
        <3>2. State(disp.held) = "done" => disp.held \notin Periodic
            BY DEF State
        <3> QED BY <3>1, <3>2 DEF TracedInv
    <2> QED BY <2>1, <2>2
        DEF vars, Next, Clock, Elapse, BecomeReady, Submit, SubmitGenerator, SubmitTask, Dispatcher,
            Loop, PushReady, Generate, GenerateNothing, PopTop, Take, Send, Stop, Work, WorkerTake,
            WorkerDone, WorkerExit, ShutdownCall, Shutdown, ShutdownStore, ShutdownCancel,
            ShutdownClose, ShutdownReturn, Stopped
<1>4. ASSUME NEW g \in submitted' \ (Periodic \cup Delayed)
      PROVE  Placed(g)'
    <2>1. CASE g \notin submitted
        BY <2>1, SubmittedPlaced
    <2>2. CASE g \in submitted
        <3>1. Placed(g) /\ ~Ripened(g)
            BY <2>2 DEF TracedInv, Ripened
        <3> QED BY <2>2, <3>1, PlacedStep
    <2> QED BY <2>1, <2>2
<1> QED BY <1>1, <1>2, <1>3, <1>4 DEF TracedInv

\* scheduler.go generateTasks, whatever the clock does: a generator without an interval or a delay
\* is never lost, a periodic one is never given up, and no step takes a generator out of its places
\* but for one that becomes ready between the two calls of getState (the run v_generator_lost
\* shows such a step).
THEOREM GeneratorsAreTraced == Spec => GeneratorsTraced
<1>1. Init => TracedInv
    BY DEF Init, TracedInv
<1>2. TypeOK /\ TypeOK' /\ TracedInv /\ [Next]_vars => TracedInv'
    BY TracedStep
<1>3. TracedInv => /\ finished \cap Periodic = {}
                   /\ \A g \in submitted \ (Periodic \cup Delayed) : Placed(g)
    BY DEF TracedInv
<1>4. TypeOK /\ [Next]_vars => [\A g \in submitted : Placed(g) /\ ~Ripened(g) => Placed(g)']_vars
    BY PlacedStep
<1> QED BY <1>1, <1>2, <1>3, <1>4, TypeCorrect, PTL DEF Spec, GeneratorsTraced

-----------------------------------------------------------------------------
(* Tasks are conserved.                                                      *)

\* The number of entries of a list that are t.
LEMMA CountType ==
    ASSUME NEW S, NEW s \in Seq(S), NEW t
    PROVE  IsFiniteSet({i \in DOMAIN s : s[i] = t}) /\ InSeq(s, t) \in Nat
<1>1. IsFiniteSet(DOMAIN s)
    BY FS_Interval
<1>2. IsFiniteSet({i \in DOMAIN s : s[i] = t})
    BY <1>1, FS_Subset
<1> QED BY <1>2, FS_CardinalityType DEF InSeq

\* Appending a task adds one occurrence of it.
LEMMA CountAppend ==
    ASSUME NEW S, NEW s \in Seq(S), NEW x \in S, NEW t
    PROVE  InSeq(Append(s, x), t) = InSeq(s, t) + (IF x = t THEN 1 ELSE 0)
<1> DEFINE a == Append(s, x)
           A == {i \in DOMAIN s : s[i] = t}
           B == {i \in DOMAIN a : a[i] = t}
           n == Len(s) + 1
<1>1. DOMAIN s = 1..Len(s) /\ DOMAIN a = 1..n /\ Len(s) \in Nat
    OBVIOUS
<1>2. a[n] = x /\ \A i \in 1..Len(s) : a[i] = s[i]
    OBVIOUS
<1>3. IsFiniteSet(A) /\ Cardinality(A) \in Nat
    BY CountType DEF InSeq
<1> HIDE DEF a
<1>4. n \notin A
    BY <1>1
<1>5. CASE x = t
    <2>1. B = A \cup {n}
        BY <1>1, <1>2, <1>5
    <2> QED BY <1>3, <1>4, <1>5, <2>1, FS_AddElement DEF InSeq, a
<1>6. CASE x # t
    <2>1. B = A
        BY <1>1, <1>2, <1>6
    <2>2. InSeq(Append(s, x), t) = Cardinality(B) /\ InSeq(s, t) = Cardinality(A)
        BY DEF InSeq, a
    <2> HIDE DEF A, B
    <2> QED BY <1>3, <1>6, <2>1, <2>2
<1> QED BY <1>5, <1>6

\* Taking the first task removes one occurrence of it.
LEMMA CountTail ==
    ASSUME NEW S, NEW s \in Seq(S), s # <<>>, NEW t
    PROVE  InSeq(s, t) = InSeq(Tail(s), t) + (IF Head(s) = t THEN 1 ELSE 0)
<1> DEFINE A == {i \in DOMAIN s : s[i] = t}
           b == Tail(s)
           B == {i \in DOMAIN b : b[i] = t}
           C == A \ {1}
           f == [i \in B |-> i + 1]
<1>0. Len(s) \in Nat \ {0} /\ b \in Seq(S) /\ Head(s) = s[1]
    OBVIOUS
<1>1. DOMAIN s = 1..Len(s) /\ DOMAIN b = 1..(Len(s) - 1)
    OBVIOUS
<1>2. \A i \in 1..(Len(s) - 1) : b[i] = s[i + 1]
    OBVIOUS
<1>3. IsFiniteSet(A) /\ Cardinality(A) \in Nat
    BY CountType DEF InSeq
<1>4. IsFiniteSet(B) /\ Cardinality(B) \in Nat
    BY <1>0, CountType DEF InSeq
<1> HIDE DEF b
<1>5. ASSUME NEW i \in B PROVE i + 1 \in C
    BY <1>0, <1>1, <1>2
<1>6. ASSUME NEW j \in C PROVE j - 1 \in B /\ (j - 1) + 1 = j
    BY <1>0, <1>1, <1>2
<1>7. B \subseteq Nat
    BY <1>0, <1>1
<1> HIDE DEF A, B, C
<1>8. f \in Injection(B, C)
    BY <1>5, <1>7 DEF Injection, IsInjective
<1>9. f \in Surjection(B, C)
    BY <1>5, <1>6 DEF Surjection
<1>10. ExistsBijection(B, C)
    BY <1>8, <1>9 DEF ExistsBijection, Bijection
<1>11. Cardinality(C) = Cardinality(B)
    BY <1>4, <1>10, FS_Bijection
<1>12. Cardinality(C) = IF 1 \in A THEN Cardinality(A) - 1 ELSE Cardinality(A)
    BY <1>3, FS_RemoveElement DEF C
<1>13. 1 \in A <=> Head(s) = t
    BY <1>0, <1>1 DEF A
<1>14. InSeq(s, t) = Cardinality(A) /\ InSeq(Tail(s), t) = Cardinality(B)
    BY DEF InSeq, A, B, b
<1> QED BY <1>3, <1>4, <1>11, <1>12, <1>13, <1>14

\* The tasks of a generator are in the queue of its priority.
LaneInv == \A l \in Levels : \A i \in DOMAIN queue[l] :
               queue[l][i] \in Gens => Level[queue[l][i]] = l

\* The number of workers that run a task of g is a number.
LEMMA RunningType ==
    ASSUME NEW g
    PROVE  IsFiniteSet({w \in Workers : worker[w] = g}) /\ Running(g) \in Nat
<1>1. IsFiniteSet({w \in Workers : worker[w] = g})
    BY ConstantsAssumption, FS_Subset
<1> QED BY <1>1, FS_CardinalityType DEF Running

\* A worker turns from x to y.
LEMMA RunningChange ==
    ASSUME TypeOK, NEW g, NEW w \in Workers, NEW y, worker' = [worker EXCEPT ![w] = y]
    PROVE  /\ worker[w] # g => Running(g)' = Running(g) + (IF y = g THEN 1 ELSE 0)
           /\ worker[w] = g /\ y # g => Running(g) = Running(g)' + 1
<1> DEFINE A == {v \in Workers : worker[v] = g}
           B == {v \in Workers : worker'[v] = g}
<1>1. IsFiniteSet(A) /\ Cardinality(A) \in Nat /\ Running(g) = Cardinality(A)
    BY RunningType DEF Running
<1>2. Running(g)' = Cardinality(B)
    BY DEF Running
<1>3. worker'[w] = y /\ \A v \in Workers : v # w => worker'[v] = worker[v]
    BY DEF TypeOK
<1>4. CASE worker[w] # g /\ y = g
    <2>1. B = A \cup {w} /\ w \notin A
        BY <1>3, <1>4
    <2> HIDE DEF A, B
    <2> QED BY <1>1, <1>2, <1>4, <2>1, FS_AddElement
<1>5. CASE worker[w] # g /\ y # g
    <2>1. B = A
        BY <1>3, <1>5
    <2> HIDE DEF A, B
    <2> QED BY <1>1, <1>2, <1>5, <2>1
<1>6. CASE worker[w] = g /\ y # g
    <2>1. B = A \ {w} /\ w \in A
        BY <1>3, <1>6
    <2> HIDE DEF A, B
    <2>2. Cardinality(B) = Cardinality(A) - 1
        BY <1>1, <2>1, FS_RemoveElement
    <2>3. Cardinality(A) = Cardinality(B) + 1
        BY <1>1, <2>2
    <2> QED BY <1>1, <1>2, <1>6, <2>3
<1> QED BY <1>4, <1>5, <1>6

\* Every step keeps the tasks of a generator in the queue of its priority.
LEMMA LaneStep ==
    ASSUME TypeOK, LaneInv, [Next]_vars
    PROVE  LaneInv'
<1> USE DEF genVars, genState, poolVars, stopVars, bounds
<1>1. CASE UNCHANGED queue
    BY <1>1 DEF LaneInv
<1>2. ASSUME NEW k \in Levels, NEW x \in Task, x \in Gens => Level[x] = k,
             queue' = [queue EXCEPT ![k] = Append(@, x)]
      PROVE  LaneInv'
    <2> SUFFICES ASSUME NEW l \in Levels, NEW i \in DOMAIN queue'[l], queue'[l][i] \in Gens
                 PROVE  Level[queue'[l][i]] = l
        BY DEF LaneInv
    <2>1. CASE l # k
        BY <1>2, <2>1 DEF TypeOK, LaneInv
    <2>2. CASE l = k
        <3>1. queue[k] \in Seq(Task) /\ queue'[k] = Append(queue[k], x)
            BY <1>2 DEF TypeOK
        <3>2. i \in 1..(Len(queue[k]) + 1) /\ Len(queue[k]) \in Nat
            BY <2>2, <3>1
        <3>3. CASE i = Len(queue[k]) + 1
            BY <1>2, <2>2, <3>1, <3>3
        <3>4. CASE i \in 1..Len(queue[k])
            <4>1. queue'[l][i] = queue[l][i] /\ i \in DOMAIN queue[l]
                BY <2>2, <3>1, <3>4
            <4> QED BY <4>1 DEF LaneInv
        <3> QED BY <3>2, <3>3, <3>4
    <2> QED BY <2>1, <2>2
<1>3. CASE Take
    <2>1. ASSUME NEW k \in Levels, HighestTask(k), queue' = [queue EXCEPT ![k] = Tail(@)]
          PROVE  LaneInv'
        <3> SUFFICES ASSUME NEW l \in Levels, NEW i \in DOMAIN queue'[l], queue'[l][i] \in Gens
                     PROVE  Level[queue'[l][i]] = l
            BY DEF LaneInv
        <3>1. CASE l # k
            BY <2>1, <3>1 DEF TypeOK, LaneInv
        <3>2. CASE l = k
            <4>1. queue[k] \in Seq(Task) /\ queue[k] # <<>> /\ queue'[k] = Tail(queue[k])
                BY <2>1 DEF TypeOK, HighestTask
            <4>2. i \in 1..(Len(queue[k]) - 1) /\ Len(queue[k]) \in Nat
                BY <3>2, <4>1
            <4>3. queue'[l][i] = queue[l][i + 1] /\ i + 1 \in DOMAIN queue[l]
                BY <3>2, <4>1, <4>2
            <4> QED BY <4>3 DEF LaneInv
        <3> QED BY <3>1, <3>2
    <2> QED BY <1>1, <1>3, <2>1 DEF Take
<1>4. ASSUME NEW l \in Levels, SubmitTask(l)
      PROVE  LaneInv'
    <2>1. External \in Task /\ External \notin Gens
        BY ConstantsAssumption DEF Task
    <2> QED BY <1>1, <1>2, <1>4, <2>1 DEF SubmitTask
<1>5. CASE Generate
    <2> DEFINE g == heap[1]
    <2>1. g \in Gens
        BY <1>5 DEF TypeOK, Generate
    <2>2. Level[g] \in Levels /\ g \in Task
        BY <2>1, ConstantsAssumption DEF Task
    <2>3. \/ UNCHANGED queue
          \/ queue' = [queue EXCEPT ![Level[g]] = Append(@, g)]
        BY <1>5 DEF Generate, NextFails, GenerateDone, GenerateTask
    <2> HIDE DEF g
    <2> QED BY <1>1, <1>2, <2>2, <2>3
<1>6. ASSUME NEW g \in Gens, Elapse(g) \/ BecomeReady(g) \/ SubmitGenerator(g)
      PROVE  LaneInv'
    BY <1>1, <1>6 DEF Elapse, BecomeReady, SubmitGenerator
<1>7. ASSUME NEW i \in DOMAIN waiting, PushReady(i)
      PROVE  LaneInv'
    BY <1>1, <1>7 DEF PushReady
<1>8. CASE Loop \/ GenerateNothing \/ PopTop \/ File \/ Send \/ Stop
    BY <1>1, <1>8 DEF Loop, GenerateNothing, PopTop, File, Send, Stop
<1>9. ASSUME NEW w \in Workers, Work(w)
      PROVE  LaneInv'
    BY <1>1, <1>9 DEF Work, WorkerTake, WorkerDone, WorkerExit
<1>10. CASE ShutdownCall \/ Shutdown
    BY <1>1, <1>10
       DEF ShutdownCall, Shutdown, ShutdownStore, ShutdownCancel, ShutdownClose, ShutdownReturn
<1>11. CASE UNCHANGED vars
    BY <1>1, <1>11 DEF vars
<1> QED BY <1>3, <1>4, <1>5, <1>6, <1>7, <1>8, <1>9, <1>10, <1>11
    DEF Next, Clock, Submit, Dispatcher, Stopped

\* The books of one generator.
Balanced(g) ==
    produced[g] = executed[g] + Kept(g) + InSeq(queue[Level[g]], g) + InHand(g)
                  + InSeq(workerChan, g) + Running(g)

\* What the sums are made of.
LEMMA BookTypes ==
    ASSUME TypeOK, NEW g \in Gens
    PROVE  /\ produced[g] \in Nat /\ executed[g] \in Nat /\ Kept(g) \in Nat /\ InHand(g) \in Nat
           /\ InSeq(queue[Level[g]], g) \in Nat /\ InSeq(workerChan, g) \in Nat
           /\ Running(g) \in Nat /\ Level[g] \in Levels
<1>1. Level[g] \in Levels
    BY ConstantsAssumption
<1>2. InSeq(queue[Level[g]], g) \in Nat
    BY <1>1, CountType DEF TypeOK
<1>3. InSeq(workerChan, g) \in Nat
    BY CountType DEF TypeOK
<1> QED BY <1>1, <1>2, <1>3, RunningType DEF TypeOK, Kept, InHand

\* Every step keeps the count of the tasks of a generator.
LEMMA BalanceStep ==
    ASSUME TypeOK, TypeOK', LaneInv, NEW g \in Gens, Balanced(g), [Next]_vars
    PROVE  Balanced(g)'
<1> USE DEF genVars, genState, poolVars, stopVars, bounds
<1> DEFINE Q == InSeq(queue[Level[g]], g)
           C == InSeq(workerChan, g)
<1>0. /\ produced[g] \in Nat /\ executed[g] \in Nat /\ Kept(g) \in Nat /\ InHand(g) \in Nat
      /\ Q \in Nat /\ C \in Nat /\ Running(g) \in Nat /\ Level[g] \in Levels
    BY BookTypes
<1>1. CASE UNCHANGED <<produced, executed, remaining, queue, workerChan, worker>>
           /\ disp.pc # "send" /\ disp'.pc # "send"
    BY <1>1 DEF Balanced, Kept, InHand, Running
<1>2. CASE UNCHANGED <<produced, executed, remaining, queue, workerChan, worker, disp>>
    BY <1>2 DEF Balanced, Kept, InHand, Running
<1>3. ASSUME NEW l \in Levels, NEW x \in Task, x # g,
             queue' = [queue EXCEPT ![l] = Append(@, x)]
      PROVE  Q' = Q
    <2>1. CASE l = Level[g]
        <3>1. queue'[l] = Append(queue[l], x) /\ queue[l] \in Seq(Task)
            BY <1>3 DEF TypeOK
        <3>2. InSeq(Append(queue[l], x), g) = InSeq(queue[l], g) + 0
            BY <1>3, <3>1, CountAppend
        <3> QED BY <1>0, <2>1, <3>1, <3>2
    <2>2. CASE l # Level[g]
        BY <1>0, <1>3, <2>2 DEF TypeOK
    <2> QED BY <2>1, <2>2
<1>4. ASSUME NEW l \in Levels, SubmitTask(l)
      PROVE  Balanced(g)'
    <2>1. External \in Task /\ External # g
        BY ConstantsAssumption DEF Task
    <2>2. Q' = Q
        BY <1>3, <1>4, <2>1 DEF SubmitTask
    <2> QED BY <1>4, <2>2 DEF Balanced, Kept, InHand, Running, SubmitTask
<1>5. CASE Generate
    <2> DEFINE h == heap[1]
    <2>a. h \in Gens
        BY <1>5 DEF TypeOK, Generate
    <2>1. h \in Gens /\ h \in Task /\ Level[h] \in Levels
        BY <2>a, ConstantsAssumption DEF Task
    <2>2. disp.pc # "send" /\ disp'.pc # "send" /\ UNCHANGED <<executed, workerChan, worker>>
        BY <1>5 DEF TypeOK, DispStates, Generate
    <2>3. CASE NextFails(h) \/ GenerateDone(h)
        BY <1>1, <2>2, <2>3 DEF NextFails, GenerateDone
    <2>4. CASE GenerateTask(h)
        <3> DEFINE fits == Len(queue[Level[h]]) < QueueCap
        <3>1. InHand(g) = 0 /\ InHand(g)' = 0 /\ C' = C /\ Running(g)' = Running(g)
            BY <2>2 DEF InHand, Running
        <3>2. CASE h # g
            <4>1. produced'[g] = produced[g] /\ Kept(g)' = Kept(g)
                BY <2>4, <3>2 DEF TypeOK, GenerateTask, Kept
            <4>2. UNCHANGED queue \/ queue' = [queue EXCEPT ![Level[h]] = Append(@, h)]
                BY <2>4 DEF GenerateTask
            <4> HIDE DEF h
            <4>3. Q' = Q
                BY <1>3, <2>1, <3>2, <4>2
            <4> QED BY <2>2, <3>1, <4>1, <4>3 DEF Balanced
        <3>3. CASE h = g
            <4>1. produced'[g] = produced[g] + 1 - Kept(g)
                <5>1. CASE remaining[g]
                    BY <1>0, <2>4, <3>3, <5>1 DEF GenerateTask, Kept
                <5>2. CASE ~remaining[g]
                    <6>1. produced' = [produced EXCEPT ![g] = produced[g] + 1]
                        BY <2>4, <3>3, <5>2 DEF GenerateTask
                    <6>2. produced'[g] = produced[g] + 1 /\ Kept(g) = 0
                        BY <5>2, <6>1 DEF TypeOK, Kept
                    <6> QED BY <1>0, <6>2
                <5> QED BY <5>1, <5>2
            <4>2. CASE fits
                <5>1. Kept(g)' = 0
                    BY <2>4, <3>3, <4>2 DEF TypeOK, GenerateTask, Kept
                <5>2. queue' = [queue EXCEPT ![Level[g]] = Append(@, g)]
                    BY <2>4, <3>3, <4>2 DEF GenerateTask
                <5>3. queue'[Level[g]] = Append(queue[Level[g]], g) /\ queue[Level[g]] \in Seq(Task)
                    BY <1>0, <5>2 DEF TypeOK
                <5>4. Q' = Q + 1
                    BY <2>1, <3>3, <5>3, CountAppend
                <5> QED BY <1>0, <2>2, <3>1, <4>1, <5>1, <5>4 DEF Balanced
            <4>3. CASE ~fits
                <5>1. Kept(g)' = 1
                    BY <2>4, <3>3, <4>3 DEF TypeOK, GenerateTask, Kept
                <5>2. Q' = Q
                    BY <2>4, <3>3, <4>3 DEF GenerateTask
                <5> QED BY <1>0, <2>2, <3>1, <4>1, <5>1, <5>2 DEF Balanced
            <4> QED BY <4>2, <4>3
        <3> QED BY <3>2, <3>3
    <2> QED BY <1>5, <2>3, <2>4 DEF Generate
<1>6. CASE Take
    <2>1. CASE disp' = [disp EXCEPT !.pc = "loop"] /\ UNCHANGED queue
        <3>1. disp.pc # "send" /\ disp'.pc # "send"
            BY <1>6, <2>1 DEF TypeOK, DispStates, Take
        <3> QED BY <1>1, <1>6, <2>1, <3>1 DEF Take
    <2>2. ASSUME NEW l \in Levels, HighestTask(l),
                 disp' = [pc |-> "send", held |-> Head(queue[l])],
                 queue' = [queue EXCEPT ![l] = Tail(@)]
          PROVE  Balanced(g)'
        <3> DEFINE x == Head(queue[l])
        <3>1. queue[l] \in Seq(Task) /\ queue[l] # <<>>
            BY <2>2 DEF TypeOK, HighestTask
        <3>2. x = queue[l][1] /\ 1 \in DOMAIN queue[l]
            BY <3>1
        <3>3. x = g => Level[g] = l
            BY <3>2 DEF LaneInv
        <3>4. InHand(g) = 0 /\ InHand(g)' = IF x = g THEN 1 ELSE 0
            BY <1>6, <2>2 DEF InHand, Take
        <3>5. Q = Q' + (IF x = g THEN 1 ELSE 0)
            <4>1. CASE l = Level[g]
                <5>1. queue'[l] = Tail(queue[l])
                    BY <2>2 DEF TypeOK
                <5> QED BY <3>1, <4>1, <5>1, CountTail
            <4>2. CASE l # Level[g]
                <5>1. queue'[Level[g]] = queue[Level[g]]
                    BY <1>0, <2>2, <4>2 DEF TypeOK
                <5> QED BY <1>0, <3>3, <4>2, <5>1
            <4> QED BY <4>1, <4>2
        <3>6. Q' \in Nat
            BY <1>0, CountType DEF TypeOK
        <3>7. UNCHANGED <<produced, executed, remaining, workerChan, worker>>
            BY <1>6 DEF Take
        <3>8. Kept(g)' = Kept(g) /\ Running(g)' = Running(g) /\ C' = C
            BY <3>7 DEF Kept, Running
        <3> HIDE DEF x
        <3> QED BY <1>0, <3>4, <3>5, <3>6, <3>7, <3>8 DEF Balanced
    <2> QED BY <1>6, <2>1, <2>2 DEF Take
<1>7. CASE Send
    <2> DEFINE x == disp.held
    <2>1. x \in Task
        BY <1>7 DEF TypeOK, DispStates, Send
    <2>2. C' = C + (IF x = g THEN 1 ELSE 0)
        BY <1>7, <2>1, CountAppend DEF TypeOK, Send
    <2>3. InHand(g) = (IF x = g THEN 1 ELSE 0) /\ InHand(g)' = 0
        BY <1>7 DEF InHand, Send
    <2>4. UNCHANGED <<produced, executed, remaining, queue, worker>>
        BY <1>7 DEF Send
    <2>5. Kept(g)' = Kept(g) /\ Running(g)' = Running(g) /\ Q' = Q
        BY <2>4 DEF Kept, Running
    <2> HIDE DEF x
    <2> QED BY <1>0, <2>2, <2>3, <2>4, <2>5 DEF Balanced
<1>8. ASSUME NEW w \in Workers, WorkerTake(w)
      PROVE  Balanced(g)'
    <2> DEFINE x == Head(workerChan)
    <2>1. C = C' + (IF x = g THEN 1 ELSE 0)
        BY <1>8, CountTail DEF TypeOK, WorkerTake
    <2>2. C' \in Nat
        BY CountType DEF TypeOK
    <2>3. worker[w] # g
        BY <1>8, ConstantsAssumption DEF WorkerTake, Task
    <2>4. Running(g)' = Running(g) + (IF x = g THEN 1 ELSE 0)
        BY <1>8, <2>3, RunningChange DEF WorkerTake
    <2>5. UNCHANGED <<produced, executed, remaining, queue, disp>>
        BY <1>8 DEF WorkerTake
    <2>6. Kept(g)' = Kept(g) /\ InHand(g)' = InHand(g) /\ Q' = Q
        BY <2>5 DEF Kept, InHand
    <2> HIDE DEF x
    <2> QED BY <1>0, <2>1, <2>2, <2>4, <2>5, <2>6 DEF Balanced
<1>9. ASSUME NEW w \in Workers, WorkerDone(w)
      PROVE  Balanced(g)'
    <2>0. None # g
        BY ConstantsAssumption DEF Task
    <2>1. UNCHANGED <<produced, remaining, queue, disp, workerChan>>
        BY <1>9 DEF WorkerDone
    <2>2. Kept(g)' = Kept(g) /\ InHand(g)' = InHand(g) /\ Q' = Q /\ C' = C
        BY <2>1 DEF Kept, InHand
    <2>3. worker' = [worker EXCEPT ![w] = None]
        BY <1>9 DEF WorkerDone
    <2>4. CASE worker[w] = g
        <3>1. executed'[g] = executed[g] + 1
            BY <1>9, <2>4 DEF TypeOK, WorkerDone
        <3>2. Running(g) = Running(g)' + 1
            <4>1. /\ worker[w] # g => Running(g)' = Running(g) + (IF None = g THEN 1 ELSE 0)
                  /\ worker[w] = g /\ None # g => Running(g) = Running(g)' + 1
                BY <2>3, RunningChange
            <4> QED BY <2>0, <2>4, <4>1
        <3>3. Running(g)' \in Nat
            <4>1. IsFiniteSet({v \in Workers : worker'[v] = g})
                BY ConstantsAssumption, FS_Subset
            <4> QED BY <4>1, FS_CardinalityType DEF Running
        <3> QED BY <1>0, <2>1, <2>2, <3>1, <3>2, <3>3 DEF Balanced
    <2>5. CASE worker[w] # g
        <3>1. executed'[g] = executed[g]
            BY <1>9, <2>5 DEF TypeOK, WorkerDone
        <3>2. Running(g)' = Running(g)
            <4>1. /\ worker[w] # g => Running(g)' = Running(g) + (IF None = g THEN 1 ELSE 0)
                  /\ worker[w] = g /\ None # g => Running(g) = Running(g)' + 1
                BY <2>3, RunningChange
            <4> QED BY <1>0, <2>0, <2>5, <4>1
        <3> QED BY <2>1, <2>2, <3>1, <3>2 DEF Balanced
    <2> QED BY <2>4, <2>5
<1>10. ASSUME NEW w \in Workers, WorkerExit(w)
       PROVE  Balanced(g)'
    <2>1. worker[w] # g /\ "exited" # g
        BY <1>10, ConstantsAssumption DEF WorkerExit, Task
    <2>2. Running(g)' = Running(g)
        <3>1. worker' = [worker EXCEPT ![w] = "exited"]
            BY <1>10 DEF WorkerExit
        <3>2. /\ worker[w] # g => Running(g)' = Running(g) + (IF "exited" = g THEN 1 ELSE 0)
              /\ worker[w] = g /\ "exited" # g => Running(g) = Running(g)' + 1
            BY <3>1, RunningChange
        <3> QED BY <1>0, <2>1, <3>2
    <2> QED BY <1>10, <2>2 DEF Balanced, Kept, InHand, WorkerExit
<1>11. ASSUME NEW k \in Gens, Elapse(k) \/ BecomeReady(k) \/ SubmitGenerator(k)
       PROVE  Balanced(g)'
    BY <1>2, <1>11 DEF Elapse, BecomeReady, SubmitGenerator
<1>12. ASSUME NEW i \in DOMAIN waiting, PushReady(i)
       PROVE  Balanced(g)'
    BY <1>2, <1>12 DEF PushReady
<1>13. CASE Loop \/ GenerateNothing \/ PopTop \/ File \/ Stop
    <2>1. disp.pc # "send" /\ disp'.pc # "send"
        <3>1. CASE Loop \/ GenerateNothing \/ Stop
            BY <3>1 DEF TypeOK, DispStates, Loop, GenerateNothing, Stop
        <3>2. CASE PopTop \/ File
            BY <3>2 DEF PopTop, File
        <3> QED BY <1>13, <3>1, <3>2
    <2> QED BY <1>1, <1>13, <2>1 DEF Loop, GenerateNothing, PopTop, File, Stop
<1>14. CASE ShutdownCall \/ Shutdown
    BY <1>2, <1>14
       DEF ShutdownCall, Shutdown, ShutdownStore, ShutdownCancel, ShutdownClose, ShutdownReturn
<1>15. CASE UNCHANGED vars
    BY <1>2, <1>15 DEF vars
<1> QED BY <1>4, <1>5, <1>6, <1>7, <1>8, <1>9, <1>10, <1>11, <1>12, <1>13, <1>14, <1>15
    DEF Next, Clock, Submit, Dispatcher, Work, Stopped

\* scheduler.go, from generate over the queues, getTask and the channel of the workers to
\* DoWork: no task is lost and none runs twice, however full the queues are and whichever
\* worker takes it.
THEOREM TasksAreConserved == Spec => []TasksConserved
<1> DEFINE Inv == LaneInv /\ TasksConserved
<1>1. Init => Inv
    <2> SUFFICES ASSUME Init PROVE Inv
        OBVIOUS
    <2>1. LaneInv
        BY DEF Init, LaneInv
    <2>2. ASSUME NEW g \in Gens PROVE Balanced(g)
        <3>1. Level[g] \in Levels
            BY ConstantsAssumption
        <3>2. InSeq(queue[Level[g]], g) = 0 /\ InSeq(workerChan, g) = 0
            <4>1. queue[Level[g]] = <<>> /\ workerChan = <<>>
                BY <3>1 DEF Init
            <4>2. {i \in DOMAIN <<>> : <<>>[i] = g} = {}
                OBVIOUS
            <4> QED BY <4>1, <4>2, FS_EmptySet DEF InSeq
        <3>3. Running(g) = 0
            <4>1. None # g
                BY ConstantsAssumption DEF Task
            <4>2. {w \in Workers : worker[w] = g} = {}
                BY <4>1 DEF Init
            <4> QED BY <4>2, FS_EmptySet DEF Running
        <3>4. Kept(g) = 0 /\ InHand(g) = 0 /\ produced[g] = 0 /\ executed[g] = 0
            BY DEF Init, Kept, InHand
        <3> QED BY <3>2, <3>3, <3>4 DEF Balanced
    <2> QED BY <2>1, <2>2 DEF TasksConserved, Balanced
<1>2. TypeOK /\ TypeOK' /\ Inv /\ [Next]_vars => Inv'
    <2> SUFFICES ASSUME TypeOK, TypeOK', Inv, [Next]_vars PROVE Inv'
        OBVIOUS
    <2>1. LaneInv'
        BY LaneStep
    <2>2. ASSUME NEW g \in Gens PROVE Balanced(g)'
        <3>1. Balanced(g)
            BY DEF TasksConserved, Balanced
        <3> QED BY <3>1, BalanceStep
    <2> QED BY <2>1, <2>2 DEF TasksConserved, Balanced
<1> QED BY <1>1, <1>2, TypeCorrect, PTL DEF Spec

=============================================================================
