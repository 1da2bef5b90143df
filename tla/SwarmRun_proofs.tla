--------------------------- MODULE SwarmRun_proofs ---------------------------
(***************************************************************************)
(* Theorems about SwarmRun: what a decision can be lost by however many    *)
(* processes share the log, and what one process at a time promises about  *)
(* decisions and checkpoints although it may crash between any two steps.  *)
(***************************************************************************)
EXTENDS SwarmRun, FiniteSetTheorems, FunctionTheorems, SequenceTheorems, TLAPS

-----------------------------------------------------------------------------
(* Positions.                                                              *)
(*                                                                         *)
(* The ranks number the positions of a finite set upwards, from 1 on.      *)
LEMMA RankRange ==
  ASSUME NEW S \in SUBSET Int, IsFiniteSet(S), NEW i \in S
  PROVE  Rank(S, i) \in 1..Cardinality(S)
<1> DEFINE U == {j \in S : j <= i}
<1>1. U \in SUBSET S /\ i \in U
  OBVIOUS
<1>2. /\ IsFiniteSet(U) /\ Cardinality(U) <= Cardinality(S)
      /\ Cardinality(U) \in Nat /\ Cardinality(S) \in Nat
  BY <1>1, FS_Subset, FS_CardinalityType
<1>3. Cardinality(U) # 0
  BY <1>1, <1>2, FS_EmptySet
<1> QED
  BY <1>2, <1>3 DEF Rank

LEMMA RankIncreases ==
  ASSUME NEW S \in SUBSET Int, IsFiniteSet(S), NEW i \in S, NEW k \in S, i < k
  PROVE  Rank(S, i) < Rank(S, k)
<1> DEFINE U == {j \in S : j <= i}
           V == {j \in S : j <= k}
<1>0. i \in Int /\ k \in Int
  OBVIOUS
<1>1. U \in SUBSET V /\ V \in SUBSET S /\ k \in V /\ k \notin U
  <2>1. U \in SUBSET V
    <3>1. \A j \in S : j <= i => j <= k
      BY <1>0
    <3> QED
      BY <3>1
  <2>2. k \in V /\ k \notin U
    BY <1>0
  <2> QED
    BY <2>1, <2>2
<1>2. IsFiniteSet(V)
  BY <1>1, FS_Subset
<1>3. /\ IsFiniteSet(U) /\ Cardinality(U) <= Cardinality(V)
      /\ Cardinality(V) = Cardinality(U) => V = U
  BY <1>1, <1>2, FS_Subset
<1>4. Cardinality(U) \in Nat /\ Cardinality(V) \in Nat
  BY <1>2, <1>3, FS_CardinalityType
<1>5. Cardinality(U) < Cardinality(V)
  BY <1>1, <1>3, <1>4
<1> QED
  BY <1>5 DEF Rank

LEMMA RankReaches ==
  ASSUME NEW S \in SUBSET Int, IsFiniteSet(S), NEW n \in 1..Cardinality(S)
  PROVE  \E i \in S : Rank(S, i) = n
<1> DEFINE N == 1..Cardinality(S)
           f == [i \in S |-> Rank(S, i)]
<1>1. Cardinality(S) \in Nat
  BY FS_CardinalityType
<1>2. IsFiniteSet(N) /\ Cardinality(N) = Cardinality(S)
  BY <1>1, FS_Interval
<1>3. f \in [S -> N]
  BY RankRange
<1>4. \A i, k \in S : f[i] = f[k] => i = k
  <2> SUFFICES ASSUME NEW i \in S, NEW k \in S, i # k PROVE f[i] # f[k]
    OBVIOUS
  <2>1. i \in Int /\ k \in Int /\ Rank(S, i) \in N /\ Rank(S, k) \in N
    BY RankRange
  <2>2. CASE i < k
    BY <2>1, <2>2, <1>1, RankIncreases
  <2>3. CASE k < i
    BY <2>1, <2>3, <1>1, RankIncreases
  <2> QED
    BY <2>1, <2>2, <2>3
<1>5. f \in Injection(S, N)
  BY <1>3, <1>4 DEF Injection, IsInjective
<1>6. f \in Surjection(S, N)
  BY <1>2, <1>5, FS_Injection
<1> QED
  BY <1>6 DEF Surjection

(* So the position of each rank is determined, and the ranks and positions *)
(* are in the same order.                                                  *)
Position(S, n) == CHOOSE i \in S : Rank(S, i) = n

LEMMA PositionFacts ==
  ASSUME NEW S \in SUBSET Int, IsFiniteSet(S)
  PROVE  /\ \A n \in 1..Cardinality(S) : Position(S, n) \in S /\ Rank(S, Position(S, n)) = n
         /\ \A i \in S : Rank(S, i) \in 1..Cardinality(S) /\ Position(S, Rank(S, i)) = i
         /\ \A m, n \in 1..Cardinality(S) : m < n => Position(S, m) < Position(S, n)
<1>1. \A n \in 1..Cardinality(S) : Position(S, n) \in S /\ Rank(S, Position(S, n)) = n
  BY RankReaches DEF Position
<1>2. \A i \in S : Rank(S, i) \in 1..Cardinality(S)
  BY RankRange
<1>3. Cardinality(S) \in Nat
  BY FS_CardinalityType
<1>4. \A i, k \in S : i < k => Rank(S, i) < Rank(S, k)
  BY RankIncreases
<1>5. ASSUME NEW i \in S PROVE Position(S, Rank(S, i)) = i
  <2> DEFINE k == Position(S, Rank(S, i))
  <2>1. k \in S /\ Rank(S, k) = Rank(S, i) /\ Rank(S, i) \in Int
    BY <1>1, <1>2, <1>3
  <2>2. k \in Int /\ i \in Int
    BY <2>1
  <2>3. ~(k < i) /\ ~(i < k)
    <3> HIDE DEF k
    <3> QED
      BY <1>4, <2>1
  <2> QED
    BY <2>2, <2>3
<1>6. ASSUME NEW m \in 1..Cardinality(S), NEW n \in 1..Cardinality(S), m < n
      PROVE  Position(S, m) < Position(S, n)
  <2> DEFINE i == Position(S, m)
             k == Position(S, n)
  <2>1. i \in S /\ k \in S /\ Rank(S, i) = m /\ Rank(S, k) = n
    BY <1>1
  <2>2. i \in Int /\ k \in Int /\ m \in Int /\ n \in Int
    <3>1. m \in Int /\ n \in Int
      BY <1>3
    <3>2. i \in Int /\ k \in Int
      BY <2>1
    <3> QED
      BY <3>1, <3>2
  <2>3. i # k
    BY <2>1, <2>2, <1>6
  <2>4. ~(k < i)
    <3> HIDE DEF i, k
    <3> QED
      BY <1>4, <1>6, <2>1, <2>2
  <2> QED
    BY <2>2, <2>3, <2>4
<1> QED
  BY <1>1, <1>2, <1>5, <1>6

LEMMA PositionsFinite ==
  ASSUME NEW T, NEW l \in Seq(T), NEW S \in SUBSET (DOMAIN l)
  PROVE  /\ S \in SUBSET Int /\ IsFiniteSet(S) /\ Cardinality(S) \in Nat
         /\ IsFiniteSet(DOMAIN l)
<1>1. DOMAIN l = 1..Len(l) /\ Len(l) \in Nat
  BY LenProperties
<1>2. IsFiniteSet(DOMAIN l)
  BY <1>1, FS_Interval
<1>3. IsFiniteSet(S) /\ S \in SUBSET Int
  BY <1>1, <1>2, FS_Subset
<1> QED
  BY <1>2, <1>3, FS_CardinalityType

(* The entries at some positions, in their order.                          *)
LEMMA KeptFacts ==
  ASSUME NEW T, NEW l \in Seq(T), NEW S \in SUBSET (DOMAIN l)
  PROVE  /\ Kept(l, S) \in Seq(T)
         /\ DOMAIN Kept(l, S) = 1..Cardinality(S)
         /\ \A n \in 1..Cardinality(S) : Kept(l, S)[n] = l[Position(S, n)]
<1>1. S \in SUBSET Int /\ IsFiniteSet(S) /\ Cardinality(S) \in Nat
  BY PositionsFinite
<1>2. Kept(l, S) = [n \in 1..Cardinality(S) |-> l[Position(S, n)]]
  BY DEF Kept, Position
<1>3. \A n \in 1..Cardinality(S) : l[Position(S, n)] \in T
  <2>1. \A i \in DOMAIN l : l[i] \in T
    BY ElementOfSeq, LenProperties
  <2> QED
    BY <1>1, <2>1, PositionFacts
<1>4. Kept(l, S) \in Seq(T)
  BY <1>1, <1>2, <1>3, IsASeq
<1> QED
  BY <1>2, <1>4

-----------------------------------------------------------------------------
(* What an update and a rotation do to a log.                              *)
(*                                                                         *)
LEMMA ResolveFacts ==
  ASSUME NEW e \in Blocks
  PROVE  /\ Resolve(e) \in Blocks /\ Resolve(e).resolved
         /\ Resolve(e).key = e.key /\ Resolve(e).number = e.number
<1>1. e.size + ReflectionSize \in Nat \ {0}
  BY LogAssumption DEF Blocks
<1> QED
  BY <1>1 DEF Resolve, Blocks

(* An update changes nothing but the outcome of pending entries, which     *)
(* makes them longer.                                                      *)
LEMMA UpdatedFacts ==
  ASSUME NEW l \in Seq(Blocks), NEW K
  PROVE  /\ Updated(l, K) \in Seq(Blocks)
         /\ DOMAIN Updated(l, K) = DOMAIN l
         /\ \A i \in DOMAIN l :
              /\ Updated(l, K)[i].key = l[i].key
              /\ Updated(l, K)[i].number = l[i].number
              /\ Updated(l, K)[i].resolved =
                   (l[i].resolved \/ (FirstPending(l, i) /\ l[i].key \in K))
<1> DEFINE u(i) == IF FirstPending(l, i) /\ l[i].key \in K THEN Resolve(l[i]) ELSE l[i]
<1>1. DOMAIN l = 1..Len(l) /\ Len(l) \in Nat /\ \A i \in DOMAIN l : l[i] \in Blocks
  BY ElementOfSeq, LenProperties
<1>2. Updated(l, K) = [i \in 1..Len(l) |-> u(i)]
  BY <1>1 DEF Updated
<1>3. ASSUME NEW i \in 1..Len(l)
      PROVE  /\ u(i) \in Blocks
             /\ u(i).key = l[i].key /\ u(i).number = l[i].number
             /\ u(i).resolved = (l[i].resolved \/ (FirstPending(l, i) /\ l[i].key \in K))
  <2>1. l[i] \in Blocks /\ l[i].resolved \in BOOLEAN
    BY <1>1 DEF Blocks
  <2>2. /\ Resolve(l[i]) \in Blocks /\ Resolve(l[i]).resolved
        /\ Resolve(l[i]).key = l[i].key /\ Resolve(l[i]).number = l[i].number
    BY <2>1, ResolveFacts
  <2>3. CASE FirstPending(l, i) /\ l[i].key \in K
    BY <2>1, <2>2, <2>3
  <2>4. CASE ~(FirstPending(l, i) /\ l[i].key \in K)
    BY <2>1, <2>4
  <2> QED
    BY <2>3, <2>4
<1>4. Updated(l, K) \in Seq(Blocks)
  <2> HIDE DEF u
  <2> QED
    BY <1>1, <1>2, <1>3, IsASeq
<1>5. DOMAIN Updated(l, K) = DOMAIN l
  BY <1>1, <1>2
<1>6. \A i \in DOMAIN l : Updated(l, K)[i] = u(i)
  BY <1>1, <1>2
<1> QED
  <2> HIDE DEF u
  <2> QED
    BY <1>1, <1>3, <1>4, <1>5, <1>6

LEMMA CountFacts ==
  ASSUME NEW l \in Seq(Blocks)
  PROVE  /\ Resolved(l) \in SUBSET (DOMAIN l) /\ Resolved(l) \in SUBSET Int
         /\ IsFiniteSet(Resolved(l)) /\ ResolvedCount(l) \in Nat
         /\ ResolvedCount(l) = Cardinality(Resolved(l))
  BY PositionsFinite DEF Resolved, ResolvedCount

(* The resolved entries among the kept ones are those at the kept positions. *)
LEMMA KeptResolved ==
  ASSUME NEW l \in Seq(Blocks), NEW S \in SUBSET (DOMAIN l)
  PROVE  ResolvedCount(Kept(l, S)) = Cardinality(Resolved(l) \cap S)
<1> DEFINE k == Kept(l, S)
           A == Resolved(k)
           B == Resolved(l) \cap S
           f == [n \in A |-> Position(S, n)]
<1>1. S \in SUBSET Int /\ IsFiniteSet(S) /\ Cardinality(S) \in Nat
  BY PositionsFinite
<1>2. /\ k \in Seq(Blocks) /\ DOMAIN k = 1..Cardinality(S)
      /\ \A n \in 1..Cardinality(S) : k[n] = l[Position(S, n)]
  BY KeptFacts
<1>3. A \subseteq 1..Cardinality(S) /\ IsFiniteSet(A)
  BY <1>2, CountFacts
<1>4. /\ \A n \in 1..Cardinality(S) : Position(S, n) \in S /\ Rank(S, Position(S, n)) = n
      /\ \A i \in S : Rank(S, i) \in 1..Cardinality(S) /\ Position(S, Rank(S, i)) = i
  BY <1>1, PositionFacts
<1>5. \A n \in 1..Cardinality(S) : n \in A <=> Position(S, n) \in B
  BY <1>2, <1>4 DEF Resolved
<1> HIDE DEF A, B
<1>6. f \in [A -> B]
  BY <1>3, <1>5
<1>7. \A m, n \in A : f[m] = f[n] => m = n
  BY <1>3, <1>4
<1>8. \A i \in B : \E n \in A : f[n] = i
  <2> SUFFICES ASSUME NEW i \in B PROVE \E n \in A : f[n] = i
    OBVIOUS
  <2>1. i \in S
    BY DEF B
  <2>2. Rank(S, i) \in A /\ Position(S, Rank(S, i)) = i
    BY <1>4, <1>5, <2>1
  <2> QED
    BY <2>2
<1>9. f \in Bijection(A, B)
  BY <1>6, <1>7, <1>8 DEF Bijection, Injection, IsInjective, Surjection
<1>10. Cardinality(B) = Cardinality(A)
  BY <1>3, <1>9, FS_Bijection DEF ExistsBijection
<1> QED
  BY <1>10 DEF A, B, ResolvedCount

(* A rotation drops the excess of resolved entries, the first ones.        *)
LEMMA DroppedFacts ==
  ASSUME NEW l \in Seq(Blocks), ResolvedCount(l) > MaxEntries
  PROVE  /\ Dropped(l) \in SUBSET Resolved(l)
         /\ Cardinality(Resolved(l) \ Dropped(l)) = MaxEntries
         /\ \A i \in Dropped(l), k \in Resolved(l) \ Dropped(l) : i < k
<1> DEFINE R == Resolved(l)
           D == Dropped(l)
           excess == Cardinality(R) - MaxEntries
           f == [n \in 1..excess |-> Position(R, n)]
<1>1. /\ R \in SUBSET Int /\ IsFiniteSet(R) /\ Cardinality(R) \in Nat
      /\ ResolvedCount(l) = Cardinality(R)
  BY CountFacts
<1>2. excess \in Nat /\ excess > 0 /\ excess <= Cardinality(R)
  BY <1>1, LogAssumption
<1>3. D = {i \in R : Rank(R, i) <= excess}
  BY DEF Dropped, ResolvedCount
<1>4. /\ \A n \in 1..Cardinality(R) : Position(R, n) \in R /\ Rank(R, Position(R, n)) = n
      /\ \A i \in R : Rank(R, i) \in 1..Cardinality(R) /\ Position(R, Rank(R, i)) = i
  BY <1>1, PositionFacts
<1> HIDE DEF R, D
<1>5. D \in SUBSET R /\ IsFiniteSet(D)
  BY <1>1, <1>3, FS_Subset
<1>6. f \in Bijection(1..excess, D)
  <2> HIDE DEF excess
  <2>1. 1..excess \subseteq 1..Cardinality(R)
    BY <1>1, <1>2
  <2>2. \A n \in 1..excess : Position(R, n) \in D /\ Rank(R, Position(R, n)) = n
    BY <1>2, <1>3, <1>4, <2>1
  <2>3. f \in [1..excess -> D] /\ \A m, n \in 1..excess : f[m] = f[n] => m = n
    BY <2>2
  <2>4. \A i \in D : \E n \in 1..excess : f[n] = i
    <3> SUFFICES ASSUME NEW i \in D PROVE \E n \in 1..excess : f[n] = i
      OBVIOUS
    <3>1. i \in R /\ Rank(R, i) <= excess
      BY <1>3
    <3>2. Rank(R, i) \in 1..excess /\ Position(R, Rank(R, i)) = i
      BY <1>1, <1>2, <1>4, <3>1
    <3> QED
      BY <3>2
  <2> QED
    BY <2>3, <2>4 DEF Bijection, Injection, IsInjective, Surjection
<1>7. Cardinality(D) = excess
  <2>1. IsFiniteSet(1..excess) /\ Cardinality(1..excess) = excess
    BY <1>2, FS_Interval
  <2> QED
    BY <1>6, <2>1, FS_Bijection DEF ExistsBijection
<1>8. Cardinality(R \ D) = MaxEntries
  <2>1. R \cap D = D
    BY <1>5
  <2>2. Cardinality(R \ D) = Cardinality(R) - Cardinality(R \cap D)
    BY <1>1, FS_Difference
  <2>3. Cardinality(R \cap D) = excess
    BY <1>7, <2>1
  <2>4. excess = Cardinality(R) - MaxEntries
    OBVIOUS
  <2> HIDE DEF excess
  <2> QED
    BY <1>1, <2>2, <2>3, <2>4, LogAssumption
<1>9. ASSUME NEW i \in D, NEW k \in R \ D PROVE i < k
  <2>1. i \in R /\ Rank(R, i) <= excess /\ Rank(R, k) > excess
    <3>1. Rank(R, k) \in Int
      BY <1>1, <1>4
    <3> QED
      BY <1>2, <1>3, <1>9, <3>1
  <2>2. Rank(R, i) \in Int /\ Rank(R, k) \in Int /\ i \in Int /\ k \in Int
    BY <1>1, <1>4, <2>1
  <2>3. i # k /\ (k < i => Rank(R, k) < Rank(R, i))
    BY <1>1, <2>1, RankIncreases
  <2> QED
    BY <1>2, <2>1, <2>2, <2>3
<1> QED
  BY <1>5, <1>8, <1>9 DEF R, D

(* All positions together are in their own order. *)
LEMMA KeptAll ==
  ASSUME NEW l \in Seq(Blocks)
  PROVE  Kept(l, DOMAIN l) = l
<1>1. DOMAIN l = 1..Len(l) /\ Len(l) \in Nat /\ l = [n \in 1..Len(l) |-> l[n]]
  BY LenProperties
<1>2. /\ DOMAIN l \in SUBSET (DOMAIN l) /\ DOMAIN l \in SUBSET Int
      /\ IsFiniteSet(DOMAIN l)
  BY PositionsFinite
<1>3. Cardinality(DOMAIN l) = Len(l)
  BY <1>1, FS_Interval
<1>4. ASSUME NEW n \in 1..Len(l) PROVE Position(DOMAIN l, n) = n
  <2>1. {j \in DOMAIN l : j <= n} = 1..n
    BY <1>1
  <2>2. Rank(DOMAIN l, n) = n
    <3>1. Cardinality(1..n) = n
      BY <1>1, FS_Interval
    <3> QED
      BY <2>1, <3>1 DEF Rank
  <2> QED
    BY <1>1, <1>2, <2>2, PositionFacts
<1>5. /\ DOMAIN Kept(l, DOMAIN l) = 1..Len(l)
      /\ \A n \in 1..Len(l) : Kept(l, DOMAIN l)[n] = l[n]
  BY <1>2, <1>3, <1>4, KeptFacts
<1>6. Kept(l, DOMAIN l) \in Seq(Blocks)
  BY <1>2, KeptFacts
<1>7. Len(Kept(l, DOMAIN l)) = Len(l)
  BY <1>1, <1>5, <1>6, LenProperties
<1> QED
  BY <1>5, <1>6, <1>7, SeqEqual

(* So a rotation keeps some of the positions, drops only resolved entries  *)
(* that are before all the resolved ones it keeps, and drops none unless   *)
(* it leaves as many of them as configured.                                *)
LEMMA Rotation ==
  ASSUME NEW l \in Seq(Blocks)
  PROVE  \E S \in SUBSET (DOMAIN l) :
           /\ Rotated(l) = Kept(l, S)
           /\ MaxEntries > 0 => ResolvedCount(Rotated(l)) <= MaxEntries
           /\ \A i \in DOMAIN l \ S :
                /\ l[i].resolved
                /\ ResolvedCount(Rotated(l)) = MaxEntries
                /\ \A k \in S : l[k].resolved => i < k
<1>1. ResolvedCount(l) \in Nat
  BY CountFacts
<1>2. CASE MaxEntries > 0 /\ ResolvedCount(l) > MaxEntries
  <2> DEFINE S == DOMAIN l \ Dropped(l)
  <2>1. /\ Dropped(l) \in SUBSET Resolved(l)
        /\ Cardinality(Resolved(l) \ Dropped(l)) = MaxEntries
        /\ \A i \in Dropped(l), k \in Resolved(l) \ Dropped(l) : i < k
    BY <1>2, DroppedFacts
  <2>2. Rotated(l) = Kept(l, S)
    BY <1>2 DEF Rotated
  <2>3. Resolved(l) \cap S = Resolved(l) \ Dropped(l)
    BY DEF Resolved
  <2>4. ResolvedCount(Rotated(l)) = MaxEntries
    BY <2>1, <2>2, <2>3, KeptResolved
  <2>5. \A i \in DOMAIN l \ S : i \in Dropped(l) /\ l[i].resolved
    BY <2>1 DEF Resolved
  <2>6. \A k \in S : l[k].resolved => k \in Resolved(l) \ Dropped(l)
    BY DEF Resolved
  <2>7. \A i \in DOMAIN l \ S : \A k \in S : l[k].resolved => i < k
    BY <2>1, <2>5, <2>6
  <2>8. S \in SUBSET (DOMAIN l)
    OBVIOUS
  <2>9. MaxEntries <= MaxEntries
    BY LogAssumption
  <2> HIDE DEF S
  <2> QED
    BY <2>2, <2>4, <2>5, <2>7, <2>8, <2>9
<1>3. CASE ~(MaxEntries > 0 /\ ResolvedCount(l) > MaxEntries)
  <2>1. Rotated(l) = Kept(l, DOMAIN l)
    BY <1>3, KeptAll DEF Rotated
  <2>2. Rotated(l) = l
    BY <1>3 DEF Rotated
  <2>3. MaxEntries > 0 => ResolvedCount(Rotated(l)) <= MaxEntries
    BY <1>1, <1>3, <2>2, LogAssumption
  <2> QED
    BY <2>1, <2>3
<1> QED
  BY <1>2, <1>3

-----------------------------------------------------------------------------
(* What batch_update_with_outcomes makes of a log, position by position:   *)
(* the entry at n comes from the n-th of the positions S that are kept.    *)
Made(l, r, S) ==
  /\ DOMAIN r = 1..Cardinality(S)
  /\ \A n \in DOMAIN r :
       /\ Position(S, n) \in DOMAIN l /\ Position(S, n) \in S
       /\ r[n].key = l[Position(S, n)].key
       /\ r[n].number = l[Position(S, n)].number
       /\ l[Position(S, n)].resolved => r[n].resolved
  /\ \A m, n \in DOMAIN r : m < n => Position(S, m) < Position(S, n)
  /\ \A i \in S : \E n \in DOMAIN r : Position(S, n) = i

Within(l) == MaxEntries > 0 => ResolvedCount(l) <= MaxEntries

LEMMA RewrittenFacts ==
  ASSUME NEW l \in Seq(Blocks), NEW K
  PROVE  /\ Rewritten(l, K) \in Seq(Blocks)
         /\ Within(Rewritten(l, K))
         /\ \E S \in SUBSET (DOMAIN l) :
              /\ Made(l, Rewritten(l, K), S)
              /\ \A i \in DOMAIN l \ S :
                   /\ l[i].resolved \/ l[i].key \in K
                   /\ ResolvedCount(Rewritten(l, K)) = MaxEntries
                   /\ \A n \in DOMAIN Rewritten(l, K) :
                        Rewritten(l, K)[n].resolved => i < Position(S, n)
<1> DEFINE u == Updated(l, K)
           r == Rewritten(l, K)
<1>1. /\ u \in Seq(Blocks) /\ DOMAIN u = DOMAIN l
      /\ \A i \in DOMAIN l :
           /\ u[i].key = l[i].key /\ u[i].number = l[i].number
           /\ u[i].resolved = (l[i].resolved \/ (FirstPending(l, i) /\ l[i].key \in K))
  BY UpdatedFacts
<1>2. r = Rotated(u)
  BY DEF Rewritten
<1> HIDE DEF u, r
<1>3. PICK S \in SUBSET (DOMAIN u) :
        /\ r = Kept(u, S)
        /\ MaxEntries > 0 => ResolvedCount(r) <= MaxEntries
        /\ \A i \in DOMAIN u \ S :
             /\ u[i].resolved
             /\ ResolvedCount(r) = MaxEntries
             /\ \A k \in S : u[k].resolved => i < k
  BY <1>1, <1>2, Rotation
<1>4. S \in SUBSET Int /\ IsFiniteSet(S) /\ Cardinality(S) \in Nat
  BY <1>1, PositionsFinite
<1>5. /\ r \in Seq(Blocks) /\ DOMAIN r = 1..Cardinality(S)
      /\ \A n \in 1..Cardinality(S) : r[n] = u[Position(S, n)]
  BY <1>1, <1>3, KeptFacts
<1>6. /\ \A n \in 1..Cardinality(S) : Position(S, n) \in S
      /\ \A i \in S : Rank(S, i) \in 1..Cardinality(S) /\ Position(S, Rank(S, i)) = i
      /\ \A m, n \in 1..Cardinality(S) : m < n => Position(S, m) < Position(S, n)
  BY <1>4, PositionFacts
<1>7. \A n \in DOMAIN r :
        /\ Position(S, n) \in S /\ Position(S, n) \in DOMAIN l
        /\ r[n].key = l[Position(S, n)].key
        /\ r[n].number = l[Position(S, n)].number
        /\ r[n].resolved = u[Position(S, n)].resolved
  BY <1>1, <1>5, <1>6
<1>8. Made(l, r, S)
  <2>1. \A n \in DOMAIN r : l[Position(S, n)].resolved => r[n].resolved
    BY <1>1, <1>7
  <2>2. \A i \in S : \E n \in DOMAIN r : Position(S, n) = i
    BY <1>5, <1>6
  <2> QED
    BY <1>5, <1>6, <1>7, <2>1, <2>2 DEF Made
<1>9. \A i \in DOMAIN l \ S :
        /\ l[i].resolved \/ l[i].key \in K
        /\ ResolvedCount(r) = MaxEntries
        /\ \A n \in DOMAIN r : r[n].resolved => i < Position(S, n)
  BY <1>1, <1>3, <1>7
<1>10. S \in SUBSET (DOMAIN l)
  BY <1>1
<1>11. Within(r)
  BY <1>3 DEF Within
<1>12. /\ r \in Seq(Blocks)
       /\ Within(r)
       /\ \E T \in SUBSET (DOMAIN l) :
            /\ Made(l, r, T)
            /\ \A i \in DOMAIN l \ T :
                 /\ l[i].resolved \/ l[i].key \in K
                 /\ ResolvedCount(r) = MaxEntries
                 /\ \A n \in DOMAIN r : r[n].resolved => i < Position(T, n)
  <2>1. r \in Seq(Blocks)
    BY <1>5
  <2> QED
    BY <1>8, <1>9, <1>10, <1>11, <2>1
<1> QED
  BY <1>12 DEF r

-----------------------------------------------------------------------------
(* A sound log is in the order of the stores, each once, has no entry of a *)
(* store to come, and no more resolved entries than configured.            *)
Ordered(l) == \A i, j \in DOMAIN l : i < j => l[i].number < l[j].number
Bounded(l, n) == \A i \in DOMAIN l : l[i].number <= n

Sound(l, n) == l \in Seq(Blocks) /\ Ordered(l) /\ Bounded(l, n) /\ Within(l)

LEMMA EntryFacts ==
  ASSUME NEW l \in Seq(Blocks)
  PROVE  /\ DOMAIN l = 1..Len(l) /\ Len(l) \in Nat
         /\ \A i \in DOMAIN l : /\ i \in Int /\ l[i] \in Blocks /\ l[i].size \in Nat
                                /\ l[i].resolved \in BOOLEAN /\ l[i].number \in Nat
<1>1. DOMAIN l = 1..Len(l) /\ Len(l) \in Nat /\ \A i \in DOMAIN l : l[i] \in Blocks
  BY ElementOfSeq, LenProperties
<1>2. \A e \in Blocks : e.size \in Nat /\ e.resolved \in BOOLEAN /\ e.number \in Nat
  BY DEF Blocks
<1> QED
  BY <1>1, <1>2

LEMMA EmptySound ==
  ASSUME NEW n PROVE Sound(<<>>, n)
<1>1. <<>> \in Seq(Blocks) /\ DOMAIN <<>> = {}
  BY EmptySeq
<1>2. Resolved(<<>>) = {}
  BY <1>1 DEF Resolved
<1>3. ResolvedCount(<<>>) = 0
  BY <1>2, FS_EmptySet DEF ResolvedCount
<1>4. Within(<<>>)
  BY <1>3, LogAssumption DEF Within
<1> QED
  BY <1>1, <1>4 DEF Sound, Ordered, Bounded

LEMMA RewrittenSound ==
  ASSUME NEW l, NEW n \in Nat, Sound(l, n), NEW K PROVE Sound(Rewritten(l, K), n)
<1> DEFINE r == Rewritten(l, K)
<1>1. l \in Seq(Blocks) /\ Ordered(l) /\ Bounded(l, n)
  BY DEF Sound
<1>2. r \in Seq(Blocks) /\ Within(r)
  BY <1>1, RewrittenFacts
<1>3. PICK S : Made(l, r, S)
  BY <1>1, RewrittenFacts
<1> HIDE DEF r
<1>4. Ordered(r)
  BY <1>1, <1>3 DEF Ordered, Made
<1>5. Bounded(r, n)
  BY <1>1, <1>3 DEF Bounded, Made
<1> QED
  BY <1>2, <1>4, <1>5 DEF r, Sound

(* The text after the append of a decision. *)
LEMMA StoredFacts ==
  ASSUME NEW l \in Seq(Blocks), NEW k \in Keys, NEW n \in Nat, NEW z \in Nat \ {0}
  PROVE  /\ Stored(l, k, n, z) \in Seq(Blocks)
         /\ DOMAIN Stored(l, k, n, z) = 1..(Len(l) + 1)
         /\ \A i \in DOMAIN l : i \in DOMAIN Stored(l, k, n, z) /\ Stored(l, k, n, z)[i] = l[i]
         /\ Stored(l, k, n, z)[Len(l) + 1] =
              [key |-> k, resolved |-> FALSE, number |-> n, size |-> z]
         /\ \A i \in DOMAIN Stored(l, k, n, z) : i \in DOMAIN l \/ i = Len(l) + 1
<1> DEFINE e == [key |-> k, resolved |-> FALSE, number |-> n, size |-> z]
<1>1. e \in Blocks
  BY DEF Blocks
<1>2. Stored(l, k, n, z) = Append(l, e)
  BY DEF Stored
<1>3. DOMAIN l = 1..Len(l) /\ Len(l) \in Nat
  BY EntryFacts
<1> HIDE DEF e
<1>4. /\ Append(l, e) \in Seq(Blocks) /\ Len(Append(l, e)) = Len(l) + 1
      /\ \A i \in 1..Len(l) : Append(l, e)[i] = l[i]
      /\ Append(l, e)[Len(l) + 1] = e
  BY <1>1, AppendProperties
<1>5. DOMAIN Append(l, e) = 1..(Len(l) + 1)
  BY <1>4, LenProperties
<1>6. /\ \A i \in 1..Len(l) : i \in 1..(Len(l) + 1)
      /\ \A i \in 1..(Len(l) + 1) : i \in 1..Len(l) \/ i = Len(l) + 1
  BY <1>3
<1> QED
  BY <1>2, <1>3, <1>4, <1>5, <1>6 DEF e

LEMMA StoredSound ==
  ASSUME NEW l, NEW n \in Nat, Sound(l, n), NEW m \in Nat, n < m, NEW k \in Keys,
         NEW z \in Nat \ {0}
  PROVE  Sound(Stored(l, k, m, z), m)
<1> DEFINE s == Stored(l, k, m, z)
<1>1. l \in Seq(Blocks) /\ Ordered(l) /\ Bounded(l, n) /\ Within(l)
  BY DEF Sound
<1>2. /\ DOMAIN l = 1..Len(l) /\ Len(l) \in Nat
      /\ \A i \in DOMAIN l : i \in Int /\ l[i].number \in Nat /\ l[i].number <= n
  BY <1>1, EntryFacts DEF Bounded
<1>3. /\ s \in Seq(Blocks) /\ DOMAIN s = 1..(Len(l) + 1)
      /\ \A i \in DOMAIN l : i \in DOMAIN s /\ s[i] = l[i]
      /\ s[Len(l) + 1].number = m /\ ~s[Len(l) + 1].resolved
      /\ \A i \in DOMAIN s : i \in DOMAIN l \/ i = Len(l) + 1
  <2>1. /\ s \in Seq(Blocks)
        /\ DOMAIN s = 1..(Len(l) + 1)
        /\ \A i \in DOMAIN l : i \in DOMAIN s /\ s[i] = l[i]
        /\ s[Len(l) + 1] = [key |-> k, resolved |-> FALSE, number |-> m, size |-> z]
        /\ \A i \in DOMAIN s : i \in DOMAIN l \/ i = Len(l) + 1
    BY <1>1, StoredFacts, Zenon
  <2> HIDE DEF s
  <2>2. s[Len(l) + 1].number = m /\ ~s[Len(l) + 1].resolved
    BY <2>1
  <2> QED
    BY <2>1, <2>2, Zenon
<1> HIDE DEF s
<1>4. Ordered(s)
  <2> SUFFICES ASSUME NEW i \in DOMAIN s, NEW j \in DOMAIN s, i < j
               PROVE  s[i].number < s[j].number
    BY DEF Ordered
  <2>1. i \in DOMAIN l
    BY <1>2, <1>3
  <2>2. CASE j \in DOMAIN l
    BY <1>1, <1>3, <2>1, <2>2 DEF Ordered
  <2>3. CASE j = Len(l) + 1
    BY <1>2, <1>3, <2>1, <2>3
  <2> QED
    BY <1>3, <2>2, <2>3
<1>5. Bounded(s, m)
  <2> SUFFICES ASSUME NEW i \in DOMAIN s PROVE s[i].number <= m
    BY DEF Bounded
  <2> QED
    BY <1>2, <1>3
<1>6. Resolved(s) = Resolved(l)
  <2>1. Resolved(s) = {i \in DOMAIN l : s[i].resolved}
    BY <1>3 DEF Resolved
  <2> QED
    BY <1>3, <2>1 DEF Resolved
<1>7. Within(s)
  BY <1>1, <1>6 DEF Within, ResolvedCount
<1> QED
  BY <1>3, <1>4, <1>5, <1>7 DEF s, Sound

-----------------------------------------------------------------------------
(* What is read off a log, entry by entry.                                 *)
LEMMA SetFacts ==
  ASSUME NEW l \in Seq(Blocks)
  PROVE  /\ \A k \in Keys :
              k \in PendingKeys(l) <=> \E i \in DOMAIN l : ~l[i].resolved /\ l[i].key = k
         /\ PendingKeys(l) \subseteq Keys
         /\ \A n : n \in Numbers(l) <=> \E i \in DOMAIN l : l[i].number = n
         /\ \A e : e \in ToSet(l) <=> \E i \in DOMAIN l : l[i] = e
<1>1. \A e : e \in ToSet(l) <=> \E i \in DOMAIN l : l[i] = e
  BY DEF ToSet
<1>2. \A k \in Keys :
        k \in PendingKeys(l) <=> \E i \in DOMAIN l : ~l[i].resolved /\ l[i].key = k
  BY <1>1 DEF PendingKeys
<1>3. \A n : n \in Numbers(l) <=> \E i \in DOMAIN l : l[i].number = n
  BY <1>1 DEF Numbers
<1>4. PendingKeys(l) \subseteq Keys
  BY DEF PendingKeys
<1> QED
  BY <1>1, <1>2, <1>3, <1>4

LEMMA MadeNumbers ==
  ASSUME NEW l, NEW r \in Seq(Blocks), NEW S, Made(l, r, S), NEW i \in S
  PROVE  l[i].number \in Numbers(r)
<1>1. PICK n \in DOMAIN r : Position(S, n) = i
  BY DEF Made
<1>2. r[n].number = l[i].number
  BY <1>1 DEF Made
<1> QED
  BY <1>2, SetFacts

(* Pending entries for which there is no outcome are written again, and an *)
(* append takes nothing away.                                              *)
LEMMA PendingRewritten ==
  ASSUME NEW l \in Seq(Blocks), NEW K, NEW e \in ToSet(l), ~e.resolved, e.key \notin K
  PROVE  e.number \in Numbers(Rewritten(l, K))
<1>1. PICK i \in DOMAIN l : l[i] = e
  BY SetFacts
<1>2. Rewritten(l, K) \in Seq(Blocks)
  BY RewrittenFacts
<1>3. PICK S \in SUBSET (DOMAIN l) :
        /\ Made(l, Rewritten(l, K), S)
        /\ \A j \in DOMAIN l \ S : l[j].resolved \/ l[j].key \in K
  BY RewrittenFacts
<1>4. i \in S
  BY <1>1, <1>3
<1> QED
  BY <1>1, <1>2, <1>3, <1>4, MadeNumbers

LEMMA StoredNumbers ==
  ASSUME NEW l \in Seq(Blocks), NEW k \in Keys, NEW n \in Nat, NEW z \in Nat \ {0},
         NEW e \in ToSet(l)
  PROVE  e.number \in Numbers(Stored(l, k, n, z))
<1> DEFINE s == Stored(l, k, n, z)
<1>1. PICK i \in DOMAIN l : l[i] = e
  BY SetFacts
<1> HIDE DEF s
<1>2. /\ s \in Seq(Blocks)
      /\ \A j \in DOMAIN l : j \in DOMAIN s /\ s[j] = l[j]
  BY StoredFacts DEF s
<1>3. e.number \in Numbers(s)
  BY <1>1, <1>2, SetFacts
<1> QED
  BY <1>3 DEF s

-----------------------------------------------------------------------------
(* A text written over another one: it is all there, and whatever follows  *)
(* it is blocks again.                                                     *)
LEMMA LengthType ==
  ASSUME NEW l \in Seq(Blocks) PROVE Length(l) \in Nat
<1> DEFINE piece(i) == {i} \X (1..l[i].size)
           D == DOMAIN l
           P == {piece(i) : i \in D}
           f == [i \in D |-> piece(i)]
<1>1. IsFiniteSet(D)
  BY EntryFacts, FS_Interval
<1>2. \A i \in D : IsFiniteSet(piece(i))
  <2> SUFFICES ASSUME NEW i \in D PROVE IsFiniteSet(piece(i))
    OBVIOUS
  <2>1. l[i].size \in Nat
    BY EntryFacts
  <2>2. IsFiniteSet({i})
    BY FS_Singleton
  <2>3. IsFiniteSet(1..l[i].size)
    BY <2>1, FS_Interval
  <2> QED
    BY <2>2, <2>3, FS_Product
<1>3. IsFiniteSet(P)
  <2> HIDE DEF piece
  <2>1. f \in Surjection(D, P)
    BY DEF Surjection
  <2> QED
    BY <1>1, <2>1, FS_Surjection
<1>4. IsFiniteSet(UNION P)
  <2>1. \A T \in P : IsFiniteSet(T)
    BY <1>2
  <2> HIDE DEF P
  <2> QED
    BY <1>3, <2>1, FS_UNION
<1>5. Cardinality(UNION P) \in Nat
  BY <1>4, FS_CardinalityType
<1> QED
  BY <1>5 DEF Length, Units

LEMMA BeyondType ==
  ASSUME NEW new \in Seq(Blocks), NEW old \in Seq(Blocks), NEW i \in DOMAIN old
  PROVE  Beyond(new, old, i) \in Int
<1>1. /\ i \in Int /\ DOMAIN old = 1..Len(old) /\ Len(old) \in Nat
      /\ \A j \in DOMAIN old : old[j] \in Blocks
  BY EntryFacts
<1>2. \A j \in 1..i : old[j] \in Blocks
  BY <1>1
<1>3. SubSeq(old, 1, i) \in Seq(Blocks)
  BY <1>1, <1>2, SubSeqProperties
<1>4. Length(SubSeq(old, 1, i)) \in Nat /\ Length(new) \in Nat
  BY <1>3, LengthType
<1> QED
  BY <1>4 DEF Beyond

LEMMA TornType ==
  ASSUME NEW z \in Nat \ {0} PROVE TornBlock(z) \in Blocks
  BY DEF TornBlock, Blocks

LEMMA OverlaidFacts ==
  ASSUME NEW new \in Seq(Blocks), NEW old \in Seq(Blocks)
  PROVE  /\ Overlaid(new, old) \in Seq(Blocks)
         /\ Numbers(new) \subseteq Numbers(Overlaid(new, old))
         /\ old = <<>> => Overlaid(new, old) = new
<1> DEFINE piece(i) == IF Beyond(new, old, i) < old[i].size
                       THEN TornBlock(Beyond(new, old, i)) ELSE old[i]
           D == DOMAIN old
           P == [i \in D |-> piece(i)]
           T == {P[i] : i \in D}
           S == {i \in D : Beyond(new, old, i) > 0}
           end == Kept(P, S)
           r == new \o end
<1>1. Overlaid(new, old) = r
  BY DEF Overlaid
<1>2. D = 1..Len(old) /\ Len(old) \in Nat /\ \A i \in D : old[i] \in Blocks
  BY EntryFacts
<1>3. \A i \in S : P[i] \in Blocks
  <2> SUFFICES ASSUME NEW i \in S PROVE piece(i) \in Blocks
    OBVIOUS
  <2>1. Beyond(new, old, i) \in Nat \ {0}
    BY BeyondType
  <2> QED
    BY <1>2, <2>1, TornType
<1> HIDE DEF piece
<1>4. P \in Seq(T) /\ DOMAIN P = D
  <2>1. \A i \in 1..Len(old) : piece(i) \in T
    BY <1>2
  <2>2. P = [i \in 1..Len(old) |-> piece(i)]
    BY <1>2
  <2> HIDE DEF T, P
  <2> QED
    BY <1>2, <2>1, <2>2, IsASeq
<1>5. S \in SUBSET (DOMAIN P)
  BY <1>4
<1> HIDE DEF P, T, S
<1>6. /\ end \in Seq(T) /\ DOMAIN end = 1..Cardinality(S)
      /\ \A n \in 1..Cardinality(S) : end[n] = P[Position(S, n)]
  BY <1>4, <1>5, KeptFacts
<1>7. S \in SUBSET Int /\ IsFiniteSet(S) /\ Cardinality(S) \in Nat
  BY <1>4, <1>5, PositionsFinite
<1>8. \A n \in 1..Cardinality(S) : end[n] \in Blocks
  BY <1>3, <1>6, <1>7, PositionFacts
<1>9. end \in Seq(Blocks)
  <2>1. end = [n \in 1..Cardinality(S) |-> P[Position(S, n)]]
    BY DEF Kept, Position
  <2>2. \A n \in 1..Cardinality(S) : P[Position(S, n)] \in Blocks
    BY <1>6, <1>8
  <2> HIDE DEF end
  <2> QED
    BY <1>7, <2>1, <2>2, IsASeq
<1> HIDE DEF end
<1>10. /\ r \in Seq(Blocks) /\ Len(r) = Len(new) + Len(end)
       /\ \A i \in 1..Len(new) + Len(end) :
            r[i] = IF i <= Len(new) THEN new[i] ELSE end[i - Len(new)]
  BY <1>9, ConcatProperties
<1>11. /\ DOMAIN new = 1..Len(new) /\ Len(new) \in Nat /\ Len(end) \in Nat
       /\ DOMAIN r = 1..Len(r)
  BY <1>9, <1>10, LenProperties, EntryFacts
<1> HIDE DEF r
<1>12. Numbers(new) \subseteq Numbers(r)
  <2> SUFFICES ASSUME NEW n \in Numbers(new) PROVE n \in Numbers(r)
    OBVIOUS
  <2>1. PICK i \in DOMAIN new : new[i].number = n
    BY SetFacts
  <2>2. i \in DOMAIN r /\ r[i] = new[i]
    BY <1>10, <1>11
  <2> QED
    BY <1>10, <2>1, <2>2, SetFacts
<1>13. ASSUME old = <<>> PROVE r = new
  <2>1. S = {}
    BY <1>13, <1>4, <1>5, EmptySeq
  <2>2. DOMAIN end = {}
    BY <1>6, <2>1, FS_EmptySet DEF end
  <2>3. Len(end) = 0
    BY <1>9, <1>11, <2>2, LenProperties
  <2> QED
    BY <1>10, <1>11, <2>3, SeqEqual
<1> QED
  BY <1>1, <1>10, <1>12, <1>13

-----------------------------------------------------------------------------
(* Any number of processes.                                                *)
KeyKnown == \A p \in Processes : pc[p] # "idle" => key[p] \in Keys

Inv == TypeOK /\ KeyKnown

LEMMA InvInit == Init => Inv
<1> SUFFICES ASSUME Init PROVE Inv
  OBVIOUS
<1>1. <<>> \in Seq(Blocks)
  BY EmptySeq
<1>2. TypeOK
  BY <1>1, RunAssumption DEF Init, TypeOK
<1>3. KeyKnown
  BY DEF Init, KeyKnown
<1> QED
  BY <1>2, <1>3 DEF Inv

LEMMA InvNext ==
  ASSUME Inv, NEW p \in Processes, Step(p) \/ Crash(p)
  PROVE  Inv'
<1>0. /\ TypeOK /\ KeyKnown /\ <<>> \in Seq(Blocks)
      /\ None \notin Seq(Blocks) /\ None # "tmp" /\ None # "log"
  BY EmptySeq, RunAssumption DEF Inv
<1>1. CASE Start(p)
  BY <1>0, <1>1 DEF Start, Goto, files, Inv, TypeOK, KeyKnown
<1>2. CASE ReadPending(p)
  <2>1. PICK U \in SUBSET {k \in PendingKeys(log) : k.ticker = key[p].ticker} :
          /\ updates' = [updates EXCEPT ![p] = U]
          /\ Goto(p, IF U = {} THEN "graph" ELSE "read")
    BY <1>2 DEF ReadPending
  <2>2. PendingKeys(log) \subseteq Keys
    BY <1>0, SetFacts DEF TypeOK
  <2> QED
    BY <1>0, <1>2, <2>1, <2>2 DEF ReadPending, Goto, files, Inv, TypeOK, KeyKnown
<1>3. CASE ReadLog(p)
  BY <1>0, <1>3 DEF ReadLog, Goto, files, Inv, TypeOK, KeyKnown
<1>4. CASE OpenTmp(p)
  BY <1>0, <1>4 DEF OpenTmp, Goto, Inv, TypeOK, KeyKnown
<1>5. CASE WriteTmp(p)
  <2> DEFINE new == Rewritten(text[p], updates[p])
  <2>1. new \in Seq(Blocks)
    BY <1>0, RewrittenFacts DEF TypeOK
  <2> HIDE DEF new
  <2>2. tmp' = IF file[p] = "tmp" THEN Overlaid(new, tmp) ELSE tmp
    BY <1>5 DEF WriteTmp, new
  <2>3. log' = IF file[p] = "log" THEN Overlaid(new, log) ELSE log
    BY <1>5 DEF WriteTmp, new
  <2>4. /\ tmp' \in Seq(Blocks) \cup {None}
        /\ tmp # None => tmp' # None
    <3>1. CASE file[p] = "tmp"
      <4>1. tmp \in Seq(Blocks)
        BY <1>0, <3>1 DEF TypeOK
      <4>2. tmp' = Overlaid(new, tmp)
        BY <2>2, <3>1
      <4>3. tmp' \in Seq(Blocks)
        BY <2>1, <4>1, <4>2, OverlaidFacts
      <4> QED
        BY <1>0, <4>3
    <3>2. CASE file[p] # "tmp"
      BY <1>0, <2>2, <3>2 DEF TypeOK
    <3> QED
      BY <3>1, <3>2
  <2>5. log' \in Seq(Blocks)
    BY <1>0, <2>1, <2>3, OverlaidFacts DEF TypeOK
  <2> QED
    BY <1>0, <1>5, <2>4, <2>5 DEF WriteTmp, Goto, Inv, TypeOK, KeyKnown
<1>6. CASE Replace(p)
  <2>1. Moved \in [Processes -> {"log", None}]
    BY DEF Moved
  <2>2. tmp \in Seq(Blocks)
    BY <1>0, <1>6 DEF Replace, TypeOK
  <2> QED
    BY <1>0, <1>6, <2>1, <2>2 DEF Replace, Goto, Inv, TypeOK, KeyKnown
<1>7. CASE ReplaceFails(p)
  BY <1>0, <1>7 DEF ReplaceFails, End, Goto, files, Inv, TypeOK, KeyKnown
<1>8. CASE RunGraph(p)
  <2>1. key[p] \in Keys
    BY <1>0, <1>8 DEF RunGraph, KeyKnown
  <2> QED
    BY <1>0, <1>8, <2>1 DEF RunGraph, Goto, Inv, TypeOK, KeyKnown
<1>9. CASE CheckPending(p)
  BY <1>0, <1>9 DEF CheckPending, Goto, files, Inv, TypeOK, KeyKnown
<1>10. CASE OpenLog(p)
  BY <1>0, <1>10 DEF OpenLog, Goto, files, Inv, TypeOK, KeyKnown
<1>11. CASE AppendEntry(p)
  <2>1. key[p] \in Keys /\ stores + 1 \in Nat
    <3>1. pc[p] = "append" /\ stores \in Nat
      BY <1>0, <1>11 DEF AppendEntry, TypeOK
    <3> QED
      BY <1>0, <3>1 DEF KeyKnown
  <2>2. PICK z \in Sizes :
          log' = IF file[p] = "log" THEN Stored(log, key[p], stores + 1, z) ELSE log
    BY <1>11 DEF AppendEntry
  <2>3. log' \in Seq(Blocks)
    BY <1>0, <2>1, <2>2, StoredFacts, LogAssumption DEF TypeOK
  <2> QED
    BY <1>0, <1>11, <2>1, <2>3 DEF AppendEntry, Goto, Inv, TypeOK, KeyKnown
<1>12. CASE ClearCheckpoint(p)
  BY <1>0, <1>12 DEF ClearCheckpoint, End, Goto, Inv, TypeOK, KeyKnown
<1>13. CASE Crash(p)
  BY <1>0, <1>13 DEF Crash, End, Goto, files, Inv, TypeOK, KeyKnown
<1> QED
  BY <1>1, <1>2, <1>3, <1>4, <1>5, <1>6, <1>7, <1>8, <1>9, <1>10, <1>11, <1>12, <1>13 DEF Step

LEMMA InvStep == Inv /\ [Next]_vars => Inv'
<1>1. ASSUME Inv, Next PROVE Inv'
  BY <1>1, InvNext DEF Next
<1>2. ASSUME Inv, UNCHANGED vars PROVE Inv'
  BY <1>2 DEF vars, files, Inv, TypeOK, KeyKnown
<1> QED
  BY <1>1, <1>2

LEMMA InvAlways == Spec => []Inv
  BY InvInit, InvStep, PTL DEF Spec

(* Every variable has its type, whatever processes do to each other: the   *)
(* log stays a sequence of entries and of torn blocks, and who has the     *)
(* temporary file open finds one.                                          *)
THEOREM TypeCorrect == Spec => []TypeOK
<1>1. Inv => TypeOK
  BY DEF Inv
<1> QED
  BY <1>1, InvAlways, PTL

(* Only a text that is put over the log, by its name or through what was   *)
(* opened as the temporary file, takes entries away: an append takes none, *)
(* and to open the temporary file does not truncate the log.               *)
LEMMA OnlyTextsDrop ==
  ASSUME Inv, NEW p \in Processes, Step(p) \/ Crash(p),
         NEW e \in ToSet(log), e.number \notin Numbers(log')
  PROVE  \/ Replace(p)
         \/ WriteTmp(p) /\ file[p] = "log"
<1>0. TypeOK /\ KeyKnown /\ log \in Seq(Blocks)
  BY DEF Inv, TypeOK
<1>1. PICK i \in DOMAIN log : log[i] = e
  BY <1>0, SetFacts
<1>2. log' # log
  BY <1>0, <1>1, SetFacts
<1>3. ~AppendEntry(p)
  <2> SUFFICES ASSUME AppendEntry(p) PROVE FALSE
    OBVIOUS
  <2>1. PICK z \in Sizes :
          log' = IF file[p] = "log" THEN Stored(log, key[p], stores + 1, z) ELSE log
    BY DEF AppendEntry
  <2>2. /\ log' = Stored(log, key[p], stores + 1, z)
        /\ z \in Nat \ {0} /\ key[p] \in Keys /\ stores + 1 \in Nat
    <3>1. pc[p] = "append" /\ stores \in Nat
      BY <1>0 DEF AppendEntry, TypeOK
    <3>2. key[p] \in Keys
      BY <1>0, <3>1 DEF KeyKnown
    <3>3. log' = Stored(log, key[p], stores + 1, z)
      BY <1>2, <2>1
    <3> QED
      BY <3>1, <3>2, <3>3, LogAssumption
  <2>3. e.number \in Numbers(Stored(log, key[p], stores + 1, z))
    BY <1>0, <2>2, StoredNumbers
  <2> QED
    BY <2>2, <2>3
<1>4. Replace(p) \/ WriteTmp(p)
  BY <1>2, <1>3 DEF Step, Start, ReadPending, ReadLog, OpenTmp, ReplaceFails, RunGraph,
     CheckPending, OpenLog, ClearCheckpoint, Crash, files
<1>5. WriteTmp(p) => file[p] = "log"
  BY <1>2 DEF WriteTmp
<1> QED
  BY <1>4, <1>5

(* However many processes share the log, and however their steps are       *)
(* interleaved, no process loses a pending decision by what it does        *)
(* itself: one is lost only by a text that is no longer what the log was   *)
(* when it was read, or by a temporary file that holds something else.     *)
THEOREM LossExplained == Spec => LossNeedsOverlap
<1> DEFINE A == \A e \in ToSet(log) :
                  e.key \in Keys /\ ~e.resolved /\ e.number \notin Numbers(log') =>
                    \E p \in Processes :
                      /\ pc[p] \in {"write", "replace"} /\ pc'[p] # pc[p]
                      /\ \/ e.key \in updates[p]
                         \/ text[p] # log
                         \/ pc[p] = "replace" /\ tmp # Rewritten(text[p], updates[p])
<1>1. ASSUME Inv, Next PROVE A
  <2> SUFFICES ASSUME NEW e \in ToSet(log), ~e.resolved, e.number \notin Numbers(log')
               PROVE  \E p \in Processes :
                        /\ pc[p] \in {"write", "replace"} /\ pc'[p] # pc[p]
                        /\ \/ e.key \in updates[p]
                           \/ text[p] # log
                           \/ pc[p] = "replace" /\ tmp # Rewritten(text[p], updates[p])
    OBVIOUS
  <2>1. PICK p \in Processes : Step(p) \/ Crash(p)
    BY <1>1 DEF Next
  <2>2. Replace(p) \/ (WriteTmp(p) /\ file[p] = "log")
    BY <1>1, <2>1, OnlyTextsDrop
  <2>3. TypeOK /\ log \in Seq(Blocks)
    BY <1>1 DEF Inv, TypeOK
  <2>4. pc[p] \in {"write", "replace"} /\ pc'[p] # pc[p]
    <3>1. CASE Replace(p)
      BY <2>3, <3>1 DEF Replace, Goto, TypeOK
    <3>2. CASE WriteTmp(p)
      BY <2>3, <3>2 DEF WriteTmp, Goto, TypeOK
    <3> QED
      BY <2>2, <3>1, <3>2
  <2> DEFINE new == Rewritten(text[p], updates[p])
  <2>5. e.key \notin updates[p] /\ text[p] = log => e.number \in Numbers(new)
    BY <2>3, PendingRewritten
  <2>6. new \in Seq(Blocks)
    BY <2>3, RewrittenFacts DEF TypeOK
  <2> HIDE DEF new
  <2>7. CASE Replace(p)
    <3>1. pc[p] = "replace" /\ log' = tmp
      BY <2>7 DEF Replace
    <3>2. e.key \in updates[p] \/ text[p] # log \/ tmp # new
      BY <2>5, <3>1
    <3> QED
      BY <2>4, <3>1, <3>2 DEF new
  <2>8. CASE WriteTmp(p) /\ file[p] = "log"
    <3>1. log' = Overlaid(new, log)
      BY <2>8 DEF WriteTmp, new
    <3>2. Numbers(new) \subseteq Numbers(log')
      BY <2>3, <2>6, <3>1, OverlaidFacts
    <3>3. e.key \in updates[p] \/ text[p] # log
      BY <2>5, <3>2
    <3> QED
      BY <2>4, <3>3
  <2> QED
    BY <2>2, <2>7, <2>8
<1>2. Inv /\ [Next]_vars => [A]_vars
  BY <1>1
<1> QED
  BY <1>2, InvAlways, PTL DEF Spec, LossNeedsOverlap

-----------------------------------------------------------------------------
(* One process at a time.                                                  *)
(*                                                                         *)
(* What the run has read is then still the log when it is put back, the    *)
(* temporary file is the run's own, and what the guard saw is still so     *)
(* when the entry is appended.                                             *)
Unique(l) ==
  \A i, j \in DOMAIN l : ~l[i].resolved /\ ~l[j].resolved /\ l[i].key = l[j].key => i = j

Lone(q) ==
  /\ pc[q] \in {"open", "write", "replace"} => text[q] = log
  /\ pc[q] = "write" => file[q] = "tmp" /\ tmp = <<>>
  /\ pc[q] = "replace" => tmp = Rewritten(log, updates[q])
  /\ pc[q] \in {"open log", "append"} => key[q] \notin PendingKeys(log)
  /\ pc[q] = "append" => file[q] = "log"
  /\ pc[q] = "clear" => key[q] \in PendingKeys(log)
  /\ Unique(log) /\ Sound(log, stores)

LEMMA RewrittenUnique ==
  ASSUME NEW l \in Seq(Blocks), Unique(l), NEW K PROVE Unique(Rewritten(l, K))
<1> DEFINE r == Rewritten(l, K)
<1>1. r \in Seq(Blocks)
  BY RewrittenFacts
<1>2. PICK S : Made(l, r, S)
  BY RewrittenFacts
<1> HIDE DEF r
<1>3. ASSUME NEW m \in DOMAIN r, NEW n \in DOMAIN r,
             ~r[m].resolved, ~r[n].resolved, r[m].key = r[n].key
      PROVE  m = n
  <2> DEFINE i == Position(S, m)
             j == Position(S, n)
  <2>1. /\ i \in DOMAIN l /\ j \in DOMAIN l /\ ~l[i].resolved /\ ~l[j].resolved
        /\ l[i].key = l[j].key
    BY <1>2, <1>3 DEF Made
  <2>2. i = j /\ i \in Int /\ m \in Int /\ n \in Int
    BY <1>1, <2>1, EntryFacts DEF Unique
  <2>3. ~(m < n) /\ ~(n < m)
    <3>1. (m < n => i < j) /\ (n < m => j < i)
      BY <1>2 DEF Made
    <3> HIDE DEF i, j
    <3> QED
      BY <2>2, <3>1
  <2> QED
    BY <2>2, <2>3
<1> QED
  BY <1>3 DEF r, Unique

LEMMA StoredUnique ==
  ASSUME NEW l \in Seq(Blocks), Unique(l), NEW k \in Keys, NEW n \in Nat,
         NEW z \in Nat \ {0}, k \notin PendingKeys(l)
  PROVE  /\ Unique(Stored(l, k, n, z))
         /\ k \in PendingKeys(Stored(l, k, n, z))
<1> DEFINE s == Stored(l, k, n, z)
<1>1. /\ s \in Seq(Blocks) /\ DOMAIN s = 1..(Len(l) + 1)
      /\ \A i \in DOMAIN l : s[i] = l[i]
      /\ s[Len(l) + 1] = [key |-> k, resolved |-> FALSE, number |-> n, size |-> z]
      /\ \A i \in DOMAIN s : i \in DOMAIN l \/ i = Len(l) + 1
      /\ Len(l) \in Nat
  BY StoredFacts, EntryFacts
<1> HIDE DEF s
<1>2. s[Len(l) + 1].key = k /\ ~s[Len(l) + 1].resolved /\ Len(l) + 1 \in DOMAIN s
  BY <1>1
<1>3. \A i \in DOMAIN l : ~l[i].resolved => l[i].key # k
  BY SetFacts
<1>4. Unique(s)
  BY <1>1, <1>2, <1>3 DEF Unique
<1>5. k \in PendingKeys(s)
  BY <1>1, <1>2, SetFacts
<1> QED
  BY <1>4, <1>5 DEF s

LEMMA LoneInit ==
  ASSUME NEW q, Processes = {q}, Init PROVE Lone(q)
<1>1. pc[q] = "idle" /\ log = <<>>
  BY DEF Init
<1>2. DOMAIN <<>> = {}
  BY EmptySeq
<1>3. Sound(log, stores)
  BY <1>1, EmptySound
<1> QED
  BY <1>1, <1>2, <1>3 DEF Lone, Unique

LEMMA LoneStep ==
  ASSUME NEW q, Processes = {q}, Inv, Lone(q), Step(q) \/ Crash(q)
  PROVE  Lone(q)'
<1>0. /\ TypeOK /\ KeyKnown /\ q \in Processes /\ log \in Seq(Blocks) /\ stores \in Nat
      /\ Unique(log) /\ Sound(log, stores)
  BY DEF Inv, TypeOK, Lone
<1>1. CASE Start(q) \/ ReadPending(q)
  <2>1. log' = log /\ stores' = stores /\ pc'[q] \in {"pending", "graph", "read"}
    BY <1>0, <1>1 DEF Start, ReadPending, Goto, files, TypeOK
  <2> QED
    BY <1>0, <2>1 DEF Lone
<1>2. CASE ReadLog(q)
  <2>1. log' = log /\ stores' = stores /\ pc'[q] = "open" /\ text'[q] = log
    BY <1>0, <1>2 DEF ReadLog, Goto, files, TypeOK
  <2> QED
    BY <1>0, <2>1 DEF Lone
<1>3. CASE OpenTmp(q)
  <2>1. /\ log' = log /\ stores' = stores /\ pc'[q] = "write" /\ text' = text
        /\ tmp' = <<>> /\ file'[q] = "tmp" /\ text[q] = log
    BY <1>0, <1>3 DEF OpenTmp, Goto, TypeOK, Lone
  <2> QED
    BY <1>0, <2>1 DEF Lone
<1>4. CASE WriteTmp(q)
  <2>1. text[q] = log /\ file[q] = "tmp" /\ tmp = <<>>
    BY <1>4 DEF WriteTmp, Lone
  <2>2. tmp' = Overlaid(Rewritten(log, updates[q]), <<>>)
    BY <1>4, <2>1 DEF WriteTmp
  <2>3. tmp' = Rewritten(log, updates[q])
    <3>1. Rewritten(log, updates[q]) \in Seq(Blocks) /\ <<>> \in Seq(Blocks)
      BY <1>0, RewrittenFacts, EmptySeq
    <3> QED
      BY <2>2, <3>1, OverlaidFacts
  <2>4. /\ log' = log /\ stores' = stores /\ updates' = updates /\ text' = text
        /\ pc'[q] = "replace"
    BY <1>0, <1>4, <2>1 DEF WriteTmp, Goto, TypeOK
  <2> QED
    BY <1>0, <2>1, <2>3, <2>4 DEF Lone
<1>5. CASE Replace(q)
  <2>1. log' = Rewritten(log, updates[q]) /\ pc'[q] = "graph" /\ stores' = stores
    BY <1>0, <1>5 DEF Replace, Goto, TypeOK, Lone
  <2>2. Unique(log') /\ Sound(log', stores')
    BY <1>0, <2>1, RewrittenUnique, RewrittenSound
  <2> QED
    BY <2>1, <2>2 DEF Lone
<1>6. CASE ReplaceFails(q) \/ ClearCheckpoint(q) \/ Crash(q) \/ RunGraph(q)
  <2>1. log' = log /\ stores' = stores /\ pc'[q] \in {"idle", "check"}
    BY <1>0, <1>6 DEF ReplaceFails, ClearCheckpoint, Crash, RunGraph, End, Goto, files, TypeOK
  <2> QED
    BY <1>0, <2>1 DEF Lone
<1>7. CASE CheckPending(q)
  <2>1. /\ log' = log /\ stores' = stores /\ key' = key
        /\ pc'[q] = IF key[q] \in PendingKeys(log) THEN "clear" ELSE "open log"
    BY <1>0, <1>7 DEF CheckPending, Goto, files, TypeOK, IsPending
  <2> QED
    BY <1>0, <2>1 DEF Lone
<1>8. CASE OpenLog(q)
  <2>1. /\ log' = log /\ stores' = stores /\ key' = key
        /\ pc'[q] = "append" /\ file'[q] = "log" /\ key[q] \notin PendingKeys(log)
    BY <1>0, <1>8 DEF OpenLog, Goto, files, TypeOK, Lone
  <2> QED
    BY <1>0, <2>1 DEF Lone
<1>9. CASE AppendEntry(q)
  <2>1. file[q] = "log" /\ key[q] \notin PendingKeys(log)
    BY <1>9 DEF AppendEntry, Lone
  <2>2. PICK z \in Sizes : log' = Stored(log, key[q], stores + 1, z)
    BY <1>9, <2>1 DEF AppendEntry
  <2>3. /\ z \in Nat \ {0} /\ key[q] \in Keys /\ stores + 1 \in Nat /\ key' = key
        /\ stores' = stores + 1 /\ pc'[q] = "clear"
    BY <1>0, <1>9, LogAssumption DEF AppendEntry, Goto, TypeOK, KeyKnown
  <2>4. Unique(log') /\ key[q] \in PendingKeys(log')
    BY <1>0, <2>1, <2>2, <2>3, StoredUnique
  <2>5. Sound(log', stores')
    <3>1. stores < stores + 1
      BY <1>0
    <3> QED
      BY <1>0, <2>2, <2>3, <3>1, StoredSound
  <2> QED
    BY <2>3, <2>4, <2>5 DEF Lone
<1> QED
  BY <1>1, <1>2, <1>3, <1>4, <1>5, <1>6, <1>7, <1>8, <1>9 DEF Step

LEMMA LoneAlways ==
  ASSUME NEW q, Processes = {q} PROVE Spec => [](Inv /\ Lone(q))
<1>1. Init => Inv /\ Lone(q)
  BY InvInit, LoneInit
<1>2. Inv /\ Lone(q) /\ [Next]_vars => (Inv /\ Lone(q))'
  <2>1. ASSUME Inv, Lone(q), Next PROVE Lone(q)'
    BY <2>1, LoneStep DEF Next
  <2>2. ASSUME Lone(q), UNCHANGED vars PROVE Lone(q)'
    BY <2>2 DEF vars, files, Lone
  <2> QED
    BY <2>1, <2>2, InvStep
<1> QED
  BY <1>1, <1>2, PTL DEF Spec

(* What a step of the only process leaves out of the log: nothing, unless  *)
(* it puts back what it has rewritten.                                     *)
LEMMA OnlyReplaceDrops ==
  ASSUME NEW q, Processes = {q}, Inv, Lone(q), Next,
         NEW e \in ToSet(log), e.number \notin Numbers(log')
  PROVE  /\ pc[q] = "replace" /\ log \in Seq(Blocks)
         /\ log' = Rewritten(log, updates[q])
<1>1. q \in Processes /\ log \in Seq(Blocks) /\ (Step(q) \/ Crash(q))
  BY DEF Inv, TypeOK, Next
<1>2. Replace(q) \/ (WriteTmp(q) /\ file[q] = "log")
  BY <1>1, OnlyTextsDrop
<1>3. WriteTmp(q) => file[q] = "tmp"
  BY DEF WriteTmp, Lone
<1> QED
  BY <1>1, <1>2, <1>3 DEF Replace, Lone

(* The log of one process at a time stays in the order of the stores, each *)
(* once, through every crash and whatever a dead run has left in the       *)
(* temporary file.                                                         *)
THEOREM StoreOrderKept ==
  ASSUME NEW q, Processes = {q} PROVE Spec => []StoreOrder
<1>1. Lone(q) => StoreOrder
  BY DEF Lone, Sound, Ordered, StoreOrder
<1> QED
  BY <1>1, LoneAlways, PTL

(* And it never has more resolved entries than configured.                 *)
THEOREM LimitKept ==
  ASSUME NEW q, Processes = {q} PROVE Spec => []ResolvedWithinLimit
<1>1. Lone(q) => ResolvedWithinLimit
  BY DEF Lone, Sound, Within, ResolvedWithinLimit
<1> QED
  BY <1>1, LoneAlways, PTL

(* No crash and no repeated run leaves two pending decisions for one       *)
(* ticker and date, as long as one process runs at a time.                 *)
THEOREM OnePendingKept ==
  ASSUME NEW q, Processes = {q} PROVE Spec => []OnePendingPerKey
<1>1. Lone(q) => OnePendingPerKey
  BY DEF Lone, Unique, OnePendingPerKey
<1> QED
  BY <1>1, LoneAlways, PTL

(* A pending decision leaves the log only when the run is writing an       *)
(* outcome for its ticker and date, whatever crashes in between.           *)
THEOREM PendingNeverLost ==
  ASSUME NEW q, Processes = {q} PROVE Spec => PendingKept
<1> DEFINE A == \A e \in ToSet(log) :
                  ~e.resolved /\ e.number \notin Numbers(log') =>
                    \E p \in Processes : pc[p] = "replace" /\ e.key \in updates[p]
<1>1. ASSUME Inv, Lone(q), Next PROVE A
  <2> SUFFICES ASSUME NEW e \in ToSet(log), ~e.resolved, e.number \notin Numbers(log')
               PROVE  pc[q] = "replace" /\ e.key \in updates[q]
    OBVIOUS
  <2>1. /\ pc[q] = "replace" /\ log \in Seq(Blocks)
        /\ log' = Rewritten(log, updates[q])
    BY <1>1, OnlyReplaceDrops
  <2> QED
    BY <2>1, PendingRewritten
<1>2. Inv /\ Lone(q) /\ [Next]_vars => [A]_vars
  BY <1>1
<1> QED
  BY <1>2, LoneAlways, PTL DEF Spec, PendingKept

(* Rotation takes the oldest of the resolved entries and as few of them as *)
(* the limit asks for.                                                     *)
THEOREM OldestFirst ==
  ASSUME NEW q, Processes = {q} PROVE Spec => OldestDroppedFirst
<1> DEFINE A == \A e \in ToSet(log) :
                  e.number \notin Numbers(log') =>
                    /\ ResolvedCount(log') = MaxEntries
                    /\ \A f \in ToSet(log') : f.resolved => f.number > e.number
<1>1. ASSUME Inv, Lone(q), Next PROVE A
  <2> SUFFICES ASSUME NEW e \in ToSet(log), e.number \notin Numbers(log')
               PROVE  /\ ResolvedCount(log') = MaxEntries
                      /\ \A f \in ToSet(log') : f.resolved => f.number > e.number
    OBVIOUS
  <2>1. log \in Seq(Blocks) /\ log' = Rewritten(log, updates[q]) /\ Ordered(log)
    BY <1>1, OnlyReplaceDrops DEF Lone, Sound
  <2>2. log' \in Seq(Blocks)
    BY <2>1, RewrittenFacts
  <2>3. PICK S \in SUBSET (DOMAIN log) :
          /\ Made(log, log', S)
          /\ \A i \in DOMAIN log \ S :
               /\ ResolvedCount(log') = MaxEntries
               /\ \A n \in DOMAIN log' : log'[n].resolved => i < Position(S, n)
    BY <2>1, RewrittenFacts
  <2>4. PICK i \in DOMAIN log : log[i] = e
    BY <2>1, SetFacts
  <2>5. i \notin S
    BY <2>2, <2>3, <2>4, MadeNumbers
  <2>6. ASSUME NEW f \in ToSet(log'), f.resolved PROVE f.number > e.number
    <3>1. PICK n \in DOMAIN log' : log'[n] = f
      BY <2>2, SetFacts
    <3>2. i < Position(S, n) /\ Position(S, n) \in DOMAIN log
      BY <2>3, <2>4, <2>5, <2>6, <3>1 DEF Made
    <3>3. f.number = log[Position(S, n)].number
      BY <2>3, <3>1 DEF Made
    <3>4. e.number < f.number
      BY <2>1, <2>4, <3>2, <3>3 DEF Ordered
    <3>5. e.number \in Nat /\ f.number \in Nat
      BY <2>1, <2>2, <2>4, <3>1, EntryFacts
    <3> QED
      BY <3>4, <3>5
  <2> QED
    BY <2>3, <2>4, <2>5, <2>6
<1>2. Inv /\ Lone(q) /\ [Next]_vars => [A]_vars
  BY <1>1
<1> QED
  BY <1>2, LoneAlways, PTL DEF Spec, OldestDroppedFirst

(* A crash never loses the work of a run: its checkpoint is removed only   *)
(* when its decision is in the log.                                        *)
THEOREM ClearedLast ==
  ASSUME NEW q, Processes = {q} PROVE Spec => CheckpointClearedLast
<1> DEFINE A == checkpoints \ checkpoints' \subseteq PendingKeys(log)
<1>1. ASSUME Inv, Lone(q), Next PROVE A
  <2>1. q \in Processes /\ (Step(q) \/ Crash(q))
    BY <1>1 DEF Next
  <2>2. CASE ClearCheckpoint(q)
    <3>1. checkpoints \ checkpoints' \subseteq {key[q]} /\ pc[q] = "clear"
      BY <2>2 DEF ClearCheckpoint
    <3> QED
      BY <1>1, <3>1 DEF Lone
  <2>3. CASE ~ClearCheckpoint(q)
    BY <2>1, <2>3 DEF Step, Start, ReadPending, ReadLog, OpenTmp, WriteTmp, Replace,
       ReplaceFails, RunGraph, CheckPending, OpenLog, AppendEntry, Crash, files
  <2> QED
    BY <2>2, <2>3
<1>2. Inv /\ Lone(q) /\ [Next]_vars => [A]_vars
  BY <1>1
<1> QED
  BY <1>2, LoneAlways, PTL DEF Spec, CheckpointClearedLast
=============================================================================
