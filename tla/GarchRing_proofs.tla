-------------------------- MODULE GarchRing_proofs --------------------------
(***************************************************************************)
(* Theorems about GarchRing, for every buffer of at least two slots, every *)
(* set of prices and every table of returns.                               *)
(***************************************************************************)
EXTENDS GarchRing, SequenceTheorems, TLAPS

(* Until the buffer is full it has been filled from the front. *)
Filling == count < N => pos = count

IInv ==
  /\ TypeOK
  /\ IndexInBounds
  /\ Filling
  /\ prev_sigma_sq = sigma_sq
  /\ VarianceBounded

-----------------------------------------------------------------------------
(* The only sums that are ever wrapped are below twice the buffer's size.  *)
LEMMA Wrap ==
  ASSUME NEW x \in 0 .. 2 * N - 1
  PROVE  x % N = IF x < N THEN x ELSE x - N
<1>1. N \in Nat \ {0}
  BY PriceAssumption
<1>2. CASE x < N
  BY <1>1, <1>2
<1>3. CASE x >= N
  BY <1>1, <1>3
<1>. QED
  BY <1>1, <1>2, <1>3

(* A return never exceeds the bound of the table. *)
LEMMA SqReturnType ==
  ASSUME NEW p \in Prices \cup {0}, NEW q \in Prices
  PROVE  SqReturn(p, q) \in 0 .. MaxSquaredReturn
<1>1. CASE p > 0 /\ q > 0
  <2>1. p \in Valid /\ q \in Valid
    BY <1>1 DEF Valid
  <2>2. SquaredReturn[p] \in [Valid -> 0 .. MaxSquaredReturn]
    BY <2>1, PriceAssumption
  <2>. QED
    BY <1>1, <2>1, <2>2 DEF SqReturn
<1>2. CASE ~(p > 0 /\ q > 0)
  BY <1>2, PriceAssumption DEF SqReturn
<1>. QED
  BY <1>1, <1>2

(* The rule maps the band of variances into itself: this is where          *)
(* alpha + beta < 1 is needed.                                             *)
LEMMA GarchBand ==
  ASSUME NEW v \in Nat, NEW r \in 0 .. MaxSquaredReturn, v <= Ceiling
  PROVE  Garch(v, r) \in Nat /\ Omega <= Garch(v, r) /\ Garch(v, r) <= Ceiling
<1>. MaxSquaredReturn \in Nat
  BY PriceAssumption
<1>1. 15 * Ceiling >= 100 + 10 * MaxSquaredReturn
  BY DEF Ceiling, LongRun, Alpha, Beta
<1>2. Ceiling \in Nat
  BY DEF Ceiling, LongRun, Alpha, Beta
<1>3. 10 * r + 85 * v <= 100 * (Ceiling - 1)
  BY <1>1, <1>2
<1>4. (10 * r + 85 * v) \div 100 \in Nat /\ (10 * r + 85 * v) \div 100 <= Ceiling - 1
  BY <1>2, <1>3
<1>. QED
  BY <1>2, <1>4 DEF Garch, Omega, Alpha, Beta

-----------------------------------------------------------------------------
LEMMA InitIInv == Init => IInv
<1>. SUFFICES ASSUME Init PROVE IInv
  OBVIOUS
<1>1. TypeOK /\ IndexInBounds /\ Filling
  BY PriceAssumption DEF Init, TypeOK, IndexInBounds, Filling, Slots, LongRun
<1>2. prev_sigma_sq = sigma_sq
  BY DEF Init
<1>3. VarianceBounded
  BY PriceAssumption DEF Init, VarianceBounded, Omega, LongRun, Ceiling, Alpha, Beta
<1>. QED
  BY <1>1, <1>2, <1>3 DEF IInv

LEMMA FirstIInv ==
  ASSUME N >= 2, IInv, NEW price \in Prices, NEW ts \in Times, First(price, ts)
  PROVE  IInv'
<1>1. TypeOK' /\ IndexInBounds' /\ Filling'
  BY PriceAssumption DEF IInv, First, TypeOK, IndexInBounds, Filling, Slots
<1>2. VarianceBounded' /\ prev_sigma_sq' = sigma_sq'
  BY DEF IInv, First, VarianceBounded
<1>. QED
  BY <1>1, <1>2 DEF IInv

LEMMA LaterIInv ==
  ASSUME N >= 2, IInv, NEW price \in Prices, NEW ts \in Times, Later(price, ts)
  PROVE  IInv'
<1>1. pos \in 0 .. N - 1 /\ count \in 1 .. N /\ N \in Nat
  BY PriceAssumption DEF IInv, TypeOK, IndexInBounds, Slots, Later, Store
<1>2. pos' = IF pos + 1 < N THEN pos + 1 ELSE 0
  BY <1>1, Wrap DEF Later, Store
<1>3. count' = IF count < N THEN count + 1 ELSE N
  BY <1>1 DEF Later, Store, AtMost
<1>4. pos' \in Slots /\ Filling'
  BY <1>1, <1>2, <1>3 DEF IInv, Filling, Slots
<1>5. Previous \in Prices \cup {0}
  BY <1>1, Wrap DEF Previous, IInv, TypeOK, Slots
<1>6. sigma_sq' \in Nat /\ prev_sigma_sq' = sigma_sq' /\ VarianceBounded'
  <2>1. sigma_sq' = Garch(sigma_sq, SqReturn(Previous, price)) /\ prev_sigma_sq' = sigma_sq'
    BY DEF IInv, Later, Store, Updated
  <2>. QED
    BY <2>1, <1>5, SqReturnType, GarchBand DEF IInv, TypeOK, VarianceBounded, Ceiling
<1>7. TypeOK'
  BY <1>1, <1>3, <1>4, <1>6 DEF IInv, TypeOK, Later, Store, Slots
<1>. QED
  BY <1>4, <1>6, <1>7 DEF IInv, IndexInBounds

LEMMA ResetIInv ==
  ASSUME IInv, Reset
  PROVE  IInv'
<1>1. TypeOK' /\ IndexInBounds' /\ Filling'
  BY PriceAssumption DEF Reset, TypeOK, IndexInBounds, Filling, Slots, LongRun
<1>2. prev_sigma_sq' = sigma_sq' /\ VarianceBounded'
  BY PriceAssumption DEF Reset, VarianceBounded, Omega, LongRun, Ceiling, Alpha, Beta
<1>. QED
  BY <1>1, <1>2 DEF IInv

LEMMA NextIInv == N >= 2 /\ IInv /\ [Next]_vars => IInv'
<1>. SUFFICES ASSUME N >= 2, IInv, [Next]_vars PROVE IInv'
  OBVIOUS
<1>1. CASE UNCHANGED vars
  BY <1>1 DEF vars, IInv, TypeOK, IndexInBounds, Filling, VarianceBounded
<1>. QED
  BY <1>1, FirstIInv, LaterIInv, ResetIInv DEF Next

LEMMA Inductive == N >= 2 => (Spec => []IInv)
<1>. SUFFICES ASSUME N >= 2 PROVE Spec => []IInv
  OBVIOUS
<1>1. IInv /\ [Next]_vars => IInv'
  BY NextIInv
<1>. QED
  BY InitIInv, <1>1, PTL DEF Spec

(* Every variable keeps its type. *)
THEOREM TypeCorrect == N >= 2 => (Spec => []TypeOK)
<1>1. IInv => TypeOK
  BY DEF IInv
<1>. QED
  BY <1>1, Inductive, PTL

(* No update of a buffer with two slots or more is out of bounds. *)
THEOREM NeverOutOfBounds == N >= 2 => (Spec => []IndexInBounds)
<1>1. IInv => IndexInBounds
  BY DEF IInv
<1>. QED
  BY <1>1, Inductive, PTL

(* The variance stays in its band for ever, whatever prices come. *)
THEOREM VarianceStaysBounded == N >= 2 => (Spec => []VarianceBounded)
<1>1. IInv => VarianceBounded
  BY DEF IInv
<1>. QED
  BY <1>1, Inductive, PTL

-----------------------------------------------------------------------------
(* A buffer that holds c prices and is to be written at p next. *)
Buffers == [Slots -> Prices \cup {0}]
Writable(p, c) == p \in Slots /\ c \in 0 .. N /\ (c < N => p = c)

(* Where the k-th oldest of the prices is. *)
LEMMA SlotValue ==
  ASSUME NEW p, NEW c, Writable(p, c), NEW k \in 1 .. c
  PROVE  /\ At(p, c, k) \in Slots
         /\ c < N => At(p, c, k) = k - 1
         /\ c = N => At(p, c, k) = IF p + k - 1 < N THEN p + k - 1 ELSE p + k - 1 - N
<1>1. N \in Nat \ {0} /\ p \in 0 .. N - 1 /\ c \in 0 .. N
  BY PriceAssumption DEF Writable, Slots
<1>2. p + N - c + k - 1 \in 0 .. 2 * N - 1
  BY <1>1 DEF Writable
<1>. QED
  BY <1>1, <1>2, Wrap DEF Writable, Slots, At

LEMMA ReadIsSeq ==
  ASSUME NEW ring \in Buffers, NEW p, NEW c, Writable(p, c)
  PROVE  /\ Read(ring, p, c) \in Seq(Prices \cup {0})
         /\ Len(Read(ring, p, c)) = c
         /\ \A k \in 1 .. c : Read(ring, p, c)[k] = ring[At(p, c, k)]
<1>1. N \in Nat /\ c \in Nat
  BY PriceAssumption DEF Writable
<1>2. \A k \in 1 .. c : ring[At(p, c, k)] \in Prices \cup {0}
  BY SlotValue DEF Buffers
<1>. QED
  BY <1>1, <1>2 DEF Read

(* The newest price is behind the write position. *)
LEMMA NewestIsPrevious ==
  ASSUME NEW ring \in Buffers, NEW p, NEW c, Writable(p, c), c # 0
  PROVE  Window!Newest(Read(ring, p, c)) = ring[(p + N - 1) % N]
<1>1. c \in 1 .. c /\ c \in Nat /\ p \in Int /\ N \in Int
  BY PriceAssumption DEF Writable, Slots
<1>2. p + N - c + c - 1 = p + N - 1
  BY <1>1
<1>3. At(p, c, c) = (p + N - 1) % N
  BY <1>2, Zenon DEF At
<1>4. Window!Newest(Read(ring, p, c)) = ring[At(p, c, c)]
  BY <1>1, ReadIsSeq DEF Window!Newest
<1>. QED
  BY <1>3, <1>4

(* Writing a price at p slides the window. *)
LEMMA WriteSlides ==
  ASSUME NEW ring \in Buffers, NEW p, NEW c, Writable(p, c),
         NEW new \in Buffers,  NEW q, NEW d, Writable(q, d),
         NEW price \in Prices,
         new[p] = price,
         \A s \in Slots : s # p => new[s] = ring[s],
         q = IF p + 1 < N THEN p + 1 ELSE 0,
         d = IF c < N THEN c + 1 ELSE N
  PROVE  Read(new, q, d) = Window!Slide(Read(ring, p, c), price)
<1>. DEFINE old == Read(ring, p, c)
            fresh == Read(new, q, d)
            S == Prices \cup {0}
<1>1. N \in Nat /\ p \in 0 .. N - 1 /\ c \in 0 .. N /\ (c < N => p = c)
  BY PriceAssumption DEF Writable, Slots
<1>2. q = IF p + 1 < N THEN p + 1 ELSE 0
  OBVIOUS
<1>3. d = IF c < N THEN c + 1 ELSE N
  OBVIOUS
<1>4. Writable(q, d)
  OBVIOUS
<1>5. new[p] = price /\ \A s \in Slots : s # p => new[s] = ring[s]
  OBVIOUS
<1>6. /\ fresh \in Seq(S)
      /\ Len(fresh) = d
      /\ \A k \in 1 .. d : fresh[k] = new[At(q, d, k)]
  BY ReadIsSeq
<1>7. /\ old \in Seq(S)
      /\ Len(old) = c
      /\ \A k \in 1 .. c : old[k] = ring[At(p, c, k)]
  BY ReadIsSeq
<1>. HIDE DEF old, fresh
<1>8. CASE c < N
  <2>1. \A k \in 1 .. d : At(q, d, k) = k - 1
    <3>. SUFFICES ASSUME NEW k \in 1 .. d PROVE At(q, d, k) = k - 1
      OBVIOUS
    <3>1. CASE d < N
      BY <1>4, <3>1, SlotValue
    <3>2. CASE d = N
      <4>1. q = 0
        BY <1>1, <1>2, <1>3, <1>8, <3>2
      <4>2. 0 + k - 1 < N
        BY <1>1, <3>2
      <4>. QED
        BY <1>1, <1>4, <3>2, <4>1, <4>2, SlotValue
    <3>. QED
      BY <1>1, <1>3, <3>1, <3>2
  <2>2. \A k \in 1 .. c : At(p, c, k) = k - 1
    BY <1>8, SlotValue
  <2>3. Window!Slide(old, price) = Append(old, price)
    BY <1>7, <1>8 DEF Window!Slide
  <2>4. /\ Append(old, price) \in Seq(S)
        /\ Len(Append(old, price)) = d
        /\ \A k \in 1 .. d : Append(old, price)[k] = IF k = d THEN price ELSE old[k]
    BY <1>1, <1>3, <1>7, <1>8
  <2>5. ASSUME NEW k \in 1 .. d PROVE fresh[k] = Append(old, price)[k]
    <3>1. fresh[k] = new[k - 1]
      BY <1>6, <2>1
    <3>2. CASE k = d
      BY <1>1, <1>3, <1>5, <1>8, <2>4, <3>1, <3>2
    <3>3. CASE k # d
      <4>1. k \in 1 .. c /\ k - 1 \in Slots /\ k - 1 # p
        BY <1>1, <1>3, <1>8, <3>3 DEF Slots
      <4>2. fresh[k] = ring[k - 1]
        BY <1>5, <3>1, <4>1
      <4>. QED
        BY <1>7, <2>2, <2>4, <3>3, <4>1, <4>2
    <3>. QED
      BY <3>2, <3>3
  <2>6. fresh = Append(old, price)
    BY <1>6, <2>4, <2>5, SeqEqual
  <2>. QED
    BY <2>3, <2>6 DEF old, fresh
<1>9. CASE c = N
  <2>1. d = N
    BY <1>1, <1>3, <1>9
  <2>2. \A k \in 1 .. N : At(p, c, k) = IF p + k - 1 < N THEN p + k - 1 ELSE p + k - 1 - N
    BY <1>9, SlotValue
  <2>3. \A k \in 1 .. N : At(q, d, k) = IF q + k - 1 < N THEN q + k - 1 ELSE q + k - 1 - N
    BY <1>4, <2>1, SlotValue
  <2>4. Window!Slide(old, price) = Append(Tail(old), price)
    BY <1>7, <1>9 DEF Window!Slide
  <2>5. /\ Tail(old) \in Seq(S)
        /\ Len(Tail(old)) = N - 1
        /\ \A k \in 1 .. N - 1 : Tail(old)[k] = old[k + 1]
    BY <1>1, <1>7, <1>9, HeadTailProperties
  <2>6. /\ Append(Tail(old), price) \in Seq(S)
        /\ Len(Append(Tail(old), price)) = N
        /\ \A k \in 1 .. N : Append(Tail(old), price)[k] = IF k = N THEN price ELSE old[k + 1]
    BY <1>1, <2>5
  <2>7. ASSUME NEW k \in 1 .. N PROVE fresh[k] = Append(Tail(old), price)[k]
    <3>1. fresh[k] = new[At(q, d, k)]
      BY <1>6, <2>1
    <3>2. CASE k = N
      <4>1. At(q, d, k) = p
        BY <1>1, <1>2, <2>3, <3>2
      <4>. QED
        BY <1>5, <2>6, <3>1, <3>2, <4>1
    <3>3. CASE k # N
      <4>1. k + 1 \in 1 .. N
        BY <1>1, <3>3
      <4>2. At(q, d, k) = At(p, c, k + 1) /\ At(q, d, k) # p /\ At(q, d, k) \in Slots
        <5>1. At(p, c, k + 1) = IF p + k < N THEN p + k ELSE p + k - N
          BY <1>1, <2>2, <3>3, <4>1
        <5>2. At(q, d, k) = IF q + k - 1 < N THEN q + k - 1 ELSE q + k - 1 - N
          BY <2>3
        <5>. HIDE <2>2, <2>3
        <5>. QED
          BY <1>1, <1>2, <3>3, <5>1, <5>2 DEF Slots
      <4>3. fresh[k] = ring[At(p, c, k + 1)]
        BY <1>5, <3>1, <4>2
      <4>. QED
        BY <1>7, <1>9, <2>6, <3>3, <4>1, <4>3
    <3>. QED
      BY <3>2, <3>3
  <2>8. fresh = Append(Tail(old), price)
    BY <1>6, <2>1, <2>6, <2>7, SeqEqual
  <2>. QED
    BY <2>4, <2>8 DEF old, fresh
<1>. QED
  BY <1>1, <1>8, <1>9

-----------------------------------------------------------------------------
LEMMA InitRefines == Init => Window!Init
<1>. SUFFICES ASSUME Init PROVE Window!Init
  OBVIOUS
<1>1. Held = <<>>
  BY DEF Init, Held, Read
<1>. QED
  BY <1>1 DEF Init, Window!Init, LongRun, Window!LongRun

LEMMA ResetRefines ==
  ASSUME Reset
  PROVE  Window!Reset
<1>1. Held' = <<>>
  BY DEF Reset, Held, Read
<1>. QED
  BY <1>1 DEF Reset, Window!Reset, LongRun, Window!LongRun

(* What the inductive invariant says of the buffer. *)
LEMMA WritableNow ==
  ASSUME IInv
  PROVE  returns \in Buffers /\ Writable(pos, count)
BY DEF IInv, TypeOK, IndexInBounds, Filling, Buffers, Writable

(* What a step that stores a price at pos changes, slot by slot. *)
Stored(price) ==
  /\ returns'[pos] = price
  /\ \A s \in Slots : s # pos => returns'[s] = returns[s]
  /\ pos' = IF pos + 1 < N THEN pos + 1 ELSE 0
  /\ count' = IF count < N THEN count + 1 ELSE N

LEMMA StoreStores ==
  ASSUME IInv, NEW price \in Prices,
         returns' = [returns EXCEPT ![pos] = price],
         pos' = (pos + 1) % N, count' = AtMost(count + 1)
  PROVE  Stored(price)
<1>1. N \in Nat /\ pos \in 0 .. N - 1 /\ count \in 0 .. N
  BY PriceAssumption DEF IInv, IndexInBounds, TypeOK, Slots
<1>2. returns'[pos] = price /\ \A s \in Slots : s # pos => returns'[s] = returns[s]
  BY <1>1 DEF IInv, TypeOK, Slots
<1>3. pos' = IF pos + 1 < N THEN pos + 1 ELSE 0
  BY <1>1, Wrap
<1>4. count' = IF count < N THEN count + 1 ELSE N
  BY <1>1 DEF AtMost
<1>. QED
  BY <1>2, <1>3, <1>4 DEF Stored

(* Such a step slides the window of the prices held. *)
LEMMA StoreSlides ==
  ASSUME IInv, IInv', NEW price \in Prices, Stored(price)
  PROVE  Held' = Window!Slide(Held, price)
<1>1. returns \in Buffers /\ Writable(pos, count)
  BY WritableNow
<1>2. returns' \in Buffers /\ Writable(pos', count')
  BY DEF IInv, TypeOK, IndexInBounds, Filling, Buffers, Writable
<1>3. Read(returns', pos', count') = Window!Slide(Read(returns, pos, count), price)
  BY <1>1, <1>2, WriteSlides DEF Stored
<1>. QED
  BY <1>3 DEF Held

LEMMA FirstRefines ==
  ASSUME N >= 2, IInv, NEW price \in Prices, NEW ts \in Times, First(price, ts)
  PROVE  Window!Observe(price)
<1>1. N \in Nat
  BY PriceAssumption
<1>2. pos = 0 /\ count = 0
  BY <1>1 DEF IInv, Filling, First
<1>3. pos' = (pos + 1) % N /\ count' = AtMost(count + 1) /\ returns' = [returns EXCEPT ![pos] = price]
  <2>1. 1 % N = 1
    BY <1>1, Wrap
  <2>. QED
    BY <1>1, <1>2, <2>1 DEF First, AtMost
<1>4. Held' = Window!Slide(Held, price)
  BY <1>3, StoreStores, StoreSlides, FirstIInv
<1>5. Held = <<>>
  BY <1>2 DEF Held, Read
<1>. QED
  BY <1>4, <1>5 DEF Window!Observe, First

LEMMA LaterRefines ==
  ASSUME N >= 2, IInv, NEW price \in Prices, NEW ts \in Times, Later(price, ts)
  PROVE  Window!Observe(price)
<1>1. pos' = (pos + 1) % N /\ count' = AtMost(count + 1) /\ returns' = [returns EXCEPT ![pos] = price]
  BY DEF Later, Store
<1>2. Held' = Window!Slide(Held, price)
  BY <1>1, StoreStores, StoreSlides, LaterIInv
<1>3. count # 0 /\ count \in Nat
  BY DEF Later, Store, IInv, TypeOK
<1>4. Held # <<>>
  BY <1>3, ReadIsSeq, WritableNow DEF Held
<1>5. Window!Newest(Held) = Previous
  BY <1>3, NewestIsPrevious, WritableNow DEF Held, Previous
<1>6. sigma_sq' = Window!Garch(sigma_sq, Window!SqReturn(Previous, price))
  BY DEF IInv, Later, Store, Updated, Garch, SqReturn, Window!Garch, Window!SqReturn,
         Omega, Alpha, Beta, Window!Omega, Window!Alpha, Window!Beta
<1>. QED
  BY <1>2, <1>4, <1>5, <1>6 DEF Window!Observe

(* A buffer of two slots or more implements the window of the last N       *)
(* prices: the start maps to its start, every update to an observation of  *)
(* the same price and a reset to a reset.                                  *)
THEOREM RingRefinesWindow == N >= 2 => (Spec => ImplementsPriceWindow)
<1>. SUFFICES ASSUME N >= 2 PROVE Spec => Window!Spec
  BY DEF ImplementsPriceWindow
<1>1. IInv /\ [Next]_vars => [Window!Next]_<<Held, sigma_sq>>
  <2>. SUFFICES ASSUME IInv, [Next]_vars PROVE [Window!Next]_<<Held, sigma_sq>>
    OBVIOUS
  <2>1. CASE UNCHANGED vars
    BY <2>1 DEF vars, Held
  <2>2. CASE Reset
    BY <2>2, ResetRefines DEF Window!Next
  <2>3. ASSUME NEW price \in Prices, NEW ts \in Times, First(price, ts) \/ Later(price, ts)
        PROVE  Window!Next
    BY <2>3, FirstRefines, LaterRefines DEF Window!Next
  <2>. QED
    BY <2>1, <2>2, <2>3 DEF Next
<1>. QED
  BY <1>1, InitRefines, Inductive, PTL DEF Spec, Window!Spec
=============================================================================
