----------------------- MODULE TradeGatewayBooks_proofs -----------------------
(***************************************************************************)
(* The proof that the books of TradeGateway balance, for any number of     *)
(* handlers, instruments and requests, with what it needs to know of the   *)
(* sum of the amounts of a finite set.                                     *)
(***************************************************************************)
EXTENDS TradeGateway_proofs, FiniteSetTheorems, WellFoundedInduction

-----------------------------------------------------------------------------
(* Sums.                                                                   *)
(*                                                                         *)
(* A sum is defined by choosing one element after the other; below it is   *)
(* shown that it is the same whichever element is taken first.  Each proof *)
(* is by induction over the number of elements, in the form that there is  *)
(* no smallest set of which the claim is false.                            *)
(*                                                                         *)
(* The element that is chosen, the sum of a part of S from the sums g of   *)
(* smaller parts, and the function of all these sums.                      *)
Some(s) == CHOOSE x \in s : TRUE

From(amount, g, s) == IF s = {} THEN 0 ELSE amount[Some(s)] + g[s \ {Some(s)}]

Partial(amount, S, g) == [s \in SUBSET S |-> From(amount, g, s)]

Sums(amount, S) == CHOOSE g : g = Partial(amount, S, g)

LEMMA Opened == \A amount, S : SumOf(amount, S) = Sums(amount, S)[S]
BY DEF SumOf, MapThenSumSet, MapThenFoldSet, Sums, Partial, From, Some

LEMMA LeastNumber ==
  ASSUME NEW N \in SUBSET Nat, N # {}
  PROVE  \E n \in N : \A m \in N : n <= m
<1>1. PICK n \in N : \A m \in N : ~ (<<m, n>> \in OpToRel(<, Nat))
  BY NatLessThanWellFounded, WFMin
<1>2. ASSUME NEW m \in N PROVE n <= m
  <2>1. m \in Nat /\ n \in Nat
    OBVIOUS
  <2>2. ~(m < n)
    BY <1>1, <2>1 DEF OpToRel
  <2> QED
    BY <2>1, <2>2
<1> QED
  BY <1>2

LEMMA WithoutOne ==
  ASSUME NEW S, IsFiniteSet(S), NEW x \in S
  PROVE  /\ IsFiniteSet(S \ {x}) /\ Cardinality(S) \in Nat /\ Cardinality(S \ {x}) \in Nat
         /\ Cardinality(S \ {x}) = Cardinality(S) - 1
BY FS_RemoveElement, FS_CardinalityType

LEMMA SomeOne == ASSUME NEW s, s # {} PROVE Some(s) \in s
BY DEF Some

LEMMA PartialSums ==
  ASSUME NEW amount, NEW S, IsFiniteSet(S)
  PROVE  Sums(amount, S) = Partial(amount, S, Sums(amount, S))
<1> DEFINE Small(n) == {s \in SUBSET S : Cardinality(s) <= n}
           Works(n) == \E g : \A s \in Small(n) : g[s] = From(amount, g, s)
<1>1. \A s \in SUBSET S : IsFiniteSet(s) /\ Cardinality(s) \in Nat
  BY FS_Subset, FS_CardinalityType
<1>2. Works(0)
  <2>1. \A s \in Small(0) : s = {}
    BY <1>1, FS_EmptySet
  <2> DEFINE g == [s \in Small(0) |-> 0]
  <2>2. \A s \in Small(0) : g[s] = From(amount, g, s)
    BY <2>1 DEF From
  <2> QED
    BY <2>2
<1>3. ASSUME NEW n \in Nat, Works(n) PROVE Works(n + 1)
  <2>1. PICK g : \A s \in Small(n) : g[s] = From(amount, g, s)
    BY <1>3
  <2> DEFINE g2 == [s \in Small(n + 1) |-> From(amount, g, s)]
  <2>2. ASSUME NEW s \in Small(n + 1) PROVE g2[s] = From(amount, g2, s)
    <3>1. CASE s = {}
      BY <3>1 DEF From
    <3>2. CASE s # {}
      <4> DEFINE rest == s \ {Some(s)}
      <4>1. Some(s) \in s
        BY <3>2, SomeOne
      <4>2. IsFiniteSet(s) /\ Cardinality(s) \in Nat /\ Cardinality(s) <= n + 1
        BY <1>1
      <4>3. rest \in SUBSET S /\ Cardinality(rest) \in Nat /\ Cardinality(rest) = Cardinality(s) - 1
        BY <4>1, <4>2, WithoutOne
      <4>4. rest \in Small(n) /\ rest \in Small(n + 1)
        BY <1>3, <4>2, <4>3
      <4>5. g2[rest] = g[rest]
        BY <2>1, <4>4
      <4>6. g2[s] = From(amount, g, s)
        OBVIOUS
      <4> QED
        BY <3>2, <4>5, <4>6 DEF From
    <3> QED
      BY <3>1, <3>2
  <2> HIDE DEF g2
  <2> QED
    BY <2>2
<1> HIDE DEF Works
<1>4. Works(Cardinality(S))
  <2> DEFINE N == {n \in Nat : ~Works(n)}
  <2>1. ASSUME N # {} PROVE FALSE
    <3>1. PICK n \in N : \A m \in N : n <= m
      BY <2>1, LeastNumber
    <3>2. n \in Nat /\ n # 0 /\ n - 1 \in Nat
      BY <1>2
    <3>3. Works(n - 1)
      BY <3>1, <3>2
    <3>4. Works(n - 1 + 1)
      BY <1>3, <3>2, <3>3
    <3> QED
      BY <3>2, <3>4
  <2> QED
    BY <1>1, <2>1
<1>5. SUBSET S = Small(Cardinality(S))
  BY FS_Subset, FS_CardinalityType
<1>6. PICK g : \A s \in SUBSET S : g[s] = From(amount, g, s)
  BY <1>4, <1>5 DEF Works
<1> DEFINE h == [s \in SUBSET S |-> g[s]]
<1>7. h = Partial(amount, S, h)
  <2>1. ASSUME NEW s \in SUBSET S PROVE From(amount, g, s) = From(amount, h, s)
    BY SomeOne DEF From
  <2> QED
    BY <1>6, <2>1 DEF Partial
<1> HIDE DEF h
<1> QED
  BY <1>7 DEF Sums

(* The sum over a part is the same in the sums over the whole. *)
LEMMA SumOfPart ==
  ASSUME NEW amount, NEW S, IsFiniteSet(S), NEW T \in SUBSET S
  PROVE  Sums(amount, S)[T] = Sums(amount, T)[T]
<1> DEFINE Differs(R, U) == Sums(amount, R)[U] # Sums(amount, U)[U]
           N == {n \in Nat : \E R \in SUBSET S, U \in SUBSET S :
                   U \subseteq R /\ Cardinality(U) = n /\ Differs(R, U)}
<1>1. \A U \in SUBSET S : IsFiniteSet(U) /\ Cardinality(U) \in Nat
  BY FS_Subset, FS_CardinalityType
<1>2. ASSUME NEW R \in SUBSET S, NEW U \in SUBSET R
      PROVE  Sums(amount, R)[U] = From(amount, Sums(amount, R), U)
  <2>1. Sums(amount, R) = Partial(amount, R, Sums(amount, R))
    BY <1>1, PartialSums
  <2>2. Partial(amount, R, Sums(amount, R))[U] = From(amount, Sums(amount, R), U)
    BY DEF Partial
  <2> QED
    BY <2>1, <2>2
<1>3. ASSUME N # {} PROVE FALSE
  <2>1. PICK n \in N : \A m \in N : n <= m
    BY <1>3, LeastNumber
  <2>2. PICK R \in SUBSET S, U \in SUBSET S :
          U \subseteq R /\ Cardinality(U) = n /\ Differs(R, U)
    BY <2>1
  <2>3. /\ Sums(amount, R)[U] = From(amount, Sums(amount, R), U)
        /\ Sums(amount, U)[U] = From(amount, Sums(amount, U), U)
    BY <1>2, <2>2
  <2>4. U # {}
    BY <2>2, <2>3 DEF From
  <2> DEFINE rest == U \ {Some(U)}
  <2>5. Some(U) \in U
    BY <2>4, SomeOne
  <2>6. /\ Cardinality(rest) \in Nat /\ Cardinality(rest) = n - 1 /\ rest \in SUBSET S
        /\ rest \subseteq R /\ rest \subseteq U
    BY <1>1, <2>2, <2>5, WithoutOne
  <2>7. Sums(amount, R)[rest] # Sums(amount, U)[rest]
    BY <2>2, <2>3, <2>4 DEF From
  <2> HIDE DEF rest
  <2>8. ~Differs(R, rest) /\ ~Differs(U, rest)
    BY <2>1, <2>2, <2>6
  <2> QED
    BY <2>7, <2>8
<1>4. S \in SUBSET S /\ Cardinality(T) \in Nat
  BY <1>1
<1> QED
  BY <1>3, <1>4

(* What a sum is: nothing over no elements, and one of them and the others. *)
LEMMA SumOfNone == ASSUME NEW amount PROVE SumOf(amount, {}) = 0
<1>1. Sums(amount, {}) = Partial(amount, {}, Sums(amount, {}))
  BY PartialSums, FS_EmptySet
<1>2. Partial(amount, {}, Sums(amount, {}))[{}] = 0
  BY DEF Partial, From
<1> QED
  BY <1>1, <1>2, Opened

LEMMA SumOfSome ==
  ASSUME NEW amount, NEW S, IsFiniteSet(S), S # {}
  PROVE  SumOf(amount, S) = amount[Some(S)] + SumOf(amount, S \ {Some(S)})
<1> DEFINE rest == S \ {Some(S)}
<1>1. Sums(amount, S) = Partial(amount, S, Sums(amount, S))
  BY PartialSums
<1>2. Partial(amount, S, Sums(amount, S))[S] = amount[Some(S)] + Sums(amount, S)[rest]
  BY DEF Partial, From
<1>3. Sums(amount, S)[rest] = Sums(amount, rest)[rest]
  BY SumOfPart
<1> QED
  BY <1>1, <1>2, <1>3, Opened

(* The least of the finite sets of which something is said, by the number  *)
(* of their elements.                                                      *)
LEMMA SmallestSet ==
  ASSUME NEW F, F # {}, \A S \in F : IsFiniteSet(S)
  PROVE  \E S \in F : \A x \in S : S \ {x} \notin F
<1> DEFINE N == {n \in Nat : \E S \in F : Cardinality(S) = n}
<1>1. N # {}
  BY FS_CardinalityType
<1>2. PICK n \in N : \A m \in N : n <= m
  BY <1>1, LeastNumber
<1>3. PICK S \in F : Cardinality(S) = n
  BY <1>2
<1>4. ASSUME NEW x \in S, S \ {x} \in F PROVE FALSE
  <2>1. Cardinality(S \ {x}) \in Nat /\ Cardinality(S \ {x}) = n - 1
    BY <1>3, WithoutOne
  <2>2. n - 1 \in N
    BY <1>4, <2>1
  <2> QED
    BY <1>2, <2>2
<1> QED
  BY <1>3, <1>4

LEMMA SumOfInt ==
  ASSUME NEW amount, NEW S, IsFiniteSet(S), \A x \in S : amount[x] \in Int
  PROVE  SumOf(amount, S) \in Int
<1> DEFINE F == {T \in SUBSET S : SumOf(amount, T) \notin Int}
<1>1. \A T \in F : IsFiniteSet(T)
  BY FS_Subset
<1>2. ASSUME F # {} PROVE FALSE
  <2>1. PICK T \in F : \A x \in T : T \ {x} \notin F
    BY <1>1, <1>2, SmallestSet, Zenon
  <2>2. T # {}
    BY SumOfNone
  <2>3. Some(T) \in T /\ Some(T) \in S
    BY <2>2, SomeOne
  <2>4. SumOf(amount, T \ {Some(T)}) \in Int
    BY <2>1, <2>3
  <2>5. SumOf(amount, T) = amount[Some(T)] + SumOf(amount, T \ {Some(T)})
    BY <1>1, <2>2, SumOfSome
  <2> QED
    BY <2>3, <2>4, <2>5
<1> QED
  BY <1>2

LEMMA SumOfSame ==
  ASSUME NEW a, NEW b, NEW S, IsFiniteSet(S), \A x \in S : a[x] = b[x]
  PROVE  SumOf(a, S) = SumOf(b, S)
<1> DEFINE F == {T \in SUBSET S : SumOf(a, T) # SumOf(b, T)}
<1>1. \A T \in F : IsFiniteSet(T)
  BY FS_Subset
<1>2. ASSUME F # {} PROVE FALSE
  <2>1. PICK T \in F : \A x \in T : T \ {x} \notin F
    BY <1>1, <1>2, SmallestSet, Zenon
  <2>2. T # {}
    BY SumOfNone
  <2>3. Some(T) \in T /\ Some(T) \in S
    BY <2>2, SomeOne
  <2>4. SumOf(a, T \ {Some(T)}) = SumOf(b, T \ {Some(T)})
    BY <2>1, <2>3
  <2>5. /\ SumOf(a, T) = a[Some(T)] + SumOf(a, T \ {Some(T)})
        /\ SumOf(b, T) = b[Some(T)] + SumOf(b, T \ {Some(T)})
    BY <1>1, <2>2, SumOfSome
  <2> QED
    BY <2>3, <2>4, <2>5
<1> QED
  BY <1>2

(* Any element may be taken out. *)
LEMMA SumOfWithout ==
  ASSUME NEW amount, NEW S, IsFiniteSet(S), \A x \in S : amount[x] \in Int, NEW y \in S
  PROVE  SumOf(amount, S) = amount[y] + SumOf(amount, S \ {y})
<1> DEFINE F == {T \in SUBSET S :
                   \E x \in T : SumOf(amount, T) # amount[x] + SumOf(amount, T \ {x})}
<1>1. \A T \in F : IsFiniteSet(T)
  BY FS_Subset
<1>2. ASSUME F # {} PROVE FALSE
  <2>1. PICK T \in F : \A x \in T : T \ {x} \notin F
    BY <1>1, <1>2, SmallestSet, Zenon
  <2>2. PICK x \in T : SumOf(amount, T) # amount[x] + SumOf(amount, T \ {x})
    BY <2>1
  <2> DEFINE z == Some(T)
             rest == (T \ {z}) \ {x}
  <2>3. z \in T /\ IsFiniteSet(T)
    BY <1>1, <2>2, SomeOne
  <2>4. SumOf(amount, T) = amount[z] + SumOf(amount, T \ {z})
    BY <2>2, <2>3, SumOfSome
  <2>5. x # z
    BY <2>2, <2>4
  <2>6. SumOf(amount, T \ {z}) = amount[x] + SumOf(amount, rest)
    BY <2>1, <2>3, <2>5
  <2>7. SumOf(amount, T \ {x}) = amount[z] + SumOf(amount, rest)
    <3>1. rest = (T \ {x}) \ {z}
      OBVIOUS
    <3> HIDE DEF rest
    <3> QED
      BY <2>1, <2>3, <2>5, <3>1
  <2>8. SumOf(amount, rest) \in Int
    <3>1. IsFiniteSet(rest) /\ rest \subseteq S
      BY <2>3, FS_Subset
    <3> HIDE DEF rest
    <3> QED
      BY <3>1, SumOfInt
  <2>9. amount[x] \in Int /\ amount[z] \in Int
    BY <2>3
  <2> HIDE DEF rest, z
  <2> QED
    BY <2>2, <2>4, <2>6, <2>7, <2>8, <2>9
<1> QED
  BY <1>2

LEMMA SumOfMore ==
  ASSUME NEW amount, NEW S, IsFiniteSet(S), NEW y, y \notin S,
         \A x \in S \cup {y} : amount[x] \in Int
  PROVE  SumOf(amount, S \cup {y}) = amount[y] + SumOf(amount, S)
<1> DEFINE U == S \cup {y}
<1>1. IsFiniteSet(U) /\ y \in U /\ U \ {y} = S
  BY FS_AddElement
<1>2. \A x \in U : amount[x] \in Int
  OBVIOUS
<1> HIDE DEF U
<1>3. SumOf(amount, U) = amount[y] + SumOf(amount, U \ {y})
  BY <1>1, <1>2, SumOfWithout
<1> QED
  BY <1>1, <1>3 DEF U

-----------------------------------------------------------------------------
(* Tallies.                                                                *)
(*                                                                         *)
(* What BookHolds says of a map of positions and the requests whose orders *)
(* it holds, as a statement about the requests r.                          *)
On(r, seen, i) == {h \in seen : r[h].instrument = i}

Total(r, S) == SumOf([h \in S |-> r[h].notional], S)

Order(q) == q.instrument \in Instruments /\ q.side \in Sides /\ q.notional \in Int

Entry(r, book, seen, i) ==
  IF On(r, seen, i) = {} THEN book[i] = NoPosition
  ELSE book[i] # NoPosition /\ book[i].notional = Total(r, On(r, seen, i))

Tally(r, book, seen) ==
  /\ book \in Books
  /\ IsFiniteSet(seen) /\ IsFiniteSet(Held(book))
  /\ \A h \in seen : Order(r[h])
  /\ \A i \in Instruments : Entry(r, book, seen, i)
  /\ GrossExposure(book) = Total(r, seen)

LEMMA TotalSame ==
  ASSUME NEW r, NEW q, NEW S, \A h \in S : q[h] = r[h]
  PROVE  Total(q, S) = Total(r, S)
<1>1. [h \in S |-> q[h].notional] = [h \in S |-> r[h].notional]
  OBVIOUS
<1> QED
  BY <1>1 DEF Total

LEMMA TotalMore ==
  ASSUME NEW r, NEW S, IsFiniteSet(S), NEW h, h \notin S,
         \A k \in S \cup {h} : r[k].notional \in Int
  PROVE  Total(r, S \cup {h}) = Total(r, S) + r[h].notional /\ Total(r, S) \in Int
<1> DEFINE U == S \cup {h}
           a == [k \in U |-> r[k].notional]
           b == [k \in S |-> r[k].notional]
<1>1. /\ \A k \in U : a[k] = r[k].notional /\ a[k] \in Int
      /\ \A k \in S : b[k] = a[k] /\ b[k] \in Int
      /\ h \in U
  OBVIOUS
<1>2. Total(r, U) = SumOf(a, U) /\ Total(r, S) = SumOf(b, S)
  BY DEF Total
<1> HIDE DEF a, b
<1>3. SumOf(a, S \cup {h}) = a[h] + SumOf(a, S)
  BY <1>1, SumOfMore
<1>4. SumOf(b, S) = SumOf(a, S) /\ SumOf(b, S) \in Int
  BY <1>1, SumOfSame, SumOfInt
<1> QED
  BY <1>1, <1>2, <1>3, <1>4

LEMMA TallyOfNone == ASSUME NEW r PROVE Tally(r, NewBook, {})
<1>1. Held(NewBook) = {} /\ NewBook \in Books
  BY DEF Held, NewBook, Books
<1>2. IsFiniteSet({})
  BY FS_EmptySet
<1>3. \A i \in Instruments : Entry(r, NewBook, {}, i)
  BY DEF Entry, On, NewBook
<1>4. GrossExposure(NewBook) = 0 /\ Total(r, {}) = 0
  BY <1>1, SumOfNone DEF GrossExposure, Total
<1> QED
  BY <1>1, <1>2, <1>3, <1>4 DEF Tally

LEMMA TallySame ==
  ASSUME NEW r, NEW q, NEW book, NEW seen, Tally(r, book, seen), \A h \in seen : q[h] = r[h]
  PROVE  Tally(q, book, seen)
<1>1. Total(q, seen) = Total(r, seen)
  BY TotalSame
<1>2. ASSUME NEW i \in Instruments PROVE Entry(q, book, seen, i)
  <2>1. On(q, seen, i) = On(r, seen, i) /\ \A h \in On(r, seen, i) : q[h] = r[h]
    BY DEF On
  <2>2. Total(q, On(r, seen, i)) = Total(r, On(r, seen, i))
    BY <2>1, TotalSame
  <2> QED
    BY <2>1, <2>2 DEF Tally, Entry
<1> QED
  BY <1>1, <1>2 DEF Tally

(* What OpenPosition does to the map. *)
LEMMA Opens ==
  ASSUME NEW book \in Books, NEW i \in Instruments, NEW side \in Sides, NEW n \in Int
  PROVE  LET new == OpenPosition(book, i, side, n)
             old == IF book[i] = NoPosition THEN 0 ELSE book[i].notional
         IN  /\ new \in Books /\ new[i] # NoPosition
             /\ old \in Int /\ new[i].notional = old + n
             /\ \A j \in Instruments \ {i} : new[j] = book[j]
             /\ Held(new) = Held(book) \cup {i}
<1> DEFINE new == OpenPosition(book, i, side, n)
           old == IF book[i] = NoPosition THEN 0 ELSE book[i].notional
           mine == IF book[i] = NoPosition THEN side ELSE book[i].side
<1>1. old \in Int /\ mine \in Sides
  BY DEF Books, Position
<1>2. /\ new[i] = [side |-> mine, notional |-> old + n]
      /\ \A j \in Instruments \ {i} : new[j] = book[j]
  BY DEF OpenPosition, Books
<1>3. new \in Books
  BY OpenPositionType
<1>4. new[i] # NoPosition /\ new[i].notional = old + n
  BY <1>1, <1>2, PortfolioAssumption DEF Sides, Buy, Sell
<1> HIDE DEF new, old
<1>5. Held(new) = Held(book) \cup {i}
  BY <1>2, <1>4 DEF Held
<1> QED
  BY <1>1, <1>2, <1>3, <1>4, <1>5 DEF new, old

(* The gross exposure grows by what the order adds. *)
LEMMA GrossGrows ==
  ASSUME NEW book \in Books, IsFiniteSet(Held(book)),
         NEW i \in Instruments, NEW side \in Sides, NEW n \in Int
  PROVE  /\ GrossExposure(OpenPosition(book, i, side, n)) = GrossExposure(book) + n
         /\ GrossExposure(book) \in Int
<1> DEFINE new == OpenPosition(book, i, side, n)
           old == IF book[i] = NoPosition THEN 0 ELSE book[i].notional
           a == Notionals(book)
           b == Notionals(new)
           rest == Held(book) \ {i}
<1>1. /\ new \in Books /\ new[i] # NoPosition
      /\ old \in Int /\ new[i].notional = old + n
      /\ \A j \in Instruments \ {i} : new[j] = book[j]
      /\ Held(new) = Held(book) \cup {i}
  BY Opens
<1> HIDE DEF new
<1>2. /\ \A j \in Held(book) : a[j] = book[j].notional /\ a[j] \in Int
      /\ \A j \in Held(new) : b[j] = new[j].notional /\ b[j] \in Int
  BY <1>1 DEF Notionals, Held, Books, Position
<1>3. \A j \in rest : a[j] = b[j]
  BY <1>1, <1>2 DEF Held
<1> HIDE DEF a, b
<1>4. /\ GrossExposure(book) = SumOf(a, Held(book))
      /\ GrossExposure(new) = SumOf(b, Held(new))
  BY DEF GrossExposure, a, b
<1>5. IsFiniteSet(rest) /\ IsFiniteSet(Held(new)) /\ Held(new) \ {i} = rest /\ i \in Held(new)
  BY <1>1, FS_AddElement, FS_RemoveElement
<1>6. SumOf(a, rest) = SumOf(b, rest) /\ SumOf(a, rest) \in Int
  BY <1>2, <1>3, <1>5, SumOfSame, SumOfInt
<1>7. SumOf(b, Held(new)) = b[i] + SumOf(b, rest)
  BY <1>2, <1>5, SumOfWithout
<1>8. SumOf(a, Held(book)) = old + SumOf(a, rest)
  <2>1. CASE i \in Held(book)
    <3>1. SumOf(a, Held(book)) = a[i] + SumOf(a, rest)
      BY <1>2, <2>1, SumOfWithout
    <3> QED
      BY <1>2, <2>1, <3>1 DEF Held
  <2>2. CASE i \notin Held(book)
    <3>1. rest = Held(book) /\ old = 0
      BY <2>2 DEF Held
    <3> QED
      BY <1>6, <3>1
  <2> QED
    BY <2>1, <2>2
<1>9. b[i] = old + n
  BY <1>1, <1>2, <1>5
<1> HIDE DEF old
<1>10. GrossExposure(new) = GrossExposure(book) + n /\ GrossExposure(book) \in Int
  BY <1>1, <1>4, <1>6, <1>7, <1>8, <1>9
<1> QED
  BY <1>10 DEF new

(* An order that is recorded is added to the tally. *)
LEMMA TallyOfMore ==
  ASSUME NEW r, NEW book, NEW seen, Tally(r, book, seen), NEW h, h \notin seen, Order(r[h])
  PROVE  Tally(r, OpenPosition(book, r[h].instrument, r[h].side, r[h].notional), seen \cup {h})
<1> DEFINE i == r[h].instrument
           n == r[h].notional
           new == OpenPosition(book, i, r[h].side, n)
           old == IF book[i] = NoPosition THEN 0 ELSE book[i].notional
           more == seen \cup {h}
<1>1. /\ i \in Instruments /\ n \in Int /\ r[h].side \in Sides
      /\ book \in Books /\ IsFiniteSet(seen) /\ IsFiniteSet(Held(book))
      /\ \A k \in more : Order(r[k])
  BY DEF Tally, Order
<1>2. /\ new \in Books /\ new[i] # NoPosition
      /\ old \in Int /\ new[i].notional = old + n
      /\ \A j \in Instruments \ {i} : new[j] = book[j]
      /\ Held(new) = Held(book) \cup {i}
  BY <1>1, Opens
<1>3. GrossExposure(new) = GrossExposure(book) + n
  BY <1>1, GrossGrows
<1> HIDE DEF new
<1>4. IsFiniteSet(more) /\ IsFiniteSet(Held(new))
  BY <1>1, <1>2, FS_AddElement
<1>5. \A k \in more : r[k].notional \in Int
  BY <1>1 DEF Order
<1>6. GrossExposure(new) = Total(r, more)
  <2>1. Total(r, more) = Total(r, seen) + n
    BY <1>1, <1>5, TotalMore
  <2> QED
    BY <1>3, <2>1 DEF Tally
<1>7. ASSUME NEW j \in Instruments, j # i PROVE Entry(r, new, more, j)
  <2>1. On(r, more, j) = On(r, seen, j)
    BY <1>7 DEF On
  <2> QED
    BY <1>2, <1>7, <2>1 DEF Entry, Tally
<1>8. Entry(r, new, more, i)
  <2> DEFINE on == On(r, seen, i)
  <2>1. On(r, more, i) = on \cup {h} /\ h \notin on /\ on \subseteq seen
    BY DEF On
  <2>2. IsFiniteSet(on)
    BY <1>1, <2>1, FS_Subset
  <2>3. Total(r, on \cup {h}) = Total(r, on) + n
    BY <1>5, <2>1, <2>2, TotalMore
  <2>4. Total(r, on) = old
    <3>1. Total(r, {}) = 0
      BY SumOfNone DEF Total
    <3> QED
      BY <1>1, <3>1 DEF Entry, Tally
  <2>5. new[i].notional = Total(r, on \cup {h})
    BY <1>2, <2>3, <2>4
  <2> HIDE DEF on
  <2> QED
    BY <1>2, <2>1, <2>5 DEF Entry
<1>9. \A j \in Instruments : Entry(r, new, more, j)
  BY <1>7, <1>8
<1>10. Tally(r, new, more)
  BY <1>1, <1>2, <1>4, <1>6, <1>9 DEF Tally
<1> QED
  BY <1>10 DEF new

LEMMA TallyHolds ==
  ASSUME NEW book, NEW seen, Tally(req, book, seen) PROVE BookHolds(book, seen)
<1>1. \A S : Booked(S) = Total(req, S)
  BY DEF Booked, Total
<1>2. Held(book) = {req[h].instrument : h \in seen}
  BY DEF Tally, Entry, On, Held, Order
<1> QED
  BY <1>1, <1>2 DEF BookHolds, Tally, Entry, On, OpenPositionCount

-----------------------------------------------------------------------------
(* The invariant: the live map is a tally of the ledger, and so was every  *)
(* snapshot that a handler keeps, or that was sent, of the ledger then.    *)
Live == [book |-> positions, seen |-> ledger]

Reports ==
  {s \in Snapshots :
     \/ \E h \in Handlers, p \in Purposes : shot[h][p] = s
     \/ \E n \in DOMAIN wire : wire[n].shot = s
     \/ \E n \in DOMAIN feed : feed[n].shot = s}

Balanced ==
  /\ Tally(req, positions, ledger)
  /\ \A s \in Reports : Tally(req, s.book, s.seen) /\ s.seen \subseteq ledger

LEMMA ElementOf == ASSUME NEW S, NEW s \in Seq(S), NEW n \in DOMAIN s PROVE s[n] \in S
OBVIOUS

LEMMA BalancedBooks == ASSUME IInv, Balanced PROVE BooksBalance
<1>1. \A s \in Reports : BookHolds(s.book, s.seen)
  BY TallyHolds DEF Balanced
<1>2. ASSUME NEW n \in DOMAIN wire PROVE wire[n].shot \in Reports
  <2>1. wire[n] \in Frames
    BY ElementOf DEF IInv, TypeOK
  <2> QED
    BY <2>1 DEF Frames, Reports
<1>3. ASSUME NEW n \in DOMAIN feed PROVE feed[n].shot \in Reports
  <2>1. feed[n] \in Updates
    BY ElementOf DEF IInv, TypeOK
  <2> QED
    BY <2>1 DEF Updates, Reports
<1>4. BookHolds(positions, ledger)
  BY TallyHolds DEF Balanced
<1> QED
  BY <1>1, <1>2, <1>3, <1>4 DEF BooksBalance

(* A step that reports nothing but what was reported or was the case, and  *)
(* leaves the requests of recorded orders alone, keeps the invariant if it *)
(* keeps the live map a tally.                                             *)
LEMMA BalancedKept ==
  ASSUME Balanced, Reports' \subseteq Reports \cup {Live}, ledger \subseteq ledger',
         \A h \in ledger : req'[h] = req[h],
         Tally(req', positions', ledger')
  PROVE  Balanced'
<1>1. ASSUME NEW s \in Reports' PROVE Tally(req', s.book, s.seen) /\ s.seen \subseteq ledger'
  <2>1. CASE s \in Reports
    <3>1. Tally(req, s.book, s.seen) /\ s.seen \subseteq ledger
      BY <2>1 DEF Balanced
    <3> QED
      BY <3>1, TallySame
  <2>2. CASE s = Live
    <3>1. s.book = positions /\ s.seen = ledger
      BY <2>2 DEF Live
    <3>2. Tally(req', positions, ledger)
      BY TallySame DEF Balanced
    <3> QED
      BY <3>1, <3>2
  <2> QED
    BY <2>1, <2>2
<1> QED
  BY <1>1 DEF Balanced

LEMMA InitBalanced == Init => Balanced
<1> SUFFICES ASSUME Init PROVE Balanced
  OBVIOUS
<1>1. Tally(req, positions, ledger)
  BY TallyOfNone DEF Init
<1>2. Reports = {}
  BY NoneAssumption DEF Init, Reports
<1> QED
  BY <1>1, <1>2 DEF Balanced

(* Most steps record nothing. *)
LEMMA QuietBalanced ==
  ASSUME Balanced, Reports' \subseteq Reports \cup {Live},
         positions' = positions, ledger' = ledger, \A h \in ledger : req'[h] = req[h]
  PROVE  Balanced'
<1>1. Tally(req', positions', ledger')
  BY TallySame DEF Balanced
<1> QED
  BY <1>1, BalancedKept

LEMMA SnapshotReports ==
  ASSUME IInv, NEW h \in Handlers, NEW p \in Purposes, TakeSnapshot(h, p),
         UNCHANGED <<positions, ledger, wire, feed, req>>
  PROVE  Reports' \subseteq Reports \cup {Live}
<1>1. \A k \in Handlers, q \in Purposes : shot'[k][q] \in {shot[k][q], Live}
  BY DEF IInv, TypeOK, TakeSnapshot, Live
<1> QED
  BY <1>1 DEF Reports

LEMMA SendFrameReports ==
  ASSUME IInv, NEW h \in Handlers, SendFrame(h) PROVE Reports' \subseteq Reports
<1> DEFINE e == [by |-> h, all_gates_open |-> code[h] = Accepted, shot |-> shot[h]["frame"]]
<1>1. wire' = Append(wire, e) /\ UNCHANGED <<shot, feed>> /\ pc[h] = "send"
  BY DEF SendFrame
<1>2. e \in Frames /\ wire \in Seq(Frames)
  BY <1>1 DEF IInv, TypeOK, Taken, Frames, Purposes
<1>3. e.shot = shot[h]["frame"] /\ "frame" \in Purposes
  BY DEF Purposes
<1> HIDE DEF e
<1>4. \A n \in DOMAIN wire' : (n \in DOMAIN wire /\ wire'[n] = wire[n]) \/ wire'[n] = e
  BY <1>1, <1>2, AppendCases
<1> QED
  BY <1>1, <1>3, <1>4 DEF Reports

LEMMA BroadcastReports ==
  ASSUME IInv, NEW h \in Handlers, Broadcast(h) PROVE Reports' \subseteq Reports
<1> DEFINE e == [by |-> h, shot |-> shot[h]["stream"]]
<1>1. feed' = Append(feed, e) /\ UNCHANGED <<shot, wire>> /\ pc[h] = "broadcast"
  BY DEF Broadcast
<1>2. e \in Updates /\ feed \in Seq(Updates)
  BY <1>1 DEF IInv, TypeOK, Taken, Updates, Purposes
<1>3. e.shot = shot[h]["stream"] /\ "stream" \in Purposes
  BY DEF Purposes
<1> HIDE DEF e
<1>4. \A n \in DOMAIN feed' : (n \in DOMAIN feed /\ feed'[n] = feed[n]) \/ feed'[n] = e
  BY <1>1, <1>2, AppendCases
<1> QED
  BY <1>1, <1>3, <1>4 DEF Reports

LEMMA RecordPositionBalanced ==
  ASSUME IInv, Balanced, NEW h \in Handlers, RecordPosition(h) PROVE Balanced'
<1>1. /\ pc[h] = "open" /\ UNCHANGED <<req, shot, wire, feed>>
      /\ positions' = OpenPosition(positions, req[h].instrument, req[h].side, req[h].notional)
      /\ ledger' = ledger \cup {h}
  BY DEF RecordPosition, local
<1>2. h \notin ledger
  BY <1>1 DEF IInv, Recorded, Past
<1>3. Order(req[h])
  <2>1. req[h] \in Requests /\ Bookable(req[h])
    BY <1>1, GatewayAssumption DEF IInv, TypeOK, Control
  <2> QED
    BY <2>1 DEF Requests, Bookable, Order
<1>4. Tally(req', positions', ledger')
  BY <1>1, <1>2, <1>3, TallyOfMore DEF Balanced
<1>5. Reports' \subseteq Reports
  BY <1>1 DEF Reports
<1> QED
  BY <1>1, <1>4, <1>5, BalancedKept

LEMMA NextBalanced == ASSUME IInv, Balanced, [Next]_vars PROVE Balanced'
<1>1. ASSUME NEW h \in Handlers, Receive(h) PROVE Balanced'
  <2>1. UNCHANGED <<positions, ledger, shot, wire, feed>> /\ pc[h] = "idle"
    BY <1>1 DEF Receive
  <2>2. \A k \in ledger : req'[k] = req[k]
    BY <1>1, <2>1 DEF Receive, IInv, TypeOK, Recorded, Past
  <2>3. Reports' = Reports
    BY <2>1 DEF Reports
  <2> QED
    BY <2>1, <2>2, <2>3, QuietBalanced
<1>2. ASSUME NEW h \in Handlers,
             EvaluateGates(h) \/ BuildResponse(h) \/ BuildFrame(h) \/ BuildRiskState(h)
      PROVE  Balanced'
  <2>1. UNCHANGED <<positions, ledger, wire, feed, req>>
    BY <1>2 DEF EvaluateGates, BuildResponse, BuildFrame, BuildRiskState, local
  <2>2. \E p \in Purposes : TakeSnapshot(h, p)
    BY <1>2 DEF EvaluateGates, BuildResponse, BuildFrame, BuildRiskState, Purposes
  <2> QED
    BY <2>1, <2>2, SnapshotReports, QuietBalanced
<1>3. ASSUME NEW h \in Handlers, SendFrame(h) PROVE Balanced'
  <2>1. UNCHANGED <<positions, ledger, req>>
    BY <1>3 DEF SendFrame, local
  <2> QED
    BY <1>3, <2>1, SendFrameReports, QuietBalanced
<1>4. ASSUME NEW h \in Handlers, Broadcast(h) PROVE Balanced'
  <2>1. UNCHANGED <<positions, ledger, req>>
    BY <1>4 DEF Broadcast, local
  <2> QED
    BY <1>4, <2>1, BroadcastReports, QuietBalanced
<1>5. CASE UNCHANGED <<positions, ledger, req, shot, wire, feed>>
  <2>1. Reports' = Reports
    BY <1>5 DEF Reports
  <2> QED
    BY <1>5, <2>1, QuietBalanced
<1>6. ASSUME NEW h \in Handlers, FailFrame(h) \/ Cancel(h) PROVE Balanced'
  BY <1>5, <1>6 DEF FailFrame, Cancel, local
<1>7. ASSUME NEW i \in Priced, FeedPrice(i) PROVE Balanced'
  BY <1>5, <1>7 DEF FeedPrice, local
<1>8. CASE UNCHANGED vars
  BY <1>5, <1>8 DEF vars, local
<1>9. ASSUME NEW h \in Handlers, Step(h) PROVE Balanced'
  BY <1>2, <1>3, <1>4, <1>6, <1>9, RecordPositionBalanced DEF Step
<1> QED
  BY <1>1, <1>6, <1>7, <1>8, <1>9 DEF Next

(* The books balance, however many handlers interleave over however many   *)
(* instruments: every map of positions that is live, or that a frame or a  *)
(* broadcast reports, holds exactly the orders accepted so far, none twice *)
(* and none missing, and its gross exposure is their sum.                  *)
THEOREM BooksAlwaysBalance == Spec => []BooksBalance
<1>1. IInv /\ Balanced /\ [Next]_vars => Balanced'
  BY NextBalanced
<1>2. IInv /\ Balanced => BooksBalance
  BY BalancedBooks
<1> QED
  BY InitBalanced, <1>1, <1>2, Inductive, PTL DEF Spec
=============================================================================
