----------------------------- MODULE DataProofs -----------------------------
(***************************************************************************)
(* The facts about sums and ordered lists that the other proofs use.       *)
(*                                                                         *)
(* Sums: what a sum of quantities is worth: it is a natural number, it is  *)
(* the quantity for a single row, and it adds up over disjoint sets.       *)
(*                                                                         *)
(* Lists: every finite set of numbers can be listed in ascending order,    *)
(* so InIdOrder and Kept are what their names say.                         *)
(***************************************************************************)
EXTENDS Totals, Ordered, FiniteSetTheorems, TLAPS

-----------------------------------------------------------------------------
(* Sums.                                                                   *)

\* Finitely many rows with a quantity each.
Amounts(T, q) == IsFiniteSet(T) /\ q \in [T -> Nat]

\* Finitely many rows are made of finitely many pieces.
LEMMA UnitsFinite ==
    ASSUME NEW T, NEW q, Amounts(T, q), NEW S \in SUBSET T
    PROVE  IsFiniteSet(Units(S, q))
<1> DEFINE Parts == {Pieces(h, q) : h \in S}
           f == [h \in S |-> Pieces(h, q)]
<1>1. IsFiniteSet(S)
  BY FS_Subset DEF Amounts
<1>2. f \in Surjection(S, Parts)
  BY DEF Surjection
<1>3. IsFiniteSet(Parts)
  <2> HIDE DEF f, Parts
  <2> QED BY <1>1, <1>2, FS_Surjection
<1>4. \A P \in Parts : IsFiniteSet(P)
  <2> SUFFICES ASSUME NEW h \in S PROVE IsFiniteSet(Pieces(h, q))
    OBVIOUS
  <2>1. q[h] \in Int
    BY DEF Amounts
  <2>2. IsFiniteSet(1 .. q[h])
    BY <2>1, FS_Interval
  <2>3. IsFiniteSet({h})
    BY FS_Singleton
  <2> QED BY <2>2, <2>3, FS_Product DEF Pieces
<1> HIDE DEF Parts
<1>5. IsFiniteSet(UNION Parts)
  BY <1>3, <1>4, FS_UNION
<1> QED BY <1>5 DEF Units, Parts

LEMMA SumType ==
    ASSUME NEW T, NEW q, Amounts(T, q), NEW S \in SUBSET T
    PROVE  SumOver(S, q) \in Nat
BY UnitsFinite, FS_CardinalityType DEF SumOver

LEMMA SumEmpty == ASSUME NEW q PROVE SumOver({}, q) = 0
<1>1. Units({}, q) = {}
  BY DEF Units
<1> QED BY <1>1, FS_EmptySet DEF SumOver

\* The sum over one row is its quantity.
LEMMA SumSingle ==
    ASSUME NEW T, NEW q, Amounts(T, q), NEW h \in T
    PROVE  SumOver({h}, q) = q[h]
<1> DEFINE I == 1 .. q[h]
<1>1. Units({h}, q) = {h} \X I
  BY DEF Units, Pieces
<1>2. q[h] \in Nat
  BY DEF Amounts
<1>3. IsFiniteSet(I) /\ Cardinality(I) = q[h]
  BY <1>2, FS_Interval, SMTT(20)
<1>4. IsFiniteSet({h}) /\ Cardinality({h}) = 1
  BY FS_Singleton
<1> HIDE DEF I
<1>5. Cardinality({h} \X I) = Cardinality({h}) * Cardinality(I)
  BY <1>3, <1>4, FS_Product
<1>6. Cardinality({h} \X I) = 1 * q[h]
  BY <1>3, <1>4, <1>5, Zenon
<1>7. 1 * q[h] = q[h]
  BY <1>2
<1> QED BY <1>1, <1>6, <1>7 DEF SumOver

\* Two sets of rows without a common one have no common piece.
LEMMA SumDisjoint ==
    ASSUME NEW T, NEW q, Amounts(T, q), NEW S \in SUBSET T, NEW R \in SUBSET T, S \cap R = {}
    PROVE  SumOver(S \cup R, q) = SumOver(S, q) + SumOver(R, q)
<1>1. Units(S \cup R, q) = Units(S, q) \cup Units(R, q)
  BY DEF Units
<1>2. Units(S, q) \cap Units(R, q) = {}
  BY DEF Units, Pieces
<1>3. IsFiniteSet(Units(S, q)) /\ IsFiniteSet(Units(R, q))
  BY UnitsFinite
<1>4. Cardinality(Units(S, q) \cup Units(R, q)) =
         Cardinality(Units(S, q)) + Cardinality(Units(R, q)) - Cardinality({})
  BY <1>2, <1>3, FS_Union
<1>5. SumOver(S \cup R, q) = SumOver(S, q) + SumOver(R, q) - 0
  BY <1>1, <1>4, FS_EmptySet, Zenon DEF SumOver
<1>6. SumOver(S, q) \in Nat /\ SumOver(R, q) \in Nat
  BY SumType
<1> QED BY <1>5, <1>6

\* Taking a part away from a set takes its sum away.
LEMMA SumMinus ==
    ASSUME NEW T, NEW q, Amounts(T, q), NEW S \in SUBSET T, NEW R \in SUBSET S
    PROVE  /\ SumOver(S \ R, q) = SumOver(S, q) - SumOver(R, q)
           /\ SumOver(R, q) <= SumOver(S, q)
<1>1. SumOver((S \ R) \cup R, q) = SumOver(S \ R, q) + SumOver(R, q)
  BY SumDisjoint
<1>2. (S \ R) \cup R = S
  OBVIOUS
<1>3. SumOver(S \ R, q) \in Nat /\ SumOver(R, q) \in Nat /\ SumOver(S, q) \in Nat
  BY SumType
<1>4. SumOver(S, q) = SumOver(S \ R, q) + SumOver(R, q)
  BY <1>1, <1>2, Zenon
<1> QED BY <1>3, <1>4

\* A sum depends on the quantities of its own rows only.
LEMMA SumSame ==
    ASSUME NEW S, NEW q, NEW r, \A h \in S : q[h] = r[h]
    PROVE  SumOver(S, q) = SumOver(S, r)
<1>1. \A h \in S : Pieces(h, q) = Pieces(h, r)
  BY DEF Pieces
<1>2. Units(S, q) = Units(S, r)
  BY <1>1 DEF Units
<1> QED BY <1>2 DEF SumOver

(* The sum of two quantities added row by row is the two sums added: the   *)
(* pieces of the first are among the pieces of both, and those of the      *)
(* second are what is left, counted from there.                            *)
LEMMA SumAdd ==
    ASSUME NEW T, NEW f, NEW g, Amounts(T, f), Amounts(T, g)
    PROVE  SumOver(T, [t \in T |-> f[t] + g[t]]) = SumOver(T, f) + SumOver(T, g)
<1> DEFINE both == [t \in T |-> f[t] + g[t]]
           U == Units(T, both)
           A == Units(T, f)
           B == Units(T, g)
           shift == [e \in U \ A |-> <<e[1], e[2] - f[e[1]]>>]
<1>1. Amounts(T, both)
  BY DEF Amounts
<1>2. /\ \A e : e \in U <=> \E t \in T : \E i \in 1 .. f[t] + g[t] : e = <<t, i>>
      /\ \A e : e \in A <=> \E t \in T : \E i \in 1 .. f[t] : e = <<t, i>>
      /\ \A e : e \in B <=> \E t \in T : \E i \in 1 .. g[t] : e = <<t, i>>
  BY DEF Units, Pieces
<1>3. \A t \in T : f[t] \in Nat /\ g[t] \in Nat
  BY DEF Amounts
<1>4. A \subseteq U
  BY <1>2, <1>3
<1>5. IsFiniteSet(U) /\ IsFiniteSet(A) /\ IsFiniteSet(B)
  BY <1>1, UnitsFinite
<1>6. \A e \in U \ A : \E t \in T, i \in Nat :
         e = <<t, i>> /\ f[t] < i /\ i <= f[t] + g[t]
  BY <1>2, <1>3
<1>7. \A e \in U \ A : shift[e] \in B
  <2> SUFFICES ASSUME NEW e \in U \ A PROVE <<e[1], e[2] - f[e[1]]>> \in B
    OBVIOUS
  <2>1. PICK t \in T, i \in Nat : e = <<t, i>> /\ f[t] < i /\ i <= f[t] + g[t]
    BY <1>6
  <2>2. i - f[t] \in 1 .. g[t]
    BY <1>3, <2>1
  <2> QED BY <1>2, <2>1, <2>2
<1>8. \A d, e \in U \ A : shift[d] = shift[e] => d = e
  <2> SUFFICES ASSUME NEW d \in U \ A, NEW e \in U \ A,
                      <<d[1], d[2] - f[d[1]]>> = <<e[1], e[2] - f[e[1]]>>
               PROVE  d = e
    OBVIOUS
  <2>1. PICK t \in T, i \in Nat : d = <<t, i>>
    BY <1>6
  <2>2. PICK u \in T, j \in Nat : e = <<u, j>>
    BY <1>6
  <2> QED BY <1>3, <2>1, <2>2
<1>9. \A b \in B : \E e \in U \ A : shift[e] = b
  <2> SUFFICES ASSUME NEW b \in B PROVE \E e \in U \ A : <<e[1], e[2] - f[e[1]]>> = b
    OBVIOUS
  <2>1. PICK t \in T : \E i \in 1 .. g[t] : b = <<t, i>>
    BY <1>2
  <2>2. PICK i \in 1 .. g[t] : b = <<t, i>>
    BY <2>1
  <2>3. f[t] + i \in 1 .. f[t] + g[t] /\ f[t] + i \notin 1 .. f[t] /\ (f[t] + i) - f[t] = i
    BY <1>3, <2>2
  <2>4. <<t, f[t] + i>> \in U \ A
    BY <1>2, <2>3
  <2> QED BY <2>2, <2>3, <2>4
<1>10. shift \in Bijection(U \ A, B)
  <2> HIDE DEF U, A, B
  <2>1. shift \in [U \ A -> B]
    BY <1>7
  <2> HIDE DEF shift
  <2> QED BY <1>8, <1>9, <2>1 DEF Bijection, Injection, IsInjective, Surjection
<1> HIDE DEF U, A, B, shift
<1>11. Cardinality(B) = Cardinality(U \ A)
  <2>1. IsFiniteSet(U \ A)
    BY <1>5, FS_Difference
  <2> QED BY <1>10, <2>1, FS_Bijection DEF ExistsBijection
<1>12. Cardinality(U \ A) = Cardinality(U) - Cardinality(A)
  <2>1. Cardinality(U \ A) = Cardinality(U) - Cardinality(U \cap A)
    BY <1>5, FS_Difference
  <2>2. U \cap A = A
    BY <1>4
  <2> QED BY <2>1, <2>2
<1>13. Cardinality(U) \in Nat /\ Cardinality(A) \in Nat
  BY <1>5, FS_CardinalityType
<1>14. Cardinality(U) = Cardinality(A) + Cardinality(B)
  BY <1>11, <1>12, <1>13
<1> QED BY <1>14 DEF U, A, B, SumOver

-----------------------------------------------------------------------------
(* Lists.                                                                  *)

\* A set of numbers has a least one.
LEMMA LeastNumber ==
    ASSUME NEW T \in SUBSET Nat, T # {}
    PROVE  \E x \in T : \A y \in T : x <= y
<1>1. PICK x \in T : \A y \in T : <<y, x>> \notin OpToRel(<, Nat)
  BY NatLessThanWellFounded, WFMin
<1>2. \A y \in T : ~(y < x)
  BY <1>1 DEF OpToRel
<1> QED BY <1>2

\* The list of the others with the least one put before it.
LEMMA PutBefore ==
    ASSUME NEW S \in SUBSET Nat, NEW m \in S, \A x \in S : m <= x,
           NEW k \in Nat, NEW ids \in [1 .. k -> S \ {m}], Lists(ids, S \ {m})
    PROVE  \E longer \in [1 .. k + 1 -> S] : Lists(longer, S)
<1> DEFINE longer == [i \in 1 .. k + 1 |-> IF i = 1 THEN m ELSE ids[i - 1]]
<1>1. longer \in [1 .. k + 1 -> S]
  OBVIOUS
<1>2. Ascending(longer)
  <2> SUFFICES ASSUME NEW i \in 1 .. k + 1, NEW j \in 1 .. k + 1, i < j
               PROVE  longer[i] < longer[j]
    BY DEF Ascending
  <2>1. j - 1 \in 1 .. k /\ longer[j] = ids[j - 1] /\ ids[j - 1] \in S \ {m}
    OBVIOUS
  <2>2. CASE i = 1
    <3>1. longer[i] = m /\ m < ids[j - 1]
      <4>1. m <= ids[j - 1] /\ m # ids[j - 1] /\ m \in Nat /\ ids[j - 1] \in Nat
        BY <2>1
      <4> HIDE DEF longer
      <4>2. m < ids[j - 1]
        BY <4>1
      <4>3. longer[i] = m
        BY <2>2 DEF longer
      <4> QED BY <4>2, <4>3
    <3> QED BY <2>1, <3>1
  <2>3. CASE i # 1
    <3>1. i - 1 \in 1 .. k /\ longer[i] = ids[i - 1] /\ i - 1 < j - 1
      BY <2>3
    <3> QED BY <2>1, <3>1 DEF Lists, Ascending
  <2> QED BY <2>2, <2>3
<1>3. S = {longer[i] : i \in 1 .. k + 1}
  <2>1. \A x \in S : \E i \in 1 .. k + 1 : x = longer[i]
    <3> SUFFICES ASSUME NEW x \in S, x # m
                 PROVE  \E i \in 1 .. k + 1 : x = longer[i]
      <4>1. longer[1] = m /\ 1 \in 1 .. k + 1
        OBVIOUS
      <4> QED BY <4>1
    <3>1. PICK i \in 1 .. k : x = ids[i]
      BY DEF Lists
    <3>2. i + 1 \in 1 .. k + 1 /\ longer[i + 1] = ids[i]
      OBVIOUS
    <3> QED BY <3>1, <3>2
  <2> HIDE DEF longer
  <2>2. \A i \in 1 .. k + 1 : longer[i] \in S
    BY <1>1
  <2> QED BY <2>1, <2>2
<1> QED
  <2> DOMAIN longer = 1 .. k + 1
    OBVIOUS
  <2> HIDE DEF longer
  <2> QED BY <1>1, <1>2, <1>3 DEF Lists

(* Every finite set of numbers can be listed.  A smallest set that cannot  *)
(* would still have a least number, and the others could be listed.        *)
LEMMA ListExists ==
    ASSUME NEW S \in SUBSET Nat, IsFiniteSet(S)
    PROVE  \E ids \in [1 .. Cardinality(S) -> S] : Lists(ids, S)
<1> DEFINE Listed(T) == \E ids \in [1 .. Cardinality(T) -> T] : Lists(ids, T)
           Bad == {n \in Nat : \E T \in SUBSET Nat :
                      IsFiniteSet(T) /\ Cardinality(T) = n /\ ~Listed(T)}
<1>1. SUFFICES ASSUME Bad # {} PROVE FALSE
  <2>1. Cardinality(S) \in Nat
    BY FS_CardinalityType
  <2> QED BY <2>1
<1>2. PICK n \in Bad : \A k \in Bad : n <= k
  <2>1. Bad \in SUBSET Nat
    OBVIOUS
  <2> HIDE DEF Bad
  <2> QED BY <1>1, <2>1, LeastNumber
<1>3. PICK T \in SUBSET Nat : IsFiniteSet(T) /\ Cardinality(T) = n /\ ~Listed(T)
  OBVIOUS
<1>4. T # {}
  <2> SUFFICES ASSUME T = {} PROVE Listed(T)
    BY <1>3
  <2>1. Cardinality(T) = 0
    BY FS_EmptySet
  <2> DEFINE none == [i \in 1 .. 0 |-> 0]
  <2>2. none \in [1 .. Cardinality(T) -> T] /\ Lists(none, T)
    BY <2>1 DEF Lists, Ascending
  <2> QED BY <2>2
<1>5. PICK m \in T : \A x \in T : m <= x
  BY <1>4, LeastNumber
<1> DEFINE R == T \ {m}
<1>6. IsFiniteSet(R) /\ Cardinality(R) = n - 1 /\ R \in SUBSET Nat
  BY <1>3, FS_RemoveElement
<1>7. n - 1 \in Nat /\ n - 1 \notin Bad
  <2>1. n - 1 \in Nat
    BY <1>6, FS_CardinalityType
  <2>2. n \in Nat
    OBVIOUS
  <2> HIDE DEF Bad
  <2> QED BY <1>2, <2>1, <2>2
<1>8. Listed(R)
  BY <1>6, <1>7
<1>9. PICK ids \in [1 .. n - 1 -> R] : Lists(ids, R)
  BY <1>6, <1>8
<1>10. \E longer \in [1 .. (n - 1) + 1 -> T] : Lists(longer, T)
  BY <1>5, <1>7, <1>9, PutBefore
<1>11. (n - 1) + 1 = Cardinality(T)
  BY <1>3, <1>7
<1> QED BY <1>3, <1>10, <1>11

LEMMA InIdOrderLists ==
    ASSUME NEW S \in SUBSET Nat, IsFiniteSet(S)
    PROVE  /\ Cardinality(S) \in Nat
           /\ InIdOrder(S) \in [1 .. Cardinality(S) -> S]
           /\ Lists(InIdOrder(S), S)
BY ListExists, FS_CardinalityType DEF InIdOrder

\* A finite set of numbers has a greatest one: the last of its list.
LEMMA GreatestNumber ==
    ASSUME NEW S \in SUBSET Nat, IsFiniteSet(S), S # {}
    PROVE  \E x \in S : \A y \in S : y <= x
<1> DEFINE n == Cardinality(S)
           ids == InIdOrder(S)
<1>1. n \in Nat /\ ids \in [1 .. n -> S] /\ Lists(ids, S)
  BY InIdOrderLists
<1>2. n # 0
  BY FS_EmptySet
<1> HIDE DEF n, ids
<1>3. n \in 1 .. n /\ ids[n] \in S
  BY <1>1, <1>2
<1>4. \A i \in 1 .. n : ids[i] <= ids[n]
  <2> SUFFICES ASSUME NEW i \in 1 .. n, i < n PROVE ids[i] < ids[n]
    <3> SUFFICES ASSUME NEW j \in 1 .. n PROVE ids[j] <= ids[n]
      OBVIOUS
    <3>1. ids[j] \in Nat /\ ids[n] \in Nat
      BY <1>1, <1>3
    <3>2. CASE j = n
      BY <3>1, <3>2
    <3>3. CASE j < n
      BY <3>1, <3>3
    <3> QED BY <1>1, <3>2, <3>3
  <2> QED BY <1>1, <1>3 DEF Lists, Ascending
<1>5. S = {ids[i] : i \in 1 .. n}
  BY <1>1 DEF Lists
<1> QED BY <1>3, <1>4, <1>5

\* A queue with an entry put at its end.
LEMMA Appended ==
    ASSUME NEW E, NEW q \in Seq(E), NEW e \in E
    PROVE  /\ Append(q, e) \in Seq(E)
           /\ DOMAIN q = 1 .. Len(q) /\ Len(q) \in Nat
           /\ DOMAIN Append(q, e) = 1 .. Len(q) + 1
           /\ \A i \in 1 .. Len(q) : Append(q, e)[i] = q[i]
           /\ Append(q, e)[Len(q) + 1] = e
OBVIOUS

\* The first entry of a queue and the others.
LEMMA HeadAndRest ==
    ASSUME NEW E, NEW q \in Seq(E), q # <<>>
    PROVE  /\ Head(q) = q[1] /\ Head(q) \in E /\ 1 \in DOMAIN q
           /\ Tail(q) \in Seq(E) /\ (Len(q) # 1 => Tail(q) # <<>>)
           /\ \A n \in DOMAIN Tail(q) :
                 n \in Nat /\ n + 1 \in DOMAIN q /\ n + 1 # 1 /\ Tail(q)[n] = q[n + 1]
<1>1. Len(q) \in Nat /\ DOMAIN q = 1 .. Len(q)
  OBVIOUS
<1>1a. Len(q) # 0
  OBVIOUS
<1>2. Head(q) = q[1] /\ Head(q) \in E /\ 1 \in DOMAIN q
  BY <1>1, <1>1a
<1>3. Tail(q) \in Seq(E) /\ Len(Tail(q)) = Len(q) - 1
  BY <1>1, <1>1a
<1>4. DOMAIN Tail(q) = 1 .. Len(q) - 1
  BY <1>1, <1>3
<1>5. \A n \in 1 .. Len(q) - 1 : Tail(q)[n] = q[n + 1]
  BY <1>1
<1>6. Len(q) # 1 => Tail(q) # <<>>
  <2> SUFFICES ASSUME Tail(q) = <<>> PROVE Len(q) = 1
    OBVIOUS
  <2>1. Len(Tail(q)) = 0
    <3>1. Len(<<>>) = 0
      OBVIOUS
    <3> DEFINE rest == Tail(q)
    <3>2. rest = <<>>
      OBVIOUS
    <3> HIDE DEF rest
    <3>3. Len(rest) = 0
      BY <3>1, <3>2
    <3> QED BY <3>3 DEF rest
  <2> QED BY <1>1, <1>3, <2>1
<1>7. \A n \in 1 .. Len(q) - 1 : n \in Nat /\ n + 1 \in DOMAIN q /\ n + 1 # 1
  BY <1>1
<1> QED BY <1>2, <1>3, <1>4, <1>5, <1>6, <1>7

\* The first n entries of a queue.
LEMMA FirstEntries ==
    ASSUME NEW E, NEW q \in Seq(E), NEW n \in 1 .. Len(q)
    PROVE  /\ SubSeq(q, 1, n) \in Seq(E) /\ SubSeq(q, 1, n) # <<>>
           /\ DOMAIN SubSeq(q, 1, n) = 1 .. n
           /\ \A m \in 1 .. n : m \in DOMAIN q /\ SubSeq(q, 1, n)[m] = q[m]
<1>1. n \in Nat /\ 1 <= n /\ DOMAIN q = 1 .. Len(q) /\ Len(q) \in Nat
  OBVIOUS
<1>2. \A m \in 1 .. n : m \in DOMAIN q /\ q[m] \in E
  BY <1>1
<1> DEFINE first == SubSeq(q, 1, n)
<1>3. first = [m \in 1 .. n |-> q[m]]
  BY <1>1
<1> HIDE DEF first
<1>4. first \in Seq(E) /\ DOMAIN first = 1 .. n /\ \A m \in 1 .. n : first[m] = q[m]
  BY <1>1, <1>2, <1>3
<1>5. first # <<>>
  BY <1>1, <1>4
<1> QED BY <1>2, <1>4, <1>5 DEF first

\* What is kept of a queue: each entry comes from one of the places, in order.
LEMMA KeptPlaces ==
    ASSUME NEW E, NEW q \in Seq(E), NEW places \in SUBSET (DOMAIN q)
    PROVE  /\ Kept(q, places) \in Seq(E)
           /\ \E from \in [DOMAIN Kept(q, places) -> places] :
                 /\ \A i \in DOMAIN from : Kept(q, places)[i] = q[from[i]]
                 /\ \A i, j \in DOMAIN from : i < j => from[i] < from[j]
                 /\ \A k \in places : \E i \in DOMAIN from : from[i] = k
<1> DEFINE n == Cardinality(places)
           from == InIdOrder(places)
           kept == Kept(q, places)
<1>1. DOMAIN q = 1 .. Len(q) /\ Len(q) \in Nat
  OBVIOUS
<1>2. places \in SUBSET Nat /\ IsFiniteSet(places)
  <2>1. IsFiniteSet(1 .. Len(q))
    <3>1. 1 \in Int /\ Len(q) \in Int
      BY <1>1
    <3> QED BY <3>1, FS_Interval
  <2> QED BY <1>1, <2>1, FS_Subset
<1>3. n \in Nat /\ from \in [1 .. n -> places] /\ Lists(from, places)
  BY <1>2, InIdOrderLists
<1>4. kept = [i \in 1 .. n |-> q[from[i]]]
  BY DEF Kept
<1> HIDE DEF n, from, kept
<1>5. \A i \in 1 .. n : q[from[i]] \in E
  BY <1>1, <1>3
<1>6. kept \in Seq(E) /\ DOMAIN kept = 1 .. n /\ \A i \in 1 .. n : kept[i] = q[from[i]]
  BY <1>3, <1>4, <1>5
<1>7. from \in [DOMAIN kept -> places] /\ DOMAIN from = 1 .. n
  BY <1>3, <1>6
<1>8. /\ \A i, j \in DOMAIN from : i < j => from[i] < from[j]
      /\ \A k \in places : \E i \in DOMAIN from : from[i] = k
  BY <1>3 DEF Lists, Ascending
<1> QED BY <1>6, <1>7, <1>8 DEF kept

=============================================================================
