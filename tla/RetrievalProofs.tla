--------------------------- MODULE RetrievalProofs ---------------------------
(***************************************************************************)
(* Proofs about S4 and S5, for any tree, events, replies, commits, limits   *)
(* and budget: lists and sums first, then what each operator of             *)
(* understanding, retrieval and ranking yields, then the invariant that     *)
(* ties each part of the state to the parts it was computed from.           *)
(***************************************************************************)
EXTENDS Retrieval, FiniteSetTheorems, SequenceTheorems, WellFoundedInduction, TLAPS

\* A set of naturals that is not empty has a least element.
LEMMA LeastNatural ==
    ASSUME NEW S, S \subseteq Nat, S # {}
    PROVE  \E m \in S : \A n \in S : m <= n
<1> DEFINE R == OpToRel(<, Nat)
<1>1. IsWellFoundedOn(R, Nat)
  BY NatLessThanWellFounded
<1> HIDE DEF R
<1>2. PICK m \in S : \A n \in S : ~ (<<n, m>> \in R)
  BY <1>1, WFMin
<1>3. \A n \in S : ~ (n < m)
  BY <1>2 DEF R, OpToRel
<1>. QED  BY <1>2, <1>3

\* Induction over the natural numbers, for a set of them.
LEMMA NaturalSetInduction ==
    ASSUME NEW T, T \subseteq Nat, 0 \in T, \A n \in T : n + 1 \in T
    PROVE  T = Nat
<1> SUFFICES ASSUME Nat \ T # {}  PROVE FALSE
  OBVIOUS
<1>1. PICK m \in Nat \ T : \A n \in Nat \ T : m <= n
  BY LeastNatural
<1>2. m # 0 /\ m - 1 \in Nat /\ ~ (m <= m - 1)
  OBVIOUS
<1>3. m - 1 \in T
  BY <1>1, <1>2
<1>. QED  BY <1>2, <1>3

-----------------------------------------------------------------------------
\* A finite set in a strict total order, given as the set R of its pairs.
Below(S, R, r) == {q \in S : <<q, r>> \in R}

StrictOrder(S, R) ==
    /\ \A a \in S : <<a, a>> \notin R
    /\ \A a, b, c \in S : <<a, b>> \in R /\ <<b, c>> \in R => <<a, c>> \in R
    /\ \A a, b \in S : a # b => <<a, b>> \in R \/ <<b, a>> \in R

\* How many come before an element is its rank, and every rank is taken.
LEMMA RanksAreTaken ==
    ASSUME NEW S, IsFiniteSet(S), NEW R, StrictOrder(S, R)
    PROVE  /\ \A r \in S : Cardinality(Below(S, R, r)) \in 0 .. Cardinality(S) - 1
           /\ \A a, b \in S : <<a, b>> \in R =>
                 Cardinality(Below(S, R, a)) < Cardinality(Below(S, R, b))
           /\ \A k \in 1 .. Cardinality(S) : \E r \in S : Cardinality(Below(S, R, r)) = k - 1
<1> DEFINE N == Cardinality(S)
           Place(r) == Cardinality(Below(S, R, r))
           f == [r \in S |-> Place(r)]
           Ranks == 0 .. N - 1
<1>0. N \in Nat
  BY FS_CardinalityType
<1>1. \A r \in S : IsFiniteSet(Below(S, R, r)) /\ Place(r) \in Nat
  <2> TAKE r \in S
  <2>1. Below(S, R, r) \in SUBSET S
    BY DEF Below
  <2>2. IsFiniteSet(Below(S, R, r))
    BY <2>1, FS_Subset
  <2>. QED  BY <2>2, FS_CardinalityType
<1>2. \A r \in S : Place(r) \in Ranks
  <2> TAKE r \in S
  <2>1. Below(S, R, r) \in SUBSET (S \ {r})
    BY DEF Below, StrictOrder
  <2>2. IsFiniteSet(S \ {r}) /\ Cardinality(S \ {r}) = N - 1
    BY FS_RemoveElement
  <2>3. Place(r) <= N - 1
    BY <2>1, <2>2, FS_Subset
  <2>. QED  BY <1>0, <1>1, <2>3
<1>3. \A a, b \in S : <<a, b>> \in R => Place(a) < Place(b)
  <2> SUFFICES ASSUME NEW a \in S, NEW b \in S, <<a, b>> \in R  PROVE Place(a) < Place(b)
    OBVIOUS
  <2>1. a \in Below(S, R, b)
    BY DEF Below
  <2>2. Below(S, R, a) \in SUBSET (Below(S, R, b) \ {a})
    BY DEF Below, StrictOrder
  <2>3. /\ IsFiniteSet(Below(S, R, b) \ {a})
        /\ Cardinality(Below(S, R, b) \ {a}) = Place(b) - 1
    BY <1>1, <2>1, FS_RemoveElement
  <2>4. Place(a) <= Place(b) - 1
    BY <2>2, <2>3, FS_Subset
  <2>. QED  BY <1>1, <2>4
<1>4. f \in Injection(S, Ranks)
  <2>1. f \in [S -> Ranks]
    BY <1>2
  <2>2. ASSUME NEW a \in S, NEW b \in S, a # b  PROVE Place(a) # Place(b)
    <3>1. <<a, b>> \in R \/ <<b, a>> \in R
      BY <2>2 DEF StrictOrder
    <3>2. Place(a) < Place(b) \/ Place(b) < Place(a)
      BY <1>3, <3>1
    <3>. QED  BY <1>1, <3>2
  <2>3. \A a, b \in S : f[a] = f[b] => a = b
    BY <2>2
  <2>. QED  BY <2>1, <2>3 DEF Injection, IsInjective
<1>5. IsFiniteSet(Ranks) /\ Cardinality(Ranks) = N
  BY <1>0, FS_Interval
<1> HIDE DEF N, Ranks, f
<1>6. f \in Surjection(S, Ranks)
  BY <1>4, <1>5, FS_Injection DEF N
<1>7. \A k \in Ranks : \E r \in S : f[r] = k
  BY <1>6 DEF Surjection
<1>8. \A k \in 1 .. N : k - 1 \in Ranks
  BY <1>0 DEF Ranks
<1>9. \A k \in 1 .. N : \E r \in S : Place(r) = k - 1
  BY <1>7, <1>8 DEF f
<1>. QED  BY <1>2, <1>3, <1>9 DEF N, Ranks

-----------------------------------------------------------------------------
\* Picked: what a list has at some of its positions.
LEMMA NthMeans ==
    ASSUME NEW n \in Nat, NEW W, W \subseteq 1 .. n
    PROVE  /\ IsFiniteSet(W) /\ Cardinality(W) \in 0 .. n
           /\ \A k \in 1 .. Cardinality(W) : Nth(W, k) \in W
           /\ \A i \in W : \E k \in 1 .. Cardinality(W) : Nth(W, k) = i
           /\ \A k, l \in 1 .. Cardinality(W) : k < l => Nth(W, k) < Nth(W, l)
<1> DEFINE R == {p \in W \X W : p[1] < p[2]}
           N == Cardinality(W)
           Place(i) == Cardinality(Below(W, R, i))
<1>1. IsFiniteSet(W) /\ N \in 0 .. n
  <2>1. IsFiniteSet(1 .. n) /\ Cardinality(1 .. n) = n
    BY FS_Interval
  <2>2. IsFiniteSet(W) /\ N <= n
    BY <2>1, FS_Subset
  <2>. QED  BY <2>2, FS_CardinalityType
<1>2. StrictOrder(W, R)
  <2>1. \A a, b \in W : <<a, b>> \in R <=> a < b
    OBVIOUS
  <2>2. W \subseteq Int
    OBVIOUS
  <2> HIDE DEF R
  <2>. QED  BY <2>1, <2>2 DEF StrictOrder
<1>3. \A i \in W : {j \in W : j < i} = Below(W, R, i)
  BY DEF Below
<1> HIDE DEF R
<1>4. /\ \A i \in W : Place(i) \in 0 .. N - 1
      /\ \A a, b \in W : <<a, b>> \in R => Place(a) < Place(b)
      /\ \A k \in 1 .. N : \E i \in W : Place(i) = k - 1
  BY <1>1, <1>2, RanksAreTaken
<1>5. \A k : Nth(W, k) = CHOOSE i \in W : Cardinality({j \in W : j < i}) = k - 1
  BY DEF Nth
<1>6. \A k \in 1 .. N : Nth(W, k) \in W /\ Place(Nth(W, k)) = k - 1
  <2> TAKE k \in 1 .. N
  <2>1. \E i \in W : Cardinality({j \in W : j < i}) = k - 1
    BY <1>3, <1>4
  <2>2. Nth(W, k) \in W /\ Cardinality({j \in W : j < Nth(W, k)}) = k - 1
    BY <1>5, <2>1
  <2>. QED  BY <1>3, <2>2
<1>7. \A a, b \in W : Place(a) = Place(b) => a = b
  <2> SUFFICES ASSUME NEW a \in W, NEW b \in W, a # b  PROVE Place(a) # Place(b)
    OBVIOUS
  <2>1. <<a, b>> \in R \/ <<b, a>> \in R
    BY <1>2 DEF StrictOrder
  <2>2. Place(a) < Place(b) \/ Place(b) < Place(a)
    BY <1>4, <2>1
  <2>3. Place(a) \in Int /\ Place(b) \in Int
    BY <1>4
  <2> HIDE DEF Place
  <2>. QED  BY <2>2, <2>3
<1>8. \A i \in W : \E k \in 1 .. N : Nth(W, k) = i
  <2> TAKE i \in W
  <2>1. Place(i) \in 0 .. N - 1 /\ N \in Nat
    BY <1>1, <1>4
  <2> DEFINE k == Place(i) + 1
  <2>2. k \in 1 .. N /\ k - 1 = Place(i)
    <3> HIDE DEF Place, N
    <3>. QED  BY <2>1
  <2> HIDE DEF k
  <2>3. Nth(W, k) \in W /\ Place(Nth(W, k)) = Place(i)
    BY <1>6, <2>2
  <2>. QED  BY <1>7, <2>2, <2>3
<1>9. \A k, l \in 1 .. N : k < l => Nth(W, k) < Nth(W, l)
  <2> SUFFICES ASSUME NEW k \in 1 .. N, NEW l \in 1 .. N, k < l  PROVE Nth(W, k) < Nth(W, l)
    OBVIOUS
  <2> DEFINE a == Nth(W, k)  b == Nth(W, l)
  <2>1. a \in W /\ b \in W /\ Place(a) = k - 1 /\ Place(b) = l - 1
    BY <1>6
  <2> HIDE DEF a, b
  <2>2. ~ (b < a)
    <3> SUFFICES ASSUME b < a  PROVE FALSE
      OBVIOUS
    <3>1. <<b, a>> \in R
      BY <2>1 DEF R
    <3>2. Place(b) < Place(a)
      BY <1>4, <2>1, <3>1
    <3> HIDE DEF Place
    <3>. QED  BY <1>1, <2>1, <3>2
  <2>3. a # b
    <3> HIDE DEF Place
    <3>. QED  BY <1>1, <2>1
  <2>4. a \in Int /\ b \in Int
    BY <2>1
  <2>. QED  BY <2>2, <2>3, <2>4 DEF a, b
<1>. QED  BY <1>1, <1>6, <1>8, <1>9

\* g is what s has at the positions W, no less and no more.
ArePicked(g, s, W) ==
    /\ IsList(g)
    /\ \A k \in DOMAIN g : \E i \in W : g[k] = s[i]
    /\ \A i \in W : \E k \in DOMAIN g : g[k] = s[i]
    /\ W # {} => 1 \in DOMAIN g /\ g # <<>>
    /\ W = {} => g = <<>>

\* The entries of s at the positions W, in the order of the list: each kept position once.
LEMMA PickedMeans ==
    ASSUME NEW s, NEW n \in Nat, NEW W, W \subseteq 1 .. n
    PROVE  ArePicked(Picked(s, W), s, W) /\ Len(Picked(s, W)) <= n
<1> DEFINE N == Cardinality(W)
           g == Picked(s, W)
<1>1. /\ N \in 0 .. n /\ N \in Nat
      /\ \A k \in 1 .. N : Nth(W, k) \in W
      /\ \A i \in W : \E k \in 1 .. N : Nth(W, k) = i
  <2>1. /\ Cardinality(W) \in 0 .. n
        /\ \A k \in 1 .. Cardinality(W) : Nth(W, k) \in W
        /\ \A i \in W : \E k \in 1 .. Cardinality(W) : Nth(W, k) = i
    BY NthMeans
  <2>2. Cardinality(W) \in Nat
    BY <2>1
  <2>. QED  BY <2>1, <2>2
<1>2. g = [k \in 1 .. N |-> s[Nth(W, k)]]
  BY DEF Picked
<1> HIDE DEF N, g
<1>3. DOMAIN g = 1 .. N /\ \A k \in 1 .. N : g[k] = s[Nth(W, k)]
  BY <1>2
<1>4. ASSUME NEW T, \A i \in W : s[i] \in T  PROVE g \in Seq(T)
  <2>1. g \in [1 .. N -> T]
    BY <1>1, <1>2, <1>4
  <2>. QED  BY <1>1, <2>1, SeqDef
<1>5. IsList(g) /\ Len(g) = N
  <2>1. \A i \in W : s[i] \in Range(g)
    BY <1>1, <1>3 DEF Range
  <2>2. g \in Seq(Range(g))
    BY <1>4, <2>1
  <2>3. Len(g) = N
    BY <1>1, <1>3, <2>2, LenProperties
  <2>. QED  BY <2>2, <2>3 DEF IsList
<1>6. /\ \A k \in 1 .. N : \E i \in W : g[k] = s[i]
      /\ \A i \in W : \E k \in 1 .. N : g[k] = s[i]
  BY <1>1, <1>3
<1>7. W # {} => N >= 1 /\ 1 \in 1 .. N
  <2>1. W # {} => \E k \in 1 .. N : TRUE
    BY <1>6
  <2>. QED  BY <1>1, <2>1
<1>8. N >= 1 => g # <<>>
  BY <1>1, <1>5
<1>9. g # <<>> => W # {}
  <2> SUFFICES ASSUME W = {}  PROVE g = <<>>
    OBVIOUS
  <2>1. N = 0
    BY <1>6, FS_EmptySet DEF N
  <2>. QED  BY <1>5, <2>1, EmptySeq DEF IsList
<1>10. Len(g) <= n
  BY <1>1, <1>5
<1>. QED  BY <1>3, <1>5, <1>6, <1>7, <1>8, <1>9, <1>10 DEF g, ArePicked

\* What is kept of a list is a sequence over whatever its kept entries belong to.
LEMMA PickedIsSeq ==
    ASSUME NEW s, NEW n \in Nat, NEW W, W \subseteq 1 .. n, NEW T, \A i \in W : s[i] \in T
    PROVE  Picked(s, W) \in Seq(T)
<1>1. Picked(s, W) = [k \in 1 .. Cardinality(W) |-> s[Nth(W, k)]]
  BY DEF Picked
<1>2. Cardinality(W) \in Nat /\ \A k \in 1 .. Cardinality(W) : Nth(W, k) \in W
  <2>1. Cardinality(W) \in 0 .. n /\ \A k \in 1 .. Cardinality(W) : Nth(W, k) \in W
    BY NthMeans
  <2>. QED  BY <2>1
<1>3. Picked(s, W) \in [1 .. Cardinality(W) -> T]
  BY <1>1, <1>2
<1>. QED  BY <1>2, <1>3, SeqDef

\* A list that is picked from is one whose elements come from it.
LEMMA ListMeans ==
    ASSUME NEW s, IsList(s)
    PROVE  /\ Len(s) \in Nat /\ DOMAIN s = 1 .. Len(s)
           /\ \A T : (\A i \in DOMAIN s : s[i] \in T) => s \in Seq(T)
<1>1. s \in Seq(Range(s))
  BY DEF IsList
<1>2. Len(s) \in Nat /\ DOMAIN s = 1 .. Len(s)
  BY <1>1, LenProperties
<1>3. s = [i \in 1 .. Len(s) |-> s[i]]
  BY <1>1, <1>2
<1>. QED  BY <1>2, <1>3

\* Dropping repetitions (dict.fromkeys) loses no entry and adds none.
LEMMA DistinctMeans ==
    ASSUME NEW s, IsList(s)
    PROVE  /\ IsList(Distinct(s))
           /\ \A k \in DOMAIN Distinct(s) : \E i \in DOMAIN s : Distinct(s)[k] = s[i]
           /\ \A i \in DOMAIN s : \E k \in DOMAIN Distinct(s) : Distinct(s)[k] = s[i]
<1> DEFINE n == Len(s)
           W == {i \in DOMAIN s : \A j \in 1 .. i - 1 : s[j] # s[i]}
<1>1. n \in Nat /\ DOMAIN s = 1 .. n
  BY ListMeans
<1>2. W \subseteq 1 .. n
  BY <1>1
<1>3. Distinct(s) = Picked(s, W)
  BY DEF Distinct
<1>4. \A i \in DOMAIN s : \E j \in W : s[j] = s[i]
  <2> TAKE i \in DOMAIN s
  <2> DEFINE S == {j \in 1 .. n : s[j] = s[i]}
  <2>1. S \subseteq Nat /\ i \in S
    BY <1>1
  <2>2. PICK m \in S : \A j \in S : m <= j
    BY <2>1, LeastNatural
  <2>3. m \in W
    BY <1>1, <2>2
  <2>. QED  BY <2>2, <2>3
<1>5. W \subseteq DOMAIN s
  OBVIOUS
<1> HIDE DEF W, n
<1>6. ArePicked(Picked(s, W), s, W)
  BY <1>1, <1>2, PickedMeans
<1>7. \A i \in DOMAIN s : \E k \in DOMAIN Picked(s, W) : Picked(s, W)[k] = s[i]
  BY <1>4, <1>6 DEF ArePicked
<1>. QED  BY <1>3, <1>5, <1>6, <1>7 DEF ArePicked

\* Dropping the empty entries loses no other entry and adds none.
LEMMA PresentMeans ==
    ASSUME NEW s, IsList(s)
    PROVE  /\ IsList(Present(s))
           /\ \A k \in DOMAIN Present(s) : \E i \in DOMAIN s : Present(s)[k] = s[i] /\ s[i] # None
           /\ \A i \in DOMAIN s : s[i] # None =>
                 \E k \in DOMAIN Present(s) : Present(s)[k] = s[i]
<1> DEFINE n == Len(s)
           W == {i \in DOMAIN s : s[i] # None}
<1>1. n \in Nat /\ DOMAIN s = 1 .. n
  BY ListMeans
<1>2. W \subseteq 1 .. n
  BY <1>1
<1>3. Present(s) = Picked(s, W)
  BY DEF Present
<1> HIDE DEF n
<1>4. \A i : i \in W <=> i \in DOMAIN s /\ s[i] # None
  OBVIOUS
<1> HIDE DEF W
<1>5. ArePicked(Picked(s, W), s, W)
  BY <1>1, <1>2, PickedMeans
<1>. QED  BY <1>3, <1>4, <1>5 DEF ArePicked

-----------------------------------------------------------------------------
\* Sums satisfies its definition.
LEMMA SumsSteps ==
    ASSUME NEW s, Len(s) \in Nat
    PROVE  \A n \in 0 .. Len(s) :
              Sums(s)[n] = IF n = 0 THEN 0 ELSE Sums(s)[n - 1] + s[n]
<1> DEFINE First == 0
           Then(v, n) == v + s[n]
           Rec(g, m) == g = [n \in 0 .. m |-> IF n = 0 THEN First ELSE Then(g[n - 1], n)]
           T == {m \in Nat : \E g : Rec(g, m)}
<1>1. 0 \in T
  <2>1. Rec([n \in 0 .. 0 |-> First], 0)
    OBVIOUS
  <2>. QED  BY <2>1
<1>2. ASSUME NEW m \in T  PROVE m + 1 \in T
  <2>1. PICK g : Rec(g, m)
    OBVIOUS
  <2> DEFINE k == [n \in 0 .. m + 1 |-> IF n = m + 1 THEN Then(g[m], m + 1) ELSE g[n]]
  <2> HIDE DEF First, Then
  <2>2. \A n \in 0 .. m : g[n] = IF n = 0 THEN First ELSE Then(g[n - 1], n)
    BY <2>1
  <2>3. (\A n \in 0 .. m : k[n] = g[n]) /\ k[m + 1] = Then(g[m], m + 1)
    OBVIOUS
  <2>4. k = [n \in 0 .. m + 1 |-> k[n]]
    OBVIOUS
  <2> HIDE DEF k
  <2>5. \A n \in 0 .. m + 1 : k[n] = IF n = 0 THEN First ELSE Then(k[n - 1], n)
    <3> TAKE n \in 0 .. m + 1
    <3>1. CASE n = 0
      <4>1. k[0] = First
        BY <2>2, <2>3
      <4>. QED  BY <3>1, <4>1
    <3>2. CASE n \in 1 .. m
      BY <3>2, <2>2, <2>3
    <3>3. CASE n = m + 1
      BY <3>3, <2>3
    <3>. QED  BY <3>1, <3>2, <3>3
  <2>6. Rec(k, m + 1)
    BY <2>4, <2>5
  <2> HIDE DEF Rec
  <2>. QED  BY <2>6
<1>3. T = Nat
  <2> HIDE DEF T
  <2>1. T \subseteq Nat  BY DEF T
  <2>. QED  BY <2>1, <1>1, <1>2, NaturalSetInduction
<1>4. \E g : Rec(g, Len(s))
  BY <1>3
<1>5. Sums(s) = CHOOSE g : Rec(g, Len(s))
  BY DEF Sums
<1> HIDE DEF Rec
<1>6. Rec(Sums(s), Len(s))
  BY <1>4, <1>5
<1>. QED  BY <1>6 DEF Rec

\* The sum of numbers is a number, that of none is 0, and one more number adds itself.
LEMMA TotalIsInt ==
    ASSUME NEW s \in Seq(Int)
    PROVE  \A n \in 0 .. Len(s) : Sums(s)[n] \in Int
<1> DEFINE T == {n \in Nat : n \in 0 .. Len(s) => Sums(s)[n] \in Int}
<1>1. \A n \in 0 .. Len(s) : Sums(s)[n] = IF n = 0 THEN 0 ELSE Sums(s)[n - 1] + s[n]
  BY SumsSteps
<1>2. 0 \in T
  BY <1>1
<1>3. ASSUME NEW n \in T  PROVE n + 1 \in T
  <2> SUFFICES ASSUME n + 1 \in 0 .. Len(s)  PROVE Sums(s)[n + 1] \in Int
    OBVIOUS
  <2>1. Sums(s)[n + 1] = Sums(s)[n] + s[n + 1]
    BY <1>1
  <2>2. Sums(s)[n] \in Int /\ s[n + 1] \in Int
    OBVIOUS
  <2>. QED  BY <2>1, <2>2
<1>4. T = Nat
  <2> HIDE DEF T
  <2>1. T \subseteq Nat  BY DEF T
  <2>. QED  BY <2>1, <1>2, <1>3, NaturalSetInduction
<1>. QED  BY <1>4

\* The sum of a list grows by the entry appended to it.
LEMMA TotalOfMore ==
    ASSUME NEW s \in Seq(Int), NEW x \in Int
    PROVE  Total(s) \in Int /\ Total(Append(s, x)) = Total(s) + x
<1> DEFINE t == Append(s, x)
           T == {n \in Nat : n \in 0 .. Len(s) => Sums(t)[n] = Sums(s)[n]}
<1>1. t \in Seq(Int) /\ Len(t) = Len(s) + 1 /\ t[Len(s) + 1] = x
      /\ \A i \in 1 .. Len(s) : t[i] = s[i]
  BY AppendProperties
<1> HIDE DEF t
<1>2. /\ \A n \in 0 .. Len(s) : Sums(s)[n] = IF n = 0 THEN 0 ELSE Sums(s)[n - 1] + s[n]
      /\ \A n \in 0 .. Len(t) : Sums(t)[n] = IF n = 0 THEN 0 ELSE Sums(t)[n - 1] + t[n]
  <2>1. Len(s) \in Nat /\ Len(t) \in Nat
    BY <1>1
  <2>2. \A n \in 0 .. Len(s) : Sums(s)[n] = IF n = 0 THEN 0 ELSE Sums(s)[n - 1] + s[n]
    BY <2>1, SumsSteps
  <2>3. \A n \in 0 .. Len(t) : Sums(t)[n] = IF n = 0 THEN 0 ELSE Sums(t)[n - 1] + t[n]
    BY <2>1, SumsSteps
  <2>. QED  BY <2>2, <2>3
<1>3. 0 \in T
  BY <1>1, <1>2
<1>4. ASSUME NEW n \in T  PROVE n + 1 \in T
  <2> SUFFICES ASSUME n + 1 \in 0 .. Len(s)  PROVE Sums(t)[n + 1] = Sums(s)[n + 1]
    OBVIOUS
  <2>1. Sums(t)[n] = Sums(s)[n] /\ t[n + 1] = s[n + 1]
    BY <1>1
  <2>2. Sums(s)[n + 1] = Sums(s)[n] + s[n + 1] /\ Sums(t)[n + 1] = Sums(t)[n] + t[n + 1]
    BY <1>1, <1>2
  <2>. QED  BY <2>1, <2>2
<1>5. T = Nat
  <2> HIDE DEF T
  <2>1. T \subseteq Nat  BY DEF T
  <2>. QED  BY <2>1, <1>3, <1>4, NaturalSetInduction
<1>6. Sums(t)[Len(s)] = Sums(s)[Len(s)]
  BY <1>5
<1>7. Sums(t)[Len(t)] = Sums(t)[Len(s)] + x
  BY <1>1, <1>2
<1>8. Sums(s)[Len(s)] \in Int
  BY TotalIsInt
<1>. QED  BY <1>6, <1>7, <1>8 DEF Total, t

\* The sum of the empty list.
LEMMA TotalOfNone == Total(<<>>) = 0
<1>1. Len(<<>>) = 0
  OBVIOUS
<1>2. Sums(<<>>)[0] = 0
  BY <1>1, SumsSteps
<1>. QED  BY <1>1, <1>2 DEF Total

\* So do the sizes of things that are admitted.
LEMMA TokensIsInt ==
    ASSUME NEW V, \A v \in V : v.tokens \in Int, NEW s \in Seq(V)
    PROVE  Tokens(s) \in Int
<1> DEFINE sizes == [i \in DOMAIN s |-> s[i].tokens]
<1>1. DOMAIN s = 1 .. Len(s) /\ Len(s) \in Nat
  BY LenProperties
<1>2. sizes \in [1 .. Len(s) -> Int]
  BY <1>1, ElementOfSeq
<1>3. sizes \in Seq(Int) /\ Len(sizes) = Len(s)
  <2>1. sizes \in Seq(Int)
    BY <1>1, <1>2, SeqDef
  <2>. QED  BY <1>1, <2>1, LenProperties
<1>4. Tokens(s) = Sums(sizes)[Len(sizes)]
  BY DEF Tokens, Total
<1> HIDE DEF sizes
<1>5. Len(sizes) \in 0 .. Len(sizes)
  BY <1>1, <1>3
<1>. QED  BY <1>3, <1>4, <1>5, TotalIsInt

\* The tokens of a list grow by those of the entry appended to it.
LEMMA TokensOfMore ==
    ASSUME NEW V, \A v \in V : v.tokens \in Int, NEW s \in Seq(V), NEW x \in V
    PROVE  Tokens(s) \in Int /\ Tokens(Append(s, x)) = Tokens(s) + x.tokens
<1> DEFINE sizes == [i \in DOMAIN s |-> s[i].tokens]
           t == Append(s, x)
           more == [i \in DOMAIN t |-> t[i].tokens]
<1>1. t \in Seq(V) /\ Len(t) = Len(s) + 1 /\ t[Len(s) + 1] = x
      /\ \A i \in 1 .. Len(s) : t[i] = s[i]
  BY AppendProperties
<1> HIDE DEF t
<1>2. DOMAIN s = 1 .. Len(s) /\ DOMAIN t = 1 .. Len(s) + 1 /\ Len(s) \in Nat
  BY <1>1, LenProperties
<1>3. sizes \in Seq(Int) /\ Len(sizes) = Len(s)
  <2>1. sizes \in [1 .. Len(s) -> Int]
    BY <1>2, ElementOfSeq
  <2>2. sizes \in Seq(Int)
    BY <1>2, <2>1, SeqDef
  <2>. QED  BY <1>2, <2>2, LenProperties
<1>4. more = Append(sizes, x.tokens)
  <2> DEFINE a == Append(sizes, x.tokens)
  <2>1. /\ a \in Seq(Int) /\ Len(a) = Len(s) + 1 /\ a[Len(s) + 1] = x.tokens
        /\ \A i \in 1 .. Len(s) : a[i] = sizes[i]
    BY <1>3, AppendProperties
  <2>2. DOMAIN a = 1 .. Len(s) + 1 /\ a = [i \in DOMAIN a |-> a[i]]
    BY <2>1, LenProperties
  <2> HIDE DEF a
  <2>3. \A i \in 1 .. Len(s) + 1 : more[i] = a[i]
    <3> TAKE i \in 1 .. Len(s) + 1
    <3>1. CASE i = Len(s) + 1
      BY <1>1, <1>2, <2>1, <3>1
    <3>2. CASE i \in 1 .. Len(s)
      BY <1>1, <1>2, <2>1, <3>2
    <3>. QED  BY <1>2, <3>1, <3>2
  <2>. QED  BY <1>2, <2>2, <2>3 DEF a
<1>5. Tokens(s) = Total(sizes) /\ Tokens(t) = Total(more)
  BY DEF Tokens
<1> HIDE DEF sizes, more
<1>6. Total(sizes) \in Int /\ Total(Append(sizes, x.tokens)) = Total(sizes) + x.tokens
  BY <1>3, TotalOfMore
<1>. QED  BY <1>4, <1>5, <1>6 DEF t

\* The tokens of the empty list.
LEMMA TokensOfNone == Tokens(<<>>) = 0
<1>1. [i \in DOMAIN <<>> |-> <<>>[i].tokens] = <<>>
  OBVIOUS
<1>. QED  BY <1>1, TotalOfNone DEF Tokens

-----------------------------------------------------------------------------
\* So does TakenUpTo.
LEMMA TakenSteps ==
    ASSUME NEW items, NEW used, Len(items) \in Nat
    PROVE  \A n \in 0 .. Len(items) :
              TakenUpTo(items, used)[n] =
                 IF n = 0 THEN [used |-> used, found |-> <<>>]
                 ELSE Take(TakenUpTo(items, used)[n - 1], items[n])
<1> DEFINE First == [used |-> used, found |-> <<>>]
           Then(v, n) == Take(v, items[n])
           Rec(g, m) == g = [n \in 0 .. m |-> IF n = 0 THEN First ELSE Then(g[n - 1], n)]
           T == {m \in Nat : \E g : Rec(g, m)}
<1>1. 0 \in T
  <2>1. Rec([n \in 0 .. 0 |-> First], 0)
    OBVIOUS
  <2>. QED  BY <2>1
<1>2. ASSUME NEW m \in T  PROVE m + 1 \in T
  <2>1. PICK g : Rec(g, m)
    OBVIOUS
  <2> DEFINE k == [n \in 0 .. m + 1 |-> IF n = m + 1 THEN Then(g[m], m + 1) ELSE g[n]]
  <2> HIDE DEF First, Then
  <2>2. \A n \in 0 .. m : g[n] = IF n = 0 THEN First ELSE Then(g[n - 1], n)
    BY <2>1
  <2>3. (\A n \in 0 .. m : k[n] = g[n]) /\ k[m + 1] = Then(g[m], m + 1)
    OBVIOUS
  <2>4. k = [n \in 0 .. m + 1 |-> k[n]]
    OBVIOUS
  <2> HIDE DEF k
  <2>5. \A n \in 0 .. m + 1 : k[n] = IF n = 0 THEN First ELSE Then(k[n - 1], n)
    <3> TAKE n \in 0 .. m + 1
    <3>1. CASE n = 0
      <4>1. k[0] = First
        BY <2>2, <2>3
      <4>. QED  BY <3>1, <4>1
    <3>2. CASE n \in 1 .. m
      BY <3>2, <2>2, <2>3
    <3>3. CASE n = m + 1
      BY <3>3, <2>3
    <3>. QED  BY <3>1, <3>2, <3>3
  <2>6. Rec(k, m + 1)
    BY <2>4, <2>5
  <2> HIDE DEF Rec
  <2>. QED  BY <2>6
<1>3. T = Nat
  <2> HIDE DEF T
  <2>1. T \subseteq Nat  BY DEF T
  <2>. QED  BY <2>1, <1>1, <1>2, NaturalSetInduction
<1>4. \E g : Rec(g, Len(items))
  BY <1>3
<1>5. TakenUpTo(items, used) = CHOOSE g : Rec(g, Len(items))
  BY DEF TakenUpTo
<1> HIDE DEF Rec
<1>6. Rec(TakenUpTo(items, used), Len(items))
  BY <1>4, <1>5
<1>. QED  BY <1>6 DEF Rec

\* One item is taken in the first form that fits, or not at all.
LEMMA TakeMeans ==
    ASSUME NEW acc, NEW forms, IsList(forms)
    PROVE  \/ Take(acc, forms) = acc /\ \A i \in DOMAIN forms : ~ Fits(acc.used, forms[i])
           \/ \E i \in DOMAIN forms :
                 /\ Fits(acc.used, forms[i])
                 /\ Take(acc, forms) = [used |-> acc.used + forms[i].tokens,
                                        found |-> Append(acc.found, forms[i])]
<1> DEFINE fitting == {i \in DOMAIN forms : Fits(acc.used, forms[i])}
           k == Nth(fitting, 1)
           more == [used |-> acc.used + forms[k].tokens, found |-> Append(acc.found, forms[k])]
<1>1. Take(acc, forms) = IF fitting = {} THEN acc ELSE more
  BY DEF Take
<1>2. Len(forms) \in Nat /\ DOMAIN forms = 1 .. Len(forms)
  BY ListMeans
<1>3. fitting \subseteq 1 .. Len(forms)
  BY <1>2
<1>4. fitting # {} => k \in fitting
  <2> HIDE DEF fitting
  <2>1. /\ Cardinality(fitting) \in 0 .. Len(forms)
        /\ \A j \in 1 .. Cardinality(fitting) : Nth(fitting, j) \in fitting
        /\ \A i \in fitting : \E j \in 1 .. Cardinality(fitting) : Nth(fitting, j) = i
    BY <1>2, <1>3, NthMeans
  <2>2. fitting # {} => 1 \in 1 .. Cardinality(fitting)
    BY <1>2, <2>1
  <2>. QED  BY <2>1, <2>2
<1>5. CASE fitting = {}
  BY <1>1, <1>5
<1>6. CASE fitting # {}
  <2>1. k \in DOMAIN forms /\ Fits(acc.used, forms[k])
    BY <1>4, <1>6
  <2>2. Take(acc, forms) = more
    BY <1>1, <1>6
  <2> HIDE DEF k
  <2>. QED  BY <2>1, <2>2
<1>. QED  BY <1>5, <1>6

\* What is taken after n items: it adds up, it keeps the budget, it comes from the items,
\* in their order and once each, and the first one is there if it fits.
TakenInv(items, used, V, n) ==
    LET acc == TakenUpTo(items, used)[n] IN
    /\ acc.used \in Int /\ acc.found \in Seq(V)
    /\ acc.used = used + Tokens(acc.found)
    /\ used <= BUDGET => acc.used <= BUDGET
    /\ \A l \in 1 .. Len(acc.found) : \E j \in 1 .. n : acc.found[l] \in ToSet(items[j])
    /\ \A l \in 1 .. Len(acc.found) : \A k \in 1 .. l - 1 : \E j \in 1 .. n : \E i \in 1 .. j - 1 :
          acc.found[k] \in ToSet(items[i]) /\ acc.found[l] \in ToSet(items[j])
    /\ n >= 1 /\ items[1] # <<>> /\ (\A i \in DOMAIN items[1] : Fits(used, items[1][i])) =>
          Len(acc.found) >= 1 /\ acc.found[1] \in ToSet(items[1])

\* One turn of the admission loop of build_context_bundle preserves TakenInv.
LEMMA TakenStep ==
    ASSUME NEW V, \A v \in V : v.tokens \in Int, NEW used \in Int,
           NEW items, Len(items) \in Nat, NEW n \in 1 .. Len(items),
           IsList(items[n]), ToSet(items[n]) \subseteq V,
           TakenInv(items, used, V, n - 1)
    PROVE  TakenInv(items, used, V, n)
<1> DEFINE old == TakenUpTo(items, used)[n - 1]
           new == TakenUpTo(items, used)[n]
           forms == items[n]
<1>1. new = Take(old, forms)
  <2>1. n \in 0 .. Len(items) /\ n # 0
    OBVIOUS
  <2>2. \A m \in 0 .. Len(items) :
            TakenUpTo(items, used)[m] = IF m = 0 THEN [used |-> used, found |-> <<>>]
                                        ELSE Take(TakenUpTo(items, used)[m - 1], items[m])
    BY TakenSteps
  <2>. QED  BY <2>1, <2>2
<1>2. /\ old.used \in Int /\ old.found \in Seq(V)
      /\ old.used = used + Tokens(old.found)
      /\ used <= BUDGET => old.used <= BUDGET
      /\ \A l \in 1 .. Len(old.found) : \E j \in 1 .. n - 1 : old.found[l] \in ToSet(items[j])
      /\ \A l \in 1 .. Len(old.found) : \A k \in 1 .. l - 1 : \E j \in 1 .. n - 1 : \E i \in 1 .. j - 1 :
            old.found[k] \in ToSet(items[i]) /\ old.found[l] \in ToSet(items[j])
  BY DEF TakenInv
<1>3. n - 1 >= 1 /\ items[1] # <<>> /\ (\A i \in DOMAIN items[1] : Fits(used, items[1][i])) =>
          Len(old.found) >= 1 /\ old.found[1] \in ToSet(items[1])
  BY DEF TakenInv
<1>4. n = 1 => old.found = <<>> /\ old.used = used
  <2>1. TakenUpTo(items, used)[0] = [used |-> used, found |-> <<>>]
    BY TakenSteps
  <2>. QED  BY <2>1
<1>5. CASE new = old /\ \A i \in DOMAIN forms : ~ Fits(old.used, forms[i])
  <2>1. n = 1 => ~ (items[1] # <<>> /\ \A i \in DOMAIN items[1] : Fits(used, items[1][i]))
    <3> SUFFICES ASSUME n = 1, items[1] # <<>>, \A i \in DOMAIN items[1] : Fits(used, items[1][i])
                 PROVE  FALSE
      OBVIOUS
    <3>1. DOMAIN items[1] # {}
      <4>1. items[1] \in Seq(Range(items[1]))
        BY DEF IsList
      <4>. QED  BY <4>1, EmptySeq, LenProperties
    <3>. QED  BY <1>4, <1>5, <3>1
  <2>2. 1 .. n - 1 \subseteq 1 .. n /\ (n = 1 \/ n - 1 >= 1)
    OBVIOUS
  <2>3. new = old
    BY <1>5
  <2> HIDE DEF old, new
  <2>. QED  BY <1>2, <1>3, <2>1, <2>2, <2>3 DEF TakenInv, old, new
<1>6. ASSUME NEW m \in DOMAIN forms, Fits(old.used, forms[m]),
             new = [used |-> old.used + forms[m].tokens, found |-> Append(old.found, forms[m])]
      PROVE  TakenInv(items, used, V, n)
  <2> DEFINE x == forms[m]  s == old.found  t == new.found
  <2>1. x \in V /\ x \in ToSet(items[n]) /\ x.tokens \in Int
    BY DEF ToSet
  <2>2. t = Append(s, x) /\ new.used = old.used + x.tokens
    BY <1>6
  <2>3. old.used + x.tokens <= BUDGET
    BY <1>6 DEF Fits
  <2> HIDE DEF x
  <2>4. /\ t \in Seq(V) /\ Len(t) = Len(s) + 1 /\ t[Len(s) + 1] = x /\ Len(s) \in Nat
        /\ \A i \in 1 .. Len(s) : t[i] = s[i]
    BY <1>2, <2>1, <2>2, AppendProperties
  <2>5. Tokens(s) \in Int /\ Tokens(t) = Tokens(s) + x.tokens
    BY <1>2, <2>1, <2>2, TokensOfMore
  <2>6. \A l \in 1 .. Len(t) : \E j \in 1 .. n : t[l] \in ToSet(items[j])
    <3> TAKE l \in 1 .. Len(t)
    <3>1. CASE l = Len(s) + 1
      <4>1. n \in 1 .. n
        OBVIOUS
      <4>2. t[l] = x
        BY <2>4, <3>1
      <4> HIDE DEF s, t
      <4>. QED  BY <2>1, <4>1, <4>2
    <3>2. CASE l \in 1 .. Len(s)
      <4>1. PICK j \in 1 .. n - 1 : s[l] \in ToSet(items[j])
        BY <1>2, <3>2
      <4>2. t[l] = s[l] /\ j \in 1 .. n
        BY <2>4, <3>2
      <4> HIDE DEF s, t
      <4>. QED  BY <4>1, <4>2
    <3>3. l = Len(s) + 1 \/ l \in 1 .. Len(s)
      BY <2>4
    <3> HIDE DEF s, t
    <3>. QED  BY <3>1, <3>2, <3>3
  <2>7. \A l \in 1 .. Len(t) : \A k \in 1 .. l - 1 : \E j \in 1 .. n : \E i \in 1 .. j - 1 :
            t[k] \in ToSet(items[i]) /\ t[l] \in ToSet(items[j])
    <3> TAKE l \in 1 .. Len(t)
    <3> TAKE k \in 1 .. l - 1
    <3>1. CASE l = Len(s) + 1
      <4>1. PICK i \in 1 .. n - 1 : s[k] \in ToSet(items[i])
        BY <1>2, <2>4, <3>1
      <4>2. t[k] = s[k] /\ t[l] = x
        BY <2>4, <3>1
      <4>. QED  BY <2>1, <4>1, <4>2
    <3>2. CASE l \in 1 .. Len(s)
      <4>1. PICK j \in 1 .. n - 1 : \E i \in 1 .. j - 1 :
                s[k] \in ToSet(items[i]) /\ s[l] \in ToSet(items[j])
        BY <1>2, <3>2
      <4>2. PICK i \in 1 .. j - 1 : s[k] \in ToSet(items[i]) /\ s[l] \in ToSet(items[j])
        BY <4>1
      <4>3. t[k] = s[k] /\ t[l] = s[l]
        BY <2>4, <3>2
      <4> HIDE DEF s, t
      <4>4. t[k] \in ToSet(items[i]) /\ t[l] \in ToSet(items[j])
        BY <4>2, <4>3
      <4>5. j \in 1 .. n /\ i \in 1 .. j - 1
        OBVIOUS
      <4>. QED  BY <4>4, <4>5
    <3>3. l = Len(s) + 1 \/ l \in 1 .. Len(s)
      BY <2>4
    <3>. QED  BY <3>1, <3>2, <3>3
  <2>8. ASSUME items[1] # <<>>, \A i \in DOMAIN items[1] : Fits(used, items[1][i])
        PROVE  Len(t) >= 1 /\ t[1] \in ToSet(items[1])
    <3>1. CASE n = 1
      <4>1. Len(s) = 0
        BY <1>4, <3>1
      <4>. QED  BY <2>1, <2>4, <3>1, <4>1
    <3>2. CASE n # 1
      <4>1. Len(s) >= 1 /\ s[1] \in ToSet(items[1])
        BY <1>3, <2>8, <3>2
      <4>. QED  BY <2>4, <4>1
    <3>. QED  BY <3>1, <3>2
  <2>9. new.used \in Int /\ new.used = used + Tokens(t) /\ new.used <= BUDGET
    BY <1>2, <2>1, <2>2, <2>3, <2>5
  <2> HIDE DEF t, new
  <2>. QED  BY <2>4, <2>6, <2>7, <2>8, <2>9 DEF TakenInv, t, new
<1>7. IsList(forms)
  OBVIOUS
<1> HIDE DEF old, new, forms
<1>8. \/ new = old /\ \A i \in DOMAIN forms : ~ Fits(old.used, forms[i])
      \/ \E i \in DOMAIN forms :
            /\ Fits(old.used, forms[i])
            /\ new = [used |-> old.used + forms[i].tokens, found |-> Append(old.found, forms[i])]
  BY <1>1, <1>7, TakeMeans
<1>. QED  BY <1>5, <1>6, <1>8

\* So TakenInv holds when the loop ends.
LEMMA TakenMeans ==
    ASSUME NEW V, \A v \in V : v.tokens \in Int, NEW used \in Int,
           NEW items, Len(items) \in Nat,
           \A n \in 1 .. Len(items) : IsList(items[n]) /\ ToSet(items[n]) \subseteq V
    PROVE  TakenInv(items, used, V, Len(items))
<1> DEFINE T == {n \in Nat : n \in 0 .. Len(items) => TakenInv(items, used, V, n)}
<1>1. 0 \in T
  <2>1. TakenUpTo(items, used)[0] = [used |-> used, found |-> <<>>]
    BY TakenSteps
  <2>2. <<>> \in Seq(V) /\ Len(<<>>) = 0
    BY EmptySeq
  <2>3. TakenInv(items, used, V, 0)
    BY <2>1, <2>2, TokensOfNone DEF TakenInv
  <2>. QED  BY <2>3
<1>2. ASSUME NEW n \in T  PROVE n + 1 \in T
  <2> SUFFICES ASSUME n + 1 \in 0 .. Len(items)  PROVE TakenInv(items, used, V, n + 1)
    OBVIOUS
  <2> DEFINE m == n + 1
  <2>1. n \in 0 .. Len(items) /\ m \in 1 .. Len(items) /\ m - 1 = n
    OBVIOUS
  <2>2. TakenInv(items, used, V, m - 1)
    BY <2>1
  <2>3. IsList(items[m]) /\ ToSet(items[m]) \subseteq V
    BY <2>1
  <2> HIDE DEF m
  <2>4. TakenInv(items, used, V, m)
    BY <2>1, <2>2, <2>3, TakenStep
  <2>. QED  BY <2>4 DEF m
<1>3. T = Nat
  <2> HIDE DEF T
  <2>1. T \subseteq Nat  BY DEF T
  <2>. QED  BY <2>1, <1>1, <1>2, NaturalSetInduction
<1>. QED  BY <1>3

-----------------------------------------------------------------------------
\* What a list has at some positions is finite.
LEMMA ImageIsFinite ==
    ASSUME NEW g, NEW n \in Nat, NEW W, W \subseteq 1 .. n
    PROVE  IsFiniteSet({g[i] : i \in W})
<1> DEFINE T == {g[i] : i \in W}
           f == [i \in W |-> g[i]]
<1>1. IsFiniteSet(W)
  BY NthMeans
<1>2. f \in Surjection(W, T)
  BY DEF Surjection
<1> HIDE DEF f, T
<1>3. IsFiniteSet(T)
  BY <1>1, <1>2, FS_Surjection
<1>. QED  BY <1>3 DEF T

\* A finite set of integers has a least and a greatest element.
LEMMA Extremes ==
    ASSUME NEW S, IsFiniteSet(S), S \subseteq Int, S # {}
    PROVE  /\ \E m \in S : \A n \in S : m <= n
           /\ \E m \in S : \A n \in S : n <= m
<1> DEFINE R == {p \in S \X S : p[1] < p[2]}
           N == Cardinality(S)
           Place(r) == Cardinality(Below(S, R, r))
<1>1. \A a, b \in S : <<a, b>> \in R <=> a < b
  OBVIOUS
<1> HIDE DEF R
<1>2. StrictOrder(S, R)
  BY <1>1 DEF StrictOrder
<1>3. N \in Nat /\ N >= 1
  BY FS_CardinalityType, FS_EmptySet
<1>4. /\ \A r \in S : Place(r) \in 0 .. N - 1
      /\ \A a, b \in S : <<a, b>> \in R => Place(a) < Place(b)
      /\ \A k \in 1 .. N : \E r \in S : Place(r) = k - 1
  BY <1>2, RanksAreTaken
<1>5. \A k \in 1 .. N : \E r \in S : Place(r) = k - 1
  BY <1>4
<1>6. PICK a \in S : Place(a) = 1 - 1
  BY <1>3, <1>5
<1>7. PICK b \in S : Place(b) = N - 1
  BY <1>3, <1>5
<1>8. \A n \in S : Place(n) \in 0 .. N - 1
  BY <1>4
<1> HIDE DEF N
<1>9. \A n \in S : ~ (n < a) /\ ~ (b < n)
  <2> TAKE n \in S
  <2>1. n < a => Place(n) < Place(a)
    BY <1>1, <1>4
  <2>2. b < n => Place(b) < Place(n)
    BY <1>1, <1>4
  <2>3. Place(n) \in 0 .. N - 1
    BY <1>8
  <2> HIDE DEF Place
  <2>. QED  BY <1>3, <1>6, <1>7, <2>1, <2>2, <2>3
<1>10. \A n \in S : a <= n /\ n <= b
  <2> TAKE n \in S
  <2>1. n \in Int /\ a \in Int /\ b \in Int
    OBVIOUS
  <2>. QED  BY <1>9, <2>1
<1>. QED  BY <1>10

-----------------------------------------------------------------------------
\* The ranking.
SoundRank(r) ==
    r.item.path \in TREE /\ r.priority \in Int /\ r.relevance \in Int /\ r.tokens \in Int

\* Every file of the tree has its position among the sorted paths.
LEMMA PositionMeans == \A p \in TREE : Position(p) \in Int /\ PATHS[Position(p)] = p
<1> TAKE p \in TREE
<1>1. DOMAIN PATHS = 1 .. Len(PATHS) /\ Len(PATHS) \in Nat
  BY TreeAssumption, ListMeans
<1>2. \E i \in DOMAIN PATHS : PATHS[i] = p
  BY TreeAssumption DEF ToSet
<1>3. Position(p) \in DOMAIN PATHS /\ PATHS[Position(p)] = p
  BY <1>2 DEF Position
<1>. QED  BY <1>1, <1>3

\* The order is total on entries for different files.
LEMMA BeforeIsStrict ==
    ASSUME NEW S, \A r \in S : SoundRank(r),
           \A a, b \in S : a.item.path = b.item.path => a = b
    PROVE  /\ \A a \in S : ~ Before(a, a)
           /\ \A a, b, c \in S : Before(a, b) /\ Before(b, c) => Before(a, c)
           /\ \A a, b \in S : a # b => Before(a, b) \/ Before(b, a)
<1>1. \A r \in S : r.priority \in Int /\ r.relevance \in Int /\ Position(r.item.path) \in Int
  BY PositionMeans DEF SoundRank
<1>2. \A a, b \in S : a # b => Position(a.item.path) # Position(b.item.path)
  BY PositionMeans DEF SoundRank
<1>3. \A a \in S : ~ Before(a, a)
  BY <1>1 DEF Before, Better
<1>4. ASSUME NEW a \in S, NEW b \in S, NEW c \in S, Before(a, b), Before(b, c)
      PROVE  Before(a, c)
  BY <1>1, <1>4 DEF Before, Better
<1>5. ASSUME NEW a \in S, NEW b \in S, a # b  PROVE Before(a, b) \/ Before(b, a)
  BY <1>1, <1>2, <1>5 DEF Before, Better
<1>. QED  BY <1>3, <1>4, <1>5

\* The sort of the ranked files lists every one of them once, and one that comes before all
\* the others comes first.
LEMMA OrderMeans ==
    ASSUME NEW S, IsFiniteSet(S), \A r \in S : SoundRank(r),
           \A a, b \in S : a.item.path = b.item.path => a = b
    PROVE  /\ InOrder(S) \in Seq(S)
           /\ \A l \in 1 .. Len(InOrder(S)) : \A k \in 1 .. l - 1 : InOrder(S)[k] # InOrder(S)[l]
           /\ \A r \in S : (\A q \in S \ {r} : Before(r, q)) =>
                 Len(InOrder(S)) >= 1 /\ InOrder(S)[1] = r
<1> DEFINE R == {p \in S \X S : Before(p[1], p[2])}
           N == Cardinality(S)
           Place(r) == Cardinality(Below(S, R, r))
           L == InOrder(S)
<1>1. \A a, b \in S : <<a, b>> \in R <=> Before(a, b)
  OBVIOUS
<1>2. \A r \in S : {q \in S : Before(q, r)} = Below(S, R, r)
  BY <1>1 DEF Below
<1> HIDE DEF R
<1>3. StrictOrder(S, R)
  <2>1. /\ \A a \in S : ~ Before(a, a)
        /\ \A a, b, c \in S : Before(a, b) /\ Before(b, c) => Before(a, c)
        /\ \A a, b \in S : a # b => Before(a, b) \/ Before(b, a)
    BY BeforeIsStrict
  <2>. QED  BY <1>1, <2>1 DEF StrictOrder
<1>4. N \in Nat
  BY FS_CardinalityType
<1>5. /\ \A r \in S : Place(r) \in 0 .. N - 1
      /\ \A a, b \in S : <<a, b>> \in R => Place(a) < Place(b)
      /\ \A k \in 1 .. N : \E r \in S : Place(r) = k - 1
  BY <1>3, RanksAreTaken
<1>6. L = [k \in 1 .. N |-> CHOOSE r \in S : Cardinality({q \in S : Before(q, r)}) = k - 1]
  BY DEF InOrder
<1> HIDE DEF L, N
<1>7. \A k \in 1 .. N : L[k] \in S /\ Place(L[k]) = k - 1
  <2> TAKE k \in 1 .. N
  <2>1. \E r \in S : Cardinality({q \in S : Before(q, r)}) = k - 1
    BY <1>2, <1>5
  <2>2. L[k] = CHOOSE r \in S : Cardinality({q \in S : Before(q, r)}) = k - 1
    BY <1>6
  <2>3. L[k] \in S /\ Cardinality({q \in S : Before(q, L[k])}) = k - 1
    BY <2>1, <2>2
  <2>. QED  BY <1>2, <2>3
<1>8. L \in Seq(S) /\ Len(L) = N
  <2>1. DOMAIN L = 1 .. N
    BY <1>6
  <2>2. L \in [1 .. N -> S]
    BY <1>6, <1>7, <2>1
  <2>3. L \in Seq(S)
    BY <1>4, <2>2, SeqDef
  <2>. QED  BY <1>4, <2>1, <2>3, LenProperties
<1>9. \A l \in 1 .. N : \A k \in 1 .. l - 1 : L[k] # L[l]
  <2> TAKE l \in 1 .. N
  <2> TAKE k \in 1 .. l - 1
  <2>1. k \in 1 .. N
    BY <1>4
  <2>2. Place(L[k]) = k - 1 /\ Place(L[l]) = l - 1
    BY <1>7, <2>1
  <2>3. k - 1 # l - 1
    BY <1>4, <2>1
  <2> HIDE DEF Place
  <2>. QED  BY <2>2, <2>3
<1>10. ASSUME NEW r \in S, \A q \in S \ {r} : Before(r, q)  PROVE N >= 1 /\ L[1] = r
  <2>1. N >= 1
    BY <1>4, FS_EmptySet DEF N
  <2>2. 1 \in 1 .. N
    BY <1>4, <2>1
  <2>3. L[1] \in S /\ Place(L[1]) = 0
    BY <1>7, <2>2
  <2>4. ASSUME L[1] # r  PROVE FALSE
    <3>1. <<r, L[1]>> \in R
      BY <1>1, <1>10, <2>3, <2>4
    <3>2. Place(r) < Place(L[1]) /\ Place(r) \in 0 .. N - 1
      BY <1>5, <2>3, <3>1
    <3> HIDE DEF Place
    <3>. QED  BY <1>4, <2>3, <3>2
  <2>. QED  BY <2>1, <2>4
<1>. QED  BY <1>8, <1>9, <1>10 DEF L

\* Of the entries for a file one stays: none is better, and it is the first of its equals.
Chosen(ranked, k) ==
    \A j \in DOMAIN ranked : ranked[j].item.path = ranked[k].item.path =>
        ~ Better(ranked[j], ranked[k]) /\ (j < k => Better(ranked[k], ranked[j]))

\* _dedup keeps exactly one ranked file of every path, one that no other displaces.
LEMMA DedupMeans ==
    ASSUME NEW ranked, IsList(ranked), \A i \in DOMAIN ranked : SoundRank(ranked[i])
    PROVE  /\ IsFiniteSet(Dedup(ranked))
           /\ \A r \in Dedup(ranked) : \E k \in DOMAIN ranked : r = ranked[k] /\ Chosen(ranked, k)
           /\ \A a, b \in Dedup(ranked) : a.item.path = b.item.path => a = b
           /\ \A i \in DOMAIN ranked : \E r \in Dedup(ranked) : r.item.path = ranked[i].item.path
<1> DEFINE W == {k \in DOMAIN ranked : Chosen(ranked, k)}
<1>1. Dedup(ranked) = {ranked[i] : i \in W}
  BY DEF Dedup, Chosen
<1>2. DOMAIN ranked = 1 .. Len(ranked) /\ Len(ranked) \in Nat
  BY ListMeans
<1>3. \A i \in DOMAIN ranked : ranked[i].priority \in Int /\ ranked[i].relevance \in Int
  BY DEF SoundRank
<1>4. ASSUME NEW k \in W, NEW l \in W, ranked[k].item.path = ranked[l].item.path
      PROVE  k = l
  <2>1. /\ ~ Better(ranked[l], ranked[k]) /\ (l < k => Better(ranked[k], ranked[l]))
        /\ ~ Better(ranked[k], ranked[l]) /\ (k < l => Better(ranked[l], ranked[k]))
    BY <1>4 DEF Chosen
  <2>2. k \in Int /\ l \in Int
    BY <1>2
  <2>. QED  BY <2>1, <2>2
<1>5. \A a, b \in Dedup(ranked) : a.item.path = b.item.path => a = b
  BY <1>1, <1>4
<1>6. ASSUME NEW i \in DOMAIN ranked
      PROVE  \E k \in W : ranked[k].item.path = ranked[i].item.path
  <2> DEFINE Same == {j \in DOMAIN ranked : ranked[j].item.path = ranked[i].item.path}
             Ahead(j, k) == \/ Better(ranked[j], ranked[k])
                            \/ ~ Better(ranked[k], ranked[j]) /\ j < k
             R == {p \in Same \X Same : Ahead(p[1], p[2])}
             Place(r) == Cardinality(Below(Same, R, r))
  <2>1. /\ IsFiniteSet(Same) /\ Cardinality(Same) \in 0 .. Len(ranked)
        /\ \A j \in Same : \E k \in 1 .. Cardinality(Same) : Nth(Same, k) = j
    <3>1. Same \subseteq 1 .. Len(ranked)
      BY <1>2
    <3> HIDE DEF Same
    <3>. QED  BY <1>2, <3>1, NthMeans
  <2>2. \A j \in Same : /\ j \in DOMAIN ranked /\ j \in Int /\ ranked[j].priority \in Int
                        /\ ranked[j].relevance \in Int
    BY <1>2, <1>3
  <2>3. StrictOrder(Same, R)
    <3>1. \A j, k \in Same : <<j, k>> \in R <=> Ahead(j, k)
      OBVIOUS
    <3> HIDE DEF R, Same
    <3>2. \A j \in Same : ~ Ahead(j, j)
      BY <2>2 DEF Better
    <3>3. ASSUME NEW j \in Same, NEW k \in Same, NEW l \in Same, Ahead(j, k), Ahead(k, l)
          PROVE  Ahead(j, l)
      BY <2>2, <3>3 DEF Better
    <3>4. ASSUME NEW j \in Same, NEW k \in Same, j # k  PROVE Ahead(j, k) \/ Ahead(k, j)
      BY <2>2, <3>4 DEF Better
    <3> HIDE DEF Ahead
    <3>. QED  BY <3>1, <3>2, <3>3, <3>4 DEF StrictOrder
  <2>4. i \in Same /\ 1 \in 1 .. Cardinality(Same)
    <3>1. i \in Same
      OBVIOUS
    <3> HIDE DEF Same
    <3>. QED  BY <1>2, <2>1, <3>1
  <2>5. PICK k \in Same : Place(k) = 1 - 1
    <3> HIDE DEF Same, R
    <3>1. \A m \in 1 .. Cardinality(Same) : \E r \in Same : Cardinality(Below(Same, R, r)) = m - 1
      BY <2>1, <2>3, RanksAreTaken
    <3>. QED  BY <2>4, <3>1
  <2>6. \A j \in Same : <<j, k>> \in R => FALSE
    <3> SUFFICES ASSUME NEW j \in Same, <<j, k>> \in R  PROVE FALSE
      OBVIOUS
    <3> HIDE DEF Same, R
    <3>1. /\ Cardinality(Below(Same, R, j)) < Cardinality(Below(Same, R, k))
          /\ Cardinality(Below(Same, R, j)) \in 0 .. Cardinality(Same) - 1
      BY <2>1, <2>3, RanksAreTaken
    <3>. QED  BY <2>1, <2>5, <3>1
  <2>7. \A j \in Same : ~ Ahead(j, k)
    BY <2>6
  <2>8. k \in DOMAIN ranked /\ ranked[k].item.path = ranked[i].item.path
    OBVIOUS
  <2>9. Chosen(ranked, k)
    <3> SUFFICES ASSUME NEW j \in DOMAIN ranked, ranked[j].item.path = ranked[k].item.path
                 PROVE  ~ Better(ranked[j], ranked[k]) /\ (j < k => Better(ranked[k], ranked[j]))
      BY DEF Chosen
    <3>1. j \in Same
      BY <2>8
    <3>. QED  BY <2>7, <3>1
  <2>. QED  BY <2>8, <2>9
<1>7. \A i \in DOMAIN ranked : \E r \in Dedup(ranked) : r.item.path = ranked[i].item.path
  BY <1>1, <1>6
<1>8. \A r \in Dedup(ranked) : \E k \in DOMAIN ranked : r = ranked[k] /\ Chosen(ranked, k)
  BY <1>1
<1>9. IsFiniteSet(Dedup(ranked))
  <2>1. W \subseteq 1 .. Len(ranked)
    BY <1>2
  <2> HIDE DEF W
  <2>2. IsFiniteSet({ranked[i] : i \in W})
    BY <1>2, <2>1, ImageIsFinite
  <2>. QED  BY <1>1, <2>2
<1>. QED  BY <1>5, <1>7, <1>8, <1>9

-----------------------------------------------------------------------------
\* What is admitted of the files: one entry for each, within the budget, the first in the
\* order first, if it fits.
LEMMA AdmittedMeans ==
    ASSUME NEW ranked, IsList(ranked), \A i \in DOMAIN ranked : SoundRank(ranked[i])
    PROVE  LET admitted == Admit(InOrder(Dedup(ranked))) IN
           /\ admitted \in Seq(Dedup(ranked))
           /\ Tokens(admitted) \in Int /\ Tokens(admitted) <= BUDGET
           /\ \A l \in 1 .. Len(admitted) : \A k \in 1 .. l - 1 :
                 admitted[k].item.path # admitted[l].item.path
           /\ \A r \in Dedup(ranked) :
                 (\A q \in Dedup(ranked) \ {r} : Before(r, q)) /\ r.tokens <= BUDGET =>
                    Len(admitted) >= 1 /\ admitted[1] = r
<1> DEFINE V == Dedup(ranked)
           L == InOrder(V)
           items == [i \in DOMAIN L |-> <<L[i]>>]
           acc == TakenUpTo(items, 0)[Len(items)]
<1>1. /\ IsFiniteSet(V)
      /\ \A r \in V : \E k \in DOMAIN ranked : r = ranked[k] /\ Chosen(ranked, k)
      /\ \A a, b \in V : a.item.path = b.item.path => a = b
  BY DedupMeans
<1>2. \A r \in V : SoundRank(r) /\ r.tokens \in Int
  BY <1>1 DEF SoundRank
<1> HIDE DEF V
<1>3. /\ L \in Seq(V)
      /\ \A l \in 1 .. Len(L) : \A k \in 1 .. l - 1 : L[k] # L[l]
      /\ \A r \in V : (\A q \in V \ {r} : Before(r, q)) => Len(L) >= 1 /\ L[1] = r
  BY <1>1, <1>2, OrderMeans
<1> HIDE DEF L
<1>4. DOMAIN L = 1 .. Len(L) /\ Len(L) \in Nat /\ \A i \in 1 .. Len(L) : L[i] \in V
  BY <1>3, LenProperties, ElementOfSeq
<1>5. Len(items) = Len(L) /\ \A i \in 1 .. Len(L) : items[i] = <<L[i]>>
  <2>1. items \in [1 .. Len(L) -> Seq(V)]
    BY <1>4
  <2>2. items \in Seq(Seq(V))
    BY <1>4, <2>1, SeqDef
  <2>. QED  BY <1>4, <2>2, LenProperties
<1> HIDE DEF items
<1>6. \A x : ToSet(<<x>>) = {x} /\ IsList(<<x>>) /\ <<x>> # <<>> /\ DOMAIN <<x>> = {1} /\ <<x>>[1] = x
  <2> TAKE x
  <2>1. DOMAIN <<x>> = {1} /\ <<x>>[1] = x
    OBVIOUS
  <2>2. <<x>> \in Seq(Range(<<x>>))
    BY <2>1 DEF Range
  <2>. QED  BY <2>1, <2>2 DEF ToSet, IsList
<1>7. \A n \in 1 .. Len(items) : IsList(items[n]) /\ ToSet(items[n]) = {L[n]} /\ L[n] \in V
  <2> TAKE n \in 1 .. Len(items)
  <2>1. items[n] = <<L[n]>> /\ L[n] \in V
    BY <1>4, <1>5
  <2>2. ToSet(<<L[n]>>) = {L[n]} /\ IsList(<<L[n]>>)
    BY <1>6
  <2>. QED  BY <2>1, <2>2
<1>8. TakenInv(items, 0, V, Len(items))
  <2>1. Len(items) \in Nat /\ 0 \in Int /\ \A v \in V : v.tokens \in Int
    BY <1>2, <1>4, <1>5
  <2>. QED  BY <1>7, <2>1, TakenMeans
<1>9. /\ acc.used \in Int /\ acc.found \in Seq(V)
      /\ acc.used = 0 + Tokens(acc.found)
      /\ 0 <= BUDGET => acc.used <= BUDGET
      /\ \A l \in 1 .. Len(acc.found) : \A k \in 1 .. l - 1 :
            \E j \in 1 .. Len(items) : \E i \in 1 .. j - 1 :
                acc.found[k] \in ToSet(items[i]) /\ acc.found[l] \in ToSet(items[j])
      /\ Len(items) >= 1 /\ items[1] # <<>> /\ (\A i \in DOMAIN items[1] : Fits(0, items[1][i])) =>
            Len(acc.found) >= 1 /\ acc.found[1] \in ToSet(items[1])
  BY <1>8 DEF TakenInv
<1>10. Admit(L) = acc.found
  BY DEF Admit, Taken, items
<1> HIDE DEF acc
<1> DEFINE t == acc.found
<1>11. t \in Seq(V) /\ Tokens(t) \in Int /\ Tokens(t) <= BUDGET
  <2>1. Tokens(t) \in Int
    BY <1>2, <1>9, TokensIsInt
  <2>. QED  BY <1>9, <2>1, BudgetAssumption
<1>12. \A l \in 1 .. Len(t) : \A k \in 1 .. l - 1 : t[k].item.path # t[l].item.path
  <2> TAKE l \in 1 .. Len(t)
  <2> TAKE k \in 1 .. l - 1
  <2>1. PICK j \in 1 .. Len(items) : \E i \in 1 .. j - 1 :
            t[k] \in ToSet(items[i]) /\ t[l] \in ToSet(items[j])
    BY <1>9
  <2>2. PICK i \in 1 .. j - 1 : t[k] \in ToSet(items[i]) /\ t[l] \in ToSet(items[j])
    BY <2>1
  <2>3. i \in 1 .. Len(L) /\ j \in 1 .. Len(L)
    BY <1>4, <1>5
  <2> HIDE DEF t
  <2>4. t[k] = L[i] /\ t[l] = L[j]
    BY <1>5, <1>7, <2>2, <2>3
  <2>5. L[i] # L[j]
    BY <1>3, <2>3
  <2>. QED  BY <1>1, <1>4, <2>3, <2>4, <2>5
<1>13. ASSUME NEW r \in V, \A q \in V \ {r} : Before(r, q), r.tokens <= BUDGET
       PROVE  Len(t) >= 1 /\ t[1] = r
  <2>1. Len(L) >= 1 /\ L[1] = r
    BY <1>3, <1>13
  <2>2. items[1] = <<r>> /\ Len(items) >= 1
    BY <1>4, <1>5, <2>1
  <2>3. Fits(0, r)
    BY <1>2, <1>13 DEF Fits
  <2>4. items[1] # <<>> /\ \A i \in DOMAIN items[1] : Fits(0, items[1][i])
    BY <1>6, <2>2, <2>3
  <2>5. Len(acc.found) >= 1 /\ acc.found[1] \in ToSet(items[1])
    BY <1>9, <2>2, <2>4
  <2>. QED  BY <1>6, <2>2, <2>5
<1>. QED  BY <1>10, <1>11, <1>12, <1>13 DEF L, V

\* What is admitted of the tests.
LEMMA TestsAdmitted ==
    ASSUME NEW P, NEW tested, IsList(tested),
           \A i \in DOMAIN tested : tested[i] \in [path : P, tokens : Int, signatures : Int],
           NEW used \in Int
    PROVE  LET admitted == AdmitTests(tested, used) IN
           /\ admitted.used \in Int /\ admitted.used = used + Tokens(admitted.found)
           /\ used <= BUDGET => admitted.used <= BUDGET
<1> DEFINE V == [path : P, tokens : Int, signatures : Int]
           Cut2(x) == [x EXCEPT !.tokens = x.signatures]
           items == [i \in DOMAIN tested |-> <<tested[i], Cut2(tested[i])>>]
<1>1. DOMAIN tested = 1 .. Len(tested) /\ Len(tested) \in Nat
  BY ListMeans
<1>2. \A i \in DOMAIN tested : tested[i] \in V /\ Cut2(tested[i]) \in V
  OBVIOUS
<1>3. \A v \in V : v.tokens \in Int
  OBVIOUS
<1> HIDE DEF V, Cut2
<1>4. \A i \in DOMAIN tested : items[i] \in Seq(V) /\ items[i] = <<tested[i], Cut2(tested[i])>>
  BY <1>2
<1>5. \A i \in DOMAIN tested : IsList(items[i]) /\ ToSet(items[i]) \subseteq V
  <2> TAKE i \in DOMAIN tested
  <2> DEFINE x == tested[i]  y == Cut2(tested[i])  p == <<x, y>>
  <2>1. items[i] = p /\ x \in V /\ y \in V
    BY <1>2, <1>4
  <2> HIDE DEF x, y
  <2>2. DOMAIN p = {1, 2} /\ p[1] = x /\ p[2] = y
    OBVIOUS
  <2>3. p \in Seq(Range(p))
    BY <2>2 DEF Range
  <2>4. ToSet(p) \subseteq V
    BY <2>1, <2>2 DEF ToSet
  <2>. QED  BY <2>1, <2>3, <2>4 DEF IsList
<1>6. Len(items) = Len(tested)
  <2>1. items \in [1 .. Len(tested) -> Seq(V)]
    BY <1>1, <1>4
  <2>2. items \in Seq(Seq(V))
    BY <1>1, <2>1, SeqDef
  <2>. QED  BY <1>1, <2>2, LenProperties
<1>7. AdmitTests(tested, used) = TakenUpTo(items, used)[Len(items)]
  BY DEF AdmitTests, Taken, Cut2
<1> HIDE DEF items
<1>8. TakenInv(items, used, V, Len(items))
  <2>1. Len(items) \in Nat
        /\ \A n \in 1 .. Len(items) : IsList(items[n]) /\ ToSet(items[n]) \subseteq V
    BY <1>1, <1>5, <1>6
  <2>. QED  BY <1>3, <2>1, TakenMeans
<1>. QED  BY <1>7, <1>8 DEF TakenInv

-----------------------------------------------------------------------------
SoundItem(x) == x.path \in TREE /\ x.window.lo \in Int /\ x.window.hi \in Int

SoundHistory(h) ==
    /\ h.blame = None \/ h.blame.age \in Nat
    /\ h.recent \in Seq(ToSet(COMMITS))
    /\ h.diff = DIFF

SoundTests(ts) ==
    IsList(ts) /\ \A i \in DOMAIN ts : ts[i] \in [path : TREE, tokens : Int, signatures : Int]

RankedOf(fs, g, hist, un) == [i \in DOMAIN fs |-> RankFile(fs[i], g.edges, un, hist)]
AdmittedOf(fs, g, hist, un) == Admit(InOrder(Dedup(RankedOf(fs, g, hist, un))))

\* The failing file alone has the first priority.
LEMMA ClaimsMeans ==
    ASSUME NEW edges, NEW un, NEW path
    PROVE  /\ Claims(edges, un, path) \subseteq 1 .. 5
           /\ 1 \in Claims(edges, un, path) <=> FailureId(un) # None /\ FailureId(un)[1] = path
<1> DEFINE F == IF FailureId(un) # None /\ FailureId(un)[1] = path THEN {1} ELSE {}
           E == IF EntryId(un) # None /\ EntryId(un)[1] = path THEN {2} ELSE {}
           K(e) == CASE e.kind = "calls" /\ e.source = FailureId(un) -> 3
                     [] e.kind = "references" /\ e.source = FailureId(un) -> 4
                     [] OTHER -> 5
           D == {d \in edges : \/ d.source = FailureId(un) /\ d.target[1] = path
                               \/ d.kind = "calls" /\ d.source # FailureId(un)
                                     /\ d.target = FailureId(un) /\ d.source[1] = path}
<1>1. Claims(edges, un, path) = F \cup E \cup {K(e) : e \in D}
  BY DEF Claims
<1>2. \A e : K(e) \in {3, 4, 5}
  <2> TAKE e
  <2> DEFINE a == e.kind = "calls" /\ e.source = FailureId(un)
             b == e.kind = "references" /\ e.source = FailureId(un)
  <2>1. ~ (a /\ b)
    OBVIOUS
  <2> HIDE DEF a, b
  <2>2. (CASE a -> 3 [] b -> 4 [] OTHER -> 5) \in {3, 4, 5}
    BY <2>1
  <2>. QED  BY <2>2 DEF a, b
<1>3. F \subseteq {1} /\ E \subseteq {2} /\ (1 \in F <=> FailureId(un) # None /\ FailureId(un)[1] = path)
  OBVIOUS
<1> HIDE DEF F, E, K, D
<1>4. \A e \in D : K(e) \in 1 .. 5 /\ K(e) # 1
  BY <1>2
<1>5. {K(e) : e \in D} \subseteq 1 .. 5 /\ 1 \notin {K(e) : e \in D}
  BY <1>4
<1> DEFINE L == {K(e) : e \in D}
<1> HIDE DEF L
<1>6. Claims(edges, un, path) = F \cup E \cup L /\ L \subseteq 1 .. 5 /\ 1 \notin L
  BY <1>1, <1>5 DEF L
<1>7. Claims(edges, un, path) \subseteq 1 .. 5
  BY <1>3, <1>6
<1>8. 1 \in Claims(edges, un, path) <=> 1 \in F
  BY <1>3, <1>6
<1>. QED  BY <1>3, <1>7, <1>8

\* The claim of a file is 1 only if something claims 1.
LEMMA LowestMeans ==
    ASSUME NEW S, S \subseteq 1 .. 5
    PROVE  Lowest(S, 3) \in 1 .. 5 /\ (Lowest(S, 3) = 1 <=> 1 \in S)
<1>1. CASE S = {}
  BY <1>1 DEF Lowest
<1>2. CASE S # {}
  <2>1. \E n \in S : \A k \in S : n <= k
    <3>1. S \subseteq Nat
      OBVIOUS
    <3>. QED  BY <1>2, <3>1, LeastNatural
  <2>2. Lowest(S, 3) = CHOOSE n \in S : \A k \in S : n <= k
    BY <1>2 DEF Lowest
  <2>3. Lowest(S, 3) \in S /\ \A k \in S : Lowest(S, 3) <= k
    BY <2>1, <2>2
  <2>4. Lowest(S, 3) \in 1 .. 5
    BY <2>3
  <2>5. 1 \in S => Lowest(S, 3) <= 1
    BY <2>3
  <2>. QED  BY <2>3, <2>4, <2>5
<1>. QED  BY <1>1, <1>2

Age(item, un, hist) ==
    IF hist.blame # None /\ un.failure # None /\ un.failure.path = item.path
    THEN hist.blame.age ELSE None

\* What _rank_files gives a file: priority 1 exactly for the file of the failing function,
\* the tokens of its window, and a relevance that grows with the implicated symbols it defines.
LEMMA RankFileMeans ==
    ASSUME NEW item, SoundItem(item), NEW edges, NEW un, IsList(un.symbols),
           NEW hist, SoundHistory(hist)
    PROVE  LET r == RankFile(item, edges, un, hist) IN
           /\ SoundRank(r) /\ r.item = item /\ r.priority \in 1 .. 5
           /\ r.priority = 1 <=> FailureId(un) # None /\ FailureId(un)[1] = item.path
           /\ r.tokens = EstimateTokens(AT[item.path], item.window)
           /\ SymbolOverlap(item, un.symbols) \in Nat
           /\ Recency(Age(item, un, hist)) \in Nat
           /\ r.relevance = Weight(item.strategy) * Recency(Age(item, un, hist)) * Proximity(r.priority)
                            * (100 + 15 * SymbolOverlap(item, un.symbols))
<1> DEFINE r == RankFile(item, edges, un, hist)
           C == Claims(edges, un, item.path)
           O == SymbolOverlap(item, un.symbols)
           A == Recency(Age(item, un, hist))
<1>1. /\ r.item = item /\ r.priority = Lowest(C, 3)
      /\ r.relevance = Weight(item.strategy) * A * Proximity(r.priority) * (100 + 15 * O)
      /\ r.tokens = EstimateTokens(AT[item.path], item.window)
  BY DEF RankFile, Age
<1>2. r.priority \in 1 .. 5 /\ (r.priority = 1 <=> FailureId(un) # None /\ FailureId(un)[1] = item.path)
  BY <1>1, ClaimsMeans, LowestMeans
<1>3. O \in Nat
  <2> DEFINE W == {i \in DOMAIN un.symbols : \E q \in item.symbols : q.name = un.symbols[i]}
  <2>1. Len(un.symbols) \in Nat /\ W \subseteq 1 .. Len(un.symbols)
    BY ListMeans
  <2> HIDE DEF W
  <2>2. Cardinality(W) \in 0 .. Len(un.symbols)
    BY <2>1, NthMeans
  <2>. QED  BY <2>1, <2>2 DEF W, SymbolOverlap
<1>4. A \in Nat
  <2>1. Age(item, un, hist) = None \/ Age(item, un, hist) \in Nat
    BY DEF Age, SoundHistory
  <2>. QED  BY <2>1 DEF Recency
<1>5. Weight(item.strategy) \in Nat /\ Proximity(r.priority) \in Nat
  BY DEF Weight, Proximity
<1>6. EstimateTokens(AT[item.path], item.window) \in Int
  <2>1. item.path \in TREE /\ item.window.lo \in Int /\ item.window.hi \in Int
    BY DEF SoundItem
  <2>. QED  BY <2>1 DEF EstimateTokens
<1>7. item.path \in TREE
  BY DEF SoundItem
<1> HIDE DEF O, A, r
<1>8. \A a, b, c, d \in Nat : a * b * c * (100 + 15 * d) \in Int
  OBVIOUS
<1>9. r.relevance \in Int
  BY <1>1, <1>3, <1>4, <1>5, <1>8
<1>10. SoundRank(r)
  BY <1>1, <1>2, <1>6, <1>7, <1>9 DEF SoundRank
<1>. QED  BY <1>1, <1>2, <1>3, <1>4, <1>10 DEF r, O, A

\* What a bundle is made of.
LEMMA BundleIs ==
    ASSUME NEW fs, NEW g, NEW hist, NEW ts, NEW un,
           BuildContextBundle(fs, g, hist, ts, un).kind = "bundle"
    PROVE  LET b == BuildContextBundle(fs, g, hist, ts, un)
               a == AdmittedOf(fs, g, hist, un)
               kept == Tokens(a) + HistoryTokens(hist) <= BUDGET
               w == AdmitTests(ts, Tokens(a) + (IF kept THEN HistoryTokens(hist) ELSE 0))
               paths == {a[i].item.path : i \in DOMAIN a} IN
           /\ b.files = a /\ b.tokens = w.used /\ b.tests = w.found
           /\ b.history = IF kept THEN hist ELSE NoHistory
           /\ b.edges = {e \in g.edges : e.source[1] \in paths /\ e.target[1] \in paths}
<1>. QED  BY DEF BuildContextBundle, AdmittedOf, RankedOf

\* A history costs an integer, and the empty one nothing.
LEMMA HistoryTokensMeans ==
    /\ HistoryTokens(NoHistory) = 0
    /\ \A h : SoundHistory(h) => HistoryTokens(h) \in Int
<1>1. HistoryTokens(NoHistory) = 0
  BY TokensOfNone DEF HistoryTokens, NoHistory
<1>2. ASSUME NEW h, SoundHistory(h)  PROVE HistoryTokens(h) \in Int
  <2>1. Tokens(h.recent) \in Int
    <3>1. \A c \in ToSet(COMMITS) : c.tokens \in Int
      BY HistoryAssumption
    <3>2. h.recent \in Seq(ToSet(COMMITS))
      BY <1>2 DEF SoundHistory
    <3>. QED  BY <3>1, <3>2, TokensIsInt
  <2>2. h.diff = None \/ Cardinality(h.diff) \in Nat
    BY <1>2, HistoryAssumption, FS_CardinalityType DEF SoundHistory
  <2>. QED  BY <2>1, <2>2 DEF HistoryTokens
<1>. QED  BY <1>1, <1>2

SoundInput(fs, hist, un) ==
    /\ IsList(fs) /\ \A i \in DOMAIN fs : SoundItem(fs[i])
    /\ IsList(un.symbols) /\ SoundHistory(hist)

\* _rank_files ranks every file, in the order given.
LEMMA RankedIsSound ==
    ASSUME NEW fs, NEW g, NEW hist, NEW un, SoundInput(fs, hist, un)
    PROVE  LET ranked == RankedOf(fs, g, hist, un) IN
           /\ IsList(ranked) /\ DOMAIN ranked = DOMAIN fs
           /\ \A i \in DOMAIN ranked : ranked[i] = RankFile(fs[i], g.edges, un, hist)
           /\ \A i \in DOMAIN ranked : SoundRank(ranked[i]) /\ ranked[i].item = fs[i]
<1> DEFINE ranked == RankedOf(fs, g, hist, un)
<1>1. /\ DOMAIN ranked = DOMAIN fs
      /\ \A i \in DOMAIN ranked : ranked[i] = RankFile(fs[i], g.edges, un, hist)
  BY DEF RankedOf
<1>2. ranked = [i \in DOMAIN fs |-> ranked[i]]
  BY DEF RankedOf
<1> HIDE DEF ranked
<1>3. \A i \in DOMAIN ranked : SoundRank(ranked[i]) /\ ranked[i].item = fs[i]
  <2> TAKE i \in DOMAIN ranked
  <2> DEFINE r == RankFile(fs[i], g.edges, un, hist)
  <2>1. SoundItem(fs[i]) /\ IsList(un.symbols) /\ SoundHistory(hist)
    BY <1>1 DEF SoundInput
  <2>2. SoundRank(r) /\ r.item = fs[i]
    BY <2>1, RankFileMeans
  <2> HIDE DEF r
  <2>3. ranked[i] = r
    BY <1>1 DEF r
  <2>. QED  BY <2>2, <2>3
<1>4. IsList(ranked)
  <2>1. DOMAIN fs = 1 .. Len(fs) /\ Len(fs) \in Nat
    BY ListMeans DEF SoundInput
  <2>2. ranked \in [1 .. Len(fs) -> Range(ranked)]
    BY <1>1, <1>2, <2>1 DEF Range
  <2>. QED  BY <2>1, <2>2, SeqDef DEF IsList
<1>. QED  BY <1>1, <1>3, <1>4 DEF ranked

\* The budget, over any candidates.
LEMMA BundleKeepsBudget ==
    ASSUME NEW fs, NEW g, NEW hist, NEW ts, NEW un,
           SoundInput(fs, hist, un), SoundTests(ts),
           BuildContextBundle(fs, g, hist, ts, un).kind = "bundle"
    PROVE  LET b == BuildContextBundle(fs, g, hist, ts, un) IN
           /\ b.tokens <= BUDGET
           /\ b.tokens = Tokens(b.files) + HistoryTokens(b.history) + Tokens(b.tests)
<1> DEFINE b == BuildContextBundle(fs, g, hist, ts, un)
           ranked == RankedOf(fs, g, hist, un)
           a == AdmittedOf(fs, g, hist, un)
           H == HistoryTokens(hist)
           kept == Tokens(a) + H <= BUDGET
           used == Tokens(a) + (IF kept THEN H ELSE 0)
           w == AdmitTests(ts, used)
<1>1. /\ b.files = a /\ b.tokens = w.used /\ b.tests = w.found
      /\ b.history = IF kept THEN hist ELSE NoHistory
  BY BundleIs
<1>2. IsList(ranked) /\ \A i \in DOMAIN ranked : SoundRank(ranked[i])
  BY RankedIsSound
<1>3. Tokens(a) \in Int /\ Tokens(a) <= BUDGET
  <2> HIDE DEF ranked
  <2>1. /\ Tokens(Admit(InOrder(Dedup(ranked)))) \in Int
        /\ Tokens(Admit(InOrder(Dedup(ranked)))) <= BUDGET
    BY <1>2, AdmittedMeans
  <2>. QED  BY <2>1 DEF AdmittedOf, ranked
<1>4. H \in Int
  BY HistoryTokensMeans DEF SoundInput
<1> HIDE DEF b, a, H
<1>5. used \in Int /\ used <= BUDGET
  BY <1>3, <1>4, BudgetAssumption
<1> HIDE DEF used
<1>6. /\ w.used \in Int /\ w.used = used + Tokens(w.found)
      /\ used <= BUDGET => w.used <= BUDGET
  BY <1>5, TestsAdmitted DEF SoundTests
<1> HIDE DEF w
<1>7. HistoryTokens(b.history) = IF kept THEN H ELSE 0
  BY <1>1, HistoryTokensMeans DEF H
<1>8. b.tokens = Tokens(b.files) + HistoryTokens(b.history) + Tokens(b.tests)
  BY <1>1, <1>6, <1>7 DEF used
<1>9. b.tokens <= BUDGET
  BY <1>1, <1>5, <1>6
<1>. QED  BY <1>8, <1>9 DEF b

-----------------------------------------------------------------------------
\* Lists.
LEMMA SeqIsList ==
    ASSUME NEW T, NEW s \in Seq(T)
    PROVE  IsList(s) /\ \A i \in DOMAIN s : s[i] \in T
<1>1. DOMAIN s = 1 .. Len(s) /\ Len(s) \in Nat
  BY LenProperties
<1>2. s \in [1 .. Len(s) -> Range(s)]
  BY <1>1 DEF Range
<1>3. s \in Seq(Range(s))
  BY <1>1, <1>2, SeqDef
<1>. QED  BY <1>1, <1>3, ElementOfSeq DEF IsList

\* A function on an initial segment of the naturals is a list.
LEMMA FunctionIsList ==
    ASSUME NEW n \in Nat, NEW g, DOMAIN g = 1 .. n, g = [i \in DOMAIN g |-> g[i]]
    PROVE  IsList(g) /\ Len(g) = n
<1>1. g \in [1 .. n -> Range(g)]
  BY DEF Range
<1>2. g \in Seq(Range(g))
  BY <1>1, SeqDef
<1>. QED  BY <1>2, LenProperties DEF IsList

\* What the concatenation of two lists has at each position.
LEMMA ConcatList ==
    ASSUME NEW s, IsList(s), NEW t, IsList(t)
    PROVE  /\ IsList(s \o t) /\ Len(s \o t) = Len(s) + Len(t)
           /\ \A i \in 1 .. Len(s) : (s \o t)[i] = s[i]
           /\ \A i \in 1 .. Len(t) : (s \o t)[Len(s) + i] = t[i]
           /\ \A i \in DOMAIN (s \o t) :
                 \/ i \in DOMAIN s /\ (s \o t)[i] = s[i]
                 \/ i > Len(s) /\ i - Len(s) \in DOMAIN t /\ (s \o t)[i] = t[i - Len(s)]
<1> DEFINE T == Range(s) \cup Range(t)
<1>1. s \in Seq(T) /\ t \in Seq(T)
  BY ListMeans DEF Range
<1>2. DOMAIN s = 1 .. Len(s) /\ DOMAIN t = 1 .. Len(t) /\ Len(s) \in Nat /\ Len(t) \in Nat
  BY ListMeans
<1> HIDE DEF T
<1>3. /\ s \o t \in Seq(T) /\ Len(s \o t) = Len(s) + Len(t)
      /\ \A i \in 1 .. Len(s) + Len(t) :
            (s \o t)[i] = IF i <= Len(s) THEN s[i] ELSE t[i - Len(s)]
  BY <1>1, ConcatProperties
<1>4. IsList(s \o t)
  BY <1>3, SeqIsList
<1>5. DOMAIN (s \o t) = 1 .. Len(s) + Len(t)
  BY <1>3, LenProperties
<1>6. \A i \in 1 .. Len(s) : (s \o t)[i] = s[i]
  BY <1>2, <1>3
<1>7. \A i \in 1 .. Len(t) : (s \o t)[Len(s) + i] = t[i]
  <2> TAKE i \in 1 .. Len(t)
  <2>1. Len(s) + i \in 1 .. Len(s) + Len(t) /\ ~ (Len(s) + i <= Len(s)) /\ (Len(s) + i) - Len(s) = i
    BY <1>2
  <2>. QED  BY <1>3, <2>1
<1>8. \A i \in 1 .. Len(s) + Len(t) :
         \/ i \in DOMAIN s /\ (s \o t)[i] = s[i]
         \/ i > Len(s) /\ i - Len(s) \in DOMAIN t /\ (s \o t)[i] = t[i - Len(s)]
  <2> TAKE i \in 1 .. Len(s) + Len(t)
  <2>1. (s \o t)[i] = IF i <= Len(s) THEN s[i] ELSE t[i - Len(s)]
    BY <1>3
  <2>2. CASE i <= Len(s)
    <3>1. i \in DOMAIN s
      BY <1>2, <2>2
    <3>2. (s \o t)[i] = s[i]
      BY <2>1, <2>2, Zenon
    <3>. QED  BY <3>1, <3>2
  <2>3. CASE ~ (i <= Len(s))
    <3>1. i > Len(s) /\ i - Len(s) \in 1 .. Len(t)
      BY <1>2, <2>3
    <3>. QED  BY <1>2, <2>1, <2>3, <3>1
  <2>. QED  BY <2>2, <2>3
<1>. QED  BY <1>3, <1>4, <1>5, <1>6, <1>7, <1>8

\* What a segment of a list has at each position.
LEMMA SubList ==
    ASSUME NEW s, IsList(s), NEW m \in Nat \ {0}, NEW n \in 0 .. Len(s)
    PROVE  /\ IsList(SubSeq(s, m, n))
           /\ Len(SubSeq(s, m, n)) = IF m <= n THEN n - m + 1 ELSE 0
           /\ \A i \in 1 .. Len(SubSeq(s, m, n)) : SubSeq(s, m, n)[i] = s[m + i - 1]
           /\ \A i \in DOMAIN SubSeq(s, m, n) : \E j \in DOMAIN s : SubSeq(s, m, n)[i] = s[j]
<1>1. DOMAIN s = 1 .. Len(s) /\ Len(s) \in Nat
  BY ListMeans
<1>2. \A i \in m .. n : s[i] \in Range(s)
  BY <1>1 DEF Range
<1>3. m \in Int /\ n \in Int
  BY <1>1
<1>4. /\ SubSeq(s, m, n) \in Seq(Range(s))
      /\ Len(SubSeq(s, m, n)) = IF m <= n THEN n - m + 1 ELSE 0
      /\ \A i \in 1 .. n - m + 1 : SubSeq(s, m, n)[i] = s[m + i - 1]
  BY <1>2, <1>3, SubSeqProperties
<1> DEFINE g == SubSeq(s, m, n)
<1> HIDE DEF g
<1>5. /\ g \in Seq(Range(s)) /\ Len(g) = IF m <= n THEN n - m + 1 ELSE 0
      /\ \A i \in 1 .. n - m + 1 : g[i] = s[m + i - 1]
  BY <1>4 DEF g
<1>6. IsList(g) /\ \A i \in DOMAIN g : g[i] \in Range(s)
  BY <1>5, SeqIsList
<1>7. \A i \in DOMAIN g : \E j \in DOMAIN s : g[i] = s[j]
  BY <1>6 DEF Range
<1>8. \A i \in 1 .. Len(g) : g[i] = s[m + i - 1]
  BY <1>3, <1>5
<1>. QED  BY <1>5, <1>6, <1>7, <1>8 DEF g

\* The empty list and the list of one entry.
LEMMA EmptyList ==
    /\ IsList(<<>>) /\ Len(<<>>) = 0
    /\ \A x : IsList(<<x>>) /\ <<x>>[1] = x /\ DOMAIN <<x>> = {1}
<1>1. \A T : <<>> \in Seq(T)
  OBVIOUS
<1>2. \A x : <<x>> \in Seq({x}) /\ <<x>>[1] = x /\ DOMAIN <<x>> = {1}
  OBVIOUS
<1>3. Len(<<>>) = 0
  OBVIOUS
<1>4. IsList(<<>>)
  BY <1>1, SeqIsList
<1>5. \A x : IsList(<<x>>)
  BY <1>2, SeqIsList
<1>. QED  BY <1>2, <1>3, <1>4, <1>5

-----------------------------------------------------------------------------
\* The merge: what is there stays in front of what is added.
LEMMA CutMeans ==
    ASSUME NEW s, IsList(s)
    PROVE  /\ IsList(Cut(s)) /\ IsPrefix(Cut(s), s)
           /\ Cut(s) = SubSeq(s, 1, Len(Cut(s)))
           /\ Len(Cut(s)) = IF Len(s) < MAXPLANITEMS THEN Len(s) ELSE MAXPLANITEMS
<1> DEFINE n == IF Len(s) < MAXPLANITEMS THEN Len(s) ELSE MAXPLANITEMS
<1>1. Len(s) \in Nat /\ n \in 0 .. Len(s)
  BY ListMeans, BoundsAssumption
<1>2. Cut(s) = SubSeq(s, 1, n)
  BY DEF Cut
<1>3. n = IF Len(s) < MAXPLANITEMS THEN Len(s) ELSE MAXPLANITEMS
  OBVIOUS
<1> HIDE DEF n
<1>4. IsList(SubSeq(s, 1, n)) /\ Len(SubSeq(s, 1, n)) = IF 1 <= n THEN n - 1 + 1 ELSE 0
  <2>1. 1 \in Nat \ {0}
    OBVIOUS
  <2>. QED  BY <1>1, <2>1, SubList
<1>5. Len(Cut(s)) = n /\ IsList(Cut(s))
  BY <1>1, <1>2, <1>4
<1>6. SubSeq(Cut(s), 1, Len(Cut(s))) = Cut(s)
  BY <1>5, SubSeqFull DEF IsList
<1>7. IsPrefix(Cut(s), s)
  BY <1>1, <1>2, <1>5, <1>6 DEF IsPrefix
<1>. QED  BY <1>2, <1>3, <1>5, <1>7

\* A list that agrees with another as far as it goes is a prefix of it.
LEMMA SamePrefix ==
    ASSUME NEW s, IsList(s), NEW t, IsList(t), Len(s) <= Len(t), \A i \in 1 .. Len(s) : s[i] = t[i]
    PROVE  IsPrefix(s, t)
<1>1. Len(s) \in Nat /\ Len(t) \in Nat /\ DOMAIN s = 1 .. Len(s)
  BY ListMeans
<1> DEFINE g == SubSeq(t, 1, Len(s))
<1>2. /\ IsList(g) /\ Len(g) = (IF 1 <= Len(s) THEN Len(s) - 1 + 1 ELSE 0)
      /\ \A i \in 1 .. Len(g) : g[i] = t[1 + i - 1]
  <2>1. 1 \in Nat \ {0} /\ Len(s) \in 0 .. Len(t)
    BY <1>1
  <2> DEFINE n == Len(s)
  <2> HIDE DEF n
  <2>2. n \in 0 .. Len(t)
    BY <2>1 DEF n
  <2>3. /\ IsList(SubSeq(t, 1, n)) /\ Len(SubSeq(t, 1, n)) = (IF 1 <= n THEN n - 1 + 1 ELSE 0)
        /\ \A i \in 1 .. Len(SubSeq(t, 1, n)) : SubSeq(t, 1, n)[i] = t[1 + i - 1]
    BY <2>1, <2>2, SubList
  <2>. QED  BY <2>3 DEF n
<1>3. Len(g) = Len(s) /\ DOMAIN g = 1 .. Len(s)
  <2> HIDE DEF g
  <2>. QED  BY <1>1, <1>2, ListMeans
<1>4. g = s
  <2>1. g = [i \in DOMAIN g |-> g[i]] /\ s = [i \in DOMAIN s |-> s[i]]
    <3> HIDE DEF g
    <3>. QED  BY <1>2 DEF IsList
  <2>2. \A i \in 1 .. Len(s) : g[i] = s[i]
    <3> TAKE i \in 1 .. Len(s)
    <3>1. 1 + i - 1 = i
      BY <1>1
    <3>. QED  BY <1>2, <1>3, <3>1
  <2> HIDE DEF g
  <2>. QED  BY <1>1, <1>3, <2>1, <2>2
<1>5. SubSeq(s, 1, Len(s)) = s
  BY SubSeqFull DEF IsList
<1>. QED  BY <1>4, <1>5 DEF IsPrefix

\* _merge keeps the first MAX_PLAN_ENTRIES entries of the base in front of what it adds.
LEMMA MergeMeans ==
    ASSUME NEW base, IsList(base), NEW extra, IsList(extra)
    PROVE  IsList(Merge(base, extra)) /\ IsPrefix(Cut(base), Merge(base, extra))
<1> DEFINE more == Distinct(extra)
           W == {i \in DOMAIN more : ~ Contains(base, more[i])}
           add == Picked(more, W)
           all == base \o add
<1>1. Merge(base, extra) = Cut(all)
  BY DEF Merge
<1>2. IsList(more)
  BY DistinctMeans
<1> HIDE DEF more
<1>3. IsList(add)
  <2>1. Len(more) \in Nat /\ W \subseteq 1 .. Len(more)
    BY <1>2, ListMeans
  <2> HIDE DEF W
  <2>2. ArePicked(Picked(more, W), more, W)
    BY <2>1, PickedMeans
  <2>. QED  BY <2>2 DEF ArePicked
<1> HIDE DEF add
<1>4. /\ IsList(all) /\ Len(all) = Len(base) + Len(add)
      /\ \A i \in 1 .. Len(base) : all[i] = base[i]
  BY <1>3, ConcatList
<1>5. Len(base) \in Nat /\ Len(add) \in Nat
  BY <1>3, ListMeans
<1> HIDE DEF all
<1> DEFINE c == Cut(all)  b == Cut(base)
<1>6. IsList(c) /\ c = SubSeq(all, 1, Len(c))
      /\ Len(c) = IF Len(all) < MAXPLANITEMS THEN Len(all) ELSE MAXPLANITEMS
  BY <1>4, CutMeans
<1>7. IsList(b) /\ b = SubSeq(base, 1, Len(b))
      /\ Len(b) = IF Len(base) < MAXPLANITEMS THEN Len(base) ELSE MAXPLANITEMS
  BY CutMeans
<1> HIDE DEF b, c
<1>8. Len(b) <= Len(c) /\ Len(b) \in Nat /\ Len(c) \in Nat /\ Len(b) <= Len(base) /\ Len(c) <= Len(all)
      /\ Len(all) \in Nat
  BY <1>4, <1>5, <1>6, <1>7, BoundsAssumption
<1>9. \A i \in 1 .. Len(b) : b[i] = base[i]
  <2> TAKE i \in 1 .. Len(b)
  <2> DEFINE n == Len(b)
  <2>1. n \in 0 .. Len(base) /\ 1 \in Nat \ {0} /\ i \in 1 .. n /\ 1 + i - 1 = i /\ b = SubSeq(base, 1, n)
    BY <1>5, <1>7, <1>8
  <2> HIDE DEF n
  <2>2. \A j \in 1 .. Len(SubSeq(base, 1, n)) : SubSeq(base, 1, n)[j] = base[1 + j - 1]
    BY <2>1, SubList
  <2>3. \A j \in 1 .. n : b[j] = base[1 + j - 1]
    BY <2>1, <2>2 DEF n
  <2>. QED  BY <2>1, <2>3
<1>10. \A i \in 1 .. Len(c) : c[i] = all[i]
  <2> TAKE i \in 1 .. Len(c)
  <2> DEFINE n == Len(c)
  <2>1. n \in 0 .. Len(all) /\ 1 \in Nat \ {0} /\ i \in 1 .. n /\ 1 + i - 1 = i /\ c = SubSeq(all, 1, n)
    BY <1>6, <1>8
  <2> HIDE DEF n
  <2>2. \A j \in 1 .. Len(SubSeq(all, 1, n)) : SubSeq(all, 1, n)[j] = all[1 + j - 1]
    BY <1>4, <2>1, SubList
  <2>3. \A j \in 1 .. n : c[j] = all[1 + j - 1]
    BY <2>1, <2>2 DEF n
  <2>. QED  BY <2>1, <2>3
<1>11. \A i \in 1 .. Len(b) : b[i] = c[i]
  BY <1>4, <1>5, <1>8, <1>9, <1>10
<1>12. IsPrefix(b, c)
  BY <1>6, <1>7, <1>8, <1>11, SamePrefix
<1>. QED  BY <1>1, <1>6, <1>12 DEF b, c

-----------------------------------------------------------------------------
\* Frames.
LEMMA LongestMeans ==
    ASSUME NEW p, IsList(p), NEW S, S # {}, \A q \in S : IsList(q) /\ IsPrefix(q, p)
    PROVE  Longest(S) \in S
<1> DEFINE L == {Len(q) : q \in S}
<1>1. Len(p) \in Nat
  BY ListMeans
<1>2. \A q \in S : Len(q) \in 0 .. Len(p)
  <2> TAKE q \in S
  <2>1. Len(q) \in Nat /\ Len(q) <= Len(p)
    BY ListMeans DEF IsPrefix
  <2>. QED  BY <1>1, <2>1
<1>3. L \in SUBSET (0 .. Len(p)) /\ L # {}
  BY <1>2
<1>4. IsFiniteSet(0 .. Len(p))
  BY <1>1, FS_Interval
<1>5. IsFiniteSet(L) /\ L \subseteq Int
  <2>1. IsFiniteSet(L)
    BY <1>3, <1>4, FS_Subset
  <2>. QED  BY <1>3, <2>1
<1> HIDE DEF L
<1>6. \E m \in L : \A n \in L : n <= m
  BY <1>3, <1>5, Extremes
<1>7. \E s \in S : \A t \in S : Len(t) <= Len(s)
  BY <1>6 DEF L
<1>. QED  BY <1>7 DEF Longest

\* What is left of a list behind its beginning.
LEMMA RestIsList ==
    ASSUME NEW p, IsList(p), NEW m \in Nat
    PROVE  IsList(SubSeq(p, m + 1, Len(p)))
<1>1. Len(p) \in Nat
  BY ListMeans
<1> DEFINE n == Len(p)  k == m + 1
<1>2. k \in Nat \ {0} /\ n \in 0 .. Len(p)
  BY <1>1
<1> HIDE DEF n, k
<1>3. IsList(SubSeq(p, k, n))
  BY <1>2, SubList
<1>. QED  BY <1>3 DEF n, k

\* resolve_path yields a path that is a list of segments, or none.
LEMMA ResolvePathMeans ==
    ASSUME NEW p, IsList(p)
    PROVE  /\ ResolvePath(p).path = None \/ IsList(ResolvePath(p).path)
           /\ ResolvePath(p).confidence \in Int
<1> DEFINE Sound(r) == (r.path = None \/ IsList(r.path)) /\ r.confidence \in Int
           mapped == {n \in MAPPINGS : IsPrefix(n[1], p)}
           sources == {m[1] : m \in mapped}
           prefixes == {q \in PREFIXES : IsPrefix(q, p)}
           apps == {i \in 2 .. Len(p) - 1 : p[i] = "app"}
           m == CHOOSE n \in MAPPINGS : n[1] = Longest(sources)
           first == CHOOSE i \in apps : \A j \in apps : i <= j
           x0 == Resolved(None, Unresolved)
           x1 == Resolved(m[2] \o Rest(p, m[1]), Configured)
           x2 == Resolved(Rest(p, Longest(prefixes)), Heuristic)
           x3 == Resolved(SubSeq(p, 4, Len(p)), Heuristic)
           x4 == Resolved(SubSeq(p, 1 + first, Len(p)), Heuristic)
           x5 == Resolved(p, Heuristic)
           a == Pseudo(p)
           b == Absolute(p) /\ Len(p) > 3 /\ p[2] = "home"
           c == Drive(p) /\ apps # {}
           d == ~ Absolute(p) /\ ~ Drive(p)
<1>1. ResolvePath(p) = CASE a -> x0
                         [] ~ a /\ sources # {} -> x1
                         [] ~ a /\ sources = {} /\ prefixes # {} -> x2
                         [] OTHER -> CASE b -> x3 [] c -> x4 [] d -> x5 [] OTHER -> x0
  BY DEF ResolvePath
<1>2. \A path, confidence : /\ Resolved(path, confidence).path = path
                            /\ Resolved(path, confidence).confidence = confidence
  BY DEF Resolved
<1>3. \A x : (x = None \/ IsList(x)) =>
         Sound(Resolved(x, Unresolved)) /\ Sound(Resolved(x, Configured)) /\ Sound(Resolved(x, Heuristic))
  BY <1>2 DEF Unresolved, Configured, Heuristic
<1>4. Len(p) \in Nat
  BY ListMeans
<1>5. sources # {} => IsList(m[2] \o Rest(p, m[1]))
  <2> SUFFICES ASSUME sources # {}  PROVE IsList(m[2] \o Rest(p, m[1]))
    OBVIOUS
  <2>1. \A q \in sources : IsList(q) /\ IsPrefix(q, p)
    BY MappingAssumption
  <2>2. Longest(sources) \in sources
    <3> HIDE DEF sources
    <3>. QED  BY <2>1, LongestMeans
  <2>3. \E n \in MAPPINGS : n[1] = Longest(sources)
    BY <2>2
  <2>4. m \in MAPPINGS
    BY <2>3
  <2> HIDE DEF m
  <2>5. IsList(m[1]) /\ IsList(m[2])
    BY <2>4, MappingAssumption
  <2>6. Len(m[1]) \in Nat
    BY <2>5, ListMeans
  <2>7. IsList(Rest(p, m[1]))
    BY <2>6, RestIsList DEF Rest
  <2>. QED  BY <2>5, <2>7, ConcatList
<1>6. prefixes # {} => IsList(Rest(p, Longest(prefixes)))
  <2> SUFFICES ASSUME prefixes # {}  PROVE IsList(Rest(p, Longest(prefixes)))
    OBVIOUS
  <2>1. \A q \in prefixes : IsList(q) /\ IsPrefix(q, p)
    BY MappingAssumption
  <2> DEFINE l == Longest(prefixes)
  <2>2. l \in prefixes
    <3> HIDE DEF prefixes
    <3>. QED  BY <2>1, LongestMeans
  <2>3. IsList(l)
    BY <2>1, <2>2
  <2> HIDE DEF l
  <2>4. Len(l) \in Nat
    BY <2>3, ListMeans
  <2>5. IsList(Rest(p, l))
    BY <2>4, RestIsList DEF Rest
  <2>. QED  BY <2>5 DEF l
<1>7. apps # {} => first \in Nat
  <2> SUFFICES ASSUME apps # {}  PROVE first \in Nat
    OBVIOUS
  <2>1. apps \subseteq Nat
    BY <1>4
  <2> HIDE DEF apps
  <2>2. \E i \in apps : \A j \in apps : i <= j
    BY <2>1, LeastNatural
  <2>. QED  BY <2>1, <2>2
<1>8. c => IsList(SubSeq(p, 1 + first, Len(p)))
  <2> SUFFICES ASSUME apps # {}  PROVE IsList(SubSeq(p, 1 + first, Len(p)))
    OBVIOUS
  <2>1. first \in Nat
    BY <1>7
  <2> HIDE DEF first
  <2>2. IsList(SubSeq(p, first + 1, Len(p)))
    BY <2>1, RestIsList
  <2>3. first + 1 = 1 + first
    BY <2>1
  <2>. QED  BY <2>2, <2>3
<1>9. IsList(SubSeq(p, 4, Len(p)))
  <2>1. 3 \in Nat /\ 3 + 1 = 4
    OBVIOUS
  <2>2. IsList(SubSeq(p, 3 + 1, Len(p)))
    BY <2>1, RestIsList
  <2>. QED  BY <2>1, <2>2
<1>10. Sound(x0) /\ Sound(x3) /\ Sound(x5)
  <2> HIDE DEF Sound
  <2>. QED  BY <1>3, <1>9
<1>11. (sources # {} => Sound(x1)) /\ (prefixes # {} => Sound(x2)) /\ (c => Sound(x4))
  <2> HIDE DEF Sound, c, m, first, sources, prefixes
  <2>. QED  BY <1>3, <1>5, <1>6, <1>8
<1>12. ~ (b /\ c) /\ ~ (b /\ d) /\ ~ (c /\ d)
  <2>1. ~ (Absolute(p) /\ Drive(p))
    BY DEF Absolute, Drive
  <2>. QED  BY <2>1
<1>13. Sound(CASE b -> x3 [] c -> x4 [] d -> x5 [] OTHER -> x0)
  <2> HIDE DEF Sound, b, c, d, x0, x3, x4, x5
  <2>1. CASE b
    <3>1. (CASE b -> x3 [] c -> x4 [] d -> x5 [] OTHER -> x0) = x3
      BY <1>12, <2>1
    <3>. QED  BY <1>10, <3>1
  <2>2. CASE c
    <3>1. (CASE b -> x3 [] c -> x4 [] d -> x5 [] OTHER -> x0) = x4
      BY <1>12, <2>2
    <3>. QED  BY <1>11, <2>2, <3>1
  <2>3. CASE d
    <3>1. (CASE b -> x3 [] c -> x4 [] d -> x5 [] OTHER -> x0) = x5
      BY <1>12, <2>3
    <3>. QED  BY <1>10, <3>1
  <2>4. CASE ~ b /\ ~ c /\ ~ d
    <3>1. (CASE b -> x3 [] c -> x4 [] d -> x5 [] OTHER -> x0) = x0
      BY <2>4
    <3>. QED  BY <1>10, <3>1
  <2>. QED  BY <2>1, <2>2, <2>3, <2>4
<1> DEFINE other == CASE b -> x3 [] c -> x4 [] d -> x5 [] OTHER -> x0
<1>14. Sound(ResolvePath(p))
  <2>1. ResolvePath(p) = CASE a -> x0
                         [] ~ a /\ sources # {} -> x1
                         [] ~ a /\ sources = {} /\ prefixes # {} -> x2
                         [] OTHER -> other
    BY <1>1
  <2>2. Sound(other)
    BY <1>13
  <2> HIDE DEF Sound, other, a, sources, prefixes, x0, x1, x2
  <2>3. CASE a
    <3>1. ResolvePath(p) = x0
      BY <2>1, <2>3
    <3>. QED  BY <1>10, <3>1
  <2>4. CASE ~ a /\ sources # {}
    <3>1. ResolvePath(p) = x1
      BY <2>1, <2>4
    <3>. QED  BY <1>11, <2>4, <3>1
  <2>5. CASE ~ a /\ sources = {} /\ prefixes # {}
    <3>1. ResolvePath(p) = x2
      BY <2>1, <2>5
    <3>. QED  BY <1>11, <2>5, <3>1
  <2>6. CASE ~ a /\ sources = {} /\ prefixes = {}
    <3>1. ResolvePath(p) = other
      BY <2>1, <2>6
    <3>. QED  BY <2>2, <3>1
  <2>. QED  BY <2>3, <2>4, <2>5, <2>6
<1>. QED  BY <1>14

\* What is known of a frame, and of a list of them.
IsFrame(f) ==
    /\ f \in [raw : {f.raw}, path : {f.path}, confidence : {f.confidence}, line : {f.line},
              function : {f.function}, inApp : {f.inApp}, locals : {f.locals}, nulls : {f.nulls}]
    /\ IsList(f.raw) /\ (f.path = None \/ IsList(f.path)) /\ f.confidence \in Int
    /\ f.line \in Nat \cup {None} /\ IsList(f.locals) /\ IsList(f.nulls)

AreFrames(frames) == IsList(frames) /\ \A i \in DOMAIN frames : IsFrame(frames[i])

\* extract_frames yields well-formed frames for every event.
LEMMA FramesMeans ==
    ASSUME NEW e \in EVENTS
    PROVE  AreFrames(ExtractFrames(e.error))
<1> DEFINE raw == RawFrames(e.error)
           trace == e.error.trace
<1>1. IsList(raw) /\ \A i \in DOMAIN raw : Reported(raw[i])
  <2>1. /\ IsList(e.error.frames) /\ IsList(trace)
        /\ \A f \in ToSet(e.error.frames) \cup ToSet(trace) : Reported(f)
    BY EventAssumption
  <2>2. CASE e.error.frames # <<>>
    BY <2>1, <2>2 DEF RawFrames, ToSet
  <2>3. CASE e.error.frames = <<>>
    <3>1. raw = Reverse(trace)
      BY <2>3 DEF RawFrames
    <3>2. DOMAIN trace = 1 .. Len(trace) /\ Len(trace) \in Nat
      BY <2>1, ListMeans
    <3>3. Reverse(trace) = [i \in 1 .. Len(trace) |-> trace[(Len(trace) - i) + 1]]
      BY DEF Reverse
    <3> HIDE DEF raw
    <3>4. DOMAIN raw = 1 .. Len(trace) /\ raw = [i \in DOMAIN raw |-> raw[i]]
      BY <3>1, <3>3
    <3>5. IsList(raw)
      BY <3>2, <3>4, FunctionIsList
    <3>6. \A i \in DOMAIN raw : raw[i] = trace[(Len(trace) - i) + 1]
      BY <3>1, <3>3, <3>4
    <3>7. \A i \in DOMAIN raw : (Len(trace) - i) + 1 \in DOMAIN trace
      BY <3>2, <3>4
    <3>. QED  BY <2>1, <3>5, <3>6, <3>7 DEF ToSet
  <2>. QED  BY <2>2, <2>3
<1> DEFINE fr == ExtractFrames(e.error)
           R(i) == IF InApp(raw[i]) THEN ResolvePath(raw[i].path) ELSE Resolved(None, 0)
           F(i) == [raw |-> raw[i].path, path |-> R(i).path, confidence |-> R(i).confidence,
                    line |-> raw[i].line, function |-> raw[i].function, inApp |-> InApp(raw[i]),
                    locals |-> raw[i].locals, nulls |-> raw[i].nulls]
<1>2. fr = [i \in DOMAIN raw |-> F(i)]
  BY DEF ExtractFrames
<1> HIDE DEF raw, fr
<1>3. \A i \in DOMAIN raw : (R(i).path = None \/ IsList(R(i).path)) /\ R(i).confidence \in Int
  <2> TAKE i \in DOMAIN raw
  <2>1. IsList(raw[i].path)
    BY <1>1 DEF Reported
  <2>2. CASE InApp(raw[i])
    <3> DEFINE p == raw[i].path
    <3> HIDE DEF p
    <3>1. (ResolvePath(p).path = None \/ IsList(ResolvePath(p).path)) /\ ResolvePath(p).confidence \in Int
      BY <2>1, ResolvePathMeans DEF p
    <3>2. R(i) = ResolvePath(p)
      BY <2>2 DEF p
    <3> HIDE DEF R
    <3>. QED  BY <3>1, <3>2
  <2>3. CASE ~ InApp(raw[i])
    BY <2>3 DEF Resolved
  <2>. QED  BY <2>2, <2>3
<1> HIDE DEF R
<1>4. \A i \in DOMAIN raw : IsFrame(F(i))
  <2> TAKE i \in DOMAIN raw
  <2>1. Reported(raw[i])
    BY <1>1
  <2>. QED  BY <1>3, <2>1 DEF IsFrame, Reported
<1> HIDE DEF F
<1>5. DOMAIN fr = 1 .. Len(raw) /\ Len(raw) \in Nat /\ fr = [i \in DOMAIN fr |-> fr[i]]
  BY <1>1, <1>2, ListMeans
<1>6. IsList(fr)
  BY <1>5, FunctionIsList
<1>. QED  BY <1>2, <1>4, <1>6 DEF AreFrames, fr

\* The frames of the application are some of the frames, in their order.
LEMMA OwnMeans ==
    ASSUME NEW frames, AreFrames(frames)
    PROVE  AreFrames(Own(frames)) /\ (Own(frames) # <<>> => 1 \in DOMAIN Own(frames))
<1> DEFINE W == {i \in DOMAIN frames : frames[i].inApp}
<1>1. DOMAIN frames = 1 .. Len(frames) /\ Len(frames) \in Nat
  BY ListMeans DEF AreFrames
<1>2. W \subseteq 1 .. Len(frames)
  BY <1>1
<1>3. Own(frames) = Picked(frames, W)
  BY DEF Own
<1>4. \A i \in W : IsFrame(frames[i])
  BY DEF AreFrames
<1> HIDE DEF W
<1>5. ArePicked(Picked(frames, W), frames, W)
  BY <1>1, <1>2, PickedMeans
<1>. QED  BY <1>3, <1>4, <1>5 DEF ArePicked, AreFrames

-----------------------------------------------------------------------------
\* The pre-parse.
LEMMA MapIsList ==
    ASSUME NEW s, IsList(s), NEW g, DOMAIN g = DOMAIN s, g = [i \in DOMAIN g |-> g[i]]
    PROVE  IsList(g) /\ Len(g) = Len(s)
<1>1. DOMAIN g = 1 .. Len(s) /\ Len(s) \in Nat
  BY ListMeans
<1>. QED  BY <1>1, FunctionIsList

IsPlan(p) ==
    /\ IsList(p.mustFetch) /\ IsList(p.symbols) /\ IsList(p.queries)
    /\ IsList(p.history) /\ IsList(p.tests)

\* implicated_symbols yields a list.
LEMMA SymbolsAreAList ==
    ASSUME NEW frames, AreFrames(frames), NEW named, IsList(named)
    PROVE  IsList(ImplicatedSymbols(frames, named))
<1> DEFINE own == Own(frames)
           tail == [i \in 1 .. Len(own) - 1 |-> own[i + 1].function]
           all == <<own[1].function>> \o own[1].locals \o named \o tail
           s == IF own = <<>> THEN named ELSE all
<1>1. IsList(own) /\ (own # <<>> => IsFrame(own[1])) /\ (own # <<>> => 1 \in DOMAIN own)
  BY OwnMeans DEF AreFrames
<1>2. ImplicatedSymbols(frames, named) = Distinct(Present(s))
  BY DEF ImplicatedSymbols
<1> HIDE DEF own
<1>3. IsList(s)
  <2>1. CASE own = <<>>
    BY <2>1
  <2>2. CASE own # <<>>
    <3>1. IsList(own[1].locals) /\ Len(own) - 1 \in Nat
      <4>1. Len(own) \in Nat /\ DOMAIN own = 1 .. Len(own)
        BY <1>1, ListMeans
      <4>. QED  BY <1>1, <2>2, <4>1 DEF IsFrame
    <3>2. IsList(<<own[1].function>>)
      BY EmptyList
    <3>3. IsList(tail)
      <4>1. DOMAIN tail = 1 .. Len(own) - 1 /\ tail = [i \in DOMAIN tail |-> tail[i]]
        OBVIOUS
      <4> HIDE DEF tail
      <4>. QED  BY <3>1, <4>1, FunctionIsList
    <3> HIDE DEF tail
    <3>4. IsList(<<own[1].function>> \o own[1].locals)
      BY <3>1, <3>2, ConcatList
    <3>5. IsList(<<own[1].function>> \o own[1].locals \o named)
      BY <3>4, ConcatList
    <3>6. IsList(all)
      BY <3>3, <3>5, ConcatList
    <3>. QED  BY <2>2, <3>6
  <2>. QED  BY <2>1, <2>2
<1> HIDE DEF s
<1>4. IsList(Present(s))
  BY <1>3, PresentMeans
<1>5. IsList(Distinct(Present(s)))
  BY <1>4, DistinctMeans
<1>. QED  BY <1>2, <1>5

\* _semantic_queries yields a list.
LEMMA QueriesAreAList ==
    ASSUME NEW family, NEW failure, NEW nulls, IsList(nulls)
    PROVE  IsList(SemanticQueries(family, failure, nulls))
<1> DEFINE n == IF Len(nulls) < 2 THEN Len(nulls) ELSE 2
           a == [i \in 1 .. n |-> <<"produced", nulls[i]>>]
           b == IF failure = None \/ failure.function = None THEN <<>>
                ELSE << <<"callers", failure.function>> >>
           c == << <<"cause", family>> >>
<1>1. SemanticQueries(family, failure, nulls) = Distinct(a \o b \o c)
  BY DEF SemanticQueries
<1>2. IsList(a)
  <2>1. n \in Nat
    BY ListMeans
  <2> HIDE DEF n
  <2>2. DOMAIN a = 1 .. n /\ a = [i \in DOMAIN a |-> a[i]]
    OBVIOUS
  <2> HIDE DEF a
  <2>. QED  BY <2>1, <2>2, FunctionIsList
<1>3. IsList(b) /\ IsList(c)
  BY EmptyList
<1> HIDE DEF a, b, c
<1>4. IsList(a \o b)
  BY <1>2, <1>3, ConcatList
<1>5. IsList(a \o b \o c)
  BY <1>3, <1>4, ConcatList
<1> DEFINE s == a \o b \o c
<1> HIDE DEF s
<1>6. IsList(Distinct(s))
  BY <1>5, DistinctMeans DEF s
<1>. QED  BY <1>1, <1>6 DEF s

\* build_plan yields a plan, each part of it a list.
LEMMA PlanIsPlan ==
    ASSUME NEW frames, AreFrames(frames), NEW family, NEW symbols, IsList(symbols), NEW crumbs
    PROVE  IsPlan(BuildPlan(frames, family, symbols, crumbs))
<1> DEFINE own == Own(frames)
           failure == FailurePoint(frames)
           paths == [i \in DOMAIN own |-> own[i].path]
           nulls == IF own = <<>> THEN <<>> ELSE own[1].nulls
           q == SemanticQueries(family, failure, nulls)
           m == Distinct(Present(paths))
           h == IF failure = None \/ failure.path = None THEN <<>> ELSE <<failure.path>>
           t == IF failure = None \/ failure.function = None THEN <<>> ELSE <<failure.function>>
<1>1. IsList(own) /\ (own # <<>> => IsFrame(own[1]))
  BY OwnMeans DEF AreFrames
<1>2. BuildPlan(frames, family, symbols, crumbs)
        = [mustFetch |-> m, symbols |-> symbols, queries |-> q, history |-> h, tests |-> t,
           signal |-> SelectBreadcrumb(crumbs)]
  BY DEF BuildPlan
<1> HIDE DEF own, failure
<1>3. IsList(m)
  <2>1. DOMAIN paths = DOMAIN own /\ paths = [i \in DOMAIN paths |-> paths[i]]
    OBVIOUS
  <2> HIDE DEF paths
  <2>2. IsList(paths)
    BY <1>1, <2>1, MapIsList
  <2>3. IsList(Present(paths))
    BY <2>2, PresentMeans
  <2>. QED  BY <2>3, DistinctMeans
<1>4. IsList(q)
  <2>1. IsList(nulls)
    <3>1. CASE own = <<>>
      BY <3>1, EmptyList
    <3>2. CASE own # <<>>
      BY <1>1, <3>2 DEF IsFrame
    <3>. QED  BY <3>1, <3>2
  <2> HIDE DEF nulls
  <2>. QED  BY <2>1, QueriesAreAList
<1>5. IsList(h) /\ IsList(t)
  BY EmptyList
<1> HIDE DEF m, q, h, t
<1>. QED  BY <1>2, <1>3, <1>4, <1>5 DEF IsPlan

\* A record of the stage, as far as its fields go.
IsUnderstanding(b) ==
    b \in [family : {b.family}, frames : {b.frames}, failure : {b.failure}, entry : {b.entry},
           symbols : {b.symbols}, hypotheses : {b.hypotheses}, plan : {b.plan},
           confidence : {b.confidence}, flags : {b.flags}]

\* What preparse yields for every event.
LEMMA PreparseMeans ==
    ASSUME NEW e \in EVENTS
    PROVE  LET b == Preparse(e) IN
           /\ IsUnderstanding(b) /\ AreFrames(b.frames)
           /\ b.failure = FailurePoint(b.frames) /\ IsList(b.symbols) /\ IsPlan(b.plan)
           /\ b.hypotheses = <<>>
<1> DEFINE b == Preparse(e)
           frames == ExtractFrames(e.error)
           family == Classify(e.error)
           symbols == ImplicatedSymbols(frames, e.error.named)
           plan == BuildPlan(frames, family, symbols, e.crumbs)
<1>1. b = [family |-> family, frames |-> frames,
           failure |-> FailurePoint(frames), entry |-> EntryPoint(frames, e.route),
           symbols |-> symbols, hypotheses |-> <<>>, plan |-> plan,
           confidence |-> 50, flags |-> Flags(e, frames)]
  BY DEF Preparse
<1>2. AreFrames(frames)
  BY FramesMeans
<1> HIDE DEF frames
<1>3. IsList(symbols)
  <2>1. IsList(e.error.named)
    BY EventAssumption
  <2>. QED  BY <1>2, <2>1, SymbolsAreAList
<1> HIDE DEF symbols, family
<1>4. IsPlan(plan)
  BY <1>2, <1>3, PlanIsPlan
<1> HIDE DEF b, plan
<1>5. IsUnderstanding(b)
  BY <1>1 DEF IsUnderstanding
<1>6. b.failure = FailurePoint(frames) /\ b.frames = frames /\ b.symbols = symbols /\ b.plan = plan
      /\ b.hypotheses = <<>>
  BY <1>1
<1>. QED  BY <1>2, <1>3, <1>4, <1>5, <1>6 DEF b

-----------------------------------------------------------------------------
\* The hypotheses: about real frames, and their priors add up to at most one.
Priors(s) == [i \in DOMAIN s |-> s[i].prior]
Claimable(proposed, count) == {h \in ToSet(proposed) : RealFrames(h, count) /\ h.prior \in 0 .. 100}

\* The priors of a list grow by that of the hypothesis appended to it.
LEMMA PriorsOfMore ==
    ASSUME NEW V, \A v \in V : v.prior \in Int, NEW s \in Seq(V), NEW x \in V
    PROVE  Total(Priors(s)) \in Int /\ Total(Priors(Append(s, x))) = Total(Priors(s)) + x.prior
<1> DEFINE sizes == Priors(s)
           t == Append(s, x)
           more == Priors(t)
<1>1. t \in Seq(V) /\ Len(t) = Len(s) + 1 /\ t[Len(s) + 1] = x
      /\ \A i \in 1 .. Len(s) : t[i] = s[i]
  BY AppendProperties
<1> HIDE DEF t
<1>2. DOMAIN s = 1 .. Len(s) /\ DOMAIN t = 1 .. Len(s) + 1 /\ Len(s) \in Nat
  BY <1>1, LenProperties
<1>3. sizes \in Seq(Int) /\ Len(sizes) = Len(s)
  <2>1. sizes \in [1 .. Len(s) -> Int]
    BY <1>2, ElementOfSeq DEF Priors
  <2>2. sizes \in Seq(Int)
    BY <1>2, <2>1, SeqDef
  <2>3. DOMAIN sizes = 1 .. Len(s)
    BY <2>1
  <2> HIDE DEF sizes
  <2>. QED  BY <1>2, <2>2, <2>3, LenProperties
<1>4. more = Append(sizes, x.prior)
  <2> DEFINE a == Append(sizes, x.prior)
  <2>1. /\ a \in Seq(Int) /\ Len(a) = Len(s) + 1 /\ a[Len(s) + 1] = x.prior
        /\ \A i \in 1 .. Len(s) : a[i] = sizes[i]
    <3> HIDE DEF sizes
    <3>. QED  BY <1>3, AppendProperties
  <2>2. DOMAIN a = 1 .. Len(s) + 1 /\ a = [i \in DOMAIN a |-> a[i]]
    BY <2>1, LenProperties
  <2> HIDE DEF a
  <2>3. \A i \in 1 .. Len(s) + 1 : more[i] = a[i]
    <3> TAKE i \in 1 .. Len(s) + 1
    <3>1. CASE i = Len(s) + 1
      BY <1>1, <1>2, <2>1, <3>1 DEF Priors
    <3>2. CASE i \in 1 .. Len(s)
      BY <1>1, <1>2, <2>1, <3>2 DEF Priors
    <3>. QED  BY <1>2, <3>1, <3>2
  <2>4. DOMAIN more = 1 .. Len(s) + 1 /\ more = [i \in DOMAIN more |-> more[i]]
    BY <1>2 DEF Priors
  <2> HIDE DEF more
  <2>5. more = a
    BY <2>2, <2>3, <2>4
  <2>. QED  BY <2>5 DEF a
<1> HIDE DEF sizes, more
<1>5. Total(sizes) \in Int /\ Total(Append(sizes, x.prior)) = Total(sizes) + x.prior
  BY <1>3, TotalOfMore
<1>. QED  BY <1>4, <1>5 DEF t, sizes, more

\* KeptUpTo satisfies its definition.
LEMMA KeptSteps ==
    ASSUME NEW proposed, NEW count, Len(proposed) \in Nat
    PROVE  \A n \in 0 .. Len(proposed) :
              KeptUpTo(proposed, count)[n] =
                 IF n = 0 THEN [kept |-> <<>>, total |-> 0]
                 ELSE Keep(KeptUpTo(proposed, count)[n - 1], proposed[n], count)
<1> DEFINE First == [kept |-> <<>>, total |-> 0]
           Then(v, n) == Keep(v, proposed[n], count)
           Rec(g, m) == g = [n \in 0 .. m |-> IF n = 0 THEN First ELSE Then(g[n - 1], n)]
           T == {m \in Nat : \E g : Rec(g, m)}
<1>1. 0 \in T
  <2>1. Rec([n \in 0 .. 0 |-> First], 0)
    OBVIOUS
  <2>. QED  BY <2>1
<1>2. ASSUME NEW m \in T  PROVE m + 1 \in T
  <2>1. PICK g : Rec(g, m)
    OBVIOUS
  <2> DEFINE k == [n \in 0 .. m + 1 |-> IF n = m + 1 THEN Then(g[m], m + 1) ELSE g[n]]
  <2> HIDE DEF First, Then
  <2>2. \A n \in 0 .. m : g[n] = IF n = 0 THEN First ELSE Then(g[n - 1], n)
    BY <2>1
  <2>3. (\A n \in 0 .. m : k[n] = g[n]) /\ k[m + 1] = Then(g[m], m + 1)
    OBVIOUS
  <2>4. k = [n \in 0 .. m + 1 |-> k[n]]
    OBVIOUS
  <2> HIDE DEF k
  <2>5. \A n \in 0 .. m + 1 : k[n] = IF n = 0 THEN First ELSE Then(k[n - 1], n)
    <3> TAKE n \in 0 .. m + 1
    <3>1. CASE n = 0
      <4>1. k[0] = First
        BY <2>2, <2>3
      <4>. QED  BY <3>1, <4>1
    <3>2. CASE n \in 1 .. m
      BY <3>2, <2>2, <2>3
    <3>3. CASE n = m + 1
      BY <3>3, <2>3
    <3>. QED  BY <3>1, <3>2, <3>3
  <2>6. Rec(k, m + 1)
    BY <2>4, <2>5
  <2> HIDE DEF Rec
  <2>. QED  BY <2>6
<1>3. T = Nat
  <2> HIDE DEF T
  <2>1. T \subseteq Nat  BY DEF T
  <2>. QED  BY <2>1, <1>1, <1>2, NaturalSetInduction
<1>4. \E g : Rec(g, Len(proposed))
  BY <1>3
<1>5. KeptUpTo(proposed, count) = CHOOSE g : Rec(g, Len(proposed))
  BY DEF KeptUpTo
<1> HIDE DEF Rec
<1>6. Rec(KeptUpTo(proposed, count), Len(proposed))
  BY <1>4, <1>5
<1>. QED  BY <1>6 DEF Rec

KeptInv(proposed, count, n) ==
    LET acc == KeptUpTo(proposed, count)[n] IN
    /\ acc.kept \in Seq(Claimable(proposed, count))
    /\ acc.total = Total(Priors(acc.kept)) /\ acc.total \in Int /\ acc.total <= 100

\* One turn of the loop of _hypotheses preserves KeptInv.
LEMMA KeptStep ==
    ASSUME NEW proposed, IsList(proposed), NEW count, NEW n \in 1 .. Len(proposed),
           KeptInv(proposed, count, n - 1)
    PROVE  KeptInv(proposed, count, n)
<1> DEFINE old == KeptUpTo(proposed, count)[n - 1]
           new == KeptUpTo(proposed, count)[n]
           h == proposed[n]
           V == Claimable(proposed, count)
<1>1. Len(proposed) \in Nat /\ DOMAIN proposed = 1 .. Len(proposed)
  BY ListMeans
<1>2. new = Keep(old, h, count)
  <2>1. n \in 0 .. Len(proposed) /\ n # 0
    BY <1>1
  <2>2. \A m \in 0 .. Len(proposed) :
            KeptUpTo(proposed, count)[m] = IF m = 0 THEN [kept |-> <<>>, total |-> 0]
                                           ELSE Keep(KeptUpTo(proposed, count)[m - 1], proposed[m], count)
    BY <1>1, KeptSteps
  <2>. QED  BY <2>1, <2>2
<1>3. /\ old.kept \in Seq(V)
      /\ old.total = Total(Priors(old.kept)) /\ old.total \in Int /\ old.total <= 100
  BY DEF KeptInv
<1>4. h \in ToSet(proposed)
  BY <1>1 DEF ToSet
<1> HIDE DEF old, new, h
<1>5. \/ new = old
      \/ /\ RealFrames(h, count) /\ h.prior \in 0 .. 100 /\ old.total + h.prior <= 100
         /\ new = [kept |-> Append(old.kept, h), total |-> old.total + h.prior]
  BY <1>2 DEF Keep
<1>6. CASE new = old
  BY <1>3, <1>6 DEF KeptInv, new
<1>7. CASE /\ RealFrames(h, count) /\ h.prior \in 0 .. 100 /\ old.total + h.prior <= 100
           /\ new = [kept |-> Append(old.kept, h), total |-> old.total + h.prior]
  <2> DEFINE s == old.kept
  <2>1. h \in V
    BY <1>4, <1>7 DEF Claimable
  <2>2. \A v \in V : v.prior \in Int
    <3>1. \A v \in V : v.prior \in 0 .. 100
      BY Zenon DEF Claimable
    <3>2. \A x \in 0 .. 100 : x \in Int
      OBVIOUS
    <3> HIDE DEF V
    <3>. QED  BY <3>1, <3>2, Zenon
  <2> HIDE DEF V, s
  <2>3. s \in Seq(V)
    BY <1>3 DEF s
  <2>4. Total(Priors(s)) \in Int /\ Total(Priors(Append(s, h))) = Total(Priors(s)) + h.prior
    BY <2>1, <2>2, <2>3, PriorsOfMore
  <2>5. Append(s, h) \in Seq(V)
    BY <2>1, <2>3, AppendProperties
  <2>6. new.kept = Append(s, h) /\ new.total = old.total + h.prior
    BY <1>7 DEF s
  <2>7. new.kept \in Seq(V)
    BY <2>5, <2>6
  <2>8. new.total = Total(Priors(new.kept))
    BY <1>3, <2>4, <2>6 DEF s
  <2>9. new.total \in Int /\ new.total <= 100
    <3> DEFINE k == h.prior
    <3>1. k \in 0 .. 100 /\ old.total + k <= 100 /\ new.total = old.total + k
      BY <1>7, <2>6
    <3> HIDE DEF k
    <3>. QED  BY <1>3, <3>1
  <2>. QED  BY <2>7, <2>8, <2>9 DEF KeptInv, new, V
<1>. QED  BY <1>5, <1>6, <1>7

\* _hypotheses keeps hypotheses that name real frames, whose priors do not pass 100 percent.
LEMMA HypothesesMeans ==
    ASSUME NEW proposed, IsList(proposed), NEW count
    PROVE  /\ Hypotheses(proposed, count) \in Seq(Claimable(proposed, count))
           /\ Total(Priors(Hypotheses(proposed, count))) <= 100
<1> DEFINE T == {n \in Nat : n \in 0 .. Len(proposed) => KeptInv(proposed, count, n)}
<1>0. Len(proposed) \in Nat
  BY ListMeans
<1>1. 0 \in T
  <2>1. KeptUpTo(proposed, count)[0] = [kept |-> <<>>, total |-> 0]
    BY <1>0, KeptSteps
  <2>2. Priors(<<>>) = <<>>
    BY DEF Priors
  <2>3. <<>> \in Seq(Claimable(proposed, count))
    BY EmptySeq
  <2>4. KeptInv(proposed, count, 0)
    BY <2>1, <2>2, <2>3, TotalOfNone DEF KeptInv
  <2>. QED  BY <2>4
<1>2. ASSUME NEW n \in T  PROVE n + 1 \in T
  <2> SUFFICES ASSUME n + 1 \in 0 .. Len(proposed)  PROVE KeptInv(proposed, count, n + 1)
    OBVIOUS
  <2> DEFINE m == n + 1
  <2>1. n \in 0 .. Len(proposed) /\ m \in 1 .. Len(proposed) /\ m - 1 = n
    BY <1>0
  <2>2. KeptInv(proposed, count, m - 1)
    BY <2>1
  <2> HIDE DEF m
  <2>3. KeptInv(proposed, count, m)
    BY <2>1, <2>2, KeptStep
  <2>. QED  BY <2>3 DEF m
<1>3. T = Nat
  <2> HIDE DEF T
  <2>1. T \subseteq Nat  BY DEF T
  <2>. QED  BY <2>1, <1>1, <1>2, NaturalSetInduction
<1>4. KeptInv(proposed, count, Len(proposed))
  BY <1>0, <1>3
<1>. QED  BY <1>4 DEF KeptInv, Hypotheses

-----------------------------------------------------------------------------
\* The merge of a reply.
LEMMA LoweredMeans ==
    ASSUME NEW f, IsFrame(f), NEW k, NEW p
    PROVE  LET g == Lowered(f, k, p) IN
           /\ IsFrame(g) /\ g.path = f.path /\ g.inApp = f.inApp /\ g.confidence <= f.confidence
<1> DEFINE g == Lowered(f, k, p)
           c == IF p.confidence \in 0 .. 100 /\ p.confidence < f.confidence
                THEN p.confidence ELSE f.confidence
           h == [f EXCEPT !.confidence = c]
<1>1. g = f \/ g = h
  BY DEF Lowered
<1>2. f.confidence \in Int
  BY DEF IsFrame
<1>3. c \in Int /\ c <= f.confidence
  <2>1. CASE p.confidence \in 0 .. 100 /\ p.confidence < f.confidence
    <3> DEFINE q == p.confidence
    <3>1. c = q /\ q \in 0 .. 100 /\ q < f.confidence
      BY <2>1
    <3> HIDE DEF q, c
    <3>. QED  BY <1>2, <3>1
  <2>2. CASE ~ (p.confidence \in 0 .. 100 /\ p.confidence < f.confidence)
    <3>1. c = f.confidence
      BY <2>2
    <3> HIDE DEF c
    <3>. QED  BY <1>2, <3>1
  <2>. QED  BY <2>1, <2>2
<1> HIDE DEF c
<1>4. /\ h.raw = f.raw /\ h.path = f.path /\ h.confidence = c /\ h.line = f.line
      /\ h.function = f.function /\ h.inApp = f.inApp /\ h.locals = f.locals /\ h.nulls = f.nulls
  BY DEF IsFrame
<1>5. h \in [raw : {h.raw}, path : {h.path}, confidence : {h.confidence}, line : {h.line},
             function : {h.function}, inApp : {h.inApp}, locals : {h.locals}, nulls : {h.nulls}]
  BY <1>4 DEF IsFrame
<1> HIDE DEF h
<1>6. IsFrame(h)
  BY <1>3, <1>4, <1>5 DEF IsFrame
<1>7. CASE g = f
  BY <1>2, <1>7
<1>8. CASE g = h
  BY <1>3, <1>4, <1>6, <1>8
<1>. QED  BY <1>1, <1>7, <1>8

\* The frames of the application stay the same.
LEMMA SameOwn ==
    ASSUME NEW s, AreFrames(s), NEW t, AreFrames(t), DOMAIN t = DOMAIN s,
           \A i \in DOMAIN s : t[i].inApp = s[i].inApp /\ t[i].path = s[i].path,
           Own(s) # <<>>
    PROVE  Own(t) # <<>> /\ Own(t)[1].path = Own(s)[1].path
<1> DEFINE W == {i \in DOMAIN s : s[i].inApp}
<1>1. DOMAIN s = 1 .. Len(s) /\ Len(s) \in Nat
  BY ListMeans DEF AreFrames
<1>2. W \subseteq 1 .. Len(s) /\ W \subseteq DOMAIN s
  BY <1>1
<1>3. {i \in DOMAIN t : t[i].inApp} = W
  OBVIOUS
<1>4. Own(s) = Picked(s, W) /\ Own(t) = Picked(t, W)
  BY <1>3 DEF Own
<1> HIDE DEF W
<1>5. ArePicked(Picked(s, W), s, W) /\ ArePicked(Picked(t, W), t, W)
  <2>1. ArePicked(Picked(s, W), s, W)
    BY <1>1, <1>2, PickedMeans
  <2>2. ArePicked(Picked(t, W), t, W)
    BY <1>1, <1>2, PickedMeans
  <2>. QED  BY <2>1, <2>2
<1>6. W # {}
  BY <1>4, <1>5 DEF ArePicked
<1>7. Own(t) # <<>>
  BY <1>4, <1>5, <1>6 DEF ArePicked
<1>8. 1 \in 1 .. Cardinality(W) /\ Nth(W, 1) \in W
  <2>1. /\ Cardinality(W) \in 0 .. Len(s)
        /\ \A k \in 1 .. Cardinality(W) : Nth(W, k) \in W
        /\ \A i \in W : \E k \in 1 .. Cardinality(W) : Nth(W, k) = i
    BY <1>1, <1>2, NthMeans
  <2>2. 1 \in 1 .. Cardinality(W)
    BY <1>1, <1>6, <2>1
  <2>. QED  BY <2>1, <2>2
<1>9. Picked(s, W)[1] = s[Nth(W, 1)] /\ Picked(t, W)[1] = t[Nth(W, 1)]
  BY <1>8 DEF Picked
<1>. QED  BY <1>2, <1>4, <1>7, <1>8, <1>9

\* The parts of apply_extraction, one by one.
LEMMA ApplyIs ==
    ASSUME NEW b, IsUnderstanding(b), NEW r
    PROVE  LET x == ApplyExtraction(b, r) IN
           /\ x.frames = [i \in DOMAIN b.frames |-> Lowered(b.frames[i], i - 1, r.frame)]
           /\ x.plan = MergePlan(b.plan, r.plan)
           /\ x.hypotheses = Hypotheses(r.hypotheses, Len(b.frames))
           /\ x.failure = b.failure
           /\ x.symbols = Merge(b.symbols, Present(r.symbols))
<1>. QED  BY DEF ApplyExtraction, IsUnderstanding

\* What the later stages need of what S4 says.
SoundU(un) ==
    /\ AreFrames(un.frames) /\ IsList(un.symbols)
    /\ un.failure # None => Own(un.frames) # <<>> /\ un.failure.path = Own(un.frames)[1].path

NoPoorer(un, base) ==
    /\ Len(un.frames) = Len(base.frames)
    /\ \A i \in DOMAIN un.frames : /\ un.frames[i].path = base.frames[i].path
                                   /\ un.frames[i].confidence <= base.frames[i].confidence
    /\ \A k \in {"mustFetch", "symbols", "queries", "history", "tests"} :
          IsPrefix(Cut(base.plan[k]), un.plan[k])
    /\ base.plan.signal # None => un.plan.signal = base.plan.signal
    /\ \A i \in DOMAIN un.hypotheses : \A f \in un.hypotheses[i].frames : f \in 0 .. Len(un.frames) - 1
    /\ Total([i \in DOMAIN un.hypotheses |-> un.hypotheses[i].prior]) <= 100

\* The deterministic pre-parse is sound, and no poorer than itself.
LEMMA PreparseIsSound ==
    ASSUME NEW e \in EVENTS
    PROVE  SoundU(Preparse(e)) /\ NoPoorer(Preparse(e), Preparse(e))
<1> DEFINE b == Preparse(e)
<1>1. /\ IsUnderstanding(b) /\ AreFrames(b.frames)
      /\ b.failure = FailurePoint(b.frames) /\ IsList(b.symbols) /\ IsPlan(b.plan)
      /\ b.hypotheses = <<>>
  BY PreparseMeans
<1> HIDE DEF b
<1>2. SoundU(b)
  <2>1. b.failure # None => Own(b.frames) # <<>> /\ b.failure.path = Own(b.frames)[1].path
    BY <1>1 DEF FailurePoint
  <2>. QED  BY <1>1, <2>1 DEF SoundU
<1>3. \A i \in DOMAIN b.frames : b.frames[i].confidence <= b.frames[i].confidence
  BY <1>1 DEF AreFrames, IsFrame
<1>4. \A k \in {"mustFetch", "symbols", "queries", "history", "tests"} :
         IsPrefix(Cut(b.plan[k]), b.plan[k])
  <2>1. \A k \in {"mustFetch", "symbols", "queries", "history", "tests"} : IsList(b.plan[k])
    BY <1>1 DEF IsPlan
  <2>. QED  BY <2>1, CutMeans
<1>5. Total([i \in DOMAIN b.hypotheses |-> b.hypotheses[i].prior]) <= 100
  <2> DEFINE g == [i \in DOMAIN b.hypotheses |-> b.hypotheses[i].prior]
  <2>1. g = <<>>
    BY <1>1
  <2> HIDE DEF g
  <2>2. Total(g) = 0
    BY <2>1, TotalOfNone
  <2>. QED  BY <2>2 DEF g
<1>6. DOMAIN b.hypotheses = {}
  BY <1>1
<1>. QED  BY <1>2, <1>3, <1>4, <1>5, <1>6 DEF b, NoPoorer

\* What is kept of a list is a list of its entries.
LEMMA PickedIsList ==
    ASSUME NEW s, IsList(s), NEW W, W \subseteq DOMAIN s
    PROVE  IsList(Picked(s, W)) /\ \A k \in DOMAIN Picked(s, W) : \E i \in W : Picked(s, W)[k] = s[i]
<1>1. DOMAIN s = 1 .. Len(s) /\ Len(s) \in Nat
  BY ListMeans
<1>2. ArePicked(Picked(s, W), s, W)
  BY <1>1, PickedMeans
<1>. QED  BY <1>2 DEF ArePicked

\* Dropping the implausible paths of a reply leaves a list.
LEMMA PlausibleIsList ==
    ASSUME NEW s, IsList(s)
    PROVE  IsList(Plausible(s))
<1> DEFINE W == {i \in DOMAIN s : PlausiblePath(s[i])}
<1>1. W \subseteq DOMAIN s
  OBVIOUS
<1> HIDE DEF W
<1>2. IsList(Picked(s, W))
  BY <1>1, PickedIsList
<1>. QED  BY <1>2 DEF Plausible, W

\* _merge_plan keeps every entry of the base plan it has room for, and its signal.
LEMMA MergedPlan ==
    ASSUME NEW base, IsPlan(base), NEW p,
           p # None => \A k \in {"mustFetch", "symbols", "queries", "history", "tests"} : IsList(p[k])
    PROVE  /\ \A k \in {"mustFetch", "symbols", "queries", "history", "tests"} :
                 IsPrefix(Cut(base[k]), MergePlan(base, p)[k])
           /\ base.signal # None => MergePlan(base, p).signal = base.signal
<1>1. CASE p = None
  <2>1. MergePlan(base, p) = base
    BY <1>1 DEF MergePlan
  <2>2. \A k \in {"mustFetch", "symbols", "queries", "history", "tests"} : IsList(base[k])
    BY DEF IsPlan
  <2>. QED  BY <2>1, <2>2, CutMeans
<1>2. CASE p # None
  <2> DEFINE m1 == Merge(base.mustFetch, Plausible(p.mustFetch))
             m2 == Merge(base.symbols, Present(p.symbols))
             m3 == Merge(base.queries, Present(p.queries))
             m4 == Merge(base.history, Plausible(p.history))
             m5 == Merge(base.tests, Present(p.tests))
             m6 == IF base.signal # None THEN base.signal ELSE p.signal
  <2>1. MergePlan(base, p) = [mustFetch |-> m1, symbols |-> m2, queries |-> m3, history |-> m4,
                              tests |-> m5, signal |-> m6]
    BY <1>2 DEF MergePlan
  <2>2. /\ IsList(Plausible(p.mustFetch)) /\ IsList(Present(p.symbols)) /\ IsList(Present(p.queries))
        /\ IsList(Plausible(p.history)) /\ IsList(Present(p.tests))
    <3>1. /\ IsList(p.mustFetch) /\ IsList(p.symbols) /\ IsList(p.queries) /\ IsList(p.history)
          /\ IsList(p.tests)
      BY <1>2
    <3>2. IsList(Plausible(p.mustFetch)) /\ IsList(Plausible(p.history))
      BY <3>1, PlausibleIsList
    <3>3. IsList(Present(p.symbols)) /\ IsList(Present(p.queries)) /\ IsList(Present(p.tests))
      BY <3>1, PresentMeans
    <3>. QED  BY <3>2, <3>3
  <2>3. /\ IsPrefix(Cut(base.mustFetch), m1) /\ IsPrefix(Cut(base.symbols), m2)
        /\ IsPrefix(Cut(base.queries), m3) /\ IsPrefix(Cut(base.history), m4)
        /\ IsPrefix(Cut(base.tests), m5)
    BY <2>2, MergeMeans DEF IsPlan
  <2> HIDE DEF m1, m2, m3, m4, m5
  <2>. QED  BY <2>1, <2>3
<1>. QED  BY <1>1, <1>2

\* apply_extraction is sound, and no poorer than the pre-parse, for every reply.
LEMMA MergedIsSound ==
    ASSUME NEW e \in EVENTS, NEW r \in REPLIES
    PROVE  LET x == ApplyExtraction(Preparse(e), r) IN SoundU(x) /\ NoPoorer(x, Preparse(e))
<1> DEFINE b == Preparse(e)
           x == ApplyExtraction(b, r)
<1>1. /\ IsUnderstanding(b) /\ AreFrames(b.frames)
      /\ b.failure = FailurePoint(b.frames) /\ IsList(b.symbols) /\ IsPlan(b.plan)
  BY PreparseMeans
<1>2. SoundU(b)
  BY PreparseIsSound
<1> HIDE DEF b
<1>3. /\ x.frames = [i \in DOMAIN b.frames |-> Lowered(b.frames[i], i - 1, r.frame)]
      /\ x.plan = MergePlan(b.plan, r.plan)
      /\ x.hypotheses = Hypotheses(r.hypotheses, Len(b.frames))
      /\ x.failure = b.failure
      /\ x.symbols = Merge(b.symbols, Present(r.symbols))
  BY <1>1, ApplyIs
<1> HIDE DEF x
<1>4. /\ IsList(r.symbols) /\ IsList(r.hypotheses)
      /\ \A h \in ToSet(r.hypotheses) : h.frames \subseteq Nat
      /\ r.plan # None =>
            \A k \in {"mustFetch", "symbols", "queries", "history", "tests"} : IsList(r.plan[k])
  BY ReplyAssumption
<1> DEFINE s == b.frames  t == x.frames
<1>5. DOMAIN t = DOMAIN s /\ t = [i \in DOMAIN t |-> t[i]]
      /\ \A i \in DOMAIN s : t[i] = Lowered(s[i], i - 1, r.frame)
  BY <1>3
<1> HIDE DEF s, t
<1>6. AreFrames(s)
  BY <1>1 DEF s
<1>7. \A i \in DOMAIN s : /\ IsFrame(t[i]) /\ t[i].path = s[i].path /\ t[i].inApp = s[i].inApp
                          /\ t[i].confidence <= s[i].confidence
  <2> TAKE i \in DOMAIN s
  <2>1. IsFrame(s[i])
    BY <1>6 DEF AreFrames
  <2> DEFINE f == s[i]  k == i - 1  p == r.frame
  <2>2. t[i] = Lowered(f, k, p)
    BY <1>5
  <2> HIDE DEF f, k, p
  <2>3. /\ IsFrame(Lowered(f, k, p)) /\ Lowered(f, k, p).path = f.path
        /\ Lowered(f, k, p).inApp = f.inApp /\ Lowered(f, k, p).confidence <= f.confidence
    BY <2>1, LoweredMeans DEF f
  <2>. QED  BY <2>2, <2>3 DEF f
<1>8. AreFrames(t) /\ Len(t) = Len(s) /\ Len(s) \in Nat
  <2>1. IsList(s)
    BY <1>6 DEF AreFrames
  <2>2. IsList(t) /\ Len(t) = Len(s)
    BY <1>5, <2>1, MapIsList
  <2>. QED  BY <1>5, <1>7, <2>1, <2>2, ListMeans DEF AreFrames
<1>9. SoundU(x)
  <2>1. IsList(Present(r.symbols))
    BY <1>4, PresentMeans
  <2>2. IsList(x.symbols)
    BY <1>1, <1>3, <2>1, MergeMeans
  <2>3. Own(s) # <<>> => Own(t) # <<>> /\ Own(t)[1].path = Own(s)[1].path
    BY <1>5, <1>6, <1>7, <1>8, SameOwn
  <2>4. x.failure # None => Own(t) # <<>> /\ x.failure.path = Own(t)[1].path
    BY <1>2, <1>3, <2>3 DEF SoundU, s
  <2>. QED  BY <1>8, <2>2, <2>4 DEF SoundU, t
<1>10. NoPoorer(x, b)
  <2> DEFINE hs == x.hypotheses  n == Len(s)
  <2>1. hs \in Seq(Claimable(r.hypotheses, n)) /\ Total(Priors(hs)) <= 100
    <3> HIDE DEF n
    <3>1. hs = Hypotheses(r.hypotheses, n)
      BY <1>3 DEF n, s
    <3>. QED  BY <1>4, <3>1, HypothesesMeans
  <2>2. \A i \in DOMAIN hs : \A f \in hs[i].frames : f \in 0 .. n - 1
    <3> SUFFICES ASSUME NEW i \in DOMAIN hs, NEW f \in hs[i].frames  PROVE f \in 0 .. n - 1
      OBVIOUS
    <3> DEFINE V == Claimable(r.hypotheses, n)
    <3>1. hs[i] \in V
      <4> HIDE DEF V, hs
      <4>1. hs \in Seq(V)
        BY <2>1 DEF V
      <4>. QED  BY <4>1, SeqIsList
    <3>2. hs[i] \in ToSet(r.hypotheses) /\ RealFrames(hs[i], n)
      BY <3>1 DEF Claimable
    <3>3. f \in Nat
      BY <1>4, <3>2
    <3>4. f < n
      BY <3>2 DEF RealFrames
    <3>. QED  BY <1>8, <3>3, <3>4
  <2>3. \A k \in {"mustFetch", "symbols", "queries", "history", "tests"} :
           IsPrefix(Cut(b.plan[k]), x.plan[k])
    BY <1>1, <1>3, <1>4, MergedPlan
  <2>4. b.plan.signal # None => x.plan.signal = b.plan.signal
    BY <1>1, <1>3, <1>4, MergedPlan
  <2>5. Len(x.frames) = Len(b.frames) /\ n = Len(x.frames)
    BY <1>8 DEF s, t
  <2>6. \A i \in DOMAIN x.frames : /\ x.frames[i].path = b.frames[i].path
                                   /\ x.frames[i].confidence <= b.frames[i].confidence
    BY <1>5, <1>7 DEF s, t
  <2>7. Total([i \in DOMAIN hs |-> hs[i].prior]) <= 100
    BY <2>1 DEF Priors
  <2> HIDE DEF n
  <2>8. \A i \in DOMAIN x.hypotheses : \A f \in x.hypotheses[i].frames : f \in 0 .. Len(x.frames) - 1
    BY <2>2, <2>5
  <2>. QED  BY <2>3, <2>4, <2>5, <2>6, <2>7, <2>8 DEF NoPoorer
<1>. QED  BY <1>9, <1>10 DEF x, b

\* So understand() is, with a reply and without.
LEMMA UnderstoodMeans ==
    ASSUME NEW e \in EVENTS, NEW r \in REPLIES \cup {None}
    PROVE  SoundU(Understood(e, r)) /\ NoPoorer(Understood(e, r), Preparse(e))
<1>1. CASE r = None
  BY <1>1, PreparseIsSound DEF Understood
<1>2. CASE r # None
  <2>1. Understood(e, r) = ApplyExtraction(Preparse(e), r) /\ r \in REPLIES
    BY <1>2 DEF Understood
  <2> DEFINE x == ApplyExtraction(Preparse(e), r)
  <2>2. SoundU(x) /\ NoPoorer(x, Preparse(e))
    BY <2>1, MergedIsSound
  <2> HIDE DEF x
  <2>3. Understood(e, r) = x
    BY <2>1 DEF x
  <2>. QED  BY <2>2, <2>3
<1>. QED  BY <1>1, <1>2

-----------------------------------------------------------------------------
\* What is read of the tree.
LEMMA TreeMeans ==
    /\ IsList(PATHS) /\ TREE \subseteq ToSet(PATHS)
    /\ \A p \in TREE : IsList(p) /\ Readable(AT[p])
    /\ MARGIN \in Nat /\ WHOLE \in Nat
<1>. QED  BY TreeAssumption

\* The sorted paths of a set are a list of its members.
LEMMA SortedMeans ==
    ASSUME NEW S
    PROVE  /\ IsList(Sorted(S)) /\ \A k \in DOMAIN Sorted(S) : Sorted(S)[k] \in S
           /\ \A p \in S \cap TREE : 1 \in DOMAIN Sorted(S)
<1> DEFINE W == {i \in DOMAIN PATHS : PATHS[i] \in S}
<1>1. W \subseteq DOMAIN PATHS /\ \A i \in W : PATHS[i] \in S
  OBVIOUS
<1>2. DOMAIN PATHS = 1 .. Len(PATHS) /\ Len(PATHS) \in Nat
  BY TreeMeans, ListMeans
<1>3. \A p \in S \cap TREE : W # {}
  BY TreeMeans DEF ToSet
<1>4. Sorted(S) = Picked(PATHS, W)
  BY DEF Sorted
<1> HIDE DEF W
<1>5. ArePicked(Picked(PATHS, W), PATHS, W)
  BY <1>1, <1>2, PickedMeans
<1>. QED  BY <1>1, <1>3, <1>4, <1>5 DEF ArePicked

\* With no path to narrow it, the pool is the whole tree.
LEMMA PoolOfAll == Pool(<<>>) = TREE
<1>1. \A p \in TREE : IsPrefix(<<>>, p)
  <2> TAKE p \in TREE
  <2>1. Len(p) \in Nat /\ Len(<<>>) = 0
    BY TreeMeans, ListMeans, EmptyList
  <2>2. SubSeq(<<>>, 1, 0) = <<>> /\ SubSeq(p, 1, 0) = <<>>
    BY SubSeqEmpty
  <2>. QED  BY <2>1, <2>2 DEF IsPrefix
<1>. QED  BY <1>1 DEF Pool

\* A path that is verified is one of the tree, and one of the tree stays what it is.
LEMMA VerifiedMeans ==
    ASSUME NEW raw, IsList(raw), NEW candidate, candidate = None \/ IsList(candidate)
    PROVE  /\ ResolveAgainstTree(raw, candidate, <<>>) \in TREE \cup {None}
           /\ candidate # None /\ candidate \in TREE =>
                 ResolveAgainstTree(raw, candidate, <<>>) = candidate
<1> DEFINE W == {i \in DOMAIN raw : raw[i] \notin {"/", "C:"}}
           basis == IF candidate # None THEN candidate ELSE Picked(raw, W)
           WithTail(n) == {p \in Pool(<<>>) : IsSuffix(SubSeq(basis, Len(basis) - n + 1, Len(basis)), p)}
           lengths == {n \in 2 .. Len(basis) : WithTail(n) # {}}
           longest == CHOOSE n \in lengths : \A k \in lengths : k <= n
           tail == WithTail(longest)
           shallow == {p \in tail : \A q \in tail : Len(p) <= Len(q)}
           named == WithTail(1)
           here == candidate # None /\ candidate \in Pool(<<>>)
           y == Sorted(shallow)[1]
           z == IF basis # <<>> /\ Cardinality(named) = 1 THEN CHOOSE p \in named : TRUE ELSE None
           r == ResolveAgainstTree(raw, candidate, <<>>)
<1>1. r = CASE here -> candidate
            [] ~ here /\ lengths # {} -> y
            [] ~ here /\ lengths = {} -> z
  BY DEF ResolveAgainstTree
<1>2. IsList(basis)
  <2>1. W \subseteq DOMAIN raw
    OBVIOUS
  <2> HIDE DEF W
  <2>2. IsList(Picked(raw, W))
    BY <2>1, PickedIsList
  <2>. QED  BY <2>2
<1> HIDE DEF basis
<1>3. \A n : WithTail(n) \subseteq TREE
  BY PoolOfAll
<1>4. lengths # {} => y \in TREE
  <2> SUFFICES ASSUME lengths # {}  PROVE y \in TREE
    OBVIOUS
  <2>1. longest \in lengths
    <3>1. Len(basis) \in Nat
      BY <1>2, ListMeans
    <3> DEFINE n == Len(basis)
    <3> HIDE DEF n
    <3>2. n \in Nat /\ IsFiniteSet(2 .. n) /\ lengths \in SUBSET (2 .. n)
      <4>1. n \in Nat
        BY <3>1 DEF n
      <4>2. IsFiniteSet(2 .. n)
        BY <4>1, FS_Interval
      <4>. QED  BY <4>1, <4>2 DEF n
    <3> HIDE DEF lengths
    <3>3. IsFiniteSet(lengths) /\ lengths \subseteq Int
      <4>1. IsFiniteSet(lengths)
        BY <3>2, FS_Subset
      <4>. QED  BY <3>2, <4>1
    <3>4. \E k \in lengths : \A j \in lengths : j <= k
      BY <3>3, Extremes
    <3>. QED  BY <3>4
  <2> HIDE DEF longest
  <2>2. tail # {} /\ tail \subseteq TREE
    BY <1>3, <2>1
  <2> HIDE DEF tail
  <2>3. shallow # {}
    <3> DEFINE L == {Len(p) : p \in tail}
    <3>1. \A p \in tail : Len(p) \in Nat
      BY <2>2, TreeMeans, ListMeans
    <3>2. L \subseteq Nat /\ L # {}
      BY <2>2, <3>1
    <3> HIDE DEF L
    <3>3. \E m \in L : \A n \in L : m <= n
      BY <3>2, LeastNatural
    <3>. QED  BY <3>3 DEF L
  <2>4. shallow \subseteq TREE
    BY <2>2
  <2> HIDE DEF shallow
  <2>5. y \in shallow
    BY <2>3, <2>4, SortedMeans
  <2>. QED  BY <2>4, <2>5
<1>5. z \in TREE \cup {None}
  <2> DEFINE N == named
  <2>1. N \subseteq TREE
    BY <1>3
  <2>2. z = IF basis # <<>> /\ Cardinality(N) = 1 THEN CHOOSE p \in N : TRUE ELSE None
    OBVIOUS
  <2> HIDE DEF N, z
  <2>3. Cardinality(N) = 1 => N # {}
    BY FS_EmptySet
  <2>. QED  BY <2>1, <2>2, <2>3
<1>6. here <=> candidate # None /\ candidate \in TREE
  BY PoolOfAll
<1> HIDE DEF lengths, y, z, r, here
<1>7. CASE here
  <2>1. r = candidate
    BY <1>1, <1>7
  <2>. QED  BY <1>6, <1>7, <2>1 DEF r
<1>8. CASE ~ here
  <2>1. CASE lengths # {}
    <3>1. r = y
      BY <1>1, <1>8, <2>1
    <3>. QED  BY <1>4, <1>6, <1>8, <2>1, <3>1 DEF r
  <2>2. CASE lengths = {}
    <3>1. r = z
      BY <1>1, <1>8, <2>2
    <3>. QED  BY <1>5, <1>6, <1>8, <3>1 DEF r
  <2>. QED  BY <2>1, <2>2
<1>. QED  BY <1>7, <1>8

\* What is found in a file is in it.
LEMMA FoundInFile ==
    ASSUME NEW file, Readable(file), NEW name, NEW line
    PROVE  /\ FindFunction(file, name, line) = None
              \/ FindFunction(file, name, line) \in ToSet(file.functions)
           /\ FindClass(file, name) = None \/ FindClass(file, name) \in ToSet(file.classes)
           /\ EnclosingFunction(file, line) = None
              \/ EnclosingFunction(file, line) \in ToSet(file.functions)
<1>1. IsList(file.functions) /\ IsList(file.classes)
  BY DEF Readable
<1>2. ASSUME NEW s, IsList(s), NEW W, W \subseteq DOMAIN s, Picked(s, W) # <<>>
      PROVE  Picked(s, W)[1] \in ToSet(s)
  <2>1. DOMAIN s = 1 .. Len(s) /\ Len(s) \in Nat
    BY <1>2, ListMeans
  <2>2. ArePicked(Picked(s, W), s, W)
    BY <1>2, <2>1, PickedMeans
  <2>3. 1 \in DOMAIN Picked(s, W)
    BY <1>2, <2>2 DEF ArePicked
  <2>. QED  BY <1>2, <2>2, <2>3 DEF ArePicked, ToSet
<1>3. ASSUME NEW s, IsList(s)
      PROVE  /\ IsList(Named(s, name)) /\ ToSet(Named(s, name)) \subseteq ToSet(s)
             /\ Named(s, name) # <<>> => Named(s, name)[1] \in ToSet(s)
  <2> DEFINE W == {i \in DOMAIN s : s[i].name = name}
  <2>1. Named(s, name) = Picked(s, W) /\ W \subseteq DOMAIN s
    BY DEF Named
  <2> HIDE DEF W
  <2>2. IsList(Picked(s, W)) /\ \A k \in DOMAIN Picked(s, W) : \E i \in W : Picked(s, W)[k] = s[i]
    BY <1>3, <2>1, PickedIsList
  <2>3. Picked(s, W) # <<>> => Picked(s, W)[1] \in ToSet(s)
    BY <1>2, <1>3, <2>1
  <2>. QED  BY <2>1, <2>2, <2>3 DEF ToSet
<1>4. FindFunction(file, name, line) = None
      \/ FindFunction(file, name, line) \in ToSet(file.functions)
  <2> DEFINE named == Named(file.functions, name)
             W == {i \in DOMAIN named : line # None /\ Has(named[i], line)}
             around == Picked(named, W)
             r == FindFunction(file, name, line)
  <2>1. /\ IsList(named) /\ ToSet(named) \subseteq ToSet(file.functions)
        /\ named # <<>> => named[1] \in ToSet(file.functions)
    BY <1>1, <1>3
  <2>2. r = CASE around # <<>> -> around[1]
              [] around = <<>> /\ named # <<>> -> named[1]
              [] OTHER -> None
    BY DEF FindFunction
  <2>3. W \subseteq DOMAIN named
    OBVIOUS
  <2> HIDE DEF W, named
  <2>4. around # <<>> => around[1] \in ToSet(named)
    BY <1>2, <2>1, <2>3
  <2> HIDE DEF around, r
  <2>5. CASE around # <<>>
    BY <2>1, <2>2, <2>4, <2>5 DEF r
  <2>6. CASE around = <<>> /\ named # <<>>
    <3>1. r = named[1]
      BY <2>2, <2>6
    <3>. QED  BY <2>1, <2>6, <3>1 DEF r
  <2>7. CASE around = <<>> /\ named = <<>>
    <3>1. r = None
      BY <2>2, <2>7
    <3>. QED  BY <3>1 DEF r
  <2>. QED  BY <2>5, <2>6, <2>7
<1>5. FindClass(file, name) = None \/ FindClass(file, name) \in ToSet(file.classes)
  BY <1>1, <1>3 DEF FindClass
<1>6. EnclosingFunction(file, line) = None
      \/ EnclosingFunction(file, line) \in ToSet(file.functions)
  <2> DEFINE fs == file.functions
             around == {i \in DOMAIN fs : Has(fs[i], line)}
             Size(i) == fs[i].end - fs[i].start
             W == {i \in around : \A j \in around : Size(i) <= Size(j)}
             tight == Picked(fs, W)
  <2>1. EnclosingFunction(file, line) = IF tight = <<>> THEN None ELSE tight[1]
    BY DEF EnclosingFunction
  <2>2. W \subseteq DOMAIN fs
    OBVIOUS
  <2> HIDE DEF W
  <2>3. tight # <<>> => tight[1] \in ToSet(fs)
    BY <1>1, <1>2, <2>2
  <2>. QED  BY <2>1, <2>3
<1>. QED  BY <1>4, <1>5, <1>6

\* A window of a file of the tree has integer bounds, around any lines and around none.
LEMMA WindowMeans ==
    ASSUME NEW p \in TREE, NEW center, center = None \/ (center.lo \in Int /\ center.hi \in Int)
    PROVE  ExtractWindow(AT[p], center).lo \in Int /\ ExtractWindow(AT[p], center).hi \in Int
<1> DEFINE file == AT[p]
           lo == IF center.lo - MARGIN > 1 THEN center.lo - MARGIN ELSE 1
           hi == IF center.hi + MARGIN < file.lines THEN center.hi + MARGIN ELSE file.lines
           all == file.lines <= WHOLE \/ center = None \/ (lo <= 1 /\ hi >= file.lines)
           r == ExtractWindow(file, center)
<1>1. file.lines \in Nat /\ MARGIN \in Nat
  BY TreeMeans DEF Readable
<1>2. r = IF all THEN Whole(file) ELSE [lo |-> lo, hi |-> hi, truncated |-> TRUE]
  BY DEF ExtractWindow
<1>3. CASE all
  <2>1. r = Whole(file)
    BY <1>2, <1>3
  <2>. QED  BY <1>1, <2>1 DEF Whole
<1>4. CASE ~ all
  <2>1. center # None
    BY <1>4
  <2>2. lo \in Int /\ hi \in Int
    BY <1>1, <2>1
  <2>3. r.lo = lo /\ r.hi = hi
    BY <1>2, <1>4
  <2>. QED  BY <2>2, <2>3
<1>. QED  BY <1>3, <1>4

-----------------------------------------------------------------------------
\* Strategy A.
LEMMA FrameWindowMeans ==
    ASSUME NEW p \in TREE, NEW frames, AreFrames(frames)
    PROVE  FrameWindow(p, frames).lo \in Int /\ FrameWindow(p, frames).hi \in Int
<1> DEFINE lined == {f \in ToSet(frames) : f.inApp /\ f.line # None /\ VerifiedPath(f) = p}
           Around(f) == LET g == EnclosingFunction(AT[p], f.line) IN
                        IF ~ AT[p].parses \/ g = None THEN [lo |-> f.line, hi |-> f.line]
                        ELSE [lo |-> g.start, hi |-> g.end]
           los == {Around(f).lo : f \in lined}
           his == {Around(f).hi : f \in lined}
           lo == Lowest(los, 0)
           hi == CHOOSE n \in his : \A k \in his : k <= n
           center == IF lined = {} THEN None ELSE [lo |-> lo, hi |-> hi]
<1>1. FrameWindow(p, frames) = ExtractWindow(AT[p], center)
  BY DEF FrameWindow
<1>2. DOMAIN frames = 1 .. Len(frames) /\ Len(frames) \in Nat
  BY ListMeans DEF AreFrames
<1>3. \A f \in lined : Around(f).lo \in Nat /\ Around(f).hi \in Nat
  <2> TAKE f \in lined
  <2> DEFINE g == EnclosingFunction(AT[p], f.line)
  <2>1. f.line \in Nat
    BY DEF AreFrames, IsFrame, ToSet
  <2>2. Readable(AT[p])
    BY TreeMeans
  <2>3. g = None \/ g \in ToSet(AT[p].functions)
    <3> DEFINE file == AT[p]  n == f.line
    <3> HIDE DEF file, n
    <3>1. EnclosingFunction(file, n) = None \/ EnclosingFunction(file, n) \in ToSet(file.functions)
      BY <2>2, FoundInFile DEF file
    <3>. QED  BY <3>1 DEF file, n
  <2>4. g # None => g.start \in Nat /\ g.end \in Nat
    BY <2>2, <2>3 DEF Readable
  <2> HIDE DEF g
  <2>5. CASE ~ AT[p].parses \/ g = None
    <3>1. Around(f) = [lo |-> f.line, hi |-> f.line]
      BY <2>5 DEF g
    <3>. QED  BY <2>1, <3>1
  <2>6. CASE ~ (~ AT[p].parses \/ g = None)
    <3>1. Around(f) = [lo |-> g.start, hi |-> g.end]
      BY <2>6 DEF g
    <3>. QED  BY <2>4, <2>6, <3>1
  <2>. QED  BY <2>5, <2>6
<1> DEFINE Hi(f) == Around(f).hi
<1> HIDE DEF Around
<1>4. ASSUME lined # {}  PROVE lo \in Int
  <2>1. los \subseteq Nat /\ los # {}
    BY <1>3, <1>4
  <2> HIDE DEF los
  <2>2. \E n \in los : \A k \in los : n <= k
    BY <2>1, LeastNatural
  <2>3. lo = CHOOSE n \in los : \A k \in los : n <= k
    BY <2>1 DEF Lowest
  <2>4. lo \in los
    BY <2>2, <2>3
  <2> HIDE DEF lo
  <2>5. lo \in Nat
    BY <2>1, <2>4
  <2>. QED  BY <2>5
<1>5. ASSUME lined # {}  PROVE hi \in Int
  <2> DEFINE W == {i \in DOMAIN frames : frames[i] \in lined}
             g == [i \in W |-> Hi(frames[i])]
  <2>1. his = {g[i] : i \in W}
    <3>1. \A f \in lined : \E i \in W : f = frames[i]
      BY DEF ToSet
    <3>2. \A i \in W : frames[i] \in lined /\ g[i] = Hi(frames[i])
      OBVIOUS
    <3>3. his = {Hi(f) : f \in lined}
      OBVIOUS
    <3> HIDE DEF W, g, lined, Hi, his
    <3>. QED  BY <3>1, <3>2, <3>3
  <2>2. W \subseteq 1 .. Len(frames)
    BY <1>2
  <2> HIDE DEF W, g
  <2>3. IsFiniteSet({g[i] : i \in W})
    BY <1>2, <2>2, ImageIsFinite
  <2>4. his \subseteq Int /\ his # {} /\ IsFiniteSet(his)
    <3>1. his \subseteq Int /\ his # {}
      BY <1>3, <1>5
    <3> HIDE DEF his
    <3>. QED  BY <2>1, <2>3, <3>1
  <2> HIDE DEF his
  <2>5. \E n \in his : \A k \in his : k <= n
    BY <2>4, Extremes
  <2>. QED  BY <2>4, <2>5
<1> HIDE DEF lo, hi, lined
<1>6. center = None \/ (center.lo \in Int /\ center.hi \in Int)
  <2>1. CASE lined = {}
    BY <2>1
  <2>2. CASE lined # {}
    <3>1. center = [lo |-> lo, hi |-> hi]
      BY <2>2
    <3>. QED  BY <1>4, <1>5, <2>2, <3>1
  <2>. QED  BY <2>1, <2>2
<1> HIDE DEF center
<1>7. ExtractWindow(AT[p], center).lo \in Int /\ ExtractWindow(AT[p], center).hi \in Int
  BY <1>6, WindowMeans
<1>. QED  BY <1>1, <1>7

\* Each file of the frames is there, in a window of its own.
LEMMA FrameFilesMean ==
    ASSUME NEW frames, AreFrames(frames)
    PROVE  LET fs == FrameFiles(frames) IN
           /\ IsList(fs)
           /\ \A i \in DOMAIN fs : SoundItem(fs[i]) /\ fs[i].strategy = "frame_direct"
           /\ \A k \in DOMAIN Own(frames) :
                 Own(frames)[k].path # None /\ Own(frames)[k].path \in TREE =>
                    \E i \in DOMAIN fs : fs[i].path = Own(frames)[k].path
<1> DEFINE own == Own(frames)
           found == [i \in DOMAIN own |-> VerifiedPath(own[i])]
           paths == Distinct(Present(found))
           F(i) == LET w == FrameWindow(paths[i], frames) IN
                   Item(paths[i], "frame_direct", w, DefinedWithin(AT[paths[i]], w))
           fs == FrameFiles(frames)
<1>1. fs = [i \in DOMAIN paths |-> F(i)]
  BY DEF FrameFiles
<1>2. AreFrames(own)
  BY OwnMeans
<1> HIDE DEF own
<1>3. DOMAIN found = DOMAIN own /\ found = [i \in DOMAIN found |-> found[i]]
      /\ \A i \in DOMAIN own : found[i] = VerifiedPath(own[i])
  OBVIOUS
<1>4. IsList(found)
  <2> HIDE DEF found
  <2>. QED  BY <1>2, <1>3, MapIsList DEF AreFrames
<1>5. \A i \in DOMAIN own : /\ found[i] \in TREE \cup {None}
                            /\ own[i].path # None /\ own[i].path \in TREE => found[i] = own[i].path
  <2> TAKE i \in DOMAIN own
  <2> DEFINE raw == own[i].raw  c == own[i].path
  <2>1. IsList(raw) /\ (c = None \/ IsList(c))
    BY <1>2 DEF AreFrames, IsFrame
  <2>2. found[i] = ResolveAgainstTree(raw, c, <<>>)
    BY <1>3 DEF VerifiedPath
  <2> HIDE DEF raw, c, found
  <2>3. /\ ResolveAgainstTree(raw, c, <<>>) \in TREE \cup {None}
        /\ c # None /\ c \in TREE => ResolveAgainstTree(raw, c, <<>>) = c
    BY <2>1, VerifiedMeans
  <2>. QED  BY <2>2, <2>3 DEF c
<1> HIDE DEF found
<1>6. /\ IsList(Present(found))
      /\ \A k \in DOMAIN Present(found) : \E i \in DOMAIN found : Present(found)[k] = found[i] /\ found[i] # None
      /\ \A i \in DOMAIN found : found[i] # None => \E k \in DOMAIN Present(found) : Present(found)[k] = found[i]
  BY <1>4, PresentMeans
<1> DEFINE there == Present(found)
<1> HIDE DEF there
<1>7. /\ IsList(there)
      /\ \A k \in DOMAIN there : \E i \in DOMAIN found : there[k] = found[i] /\ found[i] # None
      /\ \A i \in DOMAIN found : found[i] # None => \E k \in DOMAIN there : there[k] = found[i]
  BY <1>6 DEF there
<1>8. /\ IsList(Distinct(there))
      /\ \A k \in DOMAIN Distinct(there) : \E i \in DOMAIN there : Distinct(there)[k] = there[i]
      /\ \A i \in DOMAIN there : \E k \in DOMAIN Distinct(there) : Distinct(there)[k] = there[i]
  BY <1>7, DistinctMeans
<1>9. paths = Distinct(there)
  BY DEF there
<1> HIDE DEF paths, fs
<1>10. IsList(paths)
  BY <1>8, <1>9
<1>11. \A k \in DOMAIN paths : paths[k] \in TREE
  <2> TAKE k \in DOMAIN paths
  <2>1. PICK i \in DOMAIN there : paths[k] = there[i]
    BY <1>8, <1>9
  <2>2. PICK j \in DOMAIN found : there[i] = found[j] /\ found[j] # None
    BY <1>7
  <2>. QED  BY <1>3, <1>5, <2>1, <2>2
<1>12. \A j \in DOMAIN own : own[j].path # None /\ own[j].path \in TREE =>
          \E k \in DOMAIN paths : paths[k] = own[j].path
  <2> SUFFICES ASSUME NEW j \in DOMAIN own, own[j].path # None, own[j].path \in TREE
               PROVE  \E k \in DOMAIN paths : paths[k] = own[j].path
    OBVIOUS
  <2>1. found[j] = own[j].path /\ found[j] # None /\ j \in DOMAIN found
    BY <1>3, <1>5
  <2>2. PICK i \in DOMAIN there : there[i] = found[j]
    BY <1>7, <2>1
  <2>3. PICK k \in DOMAIN paths : paths[k] = there[i]
    BY <1>8, <1>9
  <2>. QED  BY <2>1, <2>2, <2>3
<1>13. \A i \in DOMAIN paths : F(i).path = paths[i] /\ SoundItem(F(i)) /\ F(i).strategy = "frame_direct"
  <2> TAKE i \in DOMAIN paths
  <2> DEFINE p == paths[i]  w == FrameWindow(p, frames)  d == DefinedWithin(AT[p], w)
  <2>1. p \in TREE
    BY <1>11
  <2>2. F(i) = [path |-> p, strategy |-> "frame_direct", window |-> w, symbols |-> d]
    BY DEF Item
  <2> HIDE DEF p
  <2>3. w.lo \in Int /\ w.hi \in Int
    BY <2>1, FrameWindowMeans
  <2> HIDE DEF w, d, F
  <2>4. F(i).path = p /\ F(i).strategy = "frame_direct" /\ F(i).window = w
    BY <2>2
  <2>5. SoundItem(F(i))
    BY <2>1, <2>3, <2>4 DEF SoundItem
  <2>. QED  BY <2>4, <2>5 DEF p
<1> HIDE DEF F
<1>14. DOMAIN fs = DOMAIN paths /\ fs = [i \in DOMAIN fs |-> fs[i]] /\ \A i \in DOMAIN paths : fs[i] = F(i)
  BY <1>1
<1>15. IsList(fs)
  BY <1>10, <1>14, MapIsList
<1>16. \A i \in DOMAIN fs : SoundItem(fs[i]) /\ fs[i].strategy = "frame_direct"
  BY <1>13, <1>14
<1>17. \A k \in DOMAIN own : own[k].path # None /\ own[k].path \in TREE =>
          \E i \in DOMAIN fs : fs[i].path = own[k].path
  BY <1>12, <1>13, <1>14
<1>. QED  BY <1>15, <1>16, <1>17 DEF fs, own

-----------------------------------------------------------------------------
\* Strategy B.
LEMMA FailurePathMeans ==
    ASSUME NEW un, SoundU(un)
    PROVE  FailurePath(un) \in TREE \cup {None}
<1>1. CASE un.failure = None
  BY <1>1 DEF FailurePath
<1>2. CASE un.failure # None
  <2> DEFINE own == Own(un.frames)  raw == own[1].raw  c == un.failure.path
  <2>1. own # <<>> /\ c = own[1].path /\ AreFrames(un.frames)
    BY <1>2 DEF SoundU
  <2>2. AreFrames(own) /\ 1 \in DOMAIN own
    BY <2>1, OwnMeans
  <2>3. IsList(raw) /\ (c = None \/ IsList(c))
    BY <2>1, <2>2 DEF AreFrames, IsFrame
  <2>4. FailurePath(un) = ResolveAgainstTree(raw, c, <<>>)
    BY <1>2 DEF FailurePath
  <2> HIDE DEF raw, c
  <2>5. ResolveAgainstTree(raw, c, <<>>) \in TREE \cup {None}
    BY <2>3, VerifiedMeans
  <2>. QED  BY <2>4, <2>5
<1>. QED  BY <1>1, <1>2

\* What a function calls and what its signature names are one list.
LEMMA ReferencesAreAList ==
    ASSUME NEW f, IsList(f.calls), IsList(f.types)
    PROVE  IsList(References(f))
<1>1. ASSUME NEW s, IsList(s), NEW g, DOMAIN g = DOMAIN s, g = [i \in DOMAIN g |-> g[i]]
      PROVE  IsList(g)
  BY <1>1, MapIsList
<1>2. IsList(Calls(f))
  <2> DEFINE W == {i \in DOMAIN f.calls : f.calls[i].name \notin NOISE}
  <2>1. W \subseteq DOMAIN f.calls
    OBVIOUS
  <2>2. Calls(f) = Picked(f.calls, W)
    BY DEF Calls
  <2> HIDE DEF W
  <2>. QED  BY <2>1, <2>2, PickedIsList
<1>3. IsList(Callees(f))
  <2> DEFINE calls == Calls(f)  g == [i \in DOMAIN calls |-> calls[i].name]
  <2>1. Callees(f) = Distinct(g)
    BY DEF Callees
  <2>2. DOMAIN g = DOMAIN calls /\ g = [i \in DOMAIN g |-> g[i]]
    OBVIOUS
  <2> HIDE DEF g, calls
  <2>3. IsList(g)
    BY <1>1, <1>2, <2>2 DEF calls
  <2>. QED  BY <2>1, <2>3, DistinctMeans
<1>4. IsList(TypeNames(f))
  <2> DEFINE calls == Calls(f)
             W == {i \in DOMAIN calls : calls[i].upper}
             upper == Picked(calls, W)
             g == [i \in DOMAIN upper |-> upper[i].name]
  <2>1. TypeNames(f) = Distinct(f.types \o g)
    BY DEF TypeNames
  <2>2. W \subseteq DOMAIN calls
    OBVIOUS
  <2> HIDE DEF W
  <2>3. IsList(upper)
    BY <1>2, <2>2, PickedIsList
  <2> HIDE DEF upper
  <2>4. DOMAIN g = DOMAIN upper /\ g = [i \in DOMAIN g |-> g[i]]
    OBVIOUS
  <2> HIDE DEF g
  <2>5. IsList(g)
    BY <1>1, <2>3, <2>4
  <2>6. IsList(f.types \o g)
    BY <2>5, ConcatList
  <2>. QED  BY <2>1, <2>6, DistinctMeans
<1> DEFINE callees == Callees(f)  types == TypeNames(f)
           a == [i \in DOMAIN callees |-> [name |-> callees[i], kind |-> "function"]]
           b == [i \in DOMAIN types |-> [name |-> types[i], kind |-> "class"]]
<1>5. References(f) = a \o b
  BY DEF References
<1>6. DOMAIN a = DOMAIN callees /\ a = [i \in DOMAIN a |-> a[i]]
      /\ DOMAIN b = DOMAIN types /\ b = [i \in DOMAIN b |-> b[i]]
  OBVIOUS
<1> HIDE DEF a, b
<1>7. IsList(a)
  BY <1>1, <1>3, <1>6
<1>8. IsList(b)
  BY <1>1, <1>4, <1>6
<1>. QED  BY <1>5, <1>7, <1>8, ConcatList

\* What is fetched is in the tree.
LEMMA FetchedIsThere == \A p : FetchFile(p) # None => p \in TREE
<1>. QED  BY DEF FetchFile

\* A reference resolves to a definition in a file of the tree, or to nothing.
LEMMA TargetMeans ==
    \A path, reference : LET t == Target(path, reference) IN t = None \/ t[1] \in TREE
<1> TAKE path, reference
<1> DEFINE target == ResolveDefinition(path, reference.name, reference.kind)
<1>1. Target(path, reference) = IF target = None \/ FetchFile(target[1]) = None THEN None ELSE target
  BY DEF Target
<1> HIDE DEF target
<1>. QED  BY <1>1, FetchedIsThere

Related(x) == SoundItem(x) /\ x.strategy = "call_graph"

\* The window of a definition is evidence of the call graph.
LEMMA DefinitionItemMeans ==
    ASSUME NEW target, target[1] \in TREE
    PROVE  Related(DefinitionItem(target))
<1> DEFINE p == target[1]
           name == target[2]
           f == FindFunction(AT[p], name, None)
           c == FindClass(AT[p], name)
           a == AT[p].parses
           center == CASE ~ a -> None
                       [] a /\ f # None -> [lo |-> f.start, hi |-> f.end]
                       [] a /\ f = None /\ c # None -> [lo |-> c.start, hi |-> c.end]
                       [] OTHER -> None
           w == DefinitionWindow(p, name)
           d == DefinedWithin(AT[p], w)
<1>1. w = ExtractWindow(AT[p], center)
  BY DEF DefinitionWindow
<1>2. p \in TREE
  OBVIOUS
<1>3. Readable(AT[p])
  BY TreeMeans
<1>4. (f = None \/ f \in ToSet(AT[p].functions)) /\ (c = None \/ c \in ToSet(AT[p].classes))
  <2> DEFINE file == AT[p]
  <2> HIDE DEF file, name
  <2>1. /\ FindFunction(file, name, None) = None
           \/ FindFunction(file, name, None) \in ToSet(file.functions)
        /\ FindClass(file, name) = None \/ FindClass(file, name) \in ToSet(file.classes)
    BY <1>3, FoundInFile DEF file
  <2>. QED  BY <2>1 DEF file, name
<1>5. (f # None => f.start \in Nat /\ f.end \in Nat) /\ (c # None => c.start \in Nat /\ c.end \in Nat)
  BY <1>3, <1>4 DEF Readable
<1>6. center = None \/ (center.lo \in Int /\ center.hi \in Int)
  <2> HIDE DEF f, c, a
  <2>1. CASE ~ a
    <3>1. center = None
      BY <2>1
    <3>. QED  BY <3>1
  <2>2. CASE a /\ f # None
    <3>1. center = [lo |-> f.start, hi |-> f.end]
      BY <2>2
    <3> HIDE DEF center
    <3>. QED  BY <1>5, <2>2, <3>1
  <2>3. CASE a /\ f = None /\ c # None
    <3>1. center = [lo |-> c.start, hi |-> c.end]
      BY <2>3
    <3> HIDE DEF center
    <3>. QED  BY <1>5, <2>3, <3>1
  <2>4. CASE a /\ f = None /\ c = None
    <3>1. center = None
      BY <2>4
    <3>. QED  BY <3>1
  <2>. QED  BY <2>1, <2>2, <2>3, <2>4
<1> HIDE DEF center, w, d
<1>7. DefinitionItem(target) = [path |-> p, strategy |-> "call_graph", window |-> w, symbols |-> d]
  BY DEF DefinitionItem, Item, w, d
<1> HIDE DEF p, name
<1>8. w.lo \in Int /\ w.hi \in Int
  BY <1>1, <1>2, <1>6, WindowMeans
<1> DEFINE x == DefinitionItem(target)
<1>9. x.path = p /\ x.strategy = "call_graph" /\ x.window = w
  BY <1>7
<1> HIDE DEF x
<1>10. Related(x)
  BY <1>2, <1>8, <1>9 DEF Related, SoundItem
<1>. QED  BY <1>10 DEF x

AreRelated(fs) == IsList(fs) /\ \A i \in DOMAIN fs : Related(fs[i])

\* The files found for the references of the failing function are of the tree, and the edges
\* start at it.
LEMMA ReferencesExpanded ==
    ASSUME NEW path, NEW references, IsList(references), NEW origin
    PROVE  LET x == ExpandReferences(path, references, origin) IN
           AreRelated(x.files) /\ \A e \in x.edges : e.source = origin
<1> DEFINE targets == [i \in DOMAIN references |-> Target(path, references[i])]
           hits == {i \in DOMAIN references : targets[i] # None}
           first == {i \in hits : \A j \in hits : j < i => targets[j][1] # targets[i][1]}
           g == [i \in DOMAIN references |-> IF i \in first THEN DefinitionItem(targets[i]) ELSE None]
           E == {[source |-> origin, target |-> targets[i],
                  kind |-> IF references[i].kind = "class" THEN "references" ELSE "calls"] : i \in hits}
           x == ExpandReferences(path, references, origin)
<1>1. x.files = Picked(g, first) /\ x.edges = E
  BY DEF ExpandReferences, Expanded
<1>2. \A e \in E : e.source = origin
  <2> DEFINE Kind(i) == IF references[i].kind = "class" THEN "references" ELSE "calls"
  <2>1. \A e \in E : \E i \in hits : e = [source |-> origin, target |-> targets[i], kind |-> Kind(i)]
    BY Zenon
  <2> HIDE DEF E, Kind, hits, targets
  <2>. QED  BY <2>1
<1> HIDE DEF E
<1>3. \A i \in hits : targets[i] # None /\ targets[i][1] \in TREE
  BY TargetMeans
<1> HIDE DEF targets
<1>4. first \subseteq DOMAIN references /\ first \subseteq hits
  OBVIOUS
<1> HIDE DEF hits, first
<1>5. \A i \in first : Related(g[i])
  <2> TAKE i \in first
  <2> DEFINE t == targets[i]
  <2>1. t[1] \in TREE /\ g[i] = DefinitionItem(t)
    BY <1>3, <1>4
  <2> HIDE DEF t, g
  <2>2. Related(DefinitionItem(t))
    BY <2>1, DefinitionItemMeans
  <2>. QED  BY <2>1, <2>2
<1>6. DOMAIN g = DOMAIN references /\ g = [i \in DOMAIN g |-> g[i]]
  OBVIOUS
<1> HIDE DEF g
<1>7. IsList(g)
  BY <1>6, MapIsList
<1>8. IsList(Picked(g, first)) /\ \A k \in DOMAIN Picked(g, first) : \E i \in first : Picked(g, first)[k] = g[i]
  BY <1>4, <1>6, <1>7, PickedIsList
<1> HIDE DEF x
<1>. QED  BY <1>1, <1>2, <1>5, <1>8 DEF x, AreRelated

\* A confirmed caller really calls.
LEMMA ConfirmedMeans ==
    ASSUME NEW file, Readable(file), NEW name
    PROVE  LET c == ConfirmedCaller(file, name) IN
           c = None \/ (c \in ToSet(file.functions) /\ Contains(Callees(c), name))
<1> DEFINE fs == file.functions
           W == {i \in DOMAIN fs : Contains(Callees(fs[i]), name)}
           callers == Picked(fs, W)
<1>1. ConfirmedCaller(file, name) = IF ~ file.parses \/ callers = <<>> THEN None ELSE callers[1]
  BY DEF ConfirmedCaller
<1>2. IsList(fs)
  BY DEF Readable
<1>3. DOMAIN fs = 1 .. Len(fs) /\ Len(fs) \in Nat
  BY <1>2, ListMeans
<1>4. W \subseteq 1 .. Len(fs) /\ \A i \in W : i \in DOMAIN fs /\ Contains(Callees(fs[i]), name)
  BY <1>3
<1> HIDE DEF W
<1>5. ArePicked(callers, fs, W)
  BY <1>3, <1>4, PickedMeans
<1> HIDE DEF callers
<1>6. callers # <<>> => \E i \in W : callers[1] = fs[i]
  BY <1>5 DEF ArePicked
<1>7. callers # <<>> => callers[1] \in ToSet(fs) /\ Contains(Callees(callers[1]), name)
  BY <1>4, <1>6 DEF ToSet
<1>. QED  BY <1>1, <1>7

\* An edge of the graph starts at the failing function, or at one that really calls it.
RealEdge(e, path, name) ==
    \/ e.source[1] = path
    \/ \E f \in ToSet(AT[e.source[1]].functions) :
          f.qualname = e.source[2] /\ Contains(Callees(f), name)

\* _expand_callers adds files of the tree and edges from functions that do call the failing
\* one, in the release that failed.
LEMMA CallersExpanded ==
    ASSUME NEW known, NEW path, NEW name, AreRelated(known.files),
           \A e \in known.edges : RealEdge(e, path, name)
    PROVE  LET x == ExpandCallers(known, path, name) IN
           AreRelated(x.files) /\ \A e \in x.edges : RealEdge(e, path, name)
<1> DEFINE others == Sorted(SearchSymbol(name)["reference"] \ {path})
           n == IF Len(others) < MAXCALLERS THEN Len(others) ELSE MAXCALLERS
           candidates == SubSeq(others, 1, n)
           Caller(p) == ConfirmedCaller(AT[p], name)
           W == {i \in DOMAIN candidates : FetchFile(candidates[i]) # None /\ Caller(candidates[i]) # None}
           called == Picked(candidates, W)
           g == [i \in DOMAIN called |-> CallerItem(called[i], Caller(called[i]))]
           E == {[source |-> <<called[i], Caller(called[i]).qualname>>,
                  target |-> <<path, name>>, kind |-> "calls"] : i \in DOMAIN called}
           x == ExpandCallers(known, path, name)
<1>1. x.files = known.files \o g /\ x.edges = known.edges \cup E
  BY DEF ExpandCallers
<1>2. IsList(candidates)
  <2>1. IsList(others)
    <3> DEFINE S == SearchSymbol(name)["reference"] \ {path}
    <3> HIDE DEF S
    <3>1. IsList(Sorted(S))
      BY SortedMeans
    <3>. QED  BY <3>1 DEF S
  <2> HIDE DEF others
  <2>2. n \in 0 .. Len(others) /\ 1 \in Nat \ {0}
    BY <2>1, ListMeans, HistoryAssumption
  <2> HIDE DEF n
  <2>. QED  BY <2>1, <2>2, SubList
<1> HIDE DEF candidates
<1>3. W \subseteq DOMAIN candidates
  OBVIOUS
<1>4. \A i \in W : candidates[i] \in TREE /\ Caller(candidates[i]) # None
  BY FetchedIsThere
<1> HIDE DEF W
<1>5. IsList(called) /\ \A k \in DOMAIN called : \E i \in W : called[k] = candidates[i]
  BY <1>2, <1>3, PickedIsList
<1> HIDE DEF called
<1>6. \A k \in DOMAIN called :
         /\ called[k] \in TREE
         /\ Caller(called[k]) \in ToSet(AT[called[k]].functions)
         /\ Contains(Callees(Caller(called[k])), name)
  <2> TAKE k \in DOMAIN called
  <2> DEFINE p == called[k]
  <2>1. p \in TREE /\ Caller(p) # None
    BY <1>4, <1>5
  <2> HIDE DEF p
  <2>2. Readable(AT[p])
    BY <2>1, TreeMeans
  <2> DEFINE file == AT[p]
  <2> HIDE DEF file
  <2>3. \/ ConfirmedCaller(file, name) = None
        \/ /\ ConfirmedCaller(file, name) \in ToSet(file.functions)
           /\ Contains(Callees(ConfirmedCaller(file, name)), name)
    BY <2>2, ConfirmedMeans DEF file
  <2>. QED  BY <2>1, <2>3 DEF file, p
<1>7. \A k \in DOMAIN called : Related(g[k])
  <2> TAKE k \in DOMAIN called
  <2> DEFINE p == called[k]  f == Caller(p)
             center == [lo |-> f.start, hi |-> f.end]
             w == ExtractWindow(AT[p], center)
             d == {[class |-> f.class, name |-> f.name]}
  <2>1. p \in TREE /\ f \in ToSet(AT[p].functions)
    BY <1>6
  <2>2. g[k] = [path |-> p, strategy |-> "call_graph", window |-> w, symbols |-> d]
    BY DEF CallerItem, Item
  <2> HIDE DEF p, f, g
  <2>3. f.start \in Nat /\ f.end \in Nat
    BY <2>1, TreeMeans DEF Readable
  <2>4. center.lo \in Int /\ center.hi \in Int
    BY <2>3
  <2> HIDE DEF center
  <2>5. w.lo \in Int /\ w.hi \in Int
    BY <2>1, <2>4, WindowMeans
  <2> HIDE DEF w, d
  <2>6. g[k].path = p /\ g[k].strategy = "call_graph" /\ g[k].window = w
    BY <2>2
  <2>. QED  BY <2>1, <2>5, <2>6 DEF Related, SoundItem
<1>8. DOMAIN g = DOMAIN called /\ g = [i \in DOMAIN g |-> g[i]]
  OBVIOUS
<1> HIDE DEF g
<1>9. IsList(g)
  BY <1>5, <1>8, MapIsList
<1> DEFINE h == known.files
<1>10. AreRelated(h)
  OBVIOUS
<1> HIDE DEF h
<1>11. /\ IsList(h \o g)
       /\ \A i \in DOMAIN (h \o g) :
            \/ i \in DOMAIN h /\ (h \o g)[i] = h[i]
            \/ i > Len(h) /\ i - Len(h) \in DOMAIN g /\ (h \o g)[i] = g[i - Len(h)]
  BY <1>9, <1>10, ConcatList DEF AreRelated
<1>12. AreRelated(h \o g)
  <2> DEFINE both == h \o g
  <2>1. IsList(both) /\ \A i \in DOMAIN both :
            \/ i \in DOMAIN h /\ both[i] = h[i]
            \/ i - Len(h) \in DOMAIN g /\ both[i] = g[i - Len(h)]
    BY <1>11
  <2> HIDE DEF both
  <2>2. \A i \in DOMAIN both : Related(both[i])
    BY <1>7, <1>8, <1>10, <2>1 DEF AreRelated
  <2>. QED  BY <2>1, <2>2 DEF both, AreRelated
<1>13. \A e \in E : RealEdge(e, path, name)
  <2> SUFFICES ASSUME NEW k \in DOMAIN called
               PROVE  RealEdge([source |-> <<called[k], Caller(called[k]).qualname>>,
                                target |-> <<path, name>>, kind |-> "calls"], path, name)
    OBVIOUS
  <2> DEFINE p == called[k]  f == Caller(p)
             e == [source |-> <<p, f.qualname>>, target |-> <<path, name>>, kind |-> "calls"]
  <2>1. f \in ToSet(AT[p].functions) /\ Contains(Callees(f), name)
    BY <1>6
  <2> HIDE DEF p, f
  <2>2. e.source[1] = p /\ e.source[2] = f.qualname
    OBVIOUS
  <2> HIDE DEF e
  <2>3. RealEdge(e, path, name)
    BY <2>1, <2>2 DEF RealEdge
  <2>. QED  BY <2>3 DEF e, f, p
<1> HIDE DEF E, x
<1>. QED  BY <1>1, <1>12, <1>13 DEF x, h

SoundGraph(g, un) ==
    /\ AreRelated(g.files)
    /\ \A e \in g.edges : RealEdge(e, FailurePath(un), un.failure.function)

\* So the call graph is sound for every understanding that is.
LEMMA CallGraphMeans ==
    ASSUME NEW un, SoundU(un)
    PROVE  SoundGraph(CallGraphOf(un), un)
<1> DEFINE path == FailurePath(un)
           name == un.failure.function
           origin == <<path, name>>
           f == FindFunction(AT[path], name, un.failure.line)
           a == un.failure = None \/ un.failure.path = None \/ name = None
           b == path = None
           c == path # None /\ (~ AT[path].parses \/ f = None)
           g2 == [NoGraph EXCEPT !.nodes = {origin}]
           g3 == ExpandCallers(ExpandReferences(path, References(f), origin), path, name)
           later == CASE b -> NoGraph [] c -> g2 [] OTHER -> g3
           g == CallGraphOf(un)
<1>1. g = CASE a -> NoGraph [] ~ a -> later
  BY DEF CallGraphOf
<1>2. NoGraph.files = <<>> /\ NoGraph.edges = {} /\ g2.files = <<>> /\ g2.edges = {}
  BY DEF NoGraph
<1>3. AreRelated(<<>>)
  BY EmptyList DEF AreRelated
<1>4. SoundGraph(NoGraph, un) /\ SoundGraph(g2, un)
  <2> HIDE DEF g2
  <2>. QED  BY <1>2, <1>3 DEF SoundGraph
<1>5. path \in TREE \cup {None}
  BY FailurePathMeans
<1>6. ASSUME ~ b, ~ c  PROVE SoundGraph(g3, un)
  <2>1. path \in TREE /\ f # None
    BY <1>5, <1>6
  <2>2. f \in ToSet(AT[path].functions)
    <3>1. Readable(AT[path])
      BY <2>1, TreeMeans
    <3> DEFINE file == AT[path]  line == un.failure.line
    <3> HIDE DEF file, line, name
    <3>2. FindFunction(file, name, line) = None \/ FindFunction(file, name, line) \in ToSet(file.functions)
      BY <3>1, FoundInFile DEF file
    <3>. QED  BY <2>1, <3>2 DEF file, line, name
  <2>3. IsList(f.calls) /\ IsList(f.types)
    BY <2>1, <2>2, TreeMeans DEF Readable
  <2> HIDE DEF f, path, name, origin
  <2> DEFINE refs == References(f)
  <2>4. IsList(refs)
    BY <2>3, ReferencesAreAList
  <2> HIDE DEF refs
  <2> DEFINE known == ExpandReferences(path, refs, origin)
  <2>5. AreRelated(known.files) /\ \A e \in known.edges : e.source = origin
    BY <2>4, ReferencesExpanded
  <2> HIDE DEF known
  <2>6. origin[1] = path
    BY DEF origin
  <2>7. \A e \in known.edges : RealEdge(e, path, name)
    BY <2>5, <2>6 DEF RealEdge
  <2> DEFINE x == ExpandCallers(known, path, name)
  <2>8. AreRelated(x.files) /\ \A e \in x.edges : RealEdge(e, path, name)
    BY <2>5, <2>7, CallersExpanded
  <2>9. g3 = x
    BY DEF known, refs
  <2> HIDE DEF x, g3
  <2>. QED  BY <2>8, <2>9 DEF SoundGraph, path, name
<1> HIDE DEF a, c, g2, g3, g, path
<1>7. SoundGraph(later, un)
  <2>1. CASE b
    <3>1. later = NoGraph
      BY <2>1 DEF c
    <3>. QED  BY <1>4, <3>1
  <2>2. CASE c
    <3>1. later = g2
      BY <2>2 DEF c
    <3>. QED  BY <1>4, <3>1
  <2>3. CASE ~ b /\ ~ c
    <3>1. later = g3
      BY <2>3
    <3>. QED  BY <1>6, <2>3, <3>1
  <2>. QED  BY <2>1, <2>2, <2>3
<1> HIDE DEF later
<1>8. g = NoGraph \/ g = later
  BY <1>1
<1>. QED  BY <1>4, <1>7, <1>8 DEF g

-----------------------------------------------------------------------------
\* Strategies D and E.
LEMMA HistoryMeans ==
    ASSUME NEW un, NEW must
    PROVE  SoundHistory(HistoryOf(un, must))
<1> DEFINE W == {k \in DOMAIN COMMITS : \E i \in DOMAIN must : must[i] \in COMMITS[k].files}
           recent == Picked(COMMITS, W)
           n == IF Len(recent) < MAXCOMMITS THEN Len(recent) ELSE MAXCOMMITS
           h == HistoryOf(un, must)
           C == ToSet(COMMITS)
<1>1. h.blame = BlameOf(un) /\ h.recent = SubSeq(recent, 1, n) /\ h.diff = DIFF
  BY DEF HistoryOf
<1>2. BlameOf(un) = None \/ BlameOf(un).age \in Nat
  BY HistoryAssumption DEF BlameOf
<1>3. W \subseteq DOMAIN COMMITS
  OBVIOUS
<1> HIDE DEF W
<1>4. recent \in Seq(C)
  <2>1. DOMAIN COMMITS = 1 .. Len(COMMITS) /\ Len(COMMITS) \in Nat
    BY HistoryAssumption, ListMeans
  <2>2. \A i \in W : COMMITS[i] \in C
    BY <1>3 DEF ToSet
  <2> HIDE DEF C
  <2>. QED  BY <1>3, <2>1, <2>2, PickedIsSeq
<1> HIDE DEF recent, C, h
<1>5. n \in Int /\ n <= Len(recent) /\ Len(recent) \in Nat
  BY <1>4, HistoryAssumption, LenProperties
<1> HIDE DEF n
<1>6. \A i \in 1 .. n : recent[i] \in C
  BY <1>4, <1>5, ElementOfSeq
<1>7. SubSeq(recent, 1, n) \in Seq(C)
  BY <1>5, <1>6, SubSeqProperties
<1>. QED  BY <1>1, <1>2, <1>7 DEF SoundHistory, h, C

\* The tests found are files of the tree, with integer sizes.
LEMMA TestsMean ==
    ASSUME NEW un, NEW must
    PROVE  SoundTests(TestsOf(un, must))
<1> DEFINE byName == {p \in TREE : Last(p) \in DOMAIN TESTNAMES
                         /\ \E i \in DOMAIN must : TESTNAMES[Last(p)] = Last(must[i])}
           bySymbol == {p \in UNION {UNION {SearchSymbol(s)[k] : k \in {"function", "class", "reference"}} :
                                      s \in ToSet(un.symbols)} : LooksLikeATestPath(p)}
           S == {p \in byName \cup bySymbol : FetchFile(p) # None}
           found == Sorted(S)
           F(i) == [path |-> found[i], tokens |-> EstimateTokens(AT[found[i]], Whole(AT[found[i]])),
                    signatures |-> Signatures(AT[found[i]])]
           ts == TestsOf(un, must)
<1>1. ts = [i \in DOMAIN found |-> F(i)]
  BY DEF TestsOf
<1>2. S \subseteq TREE
  BY FetchedIsThere
<1> HIDE DEF S, ts
<1>3. IsList(found) /\ \A k \in DOMAIN found : found[k] \in S
  BY SortedMeans
<1> HIDE DEF found
<1>4. \A i \in DOMAIN found : F(i) \in [path : TREE, tokens : Int, signatures : Int]
  <2> TAKE i \in DOMAIN found
  <2> DEFINE p == found[i]  file == AT[p]
             a == EstimateTokens(file, Whole(file))  b == Signatures(file)
  <2>1. p \in TREE
    BY <1>2, <1>3
  <2>2. Readable(file)
    BY <2>1, TreeMeans
  <2> HIDE DEF file
  <2>3. file.lines \in Nat /\ Len(file.functions) \in Nat
    BY <2>2, ListMeans DEF Readable
  <2>4. Whole(file).lo = 1 /\ Whole(file).hi \in Nat
    BY <2>3 DEF Whole
  <2>5. a \in Int
    BY <2>3, <2>4 DEF EstimateTokens
  <2>6. b \in Int
    BY <2>3 DEF Signatures
  <2>7. F(i) = [path |-> p, tokens |-> a, signatures |-> b]
    BY DEF file
  <2> HIDE DEF a, b, F, p
  <2>. QED  BY <2>1, <2>5, <2>6, <2>7
<1> HIDE DEF F
<1>5. DOMAIN ts = DOMAIN found /\ ts = [i \in DOMAIN ts |-> ts[i]] /\ \A i \in DOMAIN found : ts[i] = F(i)
  BY <1>1
<1>6. IsList(ts)
  BY <1>3, <1>5, MapIsList
<1>. QED  BY <1>4, <1>5, <1>6 DEF SoundTests, ts

-----------------------------------------------------------------------------
\* What each step leaves behind is what the steps before it determine.
InvUnderstood == u # None => \E r \in REPLIES \cup {None} : u = Understood(event, r)
InvFiles == files # None => u # None /\ files = FrameFiles(u.frames)
InvGraph == graph # None => files # None /\ graph = CallGraphOf(u)
InvHistory == history # None => files # None /\ history = HistoryOf(u, MustFetch(u, files))
InvTests == tests # None => files # None /\ tests = TestsOf(u, MustFetch(u, files))
InvOutcome ==
    Bundled => /\ graph # None /\ history # None /\ tests # None
               /\ outcome = BuildContextBundle(Candidates, graph, history, tests, u)

Inv == /\ event \in EVENTS /\ InvUnderstood /\ InvFiles /\ InvGraph /\ InvHistory /\ InvTests
       /\ InvOutcome

\* The invariant holds before S4.
LEMMA InvInit == Init => Inv
<1>. QED  BY DEF Init, Inv, InvUnderstood, InvFiles, InvGraph, InvHistory, InvTests, InvOutcome, Bundled

\* Every step of the pipeline preserves the invariant.
LEMMA InvStep == Inv /\ [Next]_vars => Inv'
<1> SUFFICES ASSUME Inv, [Next]_vars  PROVE Inv'
  OBVIOUS
<1> USE DEF Inv, InvUnderstood, InvFiles, InvGraph, InvHistory, InvTests, InvOutcome, Bundled, Candidates
<1>1. CASE Understand
  <2>1. /\ u = None /\ UNCHANGED <<event, files, graph, history, tests, outcome>>
        /\ \E reply \in REPLIES \cup {None} : u' = Understood(event, reply)
    BY <1>1 DEF Understand
  <2>2. files = None /\ graph = None /\ history = None /\ tests = None
    BY <2>1
  <2>3. InvOutcome'
    BY <2>1, <2>2
  <2>. QED  BY <2>1, <2>2, <2>3
<1>2. CASE FrameDirect
  BY <1>2 DEF FrameDirect
<1>3. CASE CallGraph
  BY <1>3 DEF CallGraph
<1>4. CASE GitHistory
  BY <1>4 DEF GitHistory
<1>5. CASE TestDiscovery
  BY <1>5 DEF TestDiscovery
<1>6. CASE GatewayRaises
  <2>1. ~ Bundled'
    BY <1>6 DEF GatewayRaises
  <2>. QED  BY <1>6, <2>1 DEF GatewayRaises
<1>7. CASE Rank
  BY <1>7 DEF Rank
<1>8. CASE UNCHANGED vars
  BY <1>8 DEF vars
<1>. QED  BY <1>1, <1>2, <1>3, <1>4, <1>5, <1>6, <1>7, <1>8 DEF Next

\* What that says of the state when there is a bundle.
LEMMA WhenBundled ==
    ASSUME Inv, Bundled
    PROVE  /\ SoundU(u) /\ files = FrameFiles(u.frames)
           /\ SoundGraph(graph, u) /\ SoundHistory(history) /\ SoundTests(tests)
           /\ SoundInput(Candidates, history, u)
           /\ outcome = BuildContextBundle(Candidates, graph, history, tests, u)
           /\ outcome.kind = "bundle"
<1>1. /\ outcome.kind = "bundle" /\ graph # None /\ history # None /\ tests # None
      /\ outcome = BuildContextBundle(Candidates, graph, history, tests, u)
  BY DEF Inv, InvOutcome, Bundled
<1>2. /\ files # None /\ u # None /\ files = FrameFiles(u.frames) /\ graph = CallGraphOf(u)
      /\ history = HistoryOf(u, MustFetch(u, files)) /\ tests = TestsOf(u, MustFetch(u, files))
  BY <1>1 DEF Inv, InvFiles, InvGraph, InvHistory, InvTests
<1>3. SoundU(u)
  <2>1. PICK r \in REPLIES \cup {None} : u = Understood(event, r)
    BY <1>2 DEF Inv, InvUnderstood
  <2>2. event \in EVENTS
    BY DEF Inv
  <2>. QED  BY <2>1, <2>2, UnderstoodMeans
<1>4. SoundGraph(graph, u)
  BY <1>2, <1>3, CallGraphMeans
<1>5. SoundHistory(history) /\ SoundTests(tests)
  BY <1>2, HistoryMeans, TestsMean
<1>6. IsList(files) /\ \A i \in DOMAIN files : SoundItem(files[i])
  BY <1>2, <1>3, FrameFilesMean DEF SoundU
<1>7. SoundInput(Candidates, history, u)
  <2> DEFINE g == graph.files  all == files \o g
  <2>1. IsList(g) /\ \A i \in DOMAIN g : SoundItem(g[i])
    BY <1>4 DEF SoundGraph, AreRelated, Related
  <2> HIDE DEF g
  <2>2. /\ IsList(all)
        /\ \A i \in DOMAIN all : \/ i \in DOMAIN files /\ all[i] = files[i]
                                 \/ i - Len(files) \in DOMAIN g /\ all[i] = g[i - Len(files)]
    BY <1>6, <2>1, ConcatList
  <2> HIDE DEF all
  <2>3. \A i \in DOMAIN all : SoundItem(all[i])
    BY <1>6, <2>1, <2>2
  <2>4. Candidates = all
    BY DEF Candidates, all, g
  <2>. QED  BY <1>3, <1>5, <2>2, <2>3, <2>4 DEF SoundInput, SoundU
<1>. QED  BY <1>1, <1>2, <1>3, <1>4, <1>5, <1>7

-----------------------------------------------------------------------------
\* The bundle is what build_context_bundle admits, and that never passes the budget.
LEMMA BudgetInv == Inv => BudgetKept
<1> SUFFICES ASSUME Inv, Bundled
             PROVE  /\ outcome.tokens <= BUDGET
                    /\ outcome.tokens = Tokens(outcome.files) + HistoryTokens(outcome.history)
                                        + Tokens(outcome.tests)
  BY DEF BudgetKept
<1>1. /\ SoundInput(Candidates, history, u) /\ SoundTests(tests)
      /\ outcome = BuildContextBundle(Candidates, graph, history, tests, u)
      /\ outcome.kind = "bundle"
  BY WhenBundled
<1> DEFINE fs == Candidates  b == BuildContextBundle(fs, graph, history, tests, u)
<1> HIDE DEF fs
<1>2. b.kind = "bundle" /\ outcome = b /\ SoundInput(fs, history, u)
  BY <1>1 DEF fs
<1>3. b.tokens <= BUDGET /\ b.tokens = Tokens(b.files) + HistoryTokens(b.history) + Tokens(b.tests)
  BY <1>1, <1>2, BundleKeepsBudget
<1> HIDE DEF b
<1>. QED  BY <1>2, <1>3

\* What was understood is no poorer than the pre-parse.
LEMMA ReplyInv == Inv => ReplyNeverPoorer
<1> SUFFICES ASSUME Inv, u # None  PROVE NoPoorer(u, Preparse(event))
  BY DEF ReplyNeverPoorer, NoPoorer
<1>1. PICK r \in REPLIES \cup {None} : u = Understood(event, r)
  BY DEF Inv, InvUnderstood
<1>2. event \in EVENTS
  BY DEF Inv
<1>. QED  BY <1>1, <1>2, UnderstoodMeans

\* The files of a bundle: candidates that are the best for their path, one for a path.
LEMMA FilesOfBundle ==
    ASSUME NEW fs, NEW g, NEW hist, NEW un, SoundInput(fs, hist, un)
    PROVE  LET a == AdmittedOf(fs, g, hist, un)
               ranked == RankedOf(fs, g, hist, un) IN
           /\ a \in Seq(Dedup(ranked)) /\ DOMAIN a = 1 .. Len(a) /\ Len(a) \in Nat
           /\ \A i \in DOMAIN a : a[i].item.path \in TREE
           /\ \A l \in 1 .. Len(a) : \A k \in 1 .. l - 1 : a[k].item.path # a[l].item.path
           /\ \A r \in Dedup(ranked) :
                 (\A q \in Dedup(ranked) \ {r} : Before(r, q)) /\ r.tokens <= BUDGET =>
                    Len(a) >= 1 /\ a[1] = r
<1> DEFINE ranked == RankedOf(fs, g, hist, un)
           a == AdmittedOf(fs, g, hist, un)
<1>1. IsList(ranked) /\ \A i \in DOMAIN ranked : SoundRank(ranked[i])
  BY RankedIsSound
<1>2. a = Admit(InOrder(Dedup(ranked)))
  BY DEF AdmittedOf
<1> HIDE DEF ranked, a
<1> DEFINE b == Admit(InOrder(Dedup(ranked)))
<1>3. /\ b \in Seq(Dedup(ranked))
      /\ \A l \in 1 .. Len(b) : \A k \in 1 .. l - 1 : b[k].item.path # b[l].item.path
      /\ \A r \in Dedup(ranked) :
            (\A q \in Dedup(ranked) \ {r} : Before(r, q)) /\ r.tokens <= BUDGET =>
               Len(b) >= 1 /\ b[1] = r
  BY <1>1, AdmittedMeans
<1>4. \A r \in Dedup(ranked) : r.item.path \in TREE
  BY <1>1, DedupMeans DEF SoundRank
<1>5. a = b
  BY <1>2
<1> HIDE DEF b
<1>6. DOMAIN b = 1 .. Len(b) /\ Len(b) \in Nat /\ \A i \in 1 .. Len(b) : b[i] \in Dedup(ranked)
  BY <1>3, LenProperties, ElementOfSeq
<1>7. \A i \in DOMAIN b : b[i].item.path \in TREE
  BY <1>4, <1>6
<1>. QED  BY <1>3, <1>5, <1>6, <1>7 DEF a, ranked

\* The edges and paths of the bundle are those of the call graph and of the tree.
LEMMA EvidenceInv == Inv => RealEvidence
<1> SUFFICES ASSUME Inv, Bundled
             PROVE  LET paths == {outcome.files[i].item.path : i \in DOMAIN outcome.files} IN
                    /\ paths \subseteq TREE /\ Cardinality(paths) = Len(outcome.files)
                    /\ \A e \in outcome.edges :
                          /\ {e.source[1], e.target[1]} \subseteq paths
                          /\ e.source[1] # FailurePath(u) =>
                                \E f \in ToSet(AT[e.source[1]].functions) :
                                    f.qualname = e.source[2] /\ Contains(Callees(f), u.failure.function)
  BY DEF RealEvidence
<1> DEFINE fs == Candidates
           b == BuildContextBundle(fs, graph, history, tests, u)
           a == AdmittedOf(fs, graph, history, u)
           paths == {a[i].item.path : i \in DOMAIN a}
<1>1. /\ SoundInput(fs, history, u) /\ SoundGraph(graph, u) /\ outcome = b /\ b.kind = "bundle"
  BY WhenBundled
<1> HIDE DEF fs
<1>2. b.files = a /\ b.edges = {e \in graph.edges : e.source[1] \in paths /\ e.target[1] \in paths}
  BY <1>1, BundleIs
<1>3. /\ DOMAIN a = 1 .. Len(a) /\ Len(a) \in Nat
      /\ \A i \in DOMAIN a : a[i].item.path \in TREE
      /\ \A l \in 1 .. Len(a) : \A k \in 1 .. l - 1 : a[k].item.path # a[l].item.path
  BY <1>1, FilesOfBundle
<1> HIDE DEF a, b
<1>4. paths \subseteq TREE
  BY <1>3
<1>5. Cardinality(paths) = Len(a)
  <2> DEFINE S == 1 .. Len(a)
             f == [i \in S |-> a[i].item.path]
  <2>1. IsFiniteSet(S) /\ Cardinality(S) = Len(a)
    <3> DEFINE n == Len(a)
    <3>1. n \in Nat
      BY <1>3
    <3> HIDE DEF n
    <3>2. IsFiniteSet(1 .. n) /\ Cardinality(1 .. n) = n
      BY <3>1, FS_Interval
    <3>. QED  BY <3>2 DEF n
  <2>2. \A i, j \in S : f[i] = f[j] => i = j
    <3> SUFFICES ASSUME NEW i \in S, NEW j \in S, i # j  PROVE a[i].item.path # a[j].item.path
      OBVIOUS
    <3>1. i \in 1 .. j - 1 \/ j \in 1 .. i - 1
      BY <1>3
    <3>. QED  BY <1>3, <3>1
  <2>3. f \in Surjection(S, paths)
    BY <1>3 DEF Surjection
  <2>4. f \in Injection(S, paths)
    BY <1>3, <2>2 DEF Injection, IsInjective
  <2> HIDE DEF S, f, paths
  <2>5. Cardinality(paths) = Cardinality(S)
    BY <2>1, <2>3, <2>4, FS_Surjection
  <2>. QED  BY <2>1, <2>5
<1>6. \A e \in graph.edges : RealEdge(e, FailurePath(u), u.failure.function)
  BY <1>1 DEF SoundGraph
<1>7. \A e \in b.edges :
         /\ {e.source[1], e.target[1]} \subseteq paths
         /\ e.source[1] # FailurePath(u) =>
               \E f \in ToSet(AT[e.source[1]].functions) :
                   f.qualname = e.source[2] /\ Contains(Callees(f), u.failure.function)
  <2> TAKE e \in b.edges
  <2>1. e \in graph.edges /\ e.source[1] \in paths /\ e.target[1] \in paths
    BY <1>2
  <2>2. RealEdge(e, FailurePath(u), u.failure.function)
    BY <1>6, <2>1
  <2> HIDE DEF paths
  <2>. QED  BY <2>1, <2>2 DEF RealEdge
<1>. QED  BY <1>1, <1>2, <1>4, <1>5, <1>7

-----------------------------------------------------------------------------
\* At the same age, a window of the call graph is worth more than one of the frames only
\* if it defines more of the symbols.
LEMMA MoreSymbols ==
    ASSUME NEW A \in Nat, NEW k \in Nat, NEW i \in Nat,
           85 * A * 10 * (100 + 15 * k) > 100 * A * 10 * (100 + 15 * i)
    PROVE  k > i
<1> SUFFICES ASSUME k <= i  PROVE FALSE
  OBVIOUS
<1> DEFINE X == A * (100 + 15 * k)  d == i - k  Y == A * d
<1>1. d \in Nat /\ i = k + d
  OBVIOUS
<1> HIDE DEF d
<1>2. \A m, n \in Nat : m * n \in Nat
  OBVIOUS
<1>3. X \in Nat /\ Y \in Nat
  <2>1. 100 + 15 * k \in Nat
    OBVIOUS
  <2>. QED  BY <1>1, <1>2, <2>1
<1>4. 85 * A * 10 * (100 + 15 * k) = 850 * X
  OBVIOUS
<1>5. 100 * A * 10 * (100 + 15 * i) = 1000 * X + 15000 * Y
  BY <1>1
<1> HIDE DEF X, Y
<1>. QED  BY <1>3, <1>4, <1>5

\* The failing file is ranked alone at priority 1, so it is admitted first, whole, if it fits.
LEMMA FailureInv == Inv => FailurePointKept
<1> SUFFICES ASSUME Inv, Bundled, FailureId(u) # None, u.failure.path \in TREE, FailingFits
             PROVE  LET first == outcome.files[1].item IN
                    /\ first.path = u.failure.path
                    /\ \/ first.strategy = "frame_direct"
                       \/ \A i \in FailingItems : Candidates[i].strategy = "frame_direct" =>
                             SymbolOverlap(first, u.symbols) > SymbolOverlap(Candidates[i], u.symbols)
  BY DEF FailurePointKept
<1> DEFINE path == u.failure.path
           fs == Candidates
           b == BuildContextBundle(fs, graph, history, tests, u)
           a == AdmittedOf(fs, graph, history, u)
           ranked == RankedOf(fs, graph, history, u)
           V == Dedup(ranked)
           G == graph.files
<1>1. /\ SoundU(u) /\ files = FrameFiles(u.frames) /\ SoundGraph(graph, u) /\ SoundHistory(history)
      /\ SoundInput(fs, history, u) /\ outcome = b /\ b.kind = "bundle"
  BY WhenBundled
<1>2. u.failure # None /\ path # None /\ FailureId(u)[1] = path
  BY DEF FailureId
\* The frames' files come first, the call graph's behind them.
<1>3. /\ IsList(files) /\ \A i \in DOMAIN files : files[i].strategy = "frame_direct"
      /\ \E i \in DOMAIN files : files[i].path = path
  <2> DEFINE own == Own(u.frames)  ff == FrameFiles(u.frames)
  <2>1. AreFrames(u.frames) /\ own # <<>> /\ path = own[1].path
    BY <1>1, <1>2 DEF SoundU
  <2>2. 1 \in DOMAIN own
    BY <2>1, OwnMeans
  <2>3. /\ IsList(ff) /\ \A i \in DOMAIN ff : ff[i].strategy = "frame_direct"
        /\ \A k \in DOMAIN own : own[k].path # None /\ own[k].path \in TREE =>
              \E i \in DOMAIN ff : ff[i].path = own[k].path
    BY <2>1, FrameFilesMean
  <2> HIDE DEF own, ff, path
  <2>4. \E i \in DOMAIN ff : ff[i].path = path
    BY <1>2, <2>1, <2>2, <2>3 DEF path
  <2>5. files = ff
    BY <1>1 DEF ff
  <2>. QED  BY <2>3, <2>4, <2>5
<1>4. IsList(G) /\ \A i \in DOMAIN G : G[i].strategy = "call_graph"
  BY <1>1 DEF SoundGraph, AreRelated, Related
<1> HIDE DEF path, G
<1>5. /\ \A i \in 1 .. Len(files) : fs[i] = files[i]
      /\ Len(fs) = Len(files) + Len(G) /\ IsList(fs)
      /\ \A i \in DOMAIN fs : \/ i \in DOMAIN files /\ fs[i] = files[i]
                              \/ i > Len(files) /\ i - Len(files) \in DOMAIN G /\ fs[i] = G[i - Len(files)]
  <2> DEFINE all == files \o G
  <2>1. /\ \A i \in 1 .. Len(files) : all[i] = files[i]
        /\ Len(all) = Len(files) + Len(G) /\ IsList(all)
        /\ \A i \in DOMAIN all :
              \/ i \in DOMAIN files /\ all[i] = files[i]
              \/ i > Len(files) /\ i - Len(files) \in DOMAIN G /\ all[i] = G[i - Len(files)]
    BY <1>3, <1>4, ConcatList
  <2>2. fs = all
    BY DEF Candidates, G
  <2> HIDE DEF all, fs
  <2>. QED  BY <2>1, <2>2
<1>6. FailingItems = {i \in DOMAIN fs : fs[i].path = path}
      /\ \A i \in FailingItems : EstimateTokens(AT[path], fs[i].window) <= BUDGET
  BY DEF FailingItems, FailingFits, path
<1> HIDE DEF fs
<1>7. b.files = a
  BY <1>1, BundleIs
<1>8. /\ a \in Seq(V)
      /\ \A r \in V : (\A q \in V \ {r} : Before(r, q)) /\ r.tokens <= BUDGET => Len(a) >= 1 /\ a[1] = r
  BY <1>1, FilesOfBundle
<1>9. /\ IsList(ranked) /\ DOMAIN ranked = DOMAIN fs
      /\ \A i \in DOMAIN ranked : ranked[i] = RankFile(fs[i], graph.edges, u, history)
      /\ \A i \in DOMAIN ranked : SoundRank(ranked[i]) /\ ranked[i].item = fs[i]
  BY <1>1, RankedIsSound
<1> HIDE DEF a, b, ranked
\* What the ranking says of an entry.
<1> DEFINE O(i) == SymbolOverlap(fs[i], u.symbols)
           A(i) == Recency(Age(fs[i], u, history))
<1>10. \A i \in DOMAIN ranked :
          /\ ranked[i].priority \in 1 .. 5
          /\ ranked[i].priority = 1 <=> fs[i].path = path
          /\ ranked[i].tokens = EstimateTokens(AT[fs[i].path], fs[i].window)
          /\ O(i) \in Nat /\ A(i) \in Nat
          /\ ranked[i].relevance = Weight(fs[i].strategy) * A(i) * Proximity(ranked[i].priority)
                                   * (100 + 15 * O(i))
  <2> TAKE i \in DOMAIN ranked
  <2> DEFINE x == fs[i]  E == graph.edges  r == RankFile(x, E, u, history)
  <2>1. SoundItem(x) /\ IsList(u.symbols) /\ SoundHistory(history)
    BY <1>1, <1>9 DEF SoundInput
  <2> HIDE DEF x, E
  <2>2. /\ r.priority \in 1 .. 5
        /\ r.priority = 1 <=> FailureId(u) # None /\ FailureId(u)[1] = x.path
        /\ r.tokens = EstimateTokens(AT[x.path], x.window)
        /\ SymbolOverlap(x, u.symbols) \in Nat
        /\ Recency(Age(x, u, history)) \in Nat
        /\ r.relevance = Weight(x.strategy) * Recency(Age(x, u, history)) * Proximity(r.priority)
                         * (100 + 15 * SymbolOverlap(x, u.symbols))
    BY <2>1, RankFileMeans
  <2>3. ranked[i] = r
    BY <1>9 DEF x, E
  <2> HIDE DEF r
  <2>4. r.priority = 1 <=> x.path = path
    BY <1>2, <2>2
  <2>5. O(i) = SymbolOverlap(x, u.symbols) /\ A(i) = Recency(Age(x, u, history))
    BY DEF x
  <2> HIDE DEF O, A
  <2>. QED  BY <2>2, <2>3, <2>4, <2>5 DEF x
<1>11. /\ \A r \in V : \E k \in DOMAIN ranked : r = ranked[k] /\ Chosen(ranked, k)
       /\ \A r, q \in V : r.item.path = q.item.path => r = q
       /\ \A i \in DOMAIN ranked : \E r \in V : r.item.path = ranked[i].item.path
  BY <1>9, DedupMeans
<1> HIDE DEF V
<1>12. DOMAIN files = 1 .. Len(files) /\ Len(files) \in Nat /\ DOMAIN fs = 1 .. Len(fs)
       /\ Len(G) \in Nat
  BY <1>3, <1>4, <1>5, ListMeans
<1>13. PICK r \in V : r.item.path = path
  <2>1. PICK i \in DOMAIN files : files[i].path = path
    BY <1>3
  <2>2. i \in DOMAIN fs /\ fs[i] = files[i]
    BY <1>5, <1>12
  <2>3. i \in DOMAIN ranked /\ ranked[i].item.path = path
    BY <1>9, <2>1, <2>2
  <2>. QED  BY <1>11, <2>3
<1>14. PICK k \in DOMAIN ranked : r = ranked[k] /\ Chosen(ranked, k)
  BY <1>11
<1>15. fs[k].path = path /\ r.item = fs[k] /\ r.priority = 1 /\ k \in FailingItems
  BY <1>6, <1>9, <1>10, <1>13, <1>14
<1>16. \A q \in V \ {r} : Before(r, q)
  <2> TAKE q \in V \ {r}
  <2>1. q.item.path # path
    BY <1>11, <1>13
  <2>2. PICK j \in DOMAIN ranked : q = ranked[j]
    BY <1>11
  <2>3. q.priority \in 1 .. 5 /\ q.priority # 1
    BY <1>9, <1>10, <2>1, <2>2
  <2>4. r.priority < q.priority
    BY <1>15, <2>3
  <2>. QED  BY <2>4 DEF Before, Better
<1>17. r.tokens <= BUDGET
  BY <1>6, <1>10, <1>14, <1>15
<1>18. a[1] = r
  BY <1>8, <1>13, <1>16, <1>17
<1>19. outcome.files[1].item = fs[k]
  BY <1>1, <1>7, <1>15, <1>18
<1>20. ASSUME fs[k].strategy # "frame_direct",
              NEW i \in FailingItems, fs[i].strategy = "frame_direct"
       PROVE  O(k) > O(i)
  <2>1. i \in DOMAIN fs /\ k \in DOMAIN fs /\ fs[i].path = path
    BY <1>6, <1>9
  <2>2. i \in 1 .. Len(files)
    <3>1. \/ i \in DOMAIN files
          \/ i - Len(files) \in DOMAIN G /\ fs[i] = G[i - Len(files)]
      BY <1>5, <2>1
    <3>. QED  BY <1>4, <1>12, <1>20, <3>1
  <2>3. k > Len(files)
    <3>1. \/ k \in DOMAIN files /\ fs[k] = files[k]
          \/ k > Len(files)
      BY <1>5, <2>1
    <3>. QED  BY <1>3, <1>20, <3>1
  <2>4. i < k
    BY <1>12, <2>1, <2>2, <2>3
  <2>5. Better(ranked[k], ranked[i])
    BY <1>9, <1>15, <2>1, <2>4, <1>14 DEF Chosen
  <2>6. ranked[k].priority = 1 /\ ranked[i].priority = 1
    BY <1>9, <1>10, <1>15, <2>1
  <2>7. ranked[k].relevance > ranked[i].relevance
    BY <2>5, <2>6 DEF Better
  <2>8. A(k) = A(i)
    BY <1>15, <2>1 DEF Age
  <2> HIDE DEF A, O
  <2>9. /\ ranked[k].relevance = Weight(fs[k].strategy) * A(k) * Proximity(ranked[k].priority)
                                 * (100 + 15 * O(k))
        /\ ranked[i].relevance = Weight(fs[i].strategy) * A(i) * Proximity(ranked[i].priority)
                                 * (100 + 15 * O(i))
        /\ O(k) \in Nat /\ O(i) \in Nat /\ A(k) \in Nat
    BY <1>9, <1>10, <2>1
  <2>10. Weight(fs[k].strategy) = 85 /\ Weight(fs[i].strategy) = 100
         /\ Proximity(ranked[k].priority) = 10 /\ Proximity(ranked[i].priority) = 10
    BY <1>20, <2>6 DEF Weight, Proximity
  <2> DEFINE m == O(k)  n == O(i)  w == A(k)
  <2> HIDE DEF m, n, w
  <2>11. m \in Nat /\ n \in Nat /\ w \in Nat
    BY <2>9 DEF m, n, w
  <2>12. 85 * w * 10 * (100 + 15 * m) > 100 * w * 10 * (100 + 15 * n)
    BY <2>7, <2>8, <2>9, <2>10 DEF m, n, w
  <2>13. m > n
    BY <2>11, <2>12, MoreSymbols
  <2>. QED  BY <2>13 DEF m, n
<1>. QED  BY <1>15, <1>19, <1>20 DEF fs, path

-----------------------------------------------------------------------------
\* The inductive invariant holds in every reachable state.
LEMMA InvHolds == Spec => []Inv
<1>. QED  BY InvInit, InvStep, PTL DEF Spec

(* For any tree, event, reply and budget, what build_context_bundle puts together (ranking.py) --
   files, history and tests, cut in three different ways -- fits the token budget. *)
THEOREM BundleWithinBudget == Spec => []BudgetKept
<1>. QED  BY InvHolds, BudgetInv, PTL

(* For any event and reply, apply_extraction (validate.py) takes nothing away from what the
   frames proved: the plan keeps its entries in front, no frame moves or rises in confidence. *)
THEOREM FramesSurviveTheReply == Spec => []ReplyNeverPoorer
<1>. QED  BY InvHolds, ReplyInv, PTL

(* For any tree, whatever the search of the default branch returned, every path of the bundle is
   a file of the release that failed and every caller it names calls the failing function there
   (strategies.py _expand_callers). *)
THEOREM EvidenceIsReal == Spec => []RealEvidence
<1>. QED  BY InvHolds, EvidenceInv, PTL

(* For any tree, event and reply, the file of the failing function, if S4 named one of the tree
   and none of its windows is over the budget, is the first of the bundle (ranking.py
   build_context_bundle), and the window of its frame gives way only to one that defines more
   implicated symbols (_dedup). *)
THEOREM FailingFileComesFirst == Spec => []FailurePointKept
<1>. QED  BY InvHolds, FailureInv, PTL
=============================================================================
