--------------------------- MODULE Orderings_proofs ---------------------------
(***************************************************************************)
(* What sorting by rank and filtering do, for every set and sequence.      *)
(***************************************************************************)
EXTENDS Orderings, SequencesExt, FiniteSetTheorems, WellFoundedInduction, TLAPS

StrictOrder(S, before) ==
    /\ \A x \in S : <<x, x>> \notin before
    /\ \A x, y, z \in S : <<x, y>> \in before /\ <<y, z>> \in before => <<x, z>> \in before
    /\ \A x, y \in S : x = y \/ <<x, y>> \in before \/ <<y, x>> \in before

\* Enumerate lists each element of the set once, in the given order.
LEMMA EnumerateFacts ==
    ASSUME NEW S, IsFiniteSet(S), NEW before, StrictOrder(S, before)
    PROVE  LET e == Enumerate(S, before)
               n == Cardinality(S)
           IN  /\ n \in Nat /\ e \in [1 .. n -> S] /\ e \in Seq(S) /\ Len(e) = n
               /\ \A x \in S : \E k \in 1 .. n : e[k] = x
               /\ \A i, j \in 1 .. n : i < j => <<e[i], e[j]>> \in before
<1> DEFINE Below(x) == {y \in S : <<y, x>> \in before}
           n == Cardinality(S)
           r == [x \in S |-> Cardinality(Below(x))]
           e == Enumerate(S, before)
<1>1. n \in Nat
  BY FS_CardinalityType
<1>2. \A x \in S : /\ IsFiniteSet(Below(x)) /\ r[x] \in Nat /\ x \notin Below(x)
                   /\ r[x] = Cardinality(Below(x))
  <2> TAKE x \in S
  <2>1. Below(x) \in SUBSET S
    OBVIOUS
  <2>2. IsFiniteSet(Below(x))
    BY <2>1, FS_Subset
  <2>3. Cardinality(Below(x)) \in Nat
    BY <2>2, FS_CardinalityType
  <2>4. QED
    BY <2>2, <2>3 DEF StrictOrder
<1>3. ASSUME NEW x \in S, NEW y \in S, <<x, y>> \in before
      PROVE  r[x] < r[y]
  <2>1. Below(x) \cup {x} \in SUBSET Below(y)
    BY <1>3 DEF StrictOrder
  <2>2. IsFiniteSet(Below(x)) /\ IsFiniteSet(Below(y)) /\ x \notin Below(x)
    BY <1>2
  <2> HIDE DEF Below
  <2>3. Cardinality(Below(x) \cup {x}) = Cardinality(Below(x)) + 1
    BY <2>2, FS_AddElement
  <2>4. Cardinality(Below(x) \cup {x}) <= Cardinality(Below(y))
    BY <2>1, <2>2, FS_Subset
  <2>5. QED
    BY <1>2, <2>3, <2>4
<1>4. \A x \in S : r[x] \in 0 .. n - 1
  <2> TAKE x \in S
  <2>1. Below(x) \in SUBSET (S \ {x})
    BY <1>2
  <2>2. IsFiniteSet(S \ {x}) /\ Cardinality(S \ {x}) = n - 1
    BY FS_RemoveElement
  <2> HIDE DEF Below
  <2>3. Cardinality(Below(x)) <= n - 1
    BY <2>1, <2>2, FS_Subset
  <2>4. QED
    BY <1>1, <1>2, <2>3
<1>5. \A x, y \in S : r[x] = r[y] => x = y
  <2>1. \A x \in S : r[x] \in Nat
    BY <1>2
  <2>2. \A x, y \in S : <<x, y>> \in before => r[x] < r[y]
    BY <1>3
  <2> HIDE DEF r
  <2> TAKE x, y \in S
  <2> HAVE r[x] = r[y]
  <2>3. ~(r[x] < r[y]) /\ ~(r[y] < r[x])
    BY <2>1
  <2>4. QED
    BY <2>2, <2>3, Zenon DEF StrictOrder
<1> HIDE DEF n
<1>6. ASSUME NEW k \in 0 .. n - 1
      PROVE  \E x \in S : r[x] = k
  <2> SUFFICES ASSUME \A x \in S : r[x] # k
               PROVE  FALSE
    OBVIOUS
  <2> DEFINE T == (0 .. n - 1) \ {k}
  <2>1. r \in [S -> T]
    BY <1>4
  <2>2. IsFiniteSet(0 .. n - 1) /\ Cardinality(0 .. n - 1) = n
    BY <1>1, <1>6, FS_Interval
  <2>3. IsFiniteSet(T) /\ Cardinality(T) = n - 1
    BY <2>2, FS_RemoveElement
  <2> HIDE DEF T, r
  <2>4. Cardinality(T) < Cardinality(S)
    BY <1>1, <2>3 DEF n
  <2>5. \E x, y \in S : x # y /\ r[x] = r[y]
    BY <2>1, <2>3, <2>4, FS_PigeonHole
  <2>6. QED
    BY <1>5, <2>5
<1>7. \A k \in 1 .. n : e[k] = CHOOSE x \in S : r[x] = k - 1
  BY DEF Enumerate, n
<1>8. \A k \in 1 .. n : e[k] \in S /\ r[e[k]] = k - 1
  <2> TAKE k \in 1 .. n
  <2>1. k - 1 \in 0 .. n - 1
    BY <1>1
  <2>2. \E x \in S : r[x] = k - 1
    BY <1>6, <2>1
  <2> HIDE DEF r
  <2>3. QED
    BY <1>7, <2>2
<1>9. e \in [1 .. n -> S]
  BY <1>8 DEF Enumerate, n
<1> HIDE DEF e, r
<1>10. e \in Seq(S) /\ Len(e) = n
  BY <1>1, <1>9
<1>11. \A x \in S : \E k \in 1 .. n : e[k] = x
  <2> TAKE x \in S
  <2>1. r[x] + 1 \in 1 .. n /\ r[x] \in Nat
    BY <1>1, <1>4
  <2>2. e[r[x] + 1] \in S /\ r[e[r[x] + 1]] = r[x]
    BY <1>8, <2>1
  <2>3. e[r[x] + 1] = x
    BY <1>5, <2>2
  <2>4. QED
    BY <2>1, <2>3
<1>12. ASSUME NEW i \in 1 .. n, NEW j \in 1 .. n, i < j
       PROVE  <<e[i], e[j]>> \in before
  <2>1. e[i] \in S /\ e[j] \in S /\ r[e[i]] < r[e[j]]
    BY <1>1, <1>8, <1>12
  <2>2. e[i] # e[j] /\ <<e[j], e[i]>> \notin before
    BY <1>3, <1>4, <1>1, <2>1
  <2>3. QED
    BY <2>1, <2>2 DEF StrictOrder
<1>13. QED
  BY <1>1, <1>9, <1>10, <1>11, <1>12 DEF n, e

\* The sequence q is s along the increasing positions f, which are those in I.
Along(q, s, I, f) ==
    /\ f \in [1 .. Len(q) -> I]
    /\ \A k \in 1 .. Len(q) : q[k] = s[f[k]]
    /\ \A i, j \in 1 .. Len(q) : i < j => f[i] < f[j]
    /\ \A i \in I : \E k \in 1 .. Len(q) : f[k] = i

LEMMA PickFacts ==
    ASSUME NEW T, NEW s \in Seq(T), NEW I \in SUBSET (DOMAIN s)
    PROVE  /\ Pick(s, I) \in Seq(T) /\ Len(Pick(s, I)) = Cardinality(I)
           /\ \E f : Along(Pick(s, I), s, I, f)
<1> DEFINE before == {p \in I \X I : p[1] < p[2]}
           f == Enumerate(I, before)
           n == Cardinality(I)
           q == Pick(s, I)
<1>1. DOMAIN s = 1 .. Len(s) /\ Len(s) \in Nat
  OBVIOUS
<1>2. IsFiniteSet(I)
  <2>1. IsFiniteSet(1 .. Len(s))
    BY <1>1, FS_Interval
  <2>2. QED
    BY <1>1, <2>1, FS_Subset
<1>3. StrictOrder(I, before)
  BY <1>1 DEF StrictOrder
<1>4. /\ n \in Nat /\ f \in [1 .. n -> I]
      /\ \A x \in I : \E k \in 1 .. n : f[k] = x
      /\ \A i, j \in 1 .. n : i < j => <<f[i], f[j]>> \in before
  <2> HIDE DEF before
  <2>1. QED
    BY <1>2, <1>3, EnumerateFacts
<1>5. \A i, j \in 1 .. n : i < j => f[i] < f[j]
  BY <1>4
<1>6. q = [k \in 1 .. n |-> s[f[k]]]
  BY DEF Pick
<1> HIDE DEF f, n, q
<1>7. \A k \in 1 .. n : s[f[k]] \in T
  BY <1>1, <1>4
<1>8. q \in Seq(T) /\ Len(q) = n
  BY <1>4, <1>6, <1>7
<1>9. Along(q, s, I, f)
  BY <1>4, <1>5, <1>6, <1>8 DEF Along
<1>10. QED
  BY <1>8, <1>9 DEF q, n

LEMMA PickElements ==
    ASSUME NEW T, NEW s \in Seq(T), NEW I \in SUBSET (DOMAIN s)
    PROVE  ToSet(Pick(s, I)) = {s[i] : i \in I}
<1> DEFINE q == Pick(s, I)
<1>1. PICK f : Along(q, s, I, f)
  BY PickFacts
<1>2. DOMAIN q = 1 .. Len(q)
  BY PickFacts
<1> HIDE DEF q
<1>3. ASSUME NEW k \in DOMAIN q
      PROVE  q[k] \in {s[i] : i \in I}
  BY <1>1, <1>2 DEF Along
<1>4. ASSUME NEW i \in I
      PROVE  \E k \in DOMAIN q : q[k] = s[i]
  BY <1>1, <1>2 DEF Along
<1>5. QED
  BY <1>3, <1>4 DEF q, ToSet

\* What holds between the earlier and the later elements of s still does.
LEMMA PickOrder ==
    ASSUME NEW T, NEW s \in Seq(T), NEW I \in SUBSET (DOMAIN s), NEW R,
           \A i, j \in DOMAIN s : i < j => <<s[i], s[j]>> \in R
    PROVE  \A i, j \in DOMAIN Pick(s, I) :
              i < j => <<Pick(s, I)[i], Pick(s, I)[j]>> \in R
<1> DEFINE q == Pick(s, I)
<1>1. PICK f : Along(q, s, I, f)
  BY PickFacts
<1>2. DOMAIN q = 1 .. Len(q)
  BY PickFacts
<1> HIDE DEF q
<1>3. \A k \in DOMAIN q : q[k] = s[f[k]] /\ f[k] \in DOMAIN s
  BY <1>1, <1>2 DEF Along
<1>4. \A i, j \in DOMAIN q : i < j => f[i] < f[j]
  BY <1>1, <1>2 DEF Along
<1>5. QED
  BY <1>3, <1>4 DEF q

\* Keep leaves exactly the members of S, in their order.
LEMMA KeepFacts ==
    ASSUME NEW T, NEW s \in Seq(T), NEW S
    PROVE  Keep(s, S) \in Seq(T) /\ ToSet(Keep(s, S)) = ToSet(s) \cap S
<1> DEFINE I == {i \in DOMAIN s : s[i] \in S}
<1>1. I \in SUBSET (DOMAIN s) /\ Keep(s, S) = Pick(s, I)
  BY DEF Keep
<1>2. {s[i] : i \in I} = ToSet(s) \cap S
  BY DEF ToSet
<1> HIDE DEF I
<1>3. QED
  BY <1>1, <1>2, PickFacts, PickElements

LEMMA KeepOrder ==
    ASSUME NEW T, NEW s \in Seq(T), NEW S, NEW R,
           \A i, j \in DOMAIN s : i < j => <<s[i], s[j]>> \in R
    PROVE  \A i, j \in DOMAIN Keep(s, S) :
              i < j => <<Keep(s, S)[i], Keep(s, S)[j]>> \in R
<1> DEFINE I == {i \in DOMAIN s : s[i] \in S}
<1>1. I \in SUBSET (DOMAIN s) /\ Keep(s, S) = Pick(s, I)
  BY DEF Keep
<1> HIDE DEF I
<1>2. QED
  BY <1>1, PickOrder

LEMMA InToSet ==
    ASSUME NEW s
    PROVE  /\ \A i \in DOMAIN s : s[i] \in ToSet(s)
           /\ \A x \in ToSet(s) : \E i \in DOMAIN s : s[i] = x
  BY DEF ToSet

\* The same for a sequence continued by another, and for its tail.
LEMMA ConcatOrder ==
    ASSUME NEW T, NEW s \in Seq(T), NEW t \in Seq(T)
    PROVE  /\ s \o t \in Seq(T) /\ ToSet(s \o t) = ToSet(s) \cup ToSet(t)
           /\ \A R :
                 /\ \A i, j \in DOMAIN s : i < j => <<s[i], s[j]>> \in R
                 /\ \A i, j \in DOMAIN t : i < j => <<t[i], t[j]>> \in R
                 /\ \A x \in ToSet(s), y \in ToSet(t) : <<x, y>> \in R
                 => \A i, j \in DOMAIN (s \o t) :
                       i < j => <<(s \o t)[i], (s \o t)[j]>> \in R
<1> DEFINE q == s \o t
           m == Len(s)
           n == Len(t)
<1>1. /\ q \in Seq(T) /\ DOMAIN q = 1 .. (m + n) /\ m \in Nat /\ n \in Nat
      /\ DOMAIN s = 1 .. m /\ DOMAIN t = 1 .. n
      /\ \A i \in 1 .. m : q[i] = s[i]
      /\ \A i \in 1 .. n : q[m + i] = t[i]
  OBVIOUS
<1> HIDE DEF q, m, n
<1>2. \A i \in 1 .. (m + n) : \/ i \in 1 .. m
                              \/ i - m \in 1 .. n /\ i = m + (i - m)
  BY <1>1
<1>3. ToSet(q) = ToSet(s) \cup ToSet(t)
  <2>1. ASSUME NEW i \in DOMAIN q
        PROVE  q[i] \in ToSet(s) \cup ToSet(t)
    <3>1. CASE i \in 1 .. m
      BY <1>1, <3>1, InToSet
    <3>2. CASE i - m \in 1 .. n /\ i = m + (i - m)
      <4>1. q[m + (i - m)] = t[i - m]
        BY <1>1, <3>2
      <4>2. QED
        BY <1>1, <3>2, <4>1, InToSet
    <3>3. QED
      BY <1>1, <1>2, <3>1, <3>2
  <2>2. ASSUME NEW x \in ToSet(s)
        PROVE  x \in ToSet(q)
    <3>1. PICK i \in 1 .. m : s[i] = x
      BY <1>1, InToSet
    <3>2. i \in DOMAIN q /\ q[i] = x
      BY <1>1, <3>1
    <3>3. QED
      BY <3>2, InToSet
  <2>3. ASSUME NEW x \in ToSet(t)
        PROVE  x \in ToSet(q)
    <3>1. PICK i \in 1 .. n : t[i] = x
      BY <1>1, InToSet
    <3>2. m + i \in DOMAIN q /\ q[m + i] = x
      BY <1>1, <3>1
    <3>3. QED
      BY <3>2, InToSet
  <2>4. \A x \in ToSet(q) : x \in ToSet(s) \cup ToSet(t)
    BY <2>1, InToSet
  <2>5. QED
    BY <2>2, <2>3, <2>4
<1>4. ASSUME NEW R,
             \A i, j \in DOMAIN s : i < j => <<s[i], s[j]>> \in R,
             \A i, j \in DOMAIN t : i < j => <<t[i], t[j]>> \in R,
             \A x \in ToSet(s), y \in ToSet(t) : <<x, y>> \in R,
             NEW i \in DOMAIN q, NEW j \in DOMAIN q, i < j
      PROVE  <<q[i], q[j]>> \in R
  <2>1. CASE i \in 1 .. m /\ j \in 1 .. m
    BY <1>1, <1>4, <2>1
  <2>2. CASE i \in 1 .. m /\ j - m \in 1 .. n
    <3>1. q[i] \in ToSet(s) /\ q[j] = t[j - m] /\ t[j - m] \in ToSet(t)
      BY <1>1, <1>2, <2>2 DEF ToSet
    <3>2. QED
      BY <1>4, <3>1
  <2>3. CASE i - m \in 1 .. n /\ j - m \in 1 .. n
    <3>1. q[i] = t[i - m] /\ q[j] = t[j - m] /\ i - m < j - m
      BY <1>1, <1>2, <1>4, <2>3
    <3>2. QED
      BY <1>1, <1>4, <2>3, <3>1
  <2>4. ~(j \in 1 .. m /\ i - m \in 1 .. n)
    BY <1>1, <1>4
  <2>5. QED
    BY <1>1, <1>2, <2>1, <2>2, <2>3, <2>4
<1>5. QED
  BY <1>1, <1>3, <1>4 DEF q

LEMMA TailOrder ==
    ASSUME NEW T, NEW s \in Seq(T), s # <<>>
    PROVE  /\ Tail(s) \in Seq(T) /\ Head(s) \in ToSet(s)
           /\ ToSet(s) = ToSet(Tail(s)) \cup {Head(s)}
           /\ \A R : (\A i, j \in DOMAIN s : i < j => <<s[i], s[j]>> \in R) =>
                 /\ \A i, j \in DOMAIN Tail(s) : i < j => <<Tail(s)[i], Tail(s)[j]>> \in R
                 /\ \A x \in ToSet(Tail(s)) : <<Head(s), x>> \in R
<1> DEFINE q == Tail(s)
           n == Len(s)
<1>1. /\ q \in Seq(T) /\ n \in Nat /\ n # 0 /\ DOMAIN s = 1 .. n
      /\ DOMAIN q = 1 .. (n - 1) /\ Head(s) = s[1]
      /\ \A i \in 1 .. (n - 1) : q[i] = s[i + 1]
  OBVIOUS
<1> HIDE DEF q, n
<1>2. \A i \in 1 .. (n - 1) : i + 1 \in 1 .. n /\ 1 < i + 1
  BY <1>1
<1>3. \A i \in 1 .. n : i = 1 \/ (i - 1 \in 1 .. (n - 1) /\ i = (i - 1) + 1)
  BY <1>1
<1>4. 1 \in DOMAIN s
  BY <1>1
<1>5. ToSet(s) = ToSet(q) \cup {s[1]}
  <2>1. ASSUME NEW i \in DOMAIN s
        PROVE  s[i] \in ToSet(q) \cup {s[1]}
    <3>1. CASE i = 1
      BY <3>1
    <3>2. CASE i - 1 \in 1 .. (n - 1) /\ i = (i - 1) + 1
      <4>1. q[i - 1] = s[(i - 1) + 1]
        BY <1>1, <3>2
      <4>2. QED
        BY <1>1, <3>2, <4>1, InToSet
    <3>3. QED
      BY <1>1, <1>3, <3>1, <3>2
  <2>2. \A i \in DOMAIN q : q[i] \in ToSet(s)
    BY <1>1, <1>2, InToSet
  <2>3. \A x \in ToSet(q) : x \in ToSet(s)
    BY <2>2, InToSet
  <2>4. \A x \in ToSet(s) : x \in ToSet(q) \cup {s[1]}
    BY <2>1, InToSet
  <2>5. QED
    BY <1>4, <2>3, <2>4, InToSet
<1>6. ASSUME NEW R, \A i, j \in DOMAIN s : i < j => <<s[i], s[j]>> \in R
      PROVE  /\ \A i, j \in DOMAIN q : i < j => <<q[i], q[j]>> \in R
             /\ \A x \in ToSet(q) : <<s[1], x>> \in R
  <2>1. \A i, j \in DOMAIN q : i < j => i + 1 < j + 1
    BY <1>1
  <2>2. \A i, j \in DOMAIN q : i < j => <<q[i], q[j]>> \in R
    BY <1>1, <1>2, <1>6, <2>1
  <2>3. \A i \in DOMAIN q : <<s[1], q[i]>> \in R
    BY <1>1, <1>2, <1>4, <1>6
  <2>4. QED
    BY <2>2, <2>3, InToSet
<1>7. Head(s) \in ToSet(s)
  BY <1>1, <1>4 DEF ToSet
<1>8. QED
  BY <1>1, <1>5, <1>6, <1>7 DEF q

\* A non-empty set of numbers has a least one.
LEMMA LeastNumber ==
    ASSUME NEW T \in SUBSET Nat, T # {}
    PROVE  \E x \in T : \A y \in T : x <= y
<1>1. IsWellFoundedOn(OpToRel(<, Nat), Nat)
  BY NatLessThanWellFounded, Zenon
<1>2. PICK x \in T : \A y \in T : ~(<<y, x>> \in OpToRel(<, Nat))
  BY <1>1, WFMin, Zenon
<1>3. \A y \in T : <<y, x>> \in Nat \X Nat
  OBVIOUS
<1>4. ASSUME NEW y \in T, y < x
      PROVE  FALSE
  BY <1>2, <1>3, <1>4 DEF OpToRel
<1>5. QED
  BY <1>4

\* Two increasing lists of the same numbers are equal.
Rising(a, n) == a \in [1 .. n -> Nat] /\ \A i, j \in 1 .. n : i < j => a[i] < a[j]
Occurs(a, m, b, n) == \A i \in 1 .. m : \E j \in 1 .. n : a[i] = b[j]

LEMMA RisingListsAgree ==
    ASSUME NEW m \in Nat, NEW n \in Nat, NEW a, NEW b, Rising(a, m), Rising(b, n),
           Occurs(a, m, b, n), Occurs(b, n, a, m)
    PROVE  m = n /\ \A i \in 1 .. m : a[i] = b[i]
<1> SUFFICES ASSUME a \in [1 .. m -> Nat], b \in [1 .. n -> Nat],
                    \A i, j \in 1 .. m : i < j => a[i] < a[j],
                    \A i, j \in 1 .. n : i < j => b[i] < b[j],
                    \A i \in 1 .. m : \E j \in 1 .. n : a[i] = b[j],
                    \A j \in 1 .. n : \E i \in 1 .. m : a[i] = b[j]
             PROVE  m = n /\ \A i \in 1 .. m : a[i] = b[i]
  BY DEF Rising, Occurs
<1>1. ASSUME NEW x \in 1 .. m, x \in 1 .. n, a[x] # b[x]
      PROVE  FALSE
  <2> DEFINE D == {i \in Nat : i \in 1 .. m /\ i \in 1 .. n /\ a[i] # b[i]}
  <2>0. D # {}
    <3>1. x \in Nat
      OBVIOUS
    <3>2. x \in D
      BY <1>1, <3>1
    <3>3. QED
      BY <3>2
  <2>1. PICK k \in D : \A i \in D : k <= i
    BY <2>0, LeastNumber
  <2>2. k \in 1 .. m /\ k \in 1 .. n /\ a[k] # b[k] /\ k \in Nat
    BY <2>1
  <2>3. \A i \in 1 .. k - 1 : a[i] = b[i] /\ i \in 1 .. m /\ i \in 1 .. n /\ i < k
    BY <2>1, <2>2
  <2> HIDE DEF D
  <2>4. b[k] < a[k]
    <3>1. PICK j \in 1 .. n : a[k] = b[j]
      BY <2>2
    <3>2. ~(j < k)
      <4> SUFFICES ASSUME j < k
                   PROVE  FALSE
        OBVIOUS
      <4>1. j \in 1 .. k - 1
        BY <2>2
      <4>2. a[j] < a[k] /\ a[j] = b[j]
        BY <2>2, <2>3, <4>1
      <4>3. QED
        BY <2>2, <2>3, <3>1, <4>1, <4>2
    <3>3. k < j
      BY <2>2, <3>1, <3>2
    <3>4. QED
      BY <2>2, <3>1, <3>3
  <2>5. a[k] < b[k]
    <3>1. PICK j \in 1 .. m : a[j] = b[k]
      BY <2>2
    <3>2. ~(j < k)
      <4> SUFFICES ASSUME j < k
                   PROVE  FALSE
        OBVIOUS
      <4>1. j \in 1 .. k - 1
        BY <2>2
      <4>2. b[j] < b[k] /\ a[j] = b[j]
        BY <2>2, <2>3, <4>1
      <4>3. QED
        BY <2>2, <2>3, <3>1, <4>1, <4>2
    <3>3. k < j
      BY <2>2, <3>1, <3>2
    <3>4. QED
      BY <2>2, <3>1, <3>3
  <2>6. a[k] \in Nat /\ b[k] \in Nat
    BY <2>2
  <2>7. \A u, v \in Nat : ~(u < v /\ v < u)
    OBVIOUS
  <2>8. QED
    BY <2>4, <2>5, <2>6, <2>7, Zenon
<1>2. \A i \in 1 .. m : i \in 1 .. n => a[i] = b[i]
  BY <1>1
<1>3. ~(m < n)
  <2> SUFFICES ASSUME m < n
               PROVE  FALSE
    OBVIOUS
  <2>1. m + 1 \in 1 .. n
    OBVIOUS
  <2>2. PICK i \in 1 .. m : a[i] = b[m + 1]
    BY <2>1
  <2>3. i \in 1 .. n /\ i < m + 1 /\ a[i] = b[i]
    BY <1>2
  <2>4. b[i] < b[m + 1] /\ b[i] \in Nat
    BY <2>1, <2>3
  <2>5. QED
    BY <2>2, <2>3, <2>4
<1>4. ~(n < m)
  <2> SUFFICES ASSUME n < m
               PROVE  FALSE
    OBVIOUS
  <2>1. n + 1 \in 1 .. m
    OBVIOUS
  <2>2. PICK j \in 1 .. n : a[n + 1] = b[j]
    BY <2>1
  <2>3. j \in 1 .. m /\ j < n + 1 /\ a[j] = b[j]
    BY <1>2
  <2>4. a[j] < a[n + 1] /\ a[j] \in Nat
    BY <2>1, <2>3
  <2>5. QED
    BY <2>2, <2>3, <2>4
<1>5. m = n
  BY <1>3, <1>4
<1>6. QED
  BY <1>2, <1>5

\* The positions of s whose elements are in S, first to last, are f[1] .. f[n].
Lists(s, S, n, f) ==
    /\ Rising(f, n) /\ f \in [1 .. n -> DOMAIN s]
    /\ \A k \in 1 .. n : s[f[k]] \in S
    /\ \A i \in DOMAIN s : s[i] \in S => \E k \in 1 .. n : f[k] = i

Sampled(s, n, f) == [k \in 1 .. n |-> s[f[k]]]

\* What Keep leaves is the sequence along any list of the positions it keeps.
LEMMA KeepIs ==
    ASSUME NEW T, NEW s \in Seq(T), NEW S, NEW n \in Nat, NEW f, Lists(s, S, n, f)
    PROVE  Keep(s, S) = Sampled(s, n, f)
<1> USE DEF Lists
<1> DEFINE I == {i \in DOMAIN s : s[i] \in S}
           q == Pick(s, I)
<1>1. I \in SUBSET (DOMAIN s) /\ Keep(s, S) = q
  BY DEF Keep
<1>2. PICK g : Along(q, s, I, g)
  BY <1>1, PickFacts
<1>3. q \in Seq(T) /\ DOMAIN q = 1 .. Len(q) /\ Len(q) \in Nat
  BY <1>1, PickFacts
<1>4. DOMAIN s \in SUBSET Nat
  OBVIOUS
<1>5. \A i \in DOMAIN s : i \in I <=> s[i] \in S
  OBVIOUS
<1> HIDE DEF I, q
<1>6. g \in [1 .. Len(q) -> Nat]
  BY <1>1, <1>2, <1>4 DEF Along
<1>7. Rising(g, Len(q))
  BY <1>2, <1>6 DEF Along, Rising
<1>8. Occurs(f, n, g, Len(q))
  <2> SUFFICES ASSUME NEW k \in 1 .. n
               PROVE  \E j \in 1 .. Len(q) : f[k] = g[j]
    BY DEF Occurs
  <2>1. f[k] \in I
    BY <1>5
  <2>2. QED
    BY <1>2, <2>1 DEF Along
<1>9. Occurs(g, Len(q), f, n)
  <2> SUFFICES ASSUME NEW k \in 1 .. Len(q)
               PROVE  \E j \in 1 .. n : g[k] = f[j]
    BY DEF Occurs
  <2>1. g[k] \in I
    BY <1>2 DEF Along
  <2>2. g[k] \in DOMAIN s /\ s[g[k]] \in S
    BY <1>1, <1>5, <2>1
  <2>3. QED
    BY <2>2
<1>10. n = Len(q) /\ \A k \in 1 .. n : f[k] = g[k]
  <2>1. PICK l \in Nat : l = Len(q)
    BY <1>3
  <2>2. Rising(f, n) /\ Rising(g, l) /\ Occurs(f, n, g, l) /\ Occurs(g, l, f, n)
    BY <1>7, <1>8, <1>9, <2>1
  <2> HIDE DEF Lists
  <2>3. n = l /\ \A k \in 1 .. n : f[k] = g[k]
    BY ONLY <2>2, n \in Nat, l \in Nat, RisingListsAgree
  <2> QED  BY <2>1, <2>3
<1>11. \A k \in 1 .. n : q[k] = s[f[k]]
  BY <1>2, <1>10 DEF Along
<1>12. q = [k \in 1 .. n |-> q[k]]
  BY <1>3, <1>10
<1>13. QED
  BY <1>1, <1>11, <1>12 DEF Sampled

\* Keep one element at a time, at either end of the sequence.
LEMMA KeepAppend ==
    ASSUME NEW T, NEW s \in Seq(T), NEW x \in T, NEW S
    PROVE  Keep(Append(s, x), S) = IF x \in S THEN Append(Keep(s, S), x) ELSE Keep(s, S)
<1> DEFINE I == {i \in DOMAIN s : s[i] \in S}
           q == Pick(s, I)
           t == Append(s, x)
           m == Len(s)
           n == Len(q)
<1>1. I \in SUBSET (DOMAIN s) /\ Keep(s, S) = q
  BY DEF Keep
<1>2. PICK g : Along(q, s, I, g)
  BY <1>1, PickFacts
<1>3. q \in Seq(T) /\ DOMAIN q = 1 .. n /\ n \in Nat
  BY <1>1, PickFacts
<1>4. /\ t \in Seq(T) /\ m \in Nat /\ DOMAIN s = 1 .. m /\ DOMAIN t = 1 .. (m + 1)
      /\ t[m + 1] = x /\ \A i \in 1 .. m : t[i] = s[i]
  OBVIOUS
<1>5. \A i \in DOMAIN s : i \in I <=> s[i] \in S
  OBVIOUS
<1> HIDE DEF I, t, m
<1>6. /\ g \in [1 .. n -> I] /\ \A k \in 1 .. n : g[k] \in 1 .. m /\ s[g[k]] \in S /\ q[k] = s[g[k]]
      /\ \A i, j \in 1 .. n : i < j => g[i] < g[j]
      /\ \A i \in 1 .. m : s[i] \in S => \E k \in 1 .. n : g[k] = i
  <2> HIDE DEF q
  <2> QED  BY <1>1, <1>2, <1>3, <1>4, <1>5 DEF Along
<1> HIDE DEF q, n
<1>7. CASE x \in S
  <2> DEFINE f == [k \in 1 .. (n + 1) |-> IF k = n + 1 THEN m + 1 ELSE g[k]]
  <2>1. \A k \in 1 .. n : k \in 1 .. (n + 1) /\ k # n + 1 /\ f[k] = g[k] /\ g[k] \in 1 .. m
    BY <1>3, <1>6
  <2>2. f[n + 1] = m + 1 /\ n + 1 \in 1 .. (n + 1)
    BY <1>3
  <2>3. \A k \in 1 .. (n + 1) : k \in 1 .. n \/ k = n + 1
    BY <1>3
  <2>3a. f \in [1 .. (n + 1) -> 1 .. (m + 1)]
    <3>1. \A k \in 1 .. (n + 1) : (IF k = n + 1 THEN m + 1 ELSE g[k]) \in 1 .. (m + 1)
      <4> TAKE k \in 1 .. (n + 1)
      <4>1. CASE k = n + 1
        BY <1>4, <4>1
      <4>2. CASE k # n + 1
        <5>1. g[k] \in 1 .. m
          BY <1>6, <2>3, <4>2
        <5> QED  BY <1>4, <4>2, <5>1
      <4> QED  BY <4>1, <4>2
    <3> QED  BY <3>1
  <2> HIDE DEF f
  <2>4. \A i, j \in 1 .. (n + 1) : i < j => f[i] < f[j]
    <3> TAKE i, j \in 1 .. (n + 1)
    <3> HAVE i < j
    <3>1. i \in 1 .. n
      BY <1>3
    <3>2. CASE j \in 1 .. n
      BY <1>6, <2>1, <3>1, <3>2
    <3>3. CASE j = n + 1
      BY <1>4, <2>1, <2>2, <3>1, <3>3
    <3> QED  BY <2>3, <3>2, <3>3
  <2>5. Rising(f, n + 1)
    BY <1>4, <2>3a, <2>4 DEF Rising
  <2>6. \A k \in 1 .. (n + 1) : t[f[k]] \in S
    BY <1>4, <1>6, <1>7, <2>1, <2>2, <2>3
  <2>7. ASSUME NEW i \in DOMAIN t, t[i] \in S
        PROVE  \E k \in 1 .. (n + 1) : f[k] = i
    <3>1. CASE i \in 1 .. m
      <4>1. PICK k \in 1 .. n : g[k] = i
        BY <1>4, <1>6, <2>7, <3>1
      <4> QED  BY <2>1, <4>1
    <3>2. CASE i = m + 1
      BY <2>2, <3>2
    <3> QED  BY <1>4, <3>1, <3>2
  <2>8. Keep(t, S) = [k \in 1 .. (n + 1) |-> t[f[k]]]
    <3>1. Lists(t, S, n + 1, f) /\ n + 1 \in Nat
      BY <1>3, <1>4, <2>3a, <2>5, <2>6, <2>7 DEF Lists
    <3>2. Keep(t, S) = Sampled(t, n + 1, f)
      BY <1>4, <3>1, KeepIs, Zenon
    <3> QED  BY <3>2 DEF Sampled
  <2>9. \A k \in 1 .. n : t[f[k]] = q[k]
    BY <1>4, <1>6, <2>1
  <2>10. Append(q, x) = [k \in 1 .. (n + 1) |-> IF k = n + 1 THEN x ELSE q[k]]
    <3>1. PICK u : u = Append(q, x)
      OBVIOUS
    <3>2. u \in Seq(T) /\ DOMAIN u = 1 .. (n + 1)
      BY <1>3, <3>1 DEF n
    <3>3. \A k \in 1 .. (n + 1) : u[k] = IF k = n + 1 THEN x ELSE q[k]
      BY <1>3, <3>1 DEF n
    <3>4. u = [k \in 1 .. (n + 1) |-> u[k]]
      BY <3>2
    <3> QED  BY <3>1, <3>3, <3>4
  <2>11. \A k \in 1 .. (n + 1) : t[f[k]] = IF k = n + 1 THEN x ELSE q[k]
    BY <1>4, <2>2, <2>3, <2>9
  <2> QED  BY <1>1, <1>7, <2>8, <2>10, <2>11 DEF t
<1>8. CASE x \notin S
  <2>1. Rising(g, n)
    BY <1>4, <1>6 DEF Rising
  <2>2. g \in [1 .. n -> DOMAIN t]
    BY <1>4, <1>6
  <2>3. \A k \in 1 .. n : t[g[k]] \in S
    BY <1>4, <1>6
  <2>4. \A i \in DOMAIN t : t[i] \in S => \E k \in 1 .. n : g[k] = i
    BY <1>4, <1>6, <1>8
  <2>5. Keep(t, S) = [k \in 1 .. n |-> t[g[k]]]
    <3>1. Lists(t, S, n, g)
      BY <2>1, <2>2, <2>3, <2>4 DEF Lists
    <3>2. Keep(t, S) = Sampled(t, n, g)
      BY <1>3, <1>4, <3>1, KeepIs, Zenon
    <3> QED  BY <3>2 DEF Sampled
  <2>6. \A k \in 1 .. n : t[g[k]] = q[k]
    BY <1>4, <1>6
  <2>7. q = [k \in 1 .. n |-> q[k]]
    BY <1>3
  <2> QED  BY <1>1, <1>8, <2>5, <2>6, <2>7 DEF t
<1> QED  BY <1>7, <1>8

LEMMA KeepTail ==
    ASSUME NEW T, NEW s \in Seq(T), s # <<>>, NEW S
    PROVE  Keep(s, S) = IF Head(s) \in S THEN <<Head(s)>> \o Keep(Tail(s), S) ELSE Keep(Tail(s), S)
<1> DEFINE t == Tail(s)
           I == {i \in DOMAIN t : t[i] \in S}
           q == Pick(t, I)
           m == Len(t)
           n == Len(q)
<1>0. t \in Seq(T)
  OBVIOUS
<1>1. I \in SUBSET (DOMAIN t) /\ Keep(t, S) = q
  BY DEF Keep
<1>2. PICK g : Along(q, t, I, g)
  BY <1>0, <1>1, PickFacts
<1>3. q \in Seq(T) /\ DOMAIN q = 1 .. n /\ n \in Nat
  <2>1. q \in Seq(T)
    <3> HIDE DEF t, I
    <3> QED  BY <1>0, <1>1, PickFacts
  <2> HIDE DEF q
  <2> QED  BY <2>1
<1>4. /\ m \in Nat /\ DOMAIN t = 1 .. m /\ DOMAIN s = 1 .. (m + 1)
      /\ s[1] = Head(s) /\ \A i \in 1 .. m : t[i] = s[i + 1]
  OBVIOUS
<1>5. \A i \in DOMAIN t : i \in I <=> t[i] \in S
  OBVIOUS
<1> HIDE DEF I, t, m
<1>6. /\ g \in [1 .. n -> I] /\ \A k \in 1 .. n : g[k] \in 1 .. m /\ t[g[k]] \in S /\ q[k] = t[g[k]]
      /\ \A i, j \in 1 .. n : i < j => g[i] < g[j]
      /\ \A i \in 1 .. m : t[i] \in S => \E k \in 1 .. n : g[k] = i
  <2> HIDE DEF q
  <2> QED  BY <1>1, <1>2, <1>3, <1>4, <1>5 DEF Along
<1> HIDE DEF q, n
<1>7. \A i \in 1 .. (m + 1) : i = 1 \/ (i - 1 \in 1 .. m /\ i = (i - 1) + 1)
  BY <1>4
<1>8. CASE s[1] \in S
  <2> DEFINE f == [k \in 1 .. (n + 1) |-> IF k = 1 THEN 1 ELSE g[k - 1] + 1]
  <2>1. \A k \in 1 .. n : k + 1 \in 1 .. (n + 1) /\ f[k + 1] = g[k] + 1 /\ g[k] \in 1 .. m
    BY <1>3, <1>6
  <2>2. f[1] = 1 /\ 1 \in 1 .. (n + 1)
    BY <1>3
  <2>3. \A k \in 1 .. (n + 1) : k = 1 \/ (k - 1 \in 1 .. n /\ k = (k - 1) + 1 /\ f[k] = g[k - 1] + 1 /\ g[k - 1] \in 1 .. m)
    BY <1>3, <1>6
  <2>3a. f \in [1 .. (n + 1) -> 1 .. (m + 1)]
    <3>1. \A k \in 1 .. (n + 1) : f[k] \in 1 .. (m + 1)
      BY <1>4, <2>2, <2>3
    <3> QED  BY <3>1
  <2> HIDE DEF f
  <2>4. \A i, j \in 1 .. (n + 1) : i < j => f[i] < f[j]
    <3> TAKE i, j \in 1 .. (n + 1)
    <3> HAVE i < j
    <3>0. j # 1
      BY <1>3
    <3>1. j - 1 \in 1 .. n /\ f[j] = g[j - 1] + 1 /\ g[j - 1] \in 1 .. m
      BY <2>3, <3>0, Zenon
    <3>2. CASE i = 1
      BY <1>4, <2>2, <3>1, <3>2
    <3>3. CASE i - 1 \in 1 .. n /\ f[i] = g[i - 1] + 1 /\ g[i - 1] \in 1 .. m
      <4>1. i - 1 < j - 1
        BY <1>3
      <4>2. g[i - 1] < g[j - 1]
        BY <1>6, <3>1, <3>3, <4>1
      <4> QED  BY <1>4, <3>1, <3>3, <4>2
    <3> QED  BY <2>3, <3>2, <3>3
  <2>5. Rising(f, n + 1)
    BY <1>4, <2>3a, <2>4 DEF Rising
  <2>6. \A k \in 1 .. n : s[f[k + 1]] = q[k] /\ q[k] \in S
    BY <1>4, <1>6, <2>1
  <2>6a. \A k \in 1 .. (n + 1) : s[f[k]] = (IF k = 1 THEN s[1] ELSE q[k - 1]) /\ s[f[k]] \in S
    <3> TAKE k \in 1 .. (n + 1)
    <3>1. CASE k = 1
      BY <1>8, <2>2, <3>1
    <3>2. CASE k - 1 \in 1 .. n /\ k = (k - 1) + 1 /\ k # 1
      <4>1. s[f[(k - 1) + 1]] = q[k - 1] /\ q[k - 1] \in S
        BY <2>6, <3>2
      <4> QED  BY <3>2, <4>1
    <3> QED  BY <1>3, <2>3, <3>1, <3>2
  <2>7. ASSUME NEW i \in DOMAIN s, s[i] \in S
        PROVE  \E k \in 1 .. (n + 1) : f[k] = i
    <3>1. CASE i - 1 \in 1 .. m /\ i = (i - 1) + 1
      <4>0. t[i - 1] = s[(i - 1) + 1]
        BY <1>4, <3>1
      <4>1. PICK k \in 1 .. n : g[k] = i - 1
        BY <1>4, <1>6, <2>7, <3>1, <4>0
      <4> QED  BY <2>1, <3>1, <4>1
    <3>2. CASE i = 1
      BY <2>2, <3>2
    <3> QED  BY <1>4, <1>7, <3>1, <3>2
  <2>8. Keep(s, S) = [k \in 1 .. (n + 1) |-> s[f[k]]]
    <3>1. Lists(s, S, n + 1, f) /\ n + 1 \in Nat
      BY <1>3, <1>4, <2>3a, <2>5, <2>6a, <2>7 DEF Lists
    <3>2. Keep(s, S) = Sampled(s, n + 1, f)
      BY <3>1, KeepIs, Zenon
    <3> QED  BY <3>2 DEF Sampled
  <2>9. <<s[1]>> \o q = [k \in 1 .. (n + 1) |-> IF k = 1 THEN s[1] ELSE q[k - 1]]
    <3>1. <<s[1]>> \in Seq(T) /\ Len(<<s[1]>>) = 1
      BY <1>4
    <3>2. PICK u : u = <<s[1]>> \o q
      OBVIOUS
    <3>3. u \in Seq(T) /\ Len(u) = n + 1
      BY <1>3, <3>1, <3>2 DEF n
    <3>4. \A k \in 1 .. (n + 1) : u[k] = IF k = 1 THEN s[1] ELSE q[k - 1]
      BY <1>3, <3>1, <3>2 DEF n
    <3>5. u = [k \in 1 .. (n + 1) |-> u[k]]
      BY <1>3, <3>3
    <3> QED  BY <3>2, <3>4, <3>5
  <2> QED  BY <1>1, <1>4, <1>8, <2>6a, <2>8, <2>9 DEF t
<1>9. CASE s[1] \notin S
  <2> DEFINE f == [k \in 1 .. n |-> g[k] + 1]
  <2>1. \A k \in 1 .. n : f[k] = g[k] + 1 /\ g[k] \in 1 .. m /\ f[k] \in 1 .. (m + 1)
    BY <1>3, <1>4, <1>6
  <2>2. f \in [1 .. n -> 1 .. (m + 1)]
    BY <2>1
  <2> HIDE DEF f
  <2>3. \A i, j \in 1 .. n : i < j => f[i] < f[j]
    BY <1>4, <1>6, <2>1
  <2>4. Rising(f, n)
    BY <1>4, <2>2, <2>3 DEF Rising
  <2>5. \A k \in 1 .. n : s[f[k]] = q[k] /\ q[k] \in S
    BY <1>4, <1>6, <2>1
  <2>6. ASSUME NEW i \in DOMAIN s, s[i] \in S
        PROVE  \E k \in 1 .. n : f[k] = i
    <3>1. i - 1 \in 1 .. m /\ i = (i - 1) + 1
      BY <1>4, <1>7, <1>9, <2>6
    <3>2. t[i - 1] = s[(i - 1) + 1]
      BY <1>4, <3>1
    <3>3. PICK k \in 1 .. n : g[k] = i - 1
      BY <1>4, <1>6, <2>6, <3>1, <3>2
    <3> QED  BY <2>1, <3>1, <3>3
  <2>7. Keep(s, S) = [k \in 1 .. n |-> s[f[k]]]
    <3>1. Lists(s, S, n, f)
      BY <1>4, <2>2, <2>4, <2>5, <2>6 DEF Lists
    <3>2. Keep(s, S) = Sampled(s, n, f)
      BY <1>3, <3>1, KeepIs, Zenon
    <3> QED  BY <3>2 DEF Sampled
  <2>8. q = [k \in 1 .. n |-> q[k]]
    BY <1>3
  <2> QED  BY <1>1, <1>4, <1>9, <2>5, <2>7, <2>8 DEF t
<1> QED  BY <1>8, <1>9
=============================================================================
