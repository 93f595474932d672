------------------------- MODULE NativeScroll_proofs -------------------------
(***************************************************************************)
(* The theorems of NativeScroll: the owner and the GUI agree on the inputs *)
(* between them, the page performs the user's wheels in their order, the   *)
(* GUI scrolls to the offset the page will have, and a blocking listener   *)
(* ends native acceptance; for every workload, page and queue length.      *)
(***************************************************************************)
EXTENDS NativeScroll, Orderings_proofs, SequenceTheorems

-----------------------------------------------------------------------------
(* Replaying inputs. *)

LEMMA ClampFacts ==
    ASSUME NEW x \in Int, NEW max \in Nat
    PROVE  Clamp(x, max) \in 0 .. max /\ (x \in 0 .. max => Clamp(x, max) = x)
  BY DEF Clamp

LEMMA InputFacts ==
    ASSUME NEW s \in Seq(Input)
    PROVE  Len(s) \in Nat /\ \A n \in 1 .. Len(s) : s[n] \in Input /\ s[n].delta \in Int /\ s[n].seq \in Nat
<1>1. Len(s) \in Nat /\ \A n \in 1 .. Len(s) : s[n] \in Input
  OBVIOUS
<1>2. \A i \in Input : i.delta \in Int /\ i.seq \in Nat
  BY DataAssumption DEF Input
<1> QED  BY <1>1, <1>2

\* f[n] is the offset after the first n inputs.
Follows(f, x, s, n, max) ==
    /\ f \in [0 .. n -> Nat] /\ f[0] = x
    /\ \A k \in 1 .. n : f[k] = Clamp(f[k - 1] + s[k].delta, max)

LEMMA FollowsExists ==
    ASSUME NEW x \in Nat, NEW s \in Seq(Input), NEW max \in Nat
    PROVE  \E f : Follows(f, x, s, Len(s), max)
<1> DEFINE T == {n \in Nat : n \in 0 .. Len(s) /\ ~ \E f : Follows(f, x, s, n, max)}
<1>1. Len(s) \in Nat /\ \A n \in 1 .. Len(s) : s[n].delta \in Int
  BY InputFacts
<1> SUFFICES ASSUME ~ \E f : Follows(f, x, s, Len(s), max)
             PROVE  FALSE
  OBVIOUS
<1>2. Len(s) \in T
  BY <1>1
<1>3. PICK n \in T : \A m \in T : n <= m
  <2>1. T \in SUBSET Nat /\ T # {}
    BY <1>2
  <2> HIDE DEF T
  <2> QED  BY <2>1, LeastNumber
<1>4. n \in 0 .. Len(s) /\ n \in Nat /\ ~ \E f : Follows(f, x, s, n, max)
  BY <1>3
<1>5. \A m \in 0 .. n - 1 : \E f : Follows(f, x, s, m, max)
  BY <1>3
<1> HIDE DEF T
<1>6. n # 0
  <2> SUFFICES ASSUME n = 0
               PROVE  FALSE
    OBVIOUS
  <2>1. Follows([k \in 0 .. 0 |-> x], x, s, 0, max)
    BY DEF Follows
  <2> QED  BY <1>4, <2>1
<1>7. n - 1 \in 0 .. n - 1
  BY <1>4, <1>6
<1>8. PICK f : Follows(f, x, s, n - 1, max)
  BY <1>5, <1>7
<1> DEFINE g == [k \in 0 .. n |-> IF k = n THEN Clamp(f[n - 1] + s[n].delta, max) ELSE f[k]]
<1>9. f[n - 1] \in Nat /\ n \in 1 .. Len(s)
  BY <1>1, <1>4, <1>6, <1>7, <1>8 DEF Follows
<1>10. g[n] \in Nat /\ g[n] = Clamp(f[n - 1] + s[n].delta, max)
  <2>1. PICK y \in Int : y = f[n - 1] + s[n].delta
    BY <1>1, <1>9
  <2>2. Clamp(y, max) \in Nat
    <3>1. Clamp(y, max) \in 0 .. max
      BY ClampFacts
    <3> QED  BY <3>1
  <2> QED  BY <1>4, <2>1, <2>2
<1>11. \A k \in 0 .. n - 1 : g[k] = f[k] /\ f[k] \in Nat
  BY <1>4, <1>8 DEF Follows
<1>12. \A k \in 0 .. n : k \in 0 .. n - 1 \/ k = n
  BY <1>4
<1>13. \A k \in 0 .. n : g[k] \in Nat
  BY <1>10, <1>11, <1>12
<1>14. g \in [0 .. n -> Nat]
  BY <1>13
<1> HIDE DEF g
<1>15. g[0] = x
  BY <1>4, <1>6, <1>8, <1>11 DEF Follows
<1>16. ASSUME NEW k \in 1 .. n
       PROVE  g[k] = Clamp(g[k - 1] + s[k].delta, max)
  <2>1. CASE k = n
    BY <1>7, <1>10, <1>11, <2>1
  <2>2. CASE k # n
    <3>1. k \in 1 .. n - 1 /\ k \in 0 .. n - 1 /\ k - 1 \in 0 .. n - 1
      BY <1>4, <2>2
    <3> QED  BY <1>8, <1>11, <3>1 DEF Follows
  <2> QED  BY <2>1, <2>2
<1>17. Follows(g, x, s, n, max)
  BY <1>14, <1>15, <1>16 DEF Follows
<1> QED  BY <1>4, <1>17

LEMMA PlayIs ==
    ASSUME NEW x \in Nat, NEW s \in Seq(Input), NEW max \in Nat, NEW f,
           Follows(f, x, s, Len(s), max)
    PROVE  Play(x, s, max) = f[Len(s)]
<1> DEFINE L == Len(s)
           Solves(h) == h = [n \in 0 .. L |-> IF n = 0 THEN x ELSE Clamp(h[n - 1] + s[n].delta, max)]
           at == CHOOSE h : Solves(h)
<1>1. L \in Nat
  BY InputFacts
<1>2. Solves(f)
  <2>1. f \in [0 .. L -> Nat] /\ f[0] = x
    BY DEF Follows
  <2>2. \A n \in 0 .. L : f[n] = IF n = 0 THEN x ELSE Clamp(f[n - 1] + s[n].delta, max)
    BY <1>1 DEF Follows
  <2>3. f = [n \in 0 .. L |-> f[n]]
    BY <2>1
  <2> QED  BY <2>2, <2>3
<1>3. Solves(at)
  <2> HIDE DEF Solves
  <2> QED  BY <1>2
<1>4. Play(x, s, max) = at[L]
  BY DEF Play
<1> HIDE DEF at
<1>5. at[0] = x /\ \A n \in 1 .. L : at[n] = Clamp(at[n - 1] + s[n].delta, max)
  <2> HIDE DEF L
  <2> QED  BY <1>1, <1>3
<1> HIDE DEF L
<1>6. ASSUME at[L] # f[L]
      PROVE  FALSE
  <2> DEFINE T == {n \in Nat : n \in 0 .. L /\ at[n] # f[n]}
  <2>1. L \in T
    BY <1>1, <1>6
  <2>2. PICK n \in T : \A m \in T : n <= m
    <3>1. T \in SUBSET Nat /\ T # {}
      BY <2>1
    <3> HIDE DEF T
    <3> QED  BY <3>1, LeastNumber
  <2>3. n \in 0 .. L /\ at[n] # f[n] /\ n \in Nat
    BY <2>2
  <2>4. n # 0
    BY <1>5, <2>3 DEF Follows
  <2>5. n - 1 \in 0 .. L /\ n \in 1 .. L /\ at[n - 1] = f[n - 1]
    BY <1>1, <2>2, <2>3, <2>4
  <2>6. at[n] = Clamp(at[n - 1] + s[n].delta, max) /\ f[n] = Clamp(f[n - 1] + s[n].delta, max)
    BY <1>5, <2>5 DEF Follows, L
  <2> QED  BY <2>3, <2>5, <2>6
<1> QED  BY <1>4, <1>6 DEF L

Ends(x, s, max, f, n) == Play(x, s, max) = f[n]

LEMMA PlayEnds ==
    ASSUME NEW x \in Nat, NEW s, s \in Seq(Input), NEW max \in Nat, NEW f, NEW n, n = Len(s),
           Follows(f, x, s, n, max)
    PROVE  Ends(x, s, max, f, n)
  BY PlayIs DEF Ends

\* Replaying nothing, replaying one input, and the range of the result.
LEMMA PlayEmpty ==
    ASSUME NEW x \in Nat, NEW max \in Nat
    PROVE  Play(x, <<>>, max) = x
<1>1. <<>> \in Seq(Input) /\ Len(<<>>) = 0
  OBVIOUS
<1>2. PICK f : Follows(f, x, <<>>, Len(<<>>), max)
  BY <1>1, FollowsExists
<1>3. Play(x, <<>>, max) = f[Len(<<>>)]
  BY <1>1, <1>2, PlayIs
<1> QED  BY <1>1, <1>2, <1>3 DEF Follows

LEMMA PlayRange ==
    ASSUME NEW x \in Nat, NEW s \in Seq(Input), NEW max \in Nat
    PROVE  Play(x, s, max) \in Nat /\ (x \in 0 .. max => Play(x, s, max) \in 0 .. max)
<1>1. PICK f : Follows(f, x, s, Len(s), max)
  BY FollowsExists
<1>2. Play(x, s, max) = f[Len(s)]
  BY <1>1, PlayIs
<1>3. Len(s) \in Nat /\ \A n \in 1 .. Len(s) : s[n].delta \in Int
  BY InputFacts
<1>4. PICK n \in Nat : n = Len(s)
  BY <1>3
<1>5. f \in [0 .. n -> Nat] /\ f[0] = x
  BY <1>1, <1>4 DEF Follows
<1>6. CASE n = 0
  BY <1>2, <1>4, <1>5, <1>6
<1>7. CASE n # 0
  <2>1. n \in 1 .. n /\ n - 1 \in 0 .. n
    BY <1>4, <1>7
  <2>2. f[n - 1] \in Nat /\ s[n].delta \in Int /\ f[n] = Clamp(f[n - 1] + s[n].delta, max)
    BY <1>1, <1>3, <1>4, <1>5, <2>1 DEF Follows
  <2>3. f[n] \in 0 .. max
    <3>1. PICK y \in Int : y = f[n - 1] + s[n].delta
      BY <2>2
    <3>2. Clamp(y, max) \in 0 .. max
      BY ClampFacts
    <3> QED  BY <2>2, <3>1, <3>2
  <2> QED  BY <1>2, <1>4, <2>3
<1> QED  BY <1>6, <1>7

LEMMA PlayConcat ==
    ASSUME NEW x \in Nat, NEW s \in Seq(Input), NEW t \in Seq(Input), NEW max \in Nat
    PROVE  Play(x, s \o t, max) = Play(Play(x, s, max), t, max)
<1>1. PICK u : u = s \o t
  OBVIOUS
<1>2. PICK m \in Nat, n \in Nat : m = Len(s) /\ n = Len(t)
  BY InputFacts
<1>3. /\ u \in Seq(Input) /\ Len(u) = m + n
      /\ \A k \in 1 .. m : u[k] = s[k]
      /\ \A k \in 1 .. n : u[m + k] = t[k]
  BY <1>1, <1>2
<1>4. PICK f : Follows(f, x, s, m, max)
  BY <1>2, FollowsExists
<1>5. Play(x, s, max) = f[m] /\ f[m] \in Nat
  <2>1. Play(x, s, max) = f[Len(s)]
    BY <1>2, <1>4, PlayIs
  <2> QED  BY <1>2, <1>4, <2>1 DEF Follows
<1>6. PICK g : Follows(g, f[m], t, n, max)
  BY <1>2, <1>5, FollowsExists
<1>7. Play(f[m], t, max) = g[n]
  BY <1>2, <1>5, <1>6, PlayIs
<1> DEFINE h == [k \in 0 .. m + n |-> IF k <= m THEN f[k] ELSE g[k - m]]
<1>8. \A k \in 0 .. m : h[k] = f[k] /\ f[k] \in Nat
  BY <1>4 DEF Follows
<1>9. ASSUME NEW k \in 0 .. n
      PROVE  h[m + k] = g[k] /\ g[k] \in Nat
  <2>1. g[k] \in Nat /\ g[0] = f[m] /\ m + k \in 0 .. m + n /\ (m + k) - m = k
    BY <1>6 DEF Follows
  <2>2. CASE k = 0
    BY <1>8, <2>1, <2>2
  <2>3. CASE k # 0
    <3>1. ~(m + k <= m)
      BY <2>3
    <3> QED  BY <2>1, <3>1
  <2> QED  BY <2>2, <2>3
<1>10. \A k \in 0 .. m + n : k \in 0 .. m \/ (k - m \in 1 .. n /\ k = m + (k - m))
  OBVIOUS
<1>11. ASSUME NEW k \in 0 .. m + n
       PROVE  h[k] \in Nat
  <2>1. CASE k \in 0 .. m
    BY <1>8, <2>1
  <2>2. CASE k - m \in 0 .. n /\ k = m + (k - m)
    BY <1>9, <2>2
  <2> QED  BY <1>10, <2>1, <2>2
<1>12. h \in [0 .. m + n -> Nat] /\ h[0] = x
  <2>1. h[0] = x
    BY <1>4, <1>8 DEF Follows
  <2> QED  BY <1>11, <2>1
<1> HIDE DEF h
<1>13. ASSUME NEW k \in 1 .. m + n
       PROVE  h[k] = Clamp(h[k - 1] + u[k].delta, max)
  <2>1. CASE k \in 1 .. m
    <3>1. k \in 0 .. m /\ k - 1 \in 0 .. m
      BY <2>1
    <3> QED  BY <1>3, <1>4, <1>8, <2>1, <3>1 DEF Follows
  <2>2. CASE k - m \in 1 .. n
    <3>1. PICK j \in 1 .. n : j = k - m
      BY <2>2
    <3>2. k = m + j /\ k - 1 = m + (j - 1) /\ j \in 0 .. n /\ j - 1 \in 0 .. n
      BY <3>1
    <3>3. h[k] = g[j] /\ h[k - 1] = g[j - 1] /\ u[k] = t[j]
      BY <1>3, <1>9, <3>2
    <3> QED  BY <1>6, <3>3 DEF Follows
  <2> QED  BY <2>1, <2>2
<1>14. Follows(h, x, u, Len(u), max)
  BY <1>3, <1>12, <1>13 DEF Follows
<1>15. Play(x, u, max) = h[m + n]
  <2>1. PICK l : l = Len(u) /\ l = m + n
    BY <1>3
  <2>2. Follows(h, x, u, l, max) /\ u \in Seq(Input) /\ l = Len(u)
    BY <1>3, <1>14, <2>1
  <2>3. Ends(x, u, max, h, l)
    BY <2>2, PlayEnds, Zenon
  <2> QED  BY <2>1, <2>3 DEF Ends
<1> QED  BY <1>1, <1>5, <1>7, <1>9, <1>15

LEMMA PlayOne ==
    ASSUME NEW x \in Nat, NEW i \in Input, NEW max \in Nat
    PROVE  Play(x, <<i>>, max) = Clamp(x + i.delta, max)
<1>1. PICK s : s = <<i>> /\ s \in Seq(Input)
  <2>1. <<i>> \in Seq(Input)
    OBVIOUS
  <2> QED  BY <2>1
<1>2. Len(s) = 1 /\ s[1] = i
  BY <1>1
<1>3. PICK f : Follows(f, x, s, Len(s), max)
  BY <1>1, FollowsExists
<1>4. Play(x, s, max) = f[1]
  <2>1. PICK l : l = Len(s) /\ l = 1
    BY <1>2
  <2>2. Follows(f, x, s, l, max) /\ s \in Seq(Input) /\ l = Len(s)
    BY <1>1, <1>3, <2>1
  <2>3. Ends(x, s, max, f, l)
    BY <2>2, PlayEnds, Zenon
  <2> QED  BY <2>1, <2>3 DEF Ends
<1>5. f[1] = Clamp(f[0] + s[1].delta, max) /\ f[0] = x
  BY <1>2, <1>3 DEF Follows
<1> QED  BY <1>1, <1>2, <1>4, <1>5

-----------------------------------------------------------------------------
(* Runs of numbered inputs. *)

\* The sequence s holds the inputs after number b, without a gap.
Numbered(s, b) == s \in Seq(Input) /\ \A n \in 1 .. Len(s) : s[n].seq = b + n

\* Those numbered x + 1 to y.
Slice(s, b, x, y) == [n \in 1 .. y - x |-> s[(x + n) - b]]

LEMMA SliceEq ==
    ASSUME NEW s, NEW b, NEW t, NEW c, NEW x \in Int, NEW y \in Int,
           \A k \in x + 1 .. y : s[k - b] = t[k - c]
    PROVE  Slice(s, b, x, y) = Slice(t, c, x, y)
<1>1. \A n \in 1 .. y - x : x + n \in x + 1 .. y
  OBVIOUS
<1>2. \A n \in 1 .. y - x : s[(x + n) - b] = t[(x + n) - c]
  BY <1>1
<1> QED  BY <1>2 DEF Slice

Alike(s, b, t, c, x, y) == x \in Int /\ y \in Int /\ \A k \in x + 1 .. y : s[k - b] = t[k - c]
SameSlice(s, b, t, c, x, y) == Slice(s, b, x, y) = Slice(t, c, x, y)

LEMMA SliceAlike ==
    ASSUME NEW s, NEW b, NEW t, NEW c, NEW x, NEW y, Alike(s, b, t, c, x, y)
    PROVE  SameSlice(s, b, t, c, x, y)
  BY SliceEq DEF Alike, SameSlice

Fits(s, b, x, y) ==
    /\ b \in Nat /\ x \in Nat /\ y \in Nat /\ Numbered(s, b)
    /\ b <= x /\ x <= y /\ y <= b + Len(s)
IsSlice(u, s, b, x, y) ==
    /\ Numbered(u, x) /\ u \in Seq(Input) /\ Len(u) = y - x
    /\ \A n \in 1 .. y - x : u[n] = s[(x + n) - b]

LEMMA SliceFacts ==
    ASSUME NEW s, NEW b, NEW x, NEW y, Fits(s, b, x, y)
    PROVE  IsSlice(Slice(s, b, x, y), s, b, x, y)
<1> USE DEF Fits, IsSlice
<1> DEFINE u == Slice(s, b, x, y)
<1>1. s \in Seq(Input) /\ Len(s) \in Nat /\ \A n \in 1 .. Len(s) : s[n].seq = b + n /\ s[n] \in Input
  BY InputFacts DEF Numbered
<1>2. \A n \in 1 .. y - x : u[n] = s[(x + n) - b] /\ (x + n) - b \in 1 .. Len(s)
  BY <1>1 DEF Slice
<1>3. \A n \in 1 .. y - x : u[n] \in Input /\ u[n].seq = x + n
  <2> TAKE n \in 1 .. y - x
  <2>1. PICK k \in 1 .. Len(s) : k = (x + n) - b
    BY <1>2
  <2>2. s[k].seq = b + k /\ s[k] \in Input /\ u[n] = s[k]
    BY <1>1, <1>2, <2>1
  <2> HIDE DEF u
  <2> QED  BY <2>1, <2>2
<1>4. u = [n \in 1 .. y - x |-> u[n]]
  BY DEF Slice
<1> HIDE DEF u
<1>5. PICK l \in Nat : l = y - x
  OBVIOUS
<1>6. u \in [1 .. l -> Input]
  BY <1>3, <1>4, <1>5
<1>7. u \in Seq(Input) /\ Len(u) = l
  BY <1>5, <1>6
<1> QED  BY <1>2, <1>3, <1>5, <1>7 DEF Numbered, u

Splits(s, b, x, y, z) == Slice(s, b, x, z) = Slice(s, b, x, y) \o Slice(s, b, y, z)

LEMMA SliceConcat ==
    ASSUME NEW s, NEW b, NEW x, NEW y, NEW z, Fits(s, b, x, y), Fits(s, b, y, z)
    PROVE  Splits(s, b, x, y, z)
<1>0. PICK u : u = Slice(s, b, x, y)
  OBVIOUS
<1>1. PICK v : v = Slice(s, b, y, z)
  OBVIOUS
<1>2. PICK w : w = u \o v
  OBVIOUS
<1>3. PICK m \in Nat, n \in Nat : m = y - x /\ n = z - y
  BY DEF Fits
<1>4. b \in Nat /\ x \in Nat /\ y \in Nat /\ z \in Nat
  BY DEF Fits
<1>5. u \in Seq(Input) /\ Len(u) = m /\ \A k \in 1 .. m : u[k] = s[(x + k) - b]
  <2>1. IsSlice(u, s, b, x, y)
    BY <1>0, SliceFacts, Zenon
  <2> QED  BY <1>3, <2>1 DEF IsSlice
<1>6. v \in Seq(Input) /\ Len(v) = n /\ \A k \in 1 .. n : v[k] = s[(y + k) - b]
  <2>1. IsSlice(v, s, b, y, z)
    BY <1>1, SliceFacts, Zenon
  <2> QED  BY <1>3, <2>1 DEF IsSlice
<1>7. /\ w \in Seq(Input) /\ Len(w) = m + n
      /\ \A k \in 1 .. m : w[k] = u[k]
      /\ \A k \in 1 .. n : w[m + k] = v[k]
  <2>1. u \in Seq(Input) /\ v \in Seq(Input) /\ m = Len(u) /\ n = Len(v)
    BY <1>5, <1>6
  <2> QED  BY ONLY <1>2, <2>1, m \in Nat, n \in Nat
<1>8. \A k \in 1 .. m + n : k \in 1 .. m \/ (k - m \in 1 .. n /\ k = m + (k - m))
  OBVIOUS
<1>9. ASSUME NEW k \in 1 .. m + n
      PROVE  w[k] = s[(x + k) - b]
  <2>1. CASE k \in 1 .. m
    BY <1>5, <1>7, <2>1
  <2>2. CASE k - m \in 1 .. n
    <3>1. PICK j \in 1 .. n : j = k - m
      BY <2>2
    <3>2. k = m + j /\ (y + j) - b = (x + k) - b
      BY <1>3, <1>4, <3>1
    <3> QED  BY <1>6, <1>7, <3>2
  <2> QED  BY <1>8, <2>1, <2>2
<1>10. w = [k \in 1 .. m + n |-> w[k]]
  BY <1>7
<1>11. w = [k \in 1 .. m + n |-> s[(x + k) - b]]
  BY <1>9, <1>10
<1>12. m + n = z - x
  BY <1>3, <1>4
<1> QED  BY <1>0, <1>1, <1>2, <1>11, <1>12 DEF Slice, Splits

\* A run may be cut at either end, or lose its head.
LEMMA SliceCut ==
    ASSUME NEW s, NEW b \in Nat, Numbered(s, b), NEW x \in Nat, NEW y \in Nat
    PROVE  /\ Slice(s, b, b, b + Len(s)) = s
           /\ Slice(s, b, x, x) = <<>>
           /\ b <= y /\ y <= b + Len(s) => SubSeq(s, 1, y - b) = Slice(s, b, b, y)
           /\ b <= x /\ x < b + Len(s) => Slice(s, b, x, x + 1) = <<s[(x + 1) - b]>>
           /\ s # <<>> => /\ Numbered(Tail(s), b + 1) /\ Len(Tail(s)) = Len(s) - 1
                          /\ s[1].seq = b + 1
                          /\ b + 1 <= x /\ y <= b + Len(s) => Slice(Tail(s), b + 1, x, y) = Slice(s, b, x, y)
<1>1. s \in Seq(Input) /\ Len(s) \in Nat /\ \A n \in 1 .. Len(s) : s[n].seq = b + n
  BY DEF Numbered
<1>2. Slice(s, b, b, b + Len(s)) = s
  <2>1. PICK l \in Nat : l = Len(s)
    BY <1>1
  <2>2. (b + l) - b = l /\ \A n \in 1 .. l : (b + n) - b = n
    OBVIOUS
  <2>3. s = [n \in 1 .. l |-> s[n]]
    BY <1>1, <2>1
  <2>4. Slice(s, b, b, b + l) = [n \in 1 .. l |-> s[(b + n) - b]]
    BY <2>2 DEF Slice
  <2> QED  BY <2>1, <2>2, <2>3, <2>4
<1>3. Slice(s, b, x, x) = <<>>
  BY DEF Slice
<1>4. ASSUME b <= y, y <= b + Len(s)
      PROVE  SubSeq(s, 1, y - b) = Slice(s, b, b, y)
  <2>1. PICK l \in Nat : l = y - b
    BY <1>4
  <2>2. SubSeq(s, 1, l) = [n \in 1 .. l |-> s[n]]
    <3>1. PICK u : u = SubSeq(s, 1, l)
      OBVIOUS
    <3>2. u \in Seq(Input) /\ Len(u) = l /\ \A n \in 1 .. l : u[n] = s[n]
      BY <1>1, <1>4, <2>1, <3>1
    <3>3. u = [n \in 1 .. l |-> u[n]]
      BY <3>2
    <3> QED  BY <3>1, <3>2, <3>3
  <2>3. \A n \in 1 .. l : (b + n) - b = n
    OBVIOUS
  <2> QED  BY <2>1, <2>2, <2>3 DEF Slice
<1>5. ASSUME b <= x, x < b + Len(s)
      PROVE  Slice(s, b, x, x + 1) = <<s[(x + 1) - b]>>
  <2>1. PICK u : u = Slice(s, b, x, x + 1)
    OBVIOUS
  <2>2. PICK y1 \in Nat : y1 = x + 1
    OBVIOUS
  <2>3. u \in Seq(Input) /\ Len(u) = 1 /\ u[1] = s[(x + 1) - b]
    <3>1. Fits(s, b, x, y1)
      BY <1>1, <1>5, <2>2 DEF Fits
    <3>2. IsSlice(u, s, b, x, y1)
      BY <2>1, <2>2, <3>1, SliceFacts, Zenon
    <3> QED  BY <2>2, <3>2 DEF IsSlice
  <2> QED  BY <2>1, <2>3
<1>6. ASSUME s # <<>>
      PROVE  /\ Numbered(Tail(s), b + 1) /\ Len(Tail(s)) = Len(s) - 1 /\ s[1].seq = b + 1
             /\ b + 1 <= x /\ y <= b + Len(s) => Slice(Tail(s), b + 1, x, y) = Slice(s, b, x, y)
  <2>1. PICK t : t = Tail(s)
    OBVIOUS
  <2>2. /\ t \in Seq(Input) /\ Len(t) = Len(s) - 1 /\ Len(s) >= 1
        /\ \A n \in 1 .. Len(t) : t[n] = s[n + 1] /\ n + 1 \in 1 .. Len(s)
    BY <1>1, <1>6, <2>1
  <2>3. Numbered(t, b + 1)
    <3> SUFFICES ASSUME NEW n \in 1 .. Len(t)
                 PROVE  t[n].seq = (b + 1) + n
      BY <2>2 DEF Numbered
    <3>1. t[n] = s[n + 1] /\ s[n + 1].seq = b + (n + 1)
      BY <1>1, <2>2
    <3> QED  BY <3>1
  <2>4. s[1].seq = b + 1
    BY <1>1, <2>2
  <2>5. ASSUME b + 1 <= x, y <= b + Len(s)
        PROVE  Slice(t, b + 1, x, y) = Slice(s, b, x, y)
    <3>1. \A n \in 1 .. y - x : t[(x + n) - (b + 1)] = s[(x + n) - b]
      <4> TAKE n \in 1 .. y - x
      <4>1. PICK j \in Nat : j = (x + n) - (b + 1) /\ j \in 1 .. Len(t) /\ (x + n) - b = j + 1
        BY <1>1, <2>2, <2>5
      <4>2. t[j] = s[j + 1]
        BY <2>2, <4>1
      <4> QED  BY <4>1, <4>2
    <3> QED  BY <3>1 DEF Slice
  <2> QED  BY <2>1, <2>2, <2>3, <2>4, <2>5
<1> QED  BY <1>2, <1>3, <1>4, <1>5, <1>6

Follow(s, b, a, z) == After(s, a) = Slice(s, b, a, z)

LEMMA AfterIs ==
    ASSUME NEW s, NEW b, NEW a, NEW z, Fits(s, b, a, z), z = b + Len(s)
    PROVE  Follow(s, b, a, z)
<1> DEFINE S == {i \in ToSet(s) : i.seq > a}
<1>0. a \in Nat /\ b \in Nat /\ b <= a /\ a <= b + Len(s) /\ Numbered(s, b)
  BY DEF Fits
<1>1. s \in Seq(Input) /\ Len(s) \in Nat /\ DOMAIN s = 1 .. Len(s)
      /\ \A n \in 1 .. Len(s) : s[n].seq = b + n
  BY <1>0 DEF Numbered
<1>2. PICK d \in Nat, n \in Nat : d = a - b /\ n = Len(s) - d
  <2>1. a - b \in Nat /\ Len(s) - (a - b) \in Nat
    BY <1>0, <1>1
  <2> QED  BY <2>1
<1> DEFINE f == [k \in 1 .. n |-> d + k]
<1>3. After(s, a) = Keep(s, S)
  BY DEF After
<1>4. \A k \in 1 .. Len(s) : s[k] \in S <=> b + k > a
  BY <1>1, InToSet
<1>5. Lists(s, S, n, f)
  <2>1. f \in [1 .. n -> Nat] /\ f \in [1 .. n -> DOMAIN s]
    BY <1>1, <1>2
  <2>2. \A k \in 1 .. n : f[k] = d + k
    OBVIOUS
  <2> HIDE DEF f, S
  <2>3. Rising(f, n)
    BY <2>1, <2>2 DEF Rising
  <2>4. \A k \in 1 .. n : s[f[k]] \in S
    <3> TAKE k \in 1 .. n
    <3>1. d + k \in 1 .. Len(s) /\ b + (d + k) > a
      BY <1>0, <1>1, <1>2
    <3>2. s[d + k] \in S
      BY <1>4, <3>1
    <3> QED  BY <2>2, <3>2
  <2>5. ASSUME NEW k \in DOMAIN s, s[k] \in S
        PROVE  \E j \in 1 .. n : f[j] = k
    <3>1. k \in 1 .. Len(s) /\ b + k > a
      BY <1>1, <1>4, <2>5
    <3>2. k - d \in 1 .. n /\ k = d + (k - d)
      BY <1>0, <1>1, <1>2, <3>1
    <3> QED  BY <2>2, <3>2
  <2> QED  BY <2>1, <2>3, <2>4, <2>5 DEF Lists
<1>6. \A k \in 1 .. n : s[f[k]] = s[(a + k) - b]
  BY <1>0, <1>2
<1> HIDE DEF S, f
<1>7. Keep(s, S) = Sampled(s, n, f)
  BY <1>1, <1>5, KeepIs, Zenon
<1>8. z - a = n
  BY <1>0, <1>1, <1>2
<1> QED  BY <1>3, <1>6, <1>7, <1>8 DEF Sampled, Slice, Follow

Replays(s, b, x, y, z, o, max) ==
    Play(o, Slice(s, b, x, z), max) = Play(Play(o, Slice(s, b, x, y), max), Slice(s, b, y, z), max)

LEMMA PlaySlice ==
    ASSUME NEW s, NEW b, NEW x, NEW y, NEW z, Fits(s, b, x, y), Fits(s, b, y, z),
           NEW o \in Nat, NEW max \in Nat
    PROVE  Replays(s, b, x, y, z, o, max)
<1>1. IsSlice(Slice(s, b, x, y), s, b, x, y) /\ IsSlice(Slice(s, b, y, z), s, b, y, z)
  BY SliceFacts, Zenon
<1>2. Slice(s, b, x, y) \in Seq(Input) /\ Slice(s, b, y, z) \in Seq(Input)
  BY <1>1 DEF IsSlice
<1>3. Slice(s, b, x, z) = Slice(s, b, x, y) \o Slice(s, b, y, z)
  BY SliceConcat DEF Splits
<1> QED  BY <1>2, <1>3, PlayConcat DEF Replays

-----------------------------------------------------------------------------
(* The invariant.  Its parts speak of the pieces of the state they are given, *)
(* so that a lemma can be stated of a piece before and after a step.          *)

\* The sets of the type invariant.
GuiSet(l) ==
    [scene : Maybe(Scenes), visual : Nat, pending : Seq(Input),
     last : 0 .. l.sequence, ticket : 0 .. l.ticket, barrier : Maybe(Nat),
     ticketOut : BOOLEAN, policy : 0 .. l.policy, policyOut : BOOLEAN,
     epoch : 0 .. l.epoch, epochOut : BOOLEAN, accepting : BOOLEAN, eligible : BOOLEAN]
OwnerSet == [applied : Nat, notified : Nat, materialized : Seq(Input), completed : Nat]
Settings == [to : Nat, animated : BOOLEAN, token : Maybe(Nat)]
Tag      == {"input", "fallback", "canonical"} \X Nat

GateOK(t) ==
    /\ DOMAIN t = {"authorized", "latched", "stale", "mutation", "next"}
    /\ t.latched \in BOOLEAN /\ t.mutation \in Maybe(Nat) /\ t.next \in Maybe(Nat)

\* What the GUI thread holds between two calls.
GuiTypes(pub, fr, st, gc) ==
    /\ pub \in Maybe(Scenes) /\ fr \in Maybe(Token) /\ st \in Maybe(Errand) /\ gc \in Nat
    /\ st # None /\ st.do = "rebind" => fr # None

PageTypes ==
    /\ canon \in Nat /\ extent \in Extents
    /\ painted \in Maybe(Pixels) /\ nextPub \in Nat
    /\ setting \in Maybe(Settings) /\ smooth \in Maybe(Nat)
    /\ layouts \in Nat /\ failures \in Nat
    /\ {running, listened, failed} \subseteq BOOLEAN

\* The number of the last input the installed scene contains.
Base(g) == IF g.scene = None THEN 0 ELSE g.scene.ack

\* The GUI g, the owner o and the FIFO q.
Handle(g, o, q) ==
    /\ o \in OwnerSet
    /\ Numbered(g.pending, Base(g)) /\ Base(g) + Len(g.pending) = g.last
    /\ Numbered(q, o.notified) /\ o.notified + Len(q) = g.last
    /\ Base(g) <= o.applied /\ o.notified <= o.applied /\ o.applied <= g.last
    /\ o.materialized = Slice(q, o.notified, o.notified, o.applied)
    /\ \A k \in o.applied + 1 .. g.last : g.pending[k - Base(g)] = q[k - o.notified]
    /\ Len(g.pending) <= MaxPending /\ Len(q) <= MaxPending
    /\ g.scene # None => g.scene.completed <= o.completed
    /\ o.completed <= g.ticket
    /\ g.barrier # None => g.barrier <= g.last

\* The commands on their way: the accepted inputs first, then fallbacks and
\* canonical commands, with the tickets that are not done in their order.
Ticketed(c) == c.kind = "fallback" /\ c.ticket # None
Queue(c, q, last, ticket, out, done) ==
    /\ Len(q) <= Len(c)
    /\ \A n \in 1 .. Len(q) : c[n] = [kind |-> "accepted", input |-> q[n]]
    /\ \A n \in Len(q) + 1 .. Len(c) : c[n].kind # "accepted"
    /\ \A n \in 1 .. Len(c) : c[n].kind = "fallback" =>
          /\ c[n].after # None => c[n].after <= last
          /\ c[n].ticket = None => out
          /\ c[n].ticket # None => done < c[n].ticket /\ c[n].ticket <= ticket
    /\ \A i, j \in 1 .. Len(c) :
          i < j /\ Ticketed(c[i]) /\ Ticketed(c[j]) => c[i].ticket < c[j].ticket
\* While no dispatch has failed, every ticket that is not done is queued.
Accounted(c, ticket, done) ==
    \A k \in done + 1 .. ticket : \E n \in 1 .. Len(c) : Ticketed(c[n]) /\ c[n].ticket = k

NoCanonical(c) == \A n \in 1 .. Len(c) : c[n].kind # "canonical"
Turn(c, run) == run => c # <<>> /\ (c[1].kind = "canonical" \/ Ticketed(c[1]))

\* The commands that stand for a wheel of their own, and their wheels.
Lasting  == {c \in Command : c.kind = "canonical" \/ Ticketed(c)}
Mark(c)  == IF c.kind = "canonical" THEN <<"canonical", c.id>> ELSE <<"fallback", c.ticket>>
Marks(q) == [n \in 1 .. Len(q) |-> Mark(q[n])]
\* The wheels w are the performed ones e, the inputs a and what lasts of c.
Order(w, e, a, c) == w = e \o (Performed(a) \o Marks(Keep(c, Lasting)))

\* An offset that contains the inputs up to ack leads to the page's offset.
Reaches(offset, ack, max, g, o, can, ext) ==
    /\ max = ext
    /\ Base(g) <= ack => can = Play(offset, Slice(g.pending, Base(g), ack, o.applied), ext)
Truth(p, g, o, can, ext) ==
    /\ p.policy <= g.policy /\ p.ack <= o.applied
    /\ p.policy = g.policy /\ ~g.policyOut => Reaches(p.offset, p.ack, p.extent, g, o, can, ext)
Painted(p, g, o, can, ext) ==
    p # None => /\ p.ack <= o.applied /\ p.completed <= o.completed
                /\ p.clean => Reaches(p.offset, p.ack, p.extent, g, o, can, ext)
Seen(g) ==
    g.eligible => /\ g.scene # None /\ g.scene.policy = g.policy /\ ~g.policyOut
                  /\ g.visual = Play(g.scene.offset, g.pending, g.scene.extent)
Shown(g, o, can, ext, ups) ==
    /\ g.scene # None => Truth(g.scene, g, o, can, ext)
    /\ \A n \in 1 .. Len(ups) : Truth(ups[n], g, o, can, ext)
    /\ Seen(g)

IInv ==
    /\ load \in Workloads
    /\ gui \in GuiSet(load) /\ GateOK(gate)
    /\ GuiTypes(published, frame, step, canonical)
    /\ PageTypes
    /\ commands \in Seq(Command) /\ updates \in Seq(Scenes)
    /\ wheels \in Seq(Tag) /\ effects \in Seq(Tag)
    /\ Handle(gui, owner, accepted)
    /\ Queue(commands, accepted, gui.last, gui.ticket, gui.ticketOut, owner.completed)
    /\ Turn(commands, running)
    /\ Doing("wheel") => NoCanonical(commands)
    /\ failures = 0 => Accounted(commands, gui.ticket, owner.completed)
    /\ failed => failures > 0
    /\ ~failed => Order(wheels, effects, Unapplied, commands)
    /\ Shown(gui, owner, canon, extent, updates)
    /\ Painted(painted, gui, owner, canon, extent)
    /\ listened => gate.latched

-----------------------------------------------------------------------------
(* The GUI withdraws: nothing it has accepted changes, and it scrolls by     *)
(* itself no more than before.                                               *)

Calmed(g, h) ==
    /\ h \in GuiSet(load)
    /\ h.scene = g.scene /\ h.pending = g.pending /\ h.last = g.last
    /\ h.ticket = g.ticket /\ h.barrier = g.barrier /\ h.ticketOut = g.ticketOut
    /\ g.policy <= h.policy /\ (g.policyOut => h.policyOut)
    /\ h.eligible => g.eligible /\ h.policy = g.policy /\ h.policyOut = g.policyOut
                     /\ h.visual = g.visual
\* It has lost its policy.
Lost(g, h) == h.policyOut \/ g.policy < h.policy
Soothed(g, t, h, u) == Calmed(g, h) /\ GateOK(u) /\ (t.latched => u.latched)

LEMMA LoadFacts ==
    ASSUME load \in Workloads
    PROVE  /\ load.sequence \in Nat /\ load.ticket \in Nat /\ load.policy \in Nat
           /\ load.epoch \in Nat /\ load.mutation \in Nat /\ load.publication \in Nat
           /\ load.canonical \in Nat /\ load.layouts \in Nat /\ load.failures \in Nat
  BY WorkloadsAssumption

LEMMA CalmedSame ==
    ASSUME NEW g \in GuiSet(load), load \in Workloads
    PROVE  Calmed(g, g)
<1>1. g.policy \in Nat
  BY LoadFacts DEF GuiSet
<1> QED  BY <1>1 DEF Calmed

LEMMA CalmedTwice ==
    ASSUME NEW g \in GuiSet(load), load \in Workloads, NEW h, NEW k, Calmed(g, h), Calmed(h, k)
    PROVE  Calmed(g, k)
<1>1. g.policy \in Nat /\ h.policy \in Nat /\ k.policy \in Nat
  BY LoadFacts DEF Calmed, GuiSet
<1> QED  BY <1>1 DEF Calmed

LEMMA CappedFacts ==
    ASSUME NEW cap \in Nat, NEW n \in 0 .. cap
    PROVE  Capped(n, cap) \in 0 .. cap /\ n <= Capped(n, cap) /\ (n # cap => n < Capped(n, cap))
  BY DEF Capped

LEMMA RevokedCalms ==
    ASSUME NEW g \in GuiSet(load), load \in Workloads
    PROVE  Calmed(g, Revoked(g)) /\ Lost(g, Revoked(g)) /\ ~Revoked(g).eligible
<1>1. load.policy \in Nat /\ g.policy \in 0 .. load.policy /\ g.policyOut \in BOOLEAN
  BY LoadFacts DEF GuiSet
<1>2. PICK p \in 0 .. load.policy : p = Capped(g.policy, load.policy)
  BY <1>1, CappedFacts
<1>3. g.policy <= p /\ (g.policy # load.policy => g.policy < p)
  BY <1>1, <1>2, CappedFacts
<1>4. PICK out \in BOOLEAN : out = (g.policyOut \/ g.policy = load.policy)
  OBVIOUS
<1>5. Revoked(g) = [g EXCEPT !.accepting = FALSE, !.eligible = FALSE, !.policy = p, !.policyOut = out]
  BY <1>2, <1>4 DEF Revoked, GuiSet
<1>6. PICK h : h = [g EXCEPT !.accepting = FALSE, !.eligible = FALSE, !.policy = p, !.policyOut = out]
  OBVIOUS
<1>7. h \in GuiSet(load)
  BY <1>6 DEF GuiSet
<1>8. /\ h.scene = g.scene /\ h.pending = g.pending /\ h.last = g.last
      /\ h.ticket = g.ticket /\ h.barrier = g.barrier /\ h.ticketOut = g.ticketOut
      /\ h.policy = p /\ h.policyOut = out /\ h.eligible = FALSE
  BY <1>6 DEF GuiSet
<1>9. Calmed(g, h)
  BY <1>3, <1>4, <1>7, <1>8 DEF Calmed
<1>10. Lost(g, h)
  BY <1>3, <1>4, <1>8 DEF Lost
<1> QED  BY <1>5, <1>6, <1>8, <1>9, <1>10

LEMMA ClosedCalms ==
    ASSUME NEW g \in GuiSet(load), load \in Workloads
    PROVE  Calmed(g, Closed(g)) /\ ~Closed(g).accepting
<1>1. CASE ~g.accepting
  BY <1>1, CalmedSame DEF Closed
<1>2. CASE g.accepting
  <2>1. load.epoch \in Nat /\ g.epoch \in 0 .. load.epoch /\ g.policy \in Nat
    BY LoadFacts DEF GuiSet
  <2>2. PICK e \in 0 .. load.epoch : e = Capped(g.epoch, load.epoch)
    BY <2>1, CappedFacts
  <2>3. PICK out \in BOOLEAN : out = (g.epochOut \/ g.epoch = load.epoch)
    OBVIOUS
  <2>4. Closed(g) = [g EXCEPT !.accepting = FALSE, !.epoch = e, !.epochOut = out]
    BY <1>2, <2>2, <2>3 DEF Closed, GuiSet
  <2>5. PICK h : h = [g EXCEPT !.accepting = FALSE, !.epoch = e, !.epochOut = out]
    OBVIOUS
  <2>6. h \in GuiSet(load) /\ h.accepting = FALSE
    BY <2>5 DEF GuiSet
  <2>7. /\ h.scene = g.scene /\ h.pending = g.pending /\ h.last = g.last
        /\ h.ticket = g.ticket /\ h.barrier = g.barrier /\ h.ticketOut = g.ticketOut
        /\ h.policy = g.policy /\ h.policyOut = g.policyOut /\ h.eligible = g.eligible
        /\ h.visual = g.visual
    BY <2>5 DEF GuiSet
  <2>8. Calmed(g, h)
    BY <2>1, <2>6, <2>7 DEF Calmed
  <2> QED  BY <2>4, <2>5, <2>6, <2>8
<1> QED  BY <1>1, <1>2

\* A GUI that is not eligible may show another offset.
LEMMA Rebased ==
    ASSUME NEW g \in GuiSet(load), load \in Workloads, NEW v \in Nat, ~g.eligible
    PROVE  Calmed(g, [g EXCEPT !.visual = v]) /\ ~[g EXCEPT !.visual = v].eligible
<1>1. g.policy \in Nat
  BY LoadFacts DEF GuiSet
<1>2. PICK h : h = [g EXCEPT !.visual = v]
  OBVIOUS
<1>3. h \in GuiSet(load)
  BY <1>2 DEF GuiSet
<1>4. /\ h.scene = g.scene /\ h.pending = g.pending /\ h.last = g.last
      /\ h.ticket = g.ticket /\ h.barrier = g.barrier /\ h.ticketOut = g.ticketOut
      /\ h.policy = g.policy /\ h.policyOut = g.policyOut /\ h.eligible = g.eligible
  BY <1>2 DEF GuiSet
<1>5. Calmed(g, h)
  BY <1>1, <1>3, <1>4 DEF Calmed
<1> QED  BY <1>2, <1>4, <1>5

LEMMA JudgeCalms ==
    ASSUME gui \in GuiSet(load), load \in Workloads, GateOK(gate), NEW t, Judge(t)
    PROVE  Soothed(gui, gate, gui', gate')
<1>1. CASE Verdict(t) = "invalid"
  <2>1. gui' = [Closed(gui) EXCEPT !.eligible = FALSE]
    BY <1>1 DEF Judge
  <2>2. PICK x : gate' = [gate EXCEPT !.stale = x]
    BY <1>1 DEF Judge
  <2>3. PICK g : g = Closed(gui)
    OBVIOUS
  <2>4. Calmed(gui, g) /\ g \in GuiSet(load)
    BY <2>3, ClosedCalms DEF Calmed
  <2>5. PICK h : h = [g EXCEPT !.eligible = FALSE]
    OBVIOUS
  <2>6. h \in GuiSet(load)
    BY <2>4, <2>5 DEF GuiSet
  <2>7. /\ h.scene = g.scene /\ h.pending = g.pending /\ h.last = g.last
        /\ h.ticket = g.ticket /\ h.barrier = g.barrier /\ h.ticketOut = g.ticketOut
        /\ h.policy = g.policy /\ h.policyOut = g.policyOut /\ h.eligible = FALSE
    BY <2>4, <2>5 DEF GuiSet
  <2>8. g.policy \in Nat
    BY <2>4, LoadFacts DEF GuiSet
  <2>9. Calmed(g, h)
    BY <2>6, <2>7, <2>8 DEF Calmed
  <2>10. Calmed(gui, h)
    BY <2>4, <2>9, CalmedTwice
  <2>11. GateOK(gate') /\ gate'.latched = gate.latched
    BY <2>2 DEF GateOK
  <2> QED  BY <2>1, <2>3, <2>5, <2>10, <2>11 DEF Soothed
<1>2. CASE Verdict(t) # "invalid"
  BY <1>2, CalmedSame DEF Judge, Soothed
<1> QED  BY <1>1, <1>2

LEMMA RevokeSoothes ==
    ASSUME gui \in GuiSet(load), load \in Workloads, GateOK(gate),
           gui' = Revoked(gui), gate' = [gate EXCEPT !.authorized = None]
    PROVE  Soothed(gui, gate, gui', gate')
<1>1. GateOK(gate') /\ gate'.latched = gate.latched
  BY DEF GateOK
<1> QED  BY <1>1, RevokedCalms DEF Soothed

LEMMA SameSoothes ==
    ASSUME gui \in GuiSet(load), load \in Workloads, GateOK(gate), UNCHANGED <<gui, gate>>
    PROVE  Soothed(gui, gate, gui', gate')
  BY CalmedSame DEF Soothed

-----------------------------------------------------------------------------
(* The order of the wheels. *)

LEMMA TagFacts ==
    ASSUME NEW x \in Lasting
    PROVE  x \in Command /\ Mark(x) \in Tag
  BY DEF Lasting, Mark, Tag, Command, Accepted, Fallback, Canonical, Ticketed, Maybe

LEMMA PerformedFacts ==
    ASSUME NEW a \in Seq(Input)
    PROVE  /\ Performed(a) \in Seq(Tag) /\ Len(Performed(a)) = Len(a)
           /\ \A n \in 1 .. Len(a) : Performed(a)[n] = <<"input", a[n].seq>>
<1>1. PICK m \in Nat : m = Len(a)
  BY InputFacts
<1>2. DOMAIN a = 1 .. m /\ \A n \in 1 .. m : a[n].seq \in Nat
  BY <1>1, InputFacts
<1>3. PICK u : u = Performed(a)
  OBVIOUS
<1>4. u = [n \in 1 .. m |-> <<"input", a[n].seq>>]
  BY <1>2, <1>3 DEF Performed
<1>5. \A n \in 1 .. m : u[n] = <<"input", a[n].seq>> /\ u[n] \in Tag
  BY <1>2, <1>4 DEF Tag
<1>6. u \in Seq(Tag) /\ Len(u) = m
  BY <1>4, <1>5
<1> QED  BY <1>1, <1>3, <1>5, <1>6

LEMMA MarksFacts ==
    ASSUME NEW k \in Seq(Command), \A n \in 1 .. Len(k) : k[n] \in Lasting
    PROVE  /\ Marks(k) \in Seq(Tag) /\ Len(Marks(k)) = Len(k)
           /\ \A n \in 1 .. Len(k) : Marks(k)[n] = Mark(k[n])
<1>1. PICK m \in Nat : m = Len(k)
  OBVIOUS
<1>2. \A n \in 1 .. m : Mark(k[n]) \in Tag
  BY <1>1, TagFacts
<1>3. PICK u : u = Marks(k)
  OBVIOUS
<1>4. u = [n \in 1 .. m |-> Mark(k[n])]
  BY <1>1, <1>3 DEF Marks
<1>5. u \in Seq(Tag) /\ Len(u) = m
  BY <1>2, <1>4
<1> QED  BY <1>1, <1>3, <1>4, <1>5

\* What is kept of the commands.
Kept(c) == Keep(c, Lasting)

LEMMA KeptFacts ==
    ASSUME NEW c \in Seq(Command)
    PROVE  /\ Kept(c) \in Seq(Command) /\ \A n \in 1 .. Len(Kept(c)) : Kept(c)[n] \in Lasting
           /\ Marks(Kept(c)) \in Seq(Tag)
           /\ (\A n \in 1 .. Len(c) : c[n] \notin Lasting) => Kept(c) = <<>>
<1>1. PICK k : k = Kept(c)
  OBVIOUS
<1>2. k \in Seq(Command) /\ ToSet(k) = ToSet(c) \cap Lasting
  BY <1>1, KeepFacts DEF Kept
<1>3. DOMAIN k = 1 .. Len(k) /\ DOMAIN c = 1 .. Len(c)
  BY <1>2
<1>4. \A n \in 1 .. Len(k) : k[n] \in Lasting /\ k[n] \in ToSet(c)
  BY <1>2, <1>3, InToSet
<1>5. ASSUME \A n \in 1 .. Len(c) : c[n] \notin Lasting
      PROVE  k = <<>>
  <2>1. \A x \in ToSet(c) : x \notin Lasting
    BY <1>3, <1>5, InToSet
  <2>2. \A n \in 1 .. Len(k) : FALSE
    BY <1>4, <2>1
  <2>3. Len(k) \in Nat
    BY <1>2
  <2>4. Len(k) = 0
    BY <2>2, <2>3
  <2> QED  BY <1>2, <2>4
<1>6. Marks(k) \in Seq(Tag)
  BY <1>2, <1>4, MarksFacts
<1> QED  BY <1>1, <1>2, <1>4, <1>5, <1>6

LEMMA MarksAppend ==
    ASSUME NEW k \in Seq(Command), \A n \in 1 .. Len(k) : k[n] \in Lasting, NEW x \in Lasting
    PROVE  Marks(Append(k, x)) = Append(Marks(k), Mark(x))
<1>1. PICK u : u = Append(k, x)
  OBVIOUS
<1>2. PICK m \in Nat : m = Len(k)
  OBVIOUS
<1>3. u \in Seq(Command) /\ Len(u) = m + 1 /\ u[m + 1] = x /\ \A n \in 1 .. m : u[n] = k[n]
  BY <1>1, <1>2, TagFacts
<1>4. \A n \in 1 .. m + 1 : n \in 1 .. m \/ n = m + 1
  OBVIOUS
<1>5. \A n \in 1 .. Len(u) : u[n] \in Lasting
  BY <1>2, <1>3, <1>4
<1>6. PICK v : v = Marks(u)
  OBVIOUS
<1>7. v \in Seq(Tag) /\ Len(v) = m + 1 /\ \A n \in 1 .. m + 1 : v[n] = Mark(u[n])
  BY <1>3, <1>5, <1>6, MarksFacts
<1>8. PICK y : y = Mark(x)
  OBVIOUS
<1>9. PICK p : p = Marks(k)
  OBVIOUS
<1>10. p \in Seq(Tag) /\ Len(p) = m /\ \A n \in 1 .. m : p[n] = Mark(k[n])
  BY <1>2, <1>9, MarksFacts
<1>11. y \in Tag
  BY <1>8, TagFacts
<1>12. PICK w : w = Append(p, y)
  OBVIOUS
<1>13. w \in Seq(Tag) /\ Len(w) = m + 1 /\ w[m + 1] = y /\ \A n \in 1 .. m : w[n] = p[n]
  BY <1>10, <1>11, <1>12
<1>14. \A n \in 1 .. m + 1 : v[n] = w[n]
  BY <1>3, <1>4, <1>7, <1>8, <1>10, <1>13
<1>15. v = w
  BY <1>7, <1>13, <1>14, SeqEqual
<1> QED  BY <1>1, <1>6, <1>8, <1>9, <1>12, <1>15

LEMMA MarksHead ==
    ASSUME NEW k \in Seq(Command), \A n \in 1 .. Len(k) : k[n] \in Lasting, NEW x \in Lasting
    PROVE  Marks(<<x>> \o k) = <<Mark(x)>> \o Marks(k)
<1>1. PICK u : u = <<x>> \o k
  OBVIOUS
<1>2. PICK m \in Nat : m = Len(k)
  OBVIOUS
<1>3. u \in Seq(Command) /\ Len(u) = m + 1 /\ u[1] = x /\ \A n \in 1 .. m : u[n + 1] = k[n]
  BY <1>1, <1>2, TagFacts
<1>4. \A n \in 1 .. m + 1 : n = 1 \/ (n - 1 \in 1 .. m /\ n = (n - 1) + 1)
  OBVIOUS
<1>5. ASSUME NEW n \in 1 .. Len(u)
      PROVE  u[n] \in Lasting
  <2>1. CASE n = 1
    BY <1>3, <2>1
  <2>2. CASE n - 1 \in 1 .. m /\ n = (n - 1) + 1
    <3>1. u[(n - 1) + 1] = k[n - 1] /\ k[n - 1] \in Lasting
      BY <1>2, <1>3, <2>2
    <3> QED  BY <2>2, <3>1
  <2> QED  BY <1>3, <1>4, <2>1, <2>2
<1>6. PICK v : v = Marks(u)
  OBVIOUS
<1>7. v \in Seq(Tag) /\ Len(v) = m + 1 /\ \A n \in 1 .. m + 1 : v[n] = Mark(u[n])
  BY <1>3, <1>5, <1>6, MarksFacts
<1>8. PICK y : y = Mark(x)
  OBVIOUS
<1>9. PICK p : p = Marks(k)
  OBVIOUS
<1>10. p \in Seq(Tag) /\ Len(p) = m /\ \A n \in 1 .. m : p[n] = Mark(k[n])
  BY <1>2, <1>9, MarksFacts
<1>11. y \in Tag
  BY <1>8, TagFacts
<1>12. PICK w : w = <<y>> \o p
  OBVIOUS
<1>13. w \in Seq(Tag) /\ Len(w) = m + 1 /\ w[1] = y /\ \A n \in 1 .. m : w[n + 1] = p[n]
  BY <1>10, <1>11, <1>12
<1>14. ASSUME NEW n \in 1 .. m + 1
       PROVE  v[n] = w[n]
  <2>1. CASE n = 1
    BY <1>3, <1>7, <1>8, <1>13, <2>1
  <2>2. CASE n - 1 \in 1 .. m /\ n = (n - 1) + 1
    <3>1. u[(n - 1) + 1] = k[n - 1] /\ w[(n - 1) + 1] = p[n - 1] /\ p[n - 1] = Mark(k[n - 1])
      BY <1>3, <1>10, <1>13, <2>2
    <3> QED  BY <1>7, <2>2, <3>1
  <2> QED  BY <1>4, <2>1, <2>2
<1>15. v = w
  BY <1>7, <1>13, <1>14, SeqEqual
<1> QED  BY <1>1, <1>6, <1>8, <1>9, <1>12, <1>15

LEMMA PerformedEnds ==
    ASSUME NEW a \in Seq(Input), NEW i \in Input
    PROVE  /\ Performed(Append(a, i)) = Append(Performed(a), <<"input", i.seq>>)
           /\ Performed(<<>>) = <<>>
           /\ a # <<>> => Performed(a) = <<(<<"input", Head(a).seq>>)>> \o Performed(Tail(a))
<1>1. PICK m \in Nat : m = Len(a)
  OBVIOUS
<1>2. PICK p : p = Performed(a)
  OBVIOUS
<1>3. p \in Seq(Tag) /\ Len(p) = m /\ \A n \in 1 .. m : p[n] = <<"input", a[n].seq>>
  BY <1>1, <1>2, PerformedFacts
<1>4. Performed(<<>>) = <<>>
  BY DEF Performed
<1>5. Performed(Append(a, i)) = Append(p, <<"input", i.seq>>)
  <2>1. PICK u : u = Append(a, i)
    OBVIOUS
  <2>2. u \in Seq(Input) /\ Len(u) = m + 1 /\ u[m + 1] = i /\ \A n \in 1 .. m : u[n] = a[n]
    BY <1>1, <2>1
  <2>3. PICK v : v = Performed(u)
    OBVIOUS
  <2>4. v \in Seq(Tag) /\ Len(v) = m + 1 /\ \A n \in 1 .. m + 1 : v[n] = <<"input", u[n].seq>>
    BY <2>2, <2>3, PerformedFacts
  <2>5. PICK y \in Tag : y = <<"input", i.seq>>
    <3>1. i.seq \in Nat
      BY DEF Input
    <3> QED  BY <3>1 DEF Tag
  <2>6. PICK w : w = Append(p, y)
    OBVIOUS
  <2>7. w \in Seq(Tag) /\ Len(w) = m + 1 /\ w[m + 1] = y /\ \A n \in 1 .. m : w[n] = p[n]
    BY <1>3, <2>5, <2>6
  <2>8. \A n \in 1 .. m + 1 : n \in 1 .. m \/ n = m + 1
    OBVIOUS
  <2>9. \A n \in 1 .. m + 1 : v[n] = w[n]
    BY <1>3, <2>2, <2>4, <2>5, <2>7, <2>8
  <2>10. v = w
    BY <2>4, <2>7, <2>9, SeqEqual
  <2> QED  BY <2>1, <2>3, <2>5, <2>6, <2>10
<1>6. ASSUME a # <<>>
      PROVE  Performed(a) = <<(<<"input", Head(a).seq>>)>> \o Performed(Tail(a))
  <2>1. PICK u : u = Tail(a)
    OBVIOUS
  <2>2. /\ u \in Seq(Input) /\ Len(u) = m - 1 /\ m >= 1 /\ Head(a) = a[1]
        /\ \A n \in 1 .. m - 1 : u[n] = a[n + 1]
    BY <1>1, <1>6, <2>1
  <2>3. PICK v : v = Performed(u)
    OBVIOUS
  <2>4. v \in Seq(Tag) /\ Len(v) = m - 1 /\ \A n \in 1 .. m - 1 : v[n] = <<"input", u[n].seq>>
    BY <2>2, <2>3, PerformedFacts
  <2>5. PICK y \in Tag : y = <<"input", a[1].seq>>
    <3>1. a[1].seq \in Nat
      BY <1>1, <2>2, InputFacts
    <3> QED  BY <3>1 DEF Tag
  <2>6. PICK w : w = <<y>> \o v
    OBVIOUS
  <2>7. w \in Seq(Tag) /\ Len(w) = m /\ w[1] = y /\ \A n \in 1 .. m - 1 : w[n + 1] = v[n]
    BY <2>2, <2>4, <2>6
  <2>8. ASSUME NEW n \in 1 .. m
        PROVE  p[n] = w[n]
    <3>1. CASE n = 1
      BY <1>3, <2>2, <2>5, <2>7, <3>1
    <3>2. CASE n # 1
      <4>1. n - 1 \in 1 .. m - 1 /\ n = (n - 1) + 1
        BY <3>2
      <4>2. w[(n - 1) + 1] = v[n - 1] /\ v[n - 1] = <<"input", u[n - 1].seq>> /\ u[n - 1] = a[(n - 1) + 1]
        BY <2>2, <2>4, <2>7, <4>1
      <4> QED  BY <1>3, <4>1, <4>2
    <3> QED  BY <3>1, <3>2
  <2>9. p = w
    BY <1>3, <2>7, <2>8, SeqEqual
  <2> QED  BY <1>2, <2>1, <2>2, <2>3, <2>5, <2>6, <2>9
<1> QED  BY <1>2, <1>4, <1>5, <1>6

\* Appending to the end of a concatenation, and moving its middle to the left.
Regroups(s, t, u, y) ==
    /\ s \o (t \o Append(u, y)) = Append(s \o (t \o u), y)
    /\ s \o ((<<y>> \o t) \o u) = Append(s, y) \o (t \o u)
    /\ s \o (t \o u) = (s \o t) \o (<<>> \o u)

LEMMA Regroup ==
    ASSUME NEW T, NEW s \in Seq(T), NEW t \in Seq(T), NEW u \in Seq(T), NEW y \in T
    PROVE  Regroups(s, t, u, y)
<1>1. PICK v : v = <<y>>
  OBVIOUS
<1>2. v \in Seq(T)
  BY <1>1
<1>3. \A r \in Seq(T) : Append(r, y) = r \o v
  <2> TAKE r \in Seq(T)
  <2> QED  BY <1>1
<1>4. t \o u \in Seq(T) /\ s \o (t \o u) \in Seq(T) /\ s \o t \in Seq(T)
  <2>1. t \o u \in Seq(T) /\ s \o t \in Seq(T)
    BY ConcatProperties
  <2> QED  BY <2>1, ConcatProperties
<1>5. Append(u, y) = u \o v /\ Append(s \o (t \o u), y) = (s \o (t \o u)) \o v /\ Append(s, y) = s \o v
  BY <1>3, <1>4
<1>6. s \o (t \o (u \o v)) = (s \o (t \o u)) \o v
  <2>1. t \o (u \o v) = (t \o u) \o v
    BY <1>2, ConcatAssociative
  <2>2. s \o ((t \o u) \o v) = (s \o (t \o u)) \o v
    BY <1>2, <1>4, ConcatAssociative
  <2> QED  BY <2>1, <2>2
<1>7. s \o ((v \o t) \o u) = (s \o v) \o (t \o u)
  <2>1. (v \o t) \o u = v \o (t \o u)
    BY <1>2, ConcatAssociative
  <2>2. PICK r \in Seq(T) : r = t \o u
    BY <1>4
  <2>3. (s \o v) \o r = s \o (v \o r)
    BY <1>2, ConcatAssociative
  <2> QED  BY <2>1, <2>2, <2>3
<1>8. s \o (t \o u) = (s \o t) \o (<<>> \o u)
  <2>1. <<>> \o u = u
    BY ConcatEmptySeq
  <2>2. (s \o t) \o u = s \o (t \o u)
    BY ConcatAssociative
  <2> QED  BY <2>1, <2>2
<1> QED  BY <1>1, <1>5, <1>6, <1>7, <1>8 DEF Regroups

LEMMA OrderAppends ==
    ASSUME NEW w \in Seq(Tag), NEW e \in Seq(Tag), NEW a \in Seq(Input), NEW c \in Seq(Command),
           NEW x \in Command, Order(w, e, a, c)
    PROVE  /\ x \in Lasting => Order(Append(w, Mark(x)), e, a, Append(c, x))
           /\ x \notin Lasting => Order(w, e, a, Append(c, x))
<1>1. Keep(Append(c, x), Lasting) = IF x \in Lasting THEN Append(Kept(c), x) ELSE Kept(c)
  BY KeepAppend DEF Kept
<1>2. CASE x \in Lasting
  <2>1. Marks(Append(Kept(c), x)) = Append(Marks(Kept(c)), Mark(x))
    BY <1>2, KeptFacts, MarksAppend
  <2>2. Marks(Kept(c)) \in Seq(Tag) /\ Performed(a) \in Seq(Tag) /\ Mark(x) \in Tag
    BY <1>2, KeptFacts, PerformedFacts, TagFacts
  <2>3. w = e \o (Performed(a) \o Marks(Kept(c)))
    BY DEF Order, Kept
  <2>4. e \o (Performed(a) \o Append(Marks(Kept(c)), Mark(x))) = Append(w, Mark(x))
    <3>1. Regroups(e, Performed(a), Marks(Kept(c)), Mark(x))
      BY <2>2, Regroup, Zenon
    <3> QED  BY <2>3, <3>1 DEF Regroups
  <2>5. Marks(Keep(Append(c, x), Lasting)) = Append(Marks(Kept(c)), Mark(x))
    BY <1>1, <1>2, <2>1
  <2> QED  BY <1>2, <2>4, <2>5 DEF Order
<1>3. CASE x \notin Lasting
  BY <1>1, <1>3 DEF Order, Kept
<1> QED  BY <1>2, <1>3

\* An input is accepted behind commands that are all accepted inputs.
LEMMA OrderAccepts ==
    ASSUME NEW w \in Seq(Tag), NEW e \in Seq(Tag), NEW a \in Seq(Input), NEW c \in Seq(Command),
           NEW x \in Command, NEW i \in Input, Order(w, e, a, c), x \notin Lasting,
           \A n \in 1 .. Len(c) : c[n] \notin Lasting
    PROVE  Order(Append(w, <<"input", i.seq>>), e, Append(a, i), Append(c, x))
<1>1. Keep(Append(c, x), Lasting) = <<>> /\ Keep(c, Lasting) = <<>>
  BY KeepAppend, KeptFacts DEF Kept
<1>2. Marks(<<>>) = <<>>
  BY DEF Marks
<1>3. PICK p : p = Performed(a)
  OBVIOUS
<1>4. p \in Seq(Tag) /\ w = e \o (p \o <<>>)
  BY <1>1, <1>2, <1>3, PerformedFacts DEF Order
<1>5. PICK y \in Tag : y = <<"input", i.seq>>
  <2>1. i.seq \in Nat
    BY DEF Input
  <2> QED  BY <2>1 DEF Tag
<1>6. Performed(Append(a, i)) = Append(p, y)
  BY <1>3, <1>5, PerformedEnds
<1>7. Append(p, y) \in Seq(Tag) /\ <<>> \in Seq(Tag)
  BY <1>4, <1>5
<1>8. Append(p, y) \o <<>> = Append(p, y) /\ p \o <<>> = p
  BY <1>4, <1>7, ConcatEmptySeq
<1>9. e \o (<<>> \o Append(p, y)) = Append(e \o (<<>> \o p), y) /\ <<>> \o Append(p, y) = Append(p, y) /\ <<>> \o p = p
  <2>1. Regroups(e, <<>>, p, y)
    BY <1>4, <1>5, <1>7, Regroup, Zenon
  <2>2. <<>> \o Append(p, y) = Append(p, y) /\ <<>> \o p = p
    BY <1>4, <1>7, ConcatEmptySeq
  <2> QED  BY <2>1, <2>2 DEF Regroups
<1> QED  BY <1>1, <1>2, <1>4, <1>5, <1>6, <1>8, <1>9 DEF Order

\* The first input, or all of them, are performed.
LEMMA OrderPerforms ==
    ASSUME NEW w \in Seq(Tag), NEW e \in Seq(Tag), NEW a \in Seq(Input), NEW c \in Seq(Command),
           Order(w, e, a, c)
    PROVE  /\ a # <<>> => Order(w, Append(e, <<"input", Head(a).seq>>), Tail(a), c)
           /\ Order(w, e \o Performed(a), <<>>, c)
<1>1. PICK k : k = Marks(Keep(c, Lasting))
  OBVIOUS
<1>2. k \in Seq(Tag)
  BY <1>1, KeptFacts DEF Kept
<1>3. w = e \o (Performed(a) \o k)
  BY <1>1 DEF Order
<1>4. Performed(<<>>) = <<>>
  BY DEF Performed
<1>5. e \o (Performed(a) \o k) = (e \o Performed(a)) \o (<<>> \o k)
  <2>1. Performed(a) \in Seq(Tag) /\ <<"input", 0>> \in Tag
    BY PerformedFacts DEF Tag
  <2>2. Regroups(e, Performed(a), k, <<"input", 0>>)
    BY <1>2, <2>1, Regroup, Zenon
  <2> QED  BY <2>2 DEF Regroups
<1>6. Order(w, e \o Performed(a), <<>>, c)
  BY <1>1, <1>3, <1>4, <1>5 DEF Order
<1>7. ASSUME a # <<>>
      PROVE  Order(w, Append(e, <<"input", Head(a).seq>>), Tail(a), c)
  <2>1. PICK y \in Tag : y = <<"input", Head(a).seq>>
    <3>1. Head(a) \in Input
      BY <1>7
    <3>2. Head(a).seq \in Nat
      BY <3>1 DEF Input
    <3> QED  BY <3>2 DEF Tag
  <2>2. PICK p : p = Performed(Tail(a))
    OBVIOUS
  <2>3. Tail(a) \in Seq(Input)
    BY <1>7
  <2>4. p \in Seq(Tag)
    <3>1. PICK b \in Seq(Input) : b = Tail(a)
      BY <2>3
    <3> QED  BY <2>2, <3>1, PerformedFacts
  <2>5. Performed(a) = <<y>> \o p
    <3>1. Head(a) \in Input
      BY <1>7
    <3> QED  BY <1>7, <2>1, <2>2, <3>1, PerformedEnds
  <2>6. e \o ((<<y>> \o p) \o k) = Append(e, y) \o (p \o k)
    <3>1. Regroups(e, p, k, y)
      BY <1>2, <2>4, Regroup, Zenon
    <3> QED  BY <3>1 DEF Regroups
  <2> QED  BY <1>1, <1>3, <2>1, <2>2, <2>5, <2>6 DEF Order
<1> QED  BY <1>6, <1>7

\* The first command is taken from the queue.
LEMMA OrderTakes ==
    ASSUME NEW w \in Seq(Tag), NEW e \in Seq(Tag), NEW a \in Seq(Input), NEW c \in Seq(Command),
           c # <<>>, Order(w, e, a, c)
    PROVE  /\ c[1] \notin Lasting => Order(w, e, a, Tail(c))
           /\ c[1] \in Lasting /\ a = <<>> => Order(w, Append(e, Mark(c[1])), a, Tail(c))
<1>1. Head(c) = c[1] /\ Tail(c) \in Seq(Command)
  OBVIOUS
<1>2. Kept(c) = IF c[1] \in Lasting THEN <<c[1]>> \o Kept(Tail(c)) ELSE Kept(Tail(c))
  BY <1>1, KeepTail DEF Kept
<1>3. CASE c[1] \notin Lasting
  BY <1>2, <1>3 DEF Order, Kept
<1>4. CASE c[1] \in Lasting /\ a = <<>>
  <2>1. PICK y : y = Mark(c[1])
    OBVIOUS
  <2>2. PICK k : k = Marks(Kept(Tail(c)))
    OBVIOUS
  <2>3. y \in Tag /\ k \in Seq(Tag)
    BY <1>1, <1>4, <2>1, <2>2, TagFacts, KeptFacts
  <2>4. Marks(Kept(c)) = <<y>> \o k
    BY <1>1, <1>2, <1>4, <2>1, <2>2, KeptFacts, MarksHead
  <2>5. Performed(<<>>) = <<>>
    BY DEF Performed
  <2>6. w = e \o (<<>> \o (<<y>> \o k))
    BY <1>4, <2>4, <2>5 DEF Order, Kept
  <2>7. <<y>> \in Seq(Tag) /\ <<>> \in Seq(Tag)
    BY <2>3
  <2>8. <<y>> \o k \in Seq(Tag)
    BY <2>3, <2>7, ConcatProperties
  <2>9. <<>> \o (<<y>> \o k) = <<y>> \o k /\ <<>> \o k = k /\ <<y>> \o <<>> = <<y>>
    BY <2>3, <2>7, <2>8, ConcatEmptySeq
  <2>10. e \o ((<<y>> \o <<>>) \o k) = Append(e, y) \o (<<>> \o k)
    <3>1. Regroups(e, <<>>, k, y)
      BY <2>3, <2>7, Regroup, Zenon
    <3> QED  BY <3>1 DEF Regroups
  <2>11. w = Append(e, y) \o (<<>> \o k)
    BY <2>6, <2>9, <2>10
  <2> QED  BY <1>4, <2>1, <2>2, <2>5, <2>11 DEF Order, Kept
<1> QED  BY <1>3, <1>4

LEMMA OrderPrefix ==
    ASSUME NEW w \in Seq(Tag), NEW e \in Seq(Tag), NEW a \in Seq(Input), NEW c \in Seq(Command),
           Order(w, e, a, c)
    PROVE  IsPrefix(e, w)
<1>1. PICK t : t = Performed(a) \o Marks(Keep(c, Lasting))
  OBVIOUS
<1>2. t \in Seq(Tag)
  BY <1>1, PerformedFacts, KeptFacts, ConcatProperties DEF Kept
<1>3. w = e \o t
  BY <1>1 DEF Order
<1>4. PICK m \in Nat : m = Len(e)
  OBVIOUS
<1>5. m <= Len(w) /\ \A n \in 1 .. m : w[n] = e[n]
  BY <1>2, <1>3, <1>4
<1>6. SubSeq(e, 1, m) = SubSeq(w, 1, m)
  <2>1. PICK u : u = SubSeq(e, 1, m)
    OBVIOUS
  <2>2. PICK v : v = SubSeq(w, 1, m)
    OBVIOUS
  <2>3. u \in Seq(Tag) /\ Len(u) = m /\ \A n \in 1 .. m : u[n] = e[n]
    BY <1>4, <2>1
  <2>4. v \in Seq(Tag) /\ Len(v) = m /\ \A n \in 1 .. m : v[n] = w[n]
    BY <1>4, <1>5, <2>2
  <2>5. u = v
    BY <1>5, <2>3, <2>4, SeqEqual
  <2> QED  BY <2>1, <2>2, <2>5
<1> QED  BY <1>4, <1>5, <1>6 DEF IsPrefix

-----------------------------------------------------------------------------
(* The queue of commands. *)

LEMMA CommandFacts ==
    ASSUME NEW x \in Command
    PROVE  /\ x.kind \in {"accepted", "fallback", "canonical"}
           /\ x.kind = "accepted" => x.input \in Input /\ x \notin Lasting
           /\ x.kind = "fallback" => x.after \in Maybe(Nat) /\ x.ticket \in Maybe(Nat)
           /\ x.kind = "canonical" => x.id \in Nat /\ x \in Lasting
           /\ Ticketed(x) => x.ticket \in Nat /\ x \in Lasting /\ x.kind = "fallback"
           /\ x.kind = "fallback" /\ ~Ticketed(x) => x \notin Lasting
  BY DEF Command, Accepted, Fallback, Canonical, Lasting, Ticketed, Maybe

\* The command x may follow the others, when the last ticket becomes `ticket2`.
Follower(x, last, ticket, ticket2, out) ==
    /\ x.kind # "accepted"
    /\ x.kind = "fallback" =>
          /\ x.after # None => x.after <= last
          /\ x.ticket = None => out
          /\ x.ticket # None => ticket < x.ticket /\ x.ticket <= ticket2

LEMMA QueueAppends ==
    ASSUME NEW c \in Seq(Command), NEW q \in Seq(Input), NEW last \in Nat, NEW ticket \in Nat,
           NEW out \in BOOLEAN, NEW done \in Nat, Queue(c, q, last, ticket, out, done),
           NEW x \in Command, NEW ticket2 \in Nat, NEW out2 \in BOOLEAN, ticket <= ticket2, out => out2,
           done <= ticket, Follower(x, last, ticket, ticket2, out2)
    PROVE  Queue(Append(c, x), q, last, ticket2, out2, done)
<1>1. PICK m \in Nat, l \in Nat : m = Len(c) /\ l = Len(q)
  OBVIOUS
<1>2. PICK d : d = Append(c, x)
  OBVIOUS
<1>3. /\ d \in Seq(Command) /\ Len(d) = m + 1 /\ d[m + 1] = x
      /\ \A n \in 1 .. m : d[n] = c[n] /\ c[n] \in Command
  BY <1>1, <1>2
<1>4. \A n \in 1 .. m + 1 : n \in 1 .. m \/ n = m + 1
  OBVIOUS
<1>5. l <= m /\ \A n \in 1 .. l : n \in 1 .. m /\ d[n] = [kind |-> "accepted", input |-> q[n]]
  BY <1>1, <1>3 DEF Queue
<1>6. \A n \in l + 1 .. m + 1 : d[n].kind # "accepted"
  <2> TAKE n \in l + 1 .. m + 1
  <2>1. CASE n = m + 1
    BY <1>3, <2>1 DEF Follower
  <2>2. CASE n # m + 1
    BY <1>1, <1>3, <2>2 DEF Queue
  <2> QED  BY <2>1, <2>2
<1>7. ASSUME NEW n \in 1 .. m + 1, d[n].kind = "fallback"
      PROVE  /\ d[n].after # None => d[n].after <= last
             /\ d[n].ticket = None => out2
             /\ d[n].ticket # None => done < d[n].ticket /\ d[n].ticket <= ticket2
  <2>1. CASE n = m + 1
    <3>1. x.kind = "fallback" /\ x.ticket \in Maybe(Nat)
      BY <1>3, <1>7, <2>1, CommandFacts
    <3> QED  BY <1>3, <2>1, <3>1 DEF Follower, Maybe
  <2>2. CASE n # m + 1
    <3>1. n \in 1 .. Len(c) /\ d[n] = c[n] /\ c[n].kind = "fallback" /\ c[n].ticket \in Maybe(Nat)
      BY <1>1, <1>3, <1>7, <2>2, CommandFacts
    <3>2. /\ c[n].after # None => c[n].after <= last
          /\ c[n].ticket = None => out
          /\ c[n].ticket # None => done < c[n].ticket /\ c[n].ticket <= ticket
      BY <3>1 DEF Queue
    <3> QED  BY <3>1, <3>2 DEF Maybe
  <2> QED  BY <2>1, <2>2
<1>8. ASSUME NEW i \in 1 .. m + 1, NEW j \in 1 .. m + 1, i < j, Ticketed(d[i]), Ticketed(d[j])
      PROVE  d[i].ticket < d[j].ticket
  <2>1. i \in 1 .. m /\ i \in 1 .. Len(c) /\ d[i] = c[i] /\ Ticketed(c[i])
    BY <1>1, <1>3, <1>8
  <2>2. CASE j = m + 1
    <3>0. c[i] \in Command
      BY <1>3, <2>1
    <3>1. c[i].kind = "fallback" /\ c[i].ticket # None /\ c[i].ticket \in Nat
      BY <2>1, <3>0, CommandFacts DEF Ticketed
    <3>2. c[i].ticket <= ticket
      BY <2>1, <3>1 DEF Queue
    <3>3. x.ticket \in Nat /\ x.kind = "fallback" /\ x.ticket # None
      BY <1>3, <1>8, <2>2, CommandFacts DEF Ticketed
    <3> QED  BY <1>3, <2>1, <2>2, <3>1, <3>2, <3>3 DEF Follower
  <2>3. CASE j # m + 1
    <3>1. j \in 1 .. Len(c) /\ d[j] = c[j] /\ Ticketed(c[j])
      BY <1>1, <1>3, <1>8, <2>3
    <3> QED  BY <1>8, <2>1, <3>1 DEF Queue
  <2> QED  BY <2>2, <2>3
<1>9. Queue(d, q, last, ticket2, out2, done)
  BY <1>1, <1>3, <1>5, <1>6, <1>7, <1>8 DEF Queue
<1> QED  BY <1>2, <1>9

LEMMA TurnAppends ==
    ASSUME NEW c \in Seq(Command), NEW run, Turn(c, run), NEW x
    PROVE  Turn(Append(c, x), run)
<1>1. c # <<>> => Append(c, x) # <<>> /\ Append(c, x)[1] = c[1]
  OBVIOUS
<1> QED  BY <1>1 DEF Turn

LEMMA AccountedAppends ==
    ASSUME NEW c \in Seq(Command), NEW ticket \in Nat, NEW ticket2 \in Nat, NEW done \in Nat,
           Accounted(c, ticket, done), NEW x \in Command,
           ticket2 = ticket \/ (Ticketed(x) /\ x.ticket = ticket + 1 /\ ticket2 = ticket + 1)
    PROVE  Accounted(Append(c, x), ticket2, done)
<1>1. PICK m \in Nat : m = Len(c)
  OBVIOUS
<1>2. PICK d : d = Append(c, x)
  OBVIOUS
<1>3. /\ d \in Seq(Command) /\ Len(d) = m + 1 /\ d[m + 1] = x
      /\ \A n \in 1 .. m : d[n] = c[n] /\ n \in 1 .. m + 1
  BY <1>1, <1>2
<1>4. ASSUME NEW k \in done + 1 .. ticket2
      PROVE  \E n \in 1 .. m + 1 : Ticketed(d[n]) /\ d[n].ticket = k
  <2>1. CASE k \in done + 1 .. ticket
    <3>1. PICK n \in 1 .. m : Ticketed(c[n]) /\ c[n].ticket = k
      BY <1>1, <2>1 DEF Accounted
    <3> QED  BY <1>3, <3>1
  <2>2. CASE k \notin done + 1 .. ticket
    <3>1. Ticketed(x) /\ x.ticket = k /\ m + 1 \in 1 .. m + 1
      BY <2>2
    <3> QED  BY <1>3, <3>1
  <2> QED  BY <2>1, <2>2
<1> QED  BY <1>2, <1>3, <1>4 DEF Accounted

\* No fallback and no canonical command is queued: an input is accepted.
LEMMA QueueAccepts ==
    ASSUME NEW c \in Seq(Command), NEW q \in Seq(Input), NEW last \in Nat, NEW ticket \in Nat,
           NEW done \in Nat, Queue(c, q, last, ticket, FALSE, done), ticket <= done,
           NoCanonical(c), NEW i \in Input, NEW x, x = [kind |-> "accepted", input |-> i]
    PROVE  /\ \A n \in 1 .. Len(c) : c[n] \notin Lasting
           /\ x \in Command /\ x \notin Lasting
           /\ Queue(Append(c, x), Append(q, i), last + 1, ticket, FALSE, done)
<1>1. PICK m \in Nat, l \in Nat : m = Len(c) /\ l = Len(q)
  OBVIOUS
<1>2. ASSUME NEW n \in 1 .. m
      PROVE  c[n].kind = "accepted" /\ c[n] \in Command
  <2>1. c[n] \in Command /\ n \in 1 .. Len(c)
    BY <1>1
  <2>2. c[n].kind # "canonical"
    BY <2>1 DEF NoCanonical
  <2>3. c[n].kind # "fallback"
    <3> SUFFICES ASSUME c[n].kind = "fallback"
                 PROVE  FALSE
      OBVIOUS
    <3>1. c[n].ticket \in Nat /\ done < c[n].ticket /\ c[n].ticket <= ticket
      BY <2>1, CommandFacts DEF Queue, Maybe
    <3> QED  BY <3>1
  <2> QED  BY <2>1, <2>2, <2>3, CommandFacts
<1>3. \A n \in 1 .. m : c[n] \notin Lasting
  BY <1>2, CommandFacts
<1>4. l = m
  <2>1. l <= m /\ \A n \in l + 1 .. m : c[n].kind # "accepted"
    BY <1>1 DEF Queue
  <2>2. ASSUME l < m
        PROVE  FALSE
    <3>1. l + 1 \in l + 1 .. m /\ l + 1 \in 1 .. m
      BY <2>2
    <3> QED  BY <1>2, <2>1, <3>1
  <2> QED  BY <2>1, <2>2
<1>5. x \in Command /\ x \notin Lasting /\ x.kind = "accepted"
  <2>1. x \in Accepted
    BY DEF Accepted
  <2>2. x \in Command /\ x.kind = "accepted"
    BY <2>1 DEF Command, Accepted
  <2> QED  BY <2>2, CommandFacts
<1>6. PICK d : d = Append(c, x)
  OBVIOUS
<1>7. PICK p : p = Append(q, i)
  OBVIOUS
<1>8. d \in Seq(Command) /\ Len(d) = m + 1 /\ d[m + 1] = x /\ \A n \in 1 .. m : d[n] = c[n]
  BY <1>1, <1>5, <1>6
<1>9. p \in Seq(Input) /\ Len(p) = m + 1 /\ p[m + 1] = i /\ \A n \in 1 .. m : p[n] = q[n]
  <2>1. q \in Seq(Input) /\ m = Len(q) /\ i \in Input
    BY <1>1, <1>4
  <2> QED  BY ONLY <1>7, <2>1, m \in Nat
<1>10. ASSUME NEW n \in 1 .. m + 1
       PROVE  d[n] = [kind |-> "accepted", input |-> p[n]] /\ d[n].kind = "accepted"
  <2>1. CASE n = m + 1
    BY <1>5, <1>8, <1>9, <2>1
  <2>2. CASE n # m + 1
    <3>1. n \in 1 .. m /\ n \in 1 .. Len(q)
      BY <1>1, <1>4, <2>2
    <3> QED  BY <1>2, <1>8, <1>9, <3>1 DEF Queue
  <2> QED  BY <2>1, <2>2
<1>11. \A n \in 1 .. m + 1 : d[n].kind # "fallback" /\ ~Ticketed(d[n])
  BY <1>10 DEF Ticketed
<1>12. Queue(d, p, last + 1, ticket, FALSE, done)
  BY <1>8, <1>9, <1>10, <1>11 DEF Queue
<1> QED  BY <1>1, <1>3, <1>5, <1>6, <1>7, <1>12

\* The accepted input at the head of the queue is taken.
LEMMA QueueTakes ==
    ASSUME NEW c \in Seq(Command), NEW q \in Seq(Input), NEW last \in Nat, NEW ticket \in Nat,
           NEW out \in BOOLEAN, NEW done \in Nat, Queue(c, q, last, ticket, out, done),
           c # <<>>, c[1].kind = "accepted"
    PROVE  /\ q # <<>> /\ c[1].input = q[1] /\ q[1] \in Input
           /\ Queue(Tail(c), Tail(q), last, ticket, out, done)
<1>1. PICK m \in Nat, l \in Nat : m = Len(c) /\ l = Len(q)
  OBVIOUS
<1>2. m >= 1 /\ 1 \in 1 .. m
  BY <1>1
<1>3. l # 0
  <2> SUFFICES ASSUME l = 0
               PROVE  FALSE
    OBVIOUS
  <2>1. 1 \in Len(q) + 1 .. Len(c)
    BY <1>1, <1>2
  <2> QED  BY <2>1 DEF Queue
<1>4. q # <<>> /\ q[1] \in Input /\ 1 \in 1 .. Len(q)
  BY <1>1, <1>3
<1>5. c[1].input = q[1]
  <2>1. c[1] = [kind |-> "accepted", input |-> q[1]]
    BY <1>4 DEF Queue
  <2> QED  BY <2>1
<1>6. PICK d : d = Tail(c)
  OBVIOUS
<1>7. PICK p : p = Tail(q)
  OBVIOUS
<1>8. d \in Seq(Command) /\ Len(d) = m - 1 /\ \A n \in 1 .. m - 1 : d[n] = c[n + 1] /\ n + 1 \in 1 .. m
  BY <1>1, <1>2, <1>6
<1>9. p \in Seq(Input) /\ Len(p) = l - 1 /\ \A n \in 1 .. l - 1 : p[n] = q[n + 1] /\ n + 1 \in 1 .. l
  BY <1>1, <1>3, <1>4, <1>7
<1>10. l - 1 <= m - 1 /\ \A n \in 1 .. l - 1 : n \in 1 .. m - 1 /\ d[n] = [kind |-> "accepted", input |-> p[n]]
  <2>1. l <= m
    BY <1>1 DEF Queue
  <2>2. \A n \in 1 .. l : c[n] = [kind |-> "accepted", input |-> q[n]]
    BY <1>1 DEF Queue
  <2>3. ASSUME NEW n \in 1 .. l - 1
        PROVE  n \in 1 .. m - 1 /\ d[n] = [kind |-> "accepted", input |-> p[n]]
    <3>1. n \in 1 .. m - 1 /\ n + 1 \in 1 .. l
      BY <2>1
    <3>2. c[n + 1] = [kind |-> "accepted", input |-> q[n + 1]]
      BY <2>2, <3>1
    <3>3. d[n] = c[n + 1] /\ p[n] = q[n + 1]
      BY <1>8, <1>9, <3>1
    <3> QED  BY <3>1, <3>2, <3>3
  <2> QED  BY <2>1, <2>3
<1>11. \A n \in (l - 1) + 1 .. m - 1 : d[n].kind # "accepted"
  <2> TAKE n \in (l - 1) + 1 .. m - 1
  <2>1. n + 1 \in Len(q) + 1 .. Len(c) /\ n \in 1 .. m - 1
    BY <1>1, <1>3
  <2> QED  BY <1>8, <2>1 DEF Queue
<1>12. ASSUME NEW n \in 1 .. m - 1, d[n].kind = "fallback"
       PROVE  /\ d[n].after # None => d[n].after <= last
              /\ d[n].ticket = None => out
              /\ d[n].ticket # None => done < d[n].ticket /\ d[n].ticket <= ticket
  <2>1. n + 1 \in 1 .. Len(c) /\ d[n] = c[n + 1]
    BY <1>1, <1>8
  <2> QED  BY <1>12, <2>1 DEF Queue
<1>13. ASSUME NEW i \in 1 .. m - 1, NEW j \in 1 .. m - 1, i < j, Ticketed(d[i]), Ticketed(d[j])
       PROVE  d[i].ticket < d[j].ticket
  <2>1. i + 1 \in 1 .. Len(c) /\ d[i] = c[i + 1] /\ j + 1 \in 1 .. Len(c) /\ d[j] = c[j + 1] /\ i + 1 < j + 1
    BY <1>1, <1>8, <1>13
  <2> QED  BY <1>13, <2>1 DEF Queue
<1>14. Queue(d, p, last, ticket, out, done)
  BY <1>8, <1>9, <1>10, <1>11, <1>12, <1>13 DEF Queue
<1> QED  BY <1>4, <1>5, <1>6, <1>7, <1>14

\* Any other command at the head is dropped, or done.
LEMMA QueueDrops ==
    ASSUME NEW c \in Seq(Command), NEW q \in Seq(Input), NEW last \in Nat, NEW ticket \in Nat,
           NEW out \in BOOLEAN, NEW done \in Nat, Queue(c, q, last, ticket, out, done),
           c # <<>>, c[1].kind # "accepted", NEW done2 \in Nat,
           done2 = done \/ (Ticketed(c[1]) /\ done2 = c[1].ticket)
    PROVE  q = <<>> /\ Queue(Tail(c), q, last, ticket, out, done2)
<1>1. PICK m \in Nat, l \in Nat : m = Len(c) /\ l = Len(q)
  OBVIOUS
<1>2. m >= 1 /\ 1 \in 1 .. m
  BY <1>1
<1>3. l = 0
  <2> SUFFICES ASSUME l # 0
               PROVE  FALSE
    OBVIOUS
  <2>1. 1 \in 1 .. Len(q)
    BY <1>1
  <2>2. c[1] = [kind |-> "accepted", input |-> q[1]]
    BY <2>1 DEF Queue
  <2> QED  BY <2>2
<1>4. q = <<>>
  <2>1. q \in Seq(Input) /\ Len(q) = 0
    BY <1>1, <1>3
  <2> QED  BY ONLY <2>1
<1>5. PICK d : d = Tail(c)
  OBVIOUS
<1>6. /\ d \in Seq(Command) /\ Len(d) = m - 1
      /\ \A n \in 1 .. m - 1 : d[n] = c[n + 1] /\ n + 1 \in 1 .. m /\ c[n + 1] \in Command
  BY <1>1, <1>2, <1>5
<1>7. \A n \in 1 .. m - 1 : d[n].kind # "accepted"
  <2> TAKE n \in 1 .. m - 1
  <2>1. n + 1 \in Len(q) + 1 .. Len(c)
    BY <1>1, <1>3
  <2> QED  BY <1>6, <2>1 DEF Queue
<1>8. ASSUME NEW n \in 1 .. m - 1, d[n].kind = "fallback"
      PROVE  /\ d[n].after # None => d[n].after <= last
             /\ d[n].ticket = None => out
             /\ d[n].ticket # None => done2 < d[n].ticket /\ d[n].ticket <= ticket
  <2>1. n + 1 \in 1 .. Len(c) /\ d[n] = c[n + 1] /\ 1 < n + 1 /\ 1 \in 1 .. Len(c)
    BY <1>1, <1>6, <1>2
  <2>2. /\ d[n].after # None => d[n].after <= last
        /\ d[n].ticket = None => out
        /\ d[n].ticket # None => done < d[n].ticket /\ d[n].ticket <= ticket
    BY <1>8, <2>1 DEF Queue
  <2>3. ASSUME d[n].ticket # None, Ticketed(c[1]), done2 = c[1].ticket
        PROVE  done2 < d[n].ticket
    <3>1. Ticketed(c[n + 1])
      BY <1>8, <2>1, <2>3 DEF Ticketed
    <3> QED  BY <2>1, <2>3, <3>1 DEF Queue
  <2> QED  BY <2>2, <2>3
<1>9. ASSUME NEW i \in 1 .. m - 1, NEW j \in 1 .. m - 1, i < j, Ticketed(d[i]), Ticketed(d[j])
      PROVE  d[i].ticket < d[j].ticket
  <2>1. i + 1 \in 1 .. Len(c) /\ d[i] = c[i + 1] /\ j + 1 \in 1 .. Len(c) /\ d[j] = c[j + 1] /\ i + 1 < j + 1
    BY <1>1, <1>6, <1>9
  <2> QED  BY <1>9, <2>1 DEF Queue
<1>10. Len(q) = 0 /\ 0 <= m - 1
  BY <1>1, <1>2, <1>3
<1>11. Queue(d, q, last, ticket, out, done2)
  BY <1>1, <1>2, <1>6, <1>7, <1>8, <1>9, <1>10 DEF Queue
<1> QED  BY <1>4, <1>5, <1>11

LEMMA AccountedDrops ==
    ASSUME NEW c \in Seq(Command), NEW q \in Seq(Input), NEW last \in Nat, NEW ticket \in Nat,
           NEW out \in BOOLEAN, NEW done \in Nat, Queue(c, q, last, ticket, out, done),
           Accounted(c, ticket, done), c # <<>>
    PROVE  /\ ~Ticketed(c[1]) => Accounted(Tail(c), ticket, done)
           /\ Ticketed(c[1]) => c[1].ticket = done + 1 /\ Accounted(Tail(c), ticket, c[1].ticket)
<1>1. PICK m \in Nat : m = Len(c)
  OBVIOUS
<1>2. PICK d : d = Tail(c)
  OBVIOUS
<1>3. /\ Len(d) = m - 1 /\ 1 \in 1 .. m
      /\ \A n \in 1 .. m - 1 : d[n] = c[n + 1]
  BY <1>1, <1>2
<1>4. \A n \in 1 .. m : n = 1 \/ (n - 1 \in 1 .. m - 1 /\ d[n - 1] = c[n])
  <2> TAKE n \in 1 .. m
  <2>1. CASE n # 1
    <3>1. n - 1 \in 1 .. m - 1 /\ (n - 1) + 1 = n
      BY <2>1
    <3>2. d[n - 1] = c[(n - 1) + 1]
      BY <1>3, <3>1
    <3> QED  BY <3>1, <3>2
  <2> QED  BY <2>1
<1>5. \A k \in done + 1 .. ticket : \E n \in 1 .. m : Ticketed(c[n]) /\ c[n].ticket = k
  BY <1>1 DEF Accounted
<1>6. ASSUME NEW done2 \in Nat, done <= done2,
             Ticketed(c[1]) => c[1].ticket <= done2
      PROVE  Accounted(d, ticket, done2)
  <2> SUFFICES ASSUME NEW k \in done2 + 1 .. ticket
               PROVE  \E n \in 1 .. Len(d) : Ticketed(d[n]) /\ d[n].ticket = k
    BY DEF Accounted
  <2>1. k \in done + 1 .. ticket
    BY <1>6
  <2>2. PICK n \in 1 .. m : Ticketed(c[n]) /\ c[n].ticket = k
    BY <1>5, <2>1
  <2>3. n # 1
    BY <1>6, <2>2
  <2>4. n - 1 \in 1 .. Len(d) /\ d[n - 1] = c[n]
    BY <1>3, <1>4, <2>3
  <2> QED  BY <2>2, <2>4
<1>7. ASSUME Ticketed(c[1])
      PROVE  c[1].ticket = done + 1
  <2>0. c[1] \in Command
    BY <1>1, <1>3
  <2>1. c[1].ticket \in Nat /\ c[1].kind = "fallback" /\ c[1].ticket # None
    BY <1>7, <2>0, CommandFacts DEF Ticketed
  <2>2. done < c[1].ticket /\ c[1].ticket <= ticket
    BY <1>1, <1>3, <2>1 DEF Queue
  <2>3. done + 1 \in done + 1 .. ticket
    BY <2>1, <2>2
  <2>4. PICK n \in 1 .. m : Ticketed(c[n]) /\ c[n].ticket = done + 1
    BY <1>5, <2>3
  <2>5. CASE n # 1
    <3>1. c[1].ticket < c[n].ticket
      BY <1>1, <1>3, <1>7, <2>4, <2>5 DEF Queue
    <3> QED  BY <2>1, <2>2, <2>4, <3>1
  <2> QED  BY <2>4, <2>5
<1>8. CASE ~Ticketed(c[1])
  BY <1>2, <1>6, <1>8
<1>9. CASE Ticketed(c[1])
  <2>1. PICK t \in Nat : t = c[1].ticket /\ done <= t
    BY <1>7, <1>9
  <2>2. Accounted(d, ticket, t)
    BY <1>6, <2>1
  <2> QED  BY <1>2, <1>7, <1>9, <2>1, <2>2
<1> QED  BY <1>8, <1>9

-----------------------------------------------------------------------------
(* What the scenes say of the page, before and after a step. *)

LEMMA SceneFacts ==
    /\ \A s \in Scenes : /\ s.publication \in Nat /\ s.policy \in Nat /\ s.epoch \in Nat /\ s.ack \in Nat
                         /\ s.completed \in Nat /\ s.offset \in Nat /\ s.extent \in Nat /\ s.extent \in Extents
    /\ \A p \in Pixels : /\ p.offset \in Nat /\ p.extent \in Nat /\ p.extent \in Extents /\ p.clean \in BOOLEAN
                         /\ p.ack \in Nat /\ p.completed \in Nat
  BY DataAssumption DEF Scenes, Pixels

LEMMA GuiFacts ==
    ASSUME NEW g \in GuiSet(load), load \in Workloads
    PROVE  /\ g.scene \in Maybe(Scenes) /\ g.visual \in Nat /\ g.pending \in Seq(Input)
           /\ g.last \in Nat /\ g.ticket \in Nat /\ g.barrier \in Maybe(Nat) /\ g.policy \in Nat /\ g.epoch \in Nat
           /\ {g.ticketOut, g.policyOut, g.epochOut, g.accepting, g.eligible} \subseteq BOOLEAN
           /\ Base(g) \in Nat
<1>1. /\ g.scene \in Maybe(Scenes) /\ g.visual \in Nat /\ g.pending \in Seq(Input)
      /\ g.last \in Nat /\ g.ticket \in Nat /\ g.barrier \in Maybe(Nat) /\ g.policy \in Nat /\ g.epoch \in Nat
      /\ {g.ticketOut, g.policyOut, g.epochOut, g.accepting, g.eligible} \subseteq BOOLEAN
  BY LoadFacts DEF GuiSet
<1>2. Base(g) \in Nat
  BY <1>1, SceneFacts DEF Base, Maybe
<1> QED  BY <1>1, <1>2

LEMMA HandleFacts ==
    ASSUME NEW g \in GuiSet(load), load \in Workloads, NEW o, NEW q, Handle(g, o, q)
    PROVE  /\ o.applied \in Nat /\ o.notified \in Nat /\ o.completed \in Nat /\ o.materialized \in Seq(Input)
           /\ q \in Seq(Input) /\ Base(g) \in Nat /\ g.last \in Nat
           /\ Fits(g.pending, Base(g), o.applied, g.last) /\ Fits(q, o.notified, o.applied, g.last)
           /\ After(q, o.applied) = Slice(q, o.notified, o.applied, g.last)
           /\ After(q, o.applied) = Slice(g.pending, Base(g), o.applied, g.last)
           /\ After(q, o.applied) \in Seq(Input) /\ Len(After(q, o.applied)) = g.last - o.applied
<1>1. o.applied \in Nat /\ o.notified \in Nat /\ o.completed \in Nat /\ o.materialized \in Seq(Input)
  BY DEF Handle, OwnerSet
<1>2. Base(g) \in Nat /\ g.last \in Nat
  BY GuiFacts
<1>3. q \in Seq(Input)
  BY DEF Handle, Numbered
<1>4. Fits(g.pending, Base(g), o.applied, g.last)
  BY <1>1, <1>2 DEF Handle, Fits
<1>5. Fits(q, o.notified, o.applied, g.last)
  BY <1>1, <1>2 DEF Handle, Fits
<1>6. g.last = o.notified + Len(q)
  BY DEF Handle
<1>7. Follow(q, o.notified, o.applied, g.last)
  BY <1>5, <1>6, AfterIs, Zenon
<1>8. \A k \in o.applied + 1 .. g.last : q[k - o.notified] = g.pending[k - Base(g)]
  BY DEF Handle
<1>9. PICK x \in Int, y \in Int, b \in Nat, n \in Nat : x = o.applied /\ y = g.last /\ b = Base(g) /\ n = o.notified
  BY <1>1, <1>2
<1>10. \A k \in x + 1 .. y : q[k - n] = g.pending[k - b]
  BY <1>8, <1>9
<1>11. Slice(q, n, x, y) = Slice(g.pending, b, x, y)
  BY <1>10, SliceEq
<1>12. IsSlice(Slice(q, o.notified, o.applied, g.last), q, o.notified, o.applied, g.last)
  BY <1>5, SliceFacts, Zenon
<1> QED  BY <1>1, <1>2, <1>3, <1>4, <1>5, <1>7, <1>9, <1>11, <1>12 DEF Follow, IsSlice

\* Whatever leads to the page's offset before the step does so after it.
Carries(g, o, can, ext, g2, o2, can2, ext2) ==
    \A offset, ack \in Nat : \A max :
        ack <= o.applied /\ Reaches(offset, ack, max, g, o, can, ext)
            => Reaches(offset, ack, max, g2, o2, can2, ext2)

\* The owner goes on from o to o2, and its offset with it.
Advances(g, o, o2, can, can2, ext) ==
    /\ o2.applied \in Nat /\ o.applied <= o2.applied /\ o2.applied <= g.last
    /\ can2 = Play(can, Slice(g.pending, Base(g), o.applied, o2.applied), ext)

LEMMA AdvanceCarries ==
    ASSUME NEW g \in GuiSet(load), load \in Workloads, NEW o, NEW q, Handle(g, o, q), NEW o2,
           NEW can, NEW can2, NEW ext \in Nat, Advances(g, o, o2, can, can2, ext)
    PROVE  Carries(g, o, can, ext, g, o2, can2, ext)
<1> SUFFICES ASSUME NEW offset \in Nat, NEW ack \in Nat, NEW max, ack <= o.applied,
                    Reaches(offset, ack, max, g, o, can, ext)
             PROVE  Reaches(offset, ack, max, g, o2, can2, ext)
  BY DEF Carries
<1>1. CASE Base(g) <= ack
  <2>1. o.applied \in Nat /\ Base(g) \in Nat /\ Fits(g.pending, Base(g), o.applied, g.last)
    BY HandleFacts
  <2>2. Fits(g.pending, Base(g), ack, o.applied) /\ Fits(g.pending, Base(g), o.applied, o2.applied)
    BY <1>1, <2>1 DEF Fits, Advances
  <2>3. Replays(g.pending, Base(g), ack, o.applied, o2.applied, offset, ext)
    BY <2>2, PlaySlice, Zenon
  <2>4. can = Play(offset, Slice(g.pending, Base(g), ack, o.applied), ext)
    BY <1>1 DEF Reaches
  <2> QED  BY <2>3, <2>4 DEF Reaches, Replays, Advances
<1>2. CASE ~(Base(g) <= ack)
  BY <1>2 DEF Reaches
<1> QED  BY <1>1, <1>2

\* The GUI keeps its inputs and its scene.
LEMMA SameCarries ==
    ASSUME NEW g, NEW o, NEW can, NEW ext, NEW g2, NEW o2, g2.scene = g.scene, g2.pending = g.pending,
           o2.applied = o.applied
    PROVE  Carries(g, o, can, ext, g2, o2, can, ext)
  BY DEF Carries, Reaches, Base

LEMMA CarriesTwice ==
    ASSUME NEW g, NEW o, NEW can, NEW ext, NEW g2, NEW o2, NEW can2, NEW ext2, NEW g3, NEW o3, NEW can3, NEW ext3,
           o.applied \in Nat, o2.applied \in Nat, o.applied <= o2.applied,
           Carries(g, o, can, ext, g2, o2, can2, ext2), Carries(g2, o2, can2, ext2, g3, o3, can3, ext3)
    PROVE  Carries(g, o, can, ext, g3, o3, can3, ext3)
  BY DEF Carries

Onward(g, o, g2, o2) ==
    /\ g.policy <= g2.policy /\ (g.policyOut => g2.policyOut) /\ o.applied <= o2.applied
    /\ {g.policy, g2.policy, o.applied, o2.applied, o.completed, o2.completed} \subseteq Nat
    /\ o.completed <= o2.completed

LEMMA TruthKept ==
    ASSUME NEW p \in Scenes, NEW g, NEW o, NEW can, NEW ext, NEW g2, NEW o2, NEW can2, NEW ext2,
           Onward(g, o, g2, o2), Truth(p, g, o, can, ext),
           Carries(g, o, can, ext, g2, o2, can2, ext2) \/ Lost(g, g2)
    PROVE  Truth(p, g2, o2, can2, ext2)
<1>1. p.policy \in Nat /\ p.ack \in Nat /\ p.offset \in Nat
  BY SceneFacts
<1>2. p.policy <= g2.policy /\ p.ack <= o2.applied
  BY <1>1 DEF Truth, Onward
<1>3. ASSUME p.policy = g2.policy, ~g2.policyOut
      PROVE  Reaches(p.offset, p.ack, p.extent, g2, o2, can2, ext2)
  <2>1. p.policy = g.policy /\ ~g.policyOut /\ ~Lost(g, g2)
    BY <1>1, <1>3 DEF Truth, Onward, Lost
  <2>2. Reaches(p.offset, p.ack, p.extent, g, o, can, ext) /\ p.ack <= o.applied
    BY <2>1 DEF Truth
  <2> QED  BY <1>1, <2>1, <2>2 DEF Carries
<1> QED  BY <1>2, <1>3 DEF Truth

LEMMA ShownKept ==
    ASSUME NEW g, NEW o, NEW can, NEW ext, NEW g2, NEW o2, NEW can2, NEW ext2,
           NEW ups \in Seq(Scenes), NEW ups2 \in Seq(Scenes), g.scene \in Maybe(Scenes),
           Onward(g, o, g2, o2), Shown(g, o, can, ext, ups),
           Carries(g, o, can, ext, g2, o2, can2, ext2) \/ Lost(g, g2),
           g2.scene = g.scene \/ \E n \in 1 .. Len(ups) : g2.scene = ups[n],
           \A n \in 1 .. Len(ups2) : \E m \in 1 .. Len(ups) : ups2[n] = ups[m],
           Seen(g2)
    PROVE  Shown(g2, o2, can2, ext2, ups2)
<1>1. ASSUME NEW m \in 1 .. Len(ups)
      PROVE  Truth(ups[m], g2, o2, can2, ext2)
  <2>1. ups[m] \in Scenes /\ Truth(ups[m], g, o, can, ext)
    BY DEF Shown
  <2> QED  BY <2>1, TruthKept
<1>2. ASSUME g2.scene # None
      PROVE  Truth(g2.scene, g2, o2, can2, ext2)
  <2>1. CASE g2.scene = g.scene
    <3>1. g.scene \in Scenes /\ Truth(g.scene, g, o, can, ext)
      BY <1>2, <2>1 DEF Shown, Maybe
    <3>2. Truth(g.scene, g2, o2, can2, ext2)
      BY <3>1, TruthKept
    <3> QED  BY <2>1, <3>2
  <2>2. CASE \E n \in 1 .. Len(ups) : g2.scene = ups[n]
    BY <1>1, <2>2
  <2> QED  BY <2>1, <2>2
<1> QED  BY <1>1, <1>2 DEF Shown

LEMMA PaintedKept ==
    ASSUME NEW p \in Maybe(Pixels), NEW g, NEW o, NEW can, NEW ext, NEW g2, NEW o2, NEW can2, NEW ext2,
           Onward(g, o, g2, o2), Painted(p, g, o, can, ext), Carries(g, o, can, ext, g2, o2, can2, ext2)
    PROVE  Painted(p, g2, o2, can2, ext2)
<1> SUFFICES ASSUME p # None
             PROVE  Painted(p, g2, o2, can2, ext2)
  BY DEF Painted
<1>1. p \in Pixels /\ p.ack \in Nat /\ p.completed \in Nat /\ p.offset \in Nat
  BY SceneFacts DEF Maybe
<1>2. p.ack <= o.applied /\ p.completed <= o.completed
  BY DEF Painted
<1>3. p.ack <= o2.applied /\ p.completed <= o2.completed
  BY <1>1, <1>2 DEF Onward
<1>4. p.clean => Reaches(p.offset, p.ack, p.extent, g2, o2, can2, ext2)
  BY <1>1, <1>2 DEF Painted, Carries
<1> QED  BY <1>3, <1>4 DEF Painted

\* Pixels that are no longer clean say nothing of the page.
LEMMA PaintedDirty ==
    ASSUME NEW p \in Pixels, NEW g, NEW o, NEW can, NEW ext, NEW g2, NEW o2, NEW can2, NEW ext2,
           Onward(g, o, g2, o2), Painted(p, g, o, can, ext)
    PROVE  /\ Painted([p EXCEPT !.clean = FALSE], g2, o2, can2, ext2)
           /\ [p EXCEPT !.clean = FALSE] \in Pixels
<1>1. p # None
  BY NoneAssumption
<1>2. p.ack \in Nat /\ p.completed \in Nat /\ p.ack <= o.applied /\ p.completed <= o.completed
  BY <1>1, SceneFacts DEF Painted
<1>3. p.ack <= o2.applied /\ p.completed <= o2.completed
  BY <1>2 DEF Onward
<1>4. PICK d : d = [p EXCEPT !.clean = FALSE]
  OBVIOUS
<1>5. d.ack = p.ack /\ d.completed = p.completed /\ d.clean = FALSE /\ d \in Pixels
  BY <1>4 DEF Pixels
<1> QED  BY <1>3, <1>4, <1>5 DEF Painted

-----------------------------------------------------------------------------
(* The handle, before and after a step. *)

LEMMA HandleKept ==
    ASSUME NEW g, NEW o, NEW q, Handle(g, o, q), NEW h,
           h.scene = g.scene, h.pending = g.pending, h.last = g.last,
           g.ticket \in Nat, h.ticket \in Nat, o.completed \in Nat, g.ticket <= h.ticket,
           h.barrier # None => h.barrier <= h.last
    PROVE  Handle(h, o, q)
  BY DEF Handle, Base

LEMMA CalmHandle ==
    ASSUME NEW g \in GuiSet(load), load \in Workloads, NEW o, NEW q, Handle(g, o, q), NEW h, Calmed(g, h)
    PROVE  /\ Handle(h, o, q) /\ (Seen(g) => Seen(h)) /\ Onward(g, o, h, o)
           /\ \A can, ext : Carries(g, o, can, ext, h, o, can, ext)
<1>1. h \in GuiSet(load) /\ h.ticket \in Nat /\ g.ticket \in Nat /\ g.policy \in Nat /\ h.policy \in Nat
  BY GuiFacts DEF Calmed
<1>2. h.scene = g.scene /\ h.pending = g.pending /\ h.last = g.last /\ h.ticket = g.ticket /\ h.barrier = g.barrier
  BY DEF Calmed
<1>3. o.completed \in Nat /\ o.applied \in Nat
  BY HandleFacts
<1>4. Handle(h, o, q)
  <2>1. h.barrier # None => h.barrier <= h.last
    BY <1>2 DEF Handle
  <2> QED  BY <1>1, <1>2, <1>3, <2>1, HandleKept
<1>5. Seen(g) => Seen(h)
  BY <1>2 DEF Seen, Calmed
<1>6. Onward(g, o, h, o)
  BY <1>1, <1>3 DEF Onward, Calmed
<1> QED  BY <1>2, <1>4, <1>5, <1>6, SameCarries

\* An input is accepted.
LEMMA AcceptHandle ==
    ASSUME NEW g \in GuiSet(load), load \in Workloads, NEW o, NEW q, Handle(g, o, q),
           NEW i \in Input, i.seq = g.last + 1, Len(g.pending) < MaxPending, Len(q) < MaxPending,
           NEW h, h.scene = g.scene, h.pending = Append(g.pending, i), h.last = g.last + 1,
           h.ticket = g.ticket, h.barrier = g.barrier
    PROVE  /\ Handle(h, o, Append(q, i))
           /\ After(Append(q, i), o.applied) = Append(After(q, o.applied), i)
           /\ \A can, ext : Carries(g, o, can, ext, h, o, can, ext)
<1>1. /\ o.applied \in Nat /\ o.notified \in Nat /\ q \in Seq(Input) /\ Base(g) \in Nat /\ g.last \in Nat
      /\ g.pending \in Seq(Input)
  BY HandleFacts, GuiFacts
<1>2. PICK b \in Nat, n \in Nat, a \in Nat, z \in Nat : b = Base(g) /\ n = o.notified /\ a = o.applied /\ z = g.last
  BY <1>1
<1>3. Base(h) = b
  BY <1>2 DEF Base
<1>4. /\ Numbered(g.pending, b) /\ b + Len(g.pending) = z /\ Numbered(q, n) /\ n + Len(q) = z
      /\ b <= a /\ n <= a /\ a <= z
  BY <1>2 DEF Handle
<1>5. PICK p : p = Append(g.pending, i)
  OBVIOUS
<1>6. PICK r : r = Append(q, i)
  OBVIOUS
<1>7. PICK lp \in Nat, lq \in Nat : lp = Len(g.pending) /\ lq = Len(q)
  BY <1>1
<1>8. p \in Seq(Input) /\ Len(p) = lp + 1 /\ p[lp + 1] = i /\ \A k \in 1 .. lp : p[k] = g.pending[k]
  BY <1>1, <1>5, <1>7
<1>9. r \in Seq(Input) /\ Len(r) = lq + 1 /\ r[lq + 1] = i /\ \A k \in 1 .. lq : r[k] = q[k]
  BY <1>1, <1>6, <1>7
<1>10. \A k \in 1 .. lp : g.pending[k].seq = b + k
  BY <1>4, <1>7 DEF Numbered
<1>11. \A k \in 1 .. lq : q[k].seq = n + k
  BY <1>4, <1>7 DEF Numbered
<1>21. z = b + lp /\ z = n + lq /\ i.seq = z + 1
  BY <1>2, <1>4, <1>7, Zenon
<1>12. i.seq = b + (lp + 1) /\ i.seq = n + (lq + 1)
  BY <1>21
<1>13. Numbered(p, b)
  <2>1. \A k \in 1 .. lp + 1 : k \in 1 .. lp \/ k = lp + 1
    OBVIOUS
  <2> QED  BY <1>8, <1>10, <1>12, <2>1 DEF Numbered
<1>14. Numbered(r, n)
  <2>1. \A k \in 1 .. lq + 1 : k \in 1 .. lq \/ k = lq + 1
    OBVIOUS
  <2> QED  BY <1>9, <1>11, <1>12, <2>1 DEF Numbered
<1>15. ASSUME NEW k \in a + 1 .. z + 1
       PROVE  p[k - b] = r[k - n]
  <2>1. CASE k = z + 1
    <3>1. k - b = lp + 1 /\ k - n = lq + 1
      BY <1>4, <1>7, <2>1
    <3> QED  BY <1>8, <1>9, <3>1
  <2>2. CASE k # z + 1
    <3>1. k \in a + 1 .. z /\ k - b \in 1 .. lp /\ k - n \in 1 .. lq
      BY <1>4, <1>7, <2>2
    <3>2. g.pending[k - b] = q[k - n]
      BY <1>2, <3>1 DEF Handle
    <3> QED  BY <1>8, <1>9, <3>1, <3>2
  <2> QED  BY <2>1, <2>2
<1>16. ASSUME NEW x \in Nat, NEW y \in Nat, b <= x, y <= z
       PROVE  Slice(p, b, x, y) = Slice(g.pending, b, x, y)
  <2>1. \A k \in x + 1 .. y : p[k - b] = g.pending[k - b]
    <3> TAKE k \in x + 1 .. y
    <3>1. k - b \in 1 .. lp
      BY <1>4, <1>7, <1>16
    <3> QED  BY <1>8, <3>1
  <2>2. Alike(p, b, g.pending, b, x, y)
    BY <2>1 DEF Alike
  <2>3. SameSlice(p, b, g.pending, b, x, y)
    BY <2>2, SliceAlike, Zenon
  <2> QED  BY <2>3 DEF SameSlice
<1>17. Slice(r, n, n, a) = Slice(q, n, n, a)
  <2>1. \A k \in n + 1 .. a : r[k - n] = q[k - n]
    <3> TAKE k \in n + 1 .. a
    <3>1. k - n \in 1 .. lq
      BY <1>4, <1>7
    <3> QED  BY <1>9, <3>1
  <2>2. Alike(r, n, q, n, n, a)
    BY <2>1 DEF Alike
  <2>3. SameSlice(r, n, q, n, n, a)
    BY <2>2, SliceAlike, Zenon
  <2> QED  BY <2>3 DEF SameSlice
<1>18. Handle(h, o, r)
  <2>0. h.pending = p /\ h.last = z + 1 /\ a <= z
    BY <1>2, <1>4, <1>5
  <2>1. h.pending = p /\ h.last = z + 1 /\ b + Len(p) = z + 1 /\ n + Len(r) = z + 1 /\ a <= z + 1
    BY <1>8, <1>9, <1>21, <2>0
  <2>2. Len(p) <= MaxPending /\ Len(r) <= MaxPending
    BY <1>7, <1>8, <1>9, DataAssumption
  <2>3. o \in OwnerSet /\ o.materialized = Slice(r, n, n, a)
    BY <1>2, <1>17 DEF Handle
  <2>4. /\ h.scene # None => h.scene.completed <= o.completed
        /\ o.completed <= h.ticket
    BY DEF Handle
  <2>5. h.barrier # None => h.barrier <= h.last
    BY <1>1, <2>1, GuiFacts DEF Handle, Maybe
  <2>6. \A k \in o.applied + 1 .. h.last : h.pending[k - Base(h)] = r[k - o.notified]
    BY <1>2, <1>3, <1>15, <2>1
  <2> QED  BY <1>2, <1>3, <1>4, <1>13, <1>14, <2>1, <2>2, <2>3, <2>4, <2>5, <2>6 DEF Handle
<1>19. After(r, a) = Append(After(q, a), i)
  <2>1. PICK z1 \in Nat : z1 = z + 1
    OBVIOUS
  <2>2. Fits(r, n, a, z1) /\ z1 = n + Len(r)
    BY <1>4, <1>7, <1>9, <1>14, <2>1 DEF Fits
  <2>3. Follow(r, n, a, z1) /\ IsSlice(Slice(r, n, a, z1), r, n, a, z1)
    BY <2>2, AfterIs, SliceFacts, Zenon
  <2>4. Fits(q, n, a, z) /\ z = n + Len(q)
    BY <1>1, <1>4 DEF Fits
  <2>5. Follow(q, n, a, z) /\ IsSlice(Slice(q, n, a, z), q, n, a, z)
    BY <2>4, AfterIs, SliceFacts, Zenon
  <2>6. PICK u : u = After(q, a)
    OBVIOUS
  <2>7. PICK v : v = After(r, a)
    OBVIOUS
  <2>8. PICK m \in Nat : m = z - a
    BY <1>4
  <2>9. u \in Seq(Input) /\ Len(u) = m /\ \A k \in 1 .. m : u[k] = q[(a + k) - n]
    BY <2>5, <2>6, <2>8 DEF Follow, IsSlice
  <2>10. v \in Seq(Input) /\ Len(v) = m + 1 /\ \A k \in 1 .. m + 1 : v[k] = r[(a + k) - n]
    <3>1. z1 - a = m + 1
      BY <2>1, <2>8
    <3> QED  BY <2>3, <2>7, <3>1 DEF Follow, IsSlice
  <2>11. PICK w : w = Append(u, i)
    OBVIOUS
  <2>12. w \in Seq(Input) /\ Len(w) = m + 1 /\ w[m + 1] = i /\ \A k \in 1 .. m : w[k] = u[k]
    BY <2>9, <2>11
  <2>13. ASSUME NEW k \in 1 .. m + 1
         PROVE  v[k] = w[k]
    <3>1. CASE k = m + 1
      <4>1. (a + k) - n = lq + 1
        BY <1>21, <2>8, <3>1
      <4> QED  BY <1>9, <2>10, <2>12, <3>1, <4>1
    <3>2. CASE k # m + 1
      <4>1. k \in 1 .. m /\ (a + k) - n \in 1 .. lq
        BY <1>4, <1>7, <2>8, <3>2
      <4> QED  BY <1>9, <2>9, <2>10, <2>12, <4>1
    <3> QED  BY <3>1, <3>2
  <2>14. v = w
    BY <2>10, <2>12, <2>13, SeqEqual
  <2> QED  BY <2>6, <2>7, <2>11, <2>14
<1>20. ASSUME NEW can, NEW ext
       PROVE  Carries(g, o, can, ext, h, o, can, ext)
  <2> SUFFICES ASSUME NEW offset \in Nat, NEW ack \in Nat, NEW max, ack <= o.applied,
                      Reaches(offset, ack, max, g, o, can, ext)
               PROVE  Reaches(offset, ack, max, h, o, can, ext)
    BY DEF Carries
  <2>1. b <= ack => Slice(p, b, ack, a) = Slice(g.pending, b, ack, a)
    BY <1>4, <1>16
  <2> QED  BY <1>2, <1>3, <1>5, <2>1 DEF Reaches
<1> QED  BY <1>2, <1>6, <1>18, <1>19, <1>20

\* A scene is installed: the inputs it contains are no longer pending.
LEMMA InstallHandle ==
    ASSUME NEW g \in GuiSet(load), load \in Workloads, NEW o, NEW q, Handle(g, o, q),
           NEW s \in Scenes, Base(g) <= s.ack, s.ack <= o.applied, s.completed <= o.completed,
           NEW h, h.scene = s, h.pending = After(g.pending, s.ack), h.last = g.last,
           h.ticket = g.ticket, h.barrier = g.barrier \/ h.barrier = None
    PROVE  /\ Handle(h, o, q) /\ h.pending \in Seq(Input)
           /\ \A can, ext : Carries(g, o, can, ext, h, o, can, ext)
<1>1. /\ o.applied \in Nat /\ o.notified \in Nat /\ q \in Seq(Input) /\ Base(g) \in Nat /\ g.last \in Nat
      /\ g.pending \in Seq(Input) /\ s.ack \in Nat
  BY HandleFacts, GuiFacts, SceneFacts
<1>2. PICK b \in Nat, n \in Nat, a \in Nat, z \in Nat, c \in Nat :
          b = Base(g) /\ n = o.notified /\ a = o.applied /\ z = g.last /\ c = s.ack
  BY <1>1
<1>3. Base(h) = c
  BY <1>2, NoneAssumption DEF Base
<1>4. /\ Numbered(g.pending, b) /\ b + Len(g.pending) = z /\ Numbered(q, n) /\ n + Len(q) = z
      /\ b <= c /\ c <= a /\ n <= a /\ a <= z /\ Len(g.pending) \in Nat
  BY <1>1, <1>2 DEF Handle
<1>5. PICK p : p = After(g.pending, c)
  OBVIOUS
<1>6. Fits(g.pending, b, c, z) /\ z = b + Len(g.pending)
  BY <1>4 DEF Fits
<1>7. Follow(g.pending, b, c, z) /\ IsSlice(Slice(g.pending, b, c, z), g.pending, b, c, z)
  BY <1>6, AfterIs, SliceFacts, Zenon
<1>8. Numbered(p, c) /\ p \in Seq(Input) /\ Len(p) = z - c /\ \A k \in 1 .. z - c : p[k] = g.pending[(c + k) - b]
  BY <1>5, <1>7 DEF Follow, IsSlice
<1>9. \A k \in c + 1 .. z : p[k - c] = g.pending[k - b]
  <2> TAKE k \in c + 1 .. z
  <2>1. k - c \in 1 .. z - c /\ (c + (k - c)) - b = k - b
    BY <1>4
  <2> QED  BY <1>8, <2>1
<1>10. Handle(h, o, q)
  <2>1. h.pending = p /\ h.last = z /\ c + Len(p) = z
    BY <1>2, <1>5, <1>8
  <2>2. Len(p) <= MaxPending
    BY <1>2, <1>4, <1>8, DataAssumption DEF Handle
  <2>3. \A k \in o.applied + 1 .. h.last : h.pending[k - Base(h)] = q[k - o.notified]
    <3> TAKE k \in o.applied + 1 .. h.last
    <3>1. k \in c + 1 .. z /\ k \in o.applied + 1 .. g.last
      BY <1>2, <1>4, <2>1
    <3>2. g.pending[k - b] = q[k - o.notified]
      BY <1>2, <3>1 DEF Handle
    <3> QED  BY <1>3, <1>9, <2>1, <3>1, <3>2
  <2>4. h.barrier # None => h.barrier <= h.last
    BY DEF Handle
  <2>5. h.scene # None => h.scene.completed <= o.completed
    OBVIOUS
  <2> QED  BY <1>2, <1>3, <1>4, <1>8, <2>1, <2>2, <2>3, <2>4, <2>5 DEF Handle
<1>11. ASSUME NEW can, NEW ext
       PROVE  Carries(g, o, can, ext, h, o, can, ext)
  <2> SUFFICES ASSUME NEW offset \in Nat, NEW ack \in Nat, NEW max, ack <= o.applied,
                      Reaches(offset, ack, max, g, o, can, ext)
               PROVE  Reaches(offset, ack, max, h, o, can, ext)
    BY DEF Carries
  <2>1. ASSUME c <= ack
        PROVE  Slice(p, c, ack, a) = Slice(g.pending, b, ack, a)
    <3>1. \A k \in ack + 1 .. a : p[k - c] = g.pending[k - b]
      BY <1>4, <1>9, <2>1
    <3> QED  BY <3>1, SliceEq
  <2>2. c <= ack => b <= ack
    BY <1>4
  <2> QED  BY <1>2, <1>3, <1>5, <2>1, <2>2 DEF Reaches
<1> QED  BY <1>2, <1>5, <1>8, <1>10, <1>11

\* The input at the head of the FIFO.
LEMMA TakesInput ==
    ASSUME NEW g \in GuiSet(load), load \in Workloads, NEW o, NEW q, Handle(g, o, q), q # <<>>,
           NEW i, i = q[1]
    PROVE  /\ i \in Input /\ i = Head(q) /\ i.seq = o.notified + 1 /\ i.seq \in Nat
           /\ i.seq > o.applied => o.applied = o.notified /\ o.materialized = <<>> /\ After(q, o.applied) = q
           /\ ~(i.seq > o.applied) => o.materialized # <<>> /\ Head(o.materialized) = i
<1>1. /\ o.applied \in Nat /\ o.notified \in Nat /\ q \in Seq(Input) /\ g.last \in Nat
      /\ After(q, o.applied) = Slice(q, o.notified, o.applied, g.last)
  BY HandleFacts
<1>2. PICK n \in Nat, a \in Nat, z \in Nat : n = o.notified /\ a = o.applied /\ z = g.last
  BY <1>1
<1>3. Numbered(q, n) /\ n + Len(q) = z /\ n <= a /\ a <= z /\ o.materialized = Slice(q, n, n, a)
  BY <1>2 DEF Handle
<1>4. PICK l \in Nat : l = Len(q) /\ l >= 1
  BY <1>1
<1>5. i \in Input /\ i = Head(q) /\ i.seq = n + 1
  BY <1>1, <1>3, <1>4 DEF Numbered
<1>6. ASSUME a = n
      PROVE  o.materialized = <<>> /\ After(q, o.applied) = q
  <2>1. Slice(q, n, n, n) = <<>> /\ Slice(q, n, n, n + Len(q)) = q
    BY <1>3, SliceCut
  <2> QED  BY <1>1, <1>2, <1>3, <1>6, <2>1
<1>7. ASSUME n + 1 <= a
      PROVE  o.materialized # <<>> /\ Head(o.materialized) = i
  <2>1. Fits(q, n, n, a)
    BY <1>3, <1>4 DEF Fits
  <2>2. IsSlice(Slice(q, n, n, a), q, n, n, a)
    BY <2>1, SliceFacts, Zenon
  <2>3. PICK u : u = o.materialized
    OBVIOUS
  <2>4. u \in Seq(Input) /\ Len(u) = a - n /\ \A k \in 1 .. a - n : u[k] = q[(n + k) - n]
    BY <1>3, <2>2, <2>3 DEF IsSlice
  <2>5. 1 \in 1 .. a - n /\ (n + 1) - n = 1
    BY <1>7
  <2>6. u[1] = i
    BY <2>4, <2>5
  <2>7. u # <<>> /\ Head(u) = u[1]
    BY <1>7, <2>4
  <2> QED  BY <2>3, <2>6, <2>7
<1> QED  BY <1>2, <1>3, <1>5, <1>6, <1>7

\* It is performed and notified, or was performed early and is notified now.
Fresh(o) == o.notified + 1 > o.applied
Taken(o) ==
    [o EXCEPT !.notified = o.notified + 1,
              !.applied = IF Fresh(o) THEN o.notified + 1 ELSE o.applied,
              !.materialized = IF Fresh(o) THEN o.materialized ELSE Tail(o.materialized)]

Takes(g, o, q, o2, fresh, can, ext) ==
    /\ Handle(g, o2, Tail(q)) /\ o2.completed = o.completed
    /\ fresh => /\ o2.applied = o.applied + 1
                /\ After(Tail(q), o2.applied) = Tail(q)
                /\ Advances(g, o, o2, can, Clamp(can + q[1].delta, ext), ext)
    /\ ~fresh => o2.applied = o.applied /\ After(Tail(q), o2.applied) = After(q, o.applied)

LEMMA TakeHandle ==
    ASSUME NEW g \in GuiSet(load), load \in Workloads, NEW o, NEW q, Handle(g, o, q), q # <<>>,
           NEW o2, o2 = Taken(o), NEW fresh, fresh = Fresh(o), NEW can \in Nat, NEW ext \in Nat
    PROVE  Takes(g, o, q, o2, fresh, can, ext)
<1>1. /\ o.applied \in Nat /\ o.notified \in Nat /\ q \in Seq(Input) /\ g.last \in Nat /\ Base(g) \in Nat
      /\ After(q, o.applied) = Slice(q, o.notified, o.applied, g.last)
      /\ Fits(g.pending, Base(g), o.applied, g.last) /\ o.materialized \in Seq(Input)
  BY HandleFacts
<1>2. PICK n \in Nat, a \in Nat, z \in Nat, b \in Nat, n1 \in Nat :
          n = o.notified /\ a = o.applied /\ z = g.last /\ b = Base(g) /\ n1 = n + 1
  BY <1>1
<1>3. Numbered(q, n) /\ n + Len(q) = z /\ n <= a /\ a <= z /\ o.materialized = Slice(q, n, n, a) /\ o \in OwnerSet
  BY <1>2 DEF Handle
<1>4. PICK l \in Nat : l = Len(q) /\ l >= 1
  BY <1>1
<1>5. PICK t : t = Tail(q)
  OBVIOUS
<1>6. Numbered(t, n1) /\ Len(t) = l - 1 /\ t \in Seq(Input) /\ \A k \in 1 .. l - 1 : t[k] = q[k + 1]
  <2>1. Numbered(Tail(q), n + 1) /\ Len(Tail(q)) = Len(q) - 1
    BY <1>3, SliceCut
  <2>2. Tail(q) \in Seq(Input) /\ \A k \in 1 .. Len(q) - 1 : Tail(q)[k] = q[k + 1]
    BY <1>1
  <2> QED  BY <1>2, <1>4, <1>5, <2>1, <2>2
<1>7. ASSUME NEW x \in Nat, NEW y \in Nat, n1 <= x, y <= z
      PROVE  Slice(t, n1, x, y) = Slice(q, n, x, y)
  BY <1>2, <1>3, <1>5, <1>7, SliceCut
<1>8. \A k \in n1 + 1 .. z : t[k - n1] = q[k - n]
  <2> TAKE k \in n1 + 1 .. z
  <2>0. n + l = z /\ n1 = n + 1
    BY <1>2, <1>3, <1>4
  <2>1. k - n1 \in 1 .. l - 1 /\ (k - n1) + 1 = k - n
    BY <2>0
  <2> QED  BY <1>6, <2>1
<1>19. fresh <=> n1 > a
  <2>1. Fresh(o) <=> n1 > a
    BY <1>2 DEF Fresh
  <2> QED  BY <2>1, Zenon
<1>9. PICK a2 \in Nat : a2 = IF fresh THEN n1 ELSE a
  OBVIOUS
<1>10. PICK m2 : m2 = IF fresh THEN o.materialized ELSE Tail(o.materialized)
  OBVIOUS
<1>11. a <= a2 /\ n1 <= a2 /\ a2 <= z /\ (fresh => a = n)
  <2>1. n + l = z
    BY <1>3, <1>4
  <2>2. n <= a /\ a <= z
    BY <1>3
  <2> QED  BY <1>2, <1>4, <1>9, <1>19, <2>1, <2>2
<1>12. m2 = Slice(t, n1, n1, a2) /\ m2 \in Seq(Input)
  <2>1. CASE fresh
    <3>1. a = n /\ a2 = n1 /\ m2 = o.materialized
      BY <1>9, <1>10, <1>11, <2>1
    <3>2. Slice(q, n, n, n) = <<>> /\ Slice(t, n1, n1, n1) = <<>>
      BY DEF Slice
    <3> QED  BY <1>1, <1>3, <3>1, <3>2
  <2>2. CASE ~fresh
    <3>1. a2 = a /\ m2 = Tail(o.materialized) /\ n1 <= a
      BY <1>2, <1>9, <1>10, <1>19, <2>2
    <3>2. Fits(q, n, n, a) /\ Fits(q, n, n1, a)
      BY <1>2, <1>3, <1>4, <3>1 DEF Fits
    <3>3. IsSlice(Slice(q, n, n, a), q, n, n, a) /\ IsSlice(Slice(q, n, n1, a), q, n, n1, a)
      BY <3>2, SliceFacts, Zenon
    <3>4. PICK u : u = o.materialized
      OBVIOUS
    <3>5. PICK v : v = Slice(q, n, n1, a)
      OBVIOUS
    <3>6. PICK d \in Nat : d = a - n /\ d - 1 = a - n1 /\ d >= 1
      <4>1. a - n \in Nat /\ (a - n) - 1 = a - n1 /\ a - n >= 1
        BY <1>2, <3>1
      <4> QED  BY <4>1
    <3>7. u \in Seq(Input) /\ Len(u) = d /\ \A k \in 1 .. d : u[k] = q[(n + k) - n]
      BY <1>3, <3>3, <3>4, <3>6 DEF IsSlice
    <3>8. v \in Seq(Input) /\ Len(v) = d - 1 /\ \A k \in 1 .. d - 1 : v[k] = q[(n1 + k) - n]
      BY <3>3, <3>5, <3>6 DEF IsSlice
    <3>9. PICK w : w = Tail(u)
      OBVIOUS
    <3>10. w \in Seq(Input) /\ Len(w) = d - 1 /\ \A k \in 1 .. d - 1 : w[k] = u[k + 1]
      <4>1. u \in Seq(Input) /\ Len(u) = d /\ d >= 1
        BY <3>6, <3>7
      <4> QED  BY ONLY <3>9, <4>1, d \in Nat
    <3>11. ASSUME NEW k \in 1 .. d - 1
           PROVE  w[k] = v[k]
      <4>0. n1 = n + 1
        BY <1>2
      <4>1. k + 1 \in 1 .. d /\ (n + (k + 1)) - n = (n1 + k) - n
        BY <4>0
      <4> QED  BY <3>7, <3>8, <3>10, <4>1
    <3>12. w = v
      BY <3>8, <3>10, <3>11, SeqEqual
    <3>13. Slice(t, n1, n1, a) = v
      BY <1>3, <1>7, <3>5
    <3> QED  BY <3>1, <3>4, <3>8, <3>9, <3>12, <3>13
  <2> QED  BY <2>1, <2>2
<1>13. o2 = [o EXCEPT !.notified = n1, !.applied = a2, !.materialized = m2]
  BY <1>2, <1>9, <1>10 DEF Taken
<1>14. o2 \in OwnerSet /\ o2.notified = n1 /\ o2.applied = a2 /\ o2.materialized = m2 /\ o2.completed = o.completed
  BY <1>3, <1>12, <1>13 DEF OwnerSet
<1>15. Handle(g, o2, t)
  <2>1. Base(g) <= o2.applied
    BY <1>2, <1>11, <1>14 DEF Handle
  <2>2. \A k \in o2.applied + 1 .. g.last : g.pending[k - Base(g)] = t[k - o2.notified]
    <3> TAKE k \in o2.applied + 1 .. g.last
    <3>1. k \in o.applied + 1 .. g.last /\ k \in n1 + 1 .. z
      BY <1>2, <1>11, <1>14
    <3>2. g.pending[k - Base(g)] = q[k - n]
      BY <1>2, <3>1 DEF Handle
    <3> QED  BY <1>8, <1>14, <3>1, <3>2
  <2>0. n + l = z /\ l <= MaxPending /\ MaxPending \in Nat
    BY <1>3, <1>4, DataAssumption DEF Handle
  <2>3. Len(t) <= MaxPending /\ n1 + Len(t) = z
    BY <1>2, <1>6, <2>0
  <2>4. /\ Numbered(g.pending, Base(g)) /\ Base(g) + Len(g.pending) = g.last
        /\ Len(g.pending) <= MaxPending
        /\ g.scene # None => g.scene.completed <= o2.completed
        /\ o2.completed <= g.ticket
        /\ g.barrier # None => g.barrier <= g.last
    BY <1>14 DEF Handle
  <2> QED  BY <1>2, <1>6, <1>11, <1>12, <1>14, <2>1, <2>2, <2>3, <2>4 DEF Handle
<1>16. After(t, a2) = Slice(q, n, a2, z)
  <2>1. After(t, o2.applied) = Slice(t, o2.notified, o2.applied, g.last)
    BY <1>15, HandleFacts
  <2> QED  BY <1>2, <1>7, <1>11, <1>14, <2>1
<1>17. ASSUME fresh
       PROVE  /\ o2.applied = o.applied + 1 /\ After(t, o2.applied) = t
              /\ Advances(g, o, o2, can, Clamp(can + q[1].delta, ext), ext)
  <2>1. a2 = n1 /\ a = n /\ n1 = a + 1
    BY <1>2, <1>9, <1>11, <1>17
  <2>2. After(t, a2) = t
    <3>1. Slice(t, n1, n1, n1 + Len(t)) = t
      BY <1>6, SliceCut
    <3>0. n + l = z
      BY <1>3, <1>4
    <3>2. n1 + Len(t) = z
      BY <1>2, <1>6, <3>0
    <3>3. Slice(q, n, n1, z) = Slice(t, n1, n1, z)
      BY <1>7
    <3> QED  BY <1>16, <2>1, <3>1, <3>2, <3>3
  <2>3. Slice(g.pending, b, a, a + 1) = <<q[1]>>
    <3>1. b <= a /\ a < b + Len(g.pending) /\ Numbered(g.pending, b)
      BY <1>2, <1>3, <1>4, <2>1 DEF Handle
    <3>2. Slice(g.pending, b, a, a + 1) = <<g.pending[(a + 1) - b]>>
      BY <3>1, SliceCut
    <3>3. a + 1 \in o.applied + 1 .. g.last
      BY <1>2, <1>3, <1>4, <2>1
    <3>4. g.pending[(a + 1) - b] = q[(a + 1) - n]
      BY <1>2, <3>3 DEF Handle
    <3>5. (a + 1) - n = 1
      BY <2>1
    <3> QED  BY <3>2, <3>4, <3>5
  <2>4. PICK i \in Input : i = q[1]
    BY <1>1, <1>4
  <2>5. Play(can, <<i>>, ext) = Clamp(can + i.delta, ext)
    BY PlayOne
  <2> QED  BY <1>2, <1>11, <1>14, <2>1, <2>2, <2>3, <2>4, <2>5 DEF Advances
<1>18. ASSUME ~fresh
       PROVE  o2.applied = o.applied /\ After(t, o2.applied) = After(q, o.applied)
  BY <1>1, <1>2, <1>9, <1>14, <1>16, <1>18
<1> QED  BY <1>5, <1>14, <1>15, <1>17, <1>18 DEF Takes

\* A read of the geometry performs all that is accepted, or nothing.
LEMMA Materializes ==
    ASSUME gui \in GuiSet(load), load \in Workloads, Handle(gui, owner, accepted), canon \in Nat, extent \in Extents,
           effects \in Seq(Tag)
    PROVE  /\ Handle(gui, Materialized, accepted) /\ Materialized.completed = owner.completed
           /\ Advances(gui, owner, Materialized, canon, MaterializedOffset, extent)
           /\ MaterializedOffset \in Nat /\ MaterializedEffects \in Seq(Tag)
           /\ Clamp(MaterializedOffset, extent) # MaterializedOffset => MaterializedOffset = canon
           /\ \/ After(accepted, Materialized.applied) = <<>> /\ MaterializedEffects = effects \o Performed(Unapplied)
              \/ After(accepted, Materialized.applied) = Unapplied /\ MaterializedEffects = effects
<1>1. /\ owner.applied \in Nat /\ owner.notified \in Nat /\ owner.completed \in Nat /\ accepted \in Seq(Input)
      /\ Base(gui) \in Nat /\ gui.last \in Nat /\ owner.materialized \in Seq(Input)
      /\ Fits(gui.pending, Base(gui), owner.applied, gui.last) /\ Fits(accepted, owner.notified, owner.applied, gui.last)
  BY HandleFacts
<1>2. PICK u \in Seq(Input) : /\ u = Unapplied /\ Len(u) = gui.last - owner.applied
                              /\ u = Slice(accepted, owner.notified, owner.applied, gui.last)
                              /\ u = Slice(gui.pending, Base(gui), owner.applied, gui.last)
  BY HandleFacts DEF Unapplied
<1>3. PICK ext \in Nat : ext = extent
  BY DataAssumption
<1>4. PICK a \in Nat, z \in Nat, n \in Nat, b \in Nat :
          a = owner.applied /\ z = gui.last /\ n = owner.notified /\ b = Base(gui)
  BY <1>1
<1>5. n <= a /\ a <= z /\ b <= a
  BY <1>4 DEF Handle
<1>6. PICK at : at = MaterializedOffset
  OBVIOUS
<1>7. PICK m : m = Materialized
  OBVIOUS
<1>8. Slice(gui.pending, b, z, z) = <<>> /\ Slice(gui.pending, b, a, a) = <<>>
  BY DEF Slice
<1>9. canon = Play(canon, <<>>, ext)
  BY PlayEmpty
<1>10. CASE ~CanMaterialize
  <2>1. m = owner /\ at = canon /\ MaterializedEffects = effects
    BY <1>6, <1>7, <1>10 DEF Materialized, MaterializedOffset, MaterializedEffects
  <2>2. Advances(gui, owner, m, canon, at, ext)
    BY <1>4, <1>5, <1>8, <1>9, <2>1 DEF Advances
  <2> QED  BY <1>3, <1>6, <1>7, <2>1, <2>2 DEF Unapplied
<1>11. CASE CanMaterialize
  <2>1. at = Play(canon, u, ext) /\ MaterializedEffects = effects \o Performed(u)
    BY <1>2, <1>3, <1>6, <1>11 DEF MaterializedOffset, MaterializedEffects
  <2>2. at \in 0 .. ext /\ at \in Nat
    <3>1. canon \in 0 .. ext
      BY <1>3, <1>11 DEF CanMaterialize, Within
    <3>2. Play(canon, u, ext) \in 0 .. ext
      BY <3>1, PlayRange
    <3> QED  BY <2>1, <3>2
  <2>3. Clamp(at, ext) = at
    BY <2>2, ClampFacts
  <2>4. MaterializedEffects \in Seq(Tag)
    <3>1. Performed(u) \in Seq(Tag)
      BY PerformedFacts
    <3> QED  BY <2>1, <3>1, ConcatProperties
  <2>5. m.applied = z /\ m.completed = owner.completed /\ Handle(gui, m, accepted)
    <3>1. CASE u = <<>>
      <4>1. m = owner
        BY <1>2, <1>7, <3>1 DEF Materialized
      <4>2. a = z
        <5>1. Len(u) = z - a /\ Len(u) = 0
          BY <1>2, <1>4, <3>1
        <5> QED  BY <5>1
      <4> QED  BY <1>4, <4>1, <4>2
    <3>2. CASE u # <<>>
      <4>1. m = [owner EXCEPT !.applied = Last(u).seq, !.materialized = owner.materialized \o u]
        BY <1>2, <1>7, <1>11, <3>2 DEF Materialized
      <4>2. Last(u).seq = z
        <5>1. IsSlice(u, accepted, n, a, z)
          BY <1>1, <1>2, <1>4, SliceFacts, Zenon
        <5>2. PICK d \in Nat : d = Len(u) /\ d = z - a /\ d >= 1
          BY <1>2, <1>4, <3>2
        <5>3. u[d].seq = a + d
          BY <5>1, <5>2 DEF IsSlice, Numbered
        <5> QED  BY <5>2, <5>3 DEF Last
      <4>3. PICK w : w = owner.materialized \o u
        OBVIOUS
      <4>4. w \in Seq(Input) /\ w = Slice(accepted, n, n, z)
        <5>1. Fits(accepted, n, n, a) /\ Fits(accepted, n, a, z)
          BY <1>1, <1>4, <1>5 DEF Fits
        <5>2. Splits(accepted, n, n, a, z)
          BY <5>1, SliceConcat, Zenon
        <5>3. owner.materialized = Slice(accepted, n, n, a)
          BY <1>4 DEF Handle
        <5>4. w \in Seq(Input)
          BY <1>1, <4>3, ConcatProperties
        <5> QED  BY <1>2, <1>4, <4>3, <5>2, <5>3, <5>4 DEF Splits
      <4>5. owner \in OwnerSet
        BY DEF Handle
      <4>6. m = [owner EXCEPT !.applied = z, !.materialized = w]
        BY <4>1, <4>2, <4>3
      <4>7. /\ m \in OwnerSet /\ m.applied = z /\ m.materialized = w /\ m.notified = n
            /\ m.completed = owner.completed
        BY <1>4, <4>4, <4>5, <4>6 DEF OwnerSet
      <4>8. Handle(gui, m, accepted)
        <5>1. /\ Numbered(gui.pending, Base(gui)) /\ Base(gui) + Len(gui.pending) = gui.last
              /\ Numbered(accepted, m.notified) /\ m.notified + Len(accepted) = gui.last
              /\ Len(gui.pending) <= MaxPending /\ Len(accepted) <= MaxPending
              /\ gui.scene # None => gui.scene.completed <= m.completed
              /\ m.completed <= gui.ticket
              /\ gui.barrier # None => gui.barrier <= gui.last
          BY <1>4, <4>7 DEF Handle
        <5>2. Base(gui) <= m.applied /\ m.notified <= m.applied /\ m.applied <= gui.last
          BY <1>4, <1>5, <4>7
        <5>3. m.materialized = Slice(accepted, m.notified, m.notified, m.applied)
          BY <4>4, <4>7
        <5>4. \A k \in m.applied + 1 .. gui.last : FALSE
          BY <1>4, <4>7
        <5> QED  BY <4>7, <5>1, <5>2, <5>3, <5>4 DEF Handle
      <4> QED  BY <4>7, <4>8
    <3> QED  BY <3>1, <3>2
  <2>6. Advances(gui, owner, m, canon, at, ext)
    BY <1>2, <1>4, <1>5, <2>1, <2>5 DEF Advances
  <2>7. After(accepted, m.applied) = <<>>
    <3>1. After(accepted, m.applied) \in Seq(Input) /\ Len(After(accepted, m.applied)) = gui.last - m.applied
      BY <2>5, HandleFacts
    <3>2. PICK r : r = After(accepted, m.applied)
      OBVIOUS
    <3>3. r \in Seq(Input) /\ Len(r) = 0
      BY <1>4, <2>5, <3>1, <3>2
    <3>4. r = <<>>
      BY ONLY <3>3
    <3> QED  BY <3>2, <3>4
  <2> QED  BY <1>2, <1>3, <1>6, <1>7, <2>1, <2>2, <2>3, <2>4, <2>5, <2>6, <2>7
<1> QED  BY <1>10, <1>11

-----------------------------------------------------------------------------
(* The steps of the GUI that accept nothing. *)

\* The commands c and the wheels w may be the next ones.
Sent(c, w) ==
    /\ c \in Seq(Command) /\ w \in Seq(Tag)
    /\ Queue(c, accepted, gui.last, gui.ticket, gui.ticketOut, owner.completed)
    /\ Turn(c, running)
    /\ failures = 0 => Accounted(c, gui.ticket, owner.completed)
    /\ ~failed => Order(w, effects, Unapplied, c)

LEMMA IInvFacts ==
    ASSUME IInv
    PROVE  /\ load \in Workloads /\ gui \in GuiSet(load) /\ Handle(gui, owner, accepted)
           /\ gui.ticket \in Nat /\ gui.last \in Nat /\ gui.ticketOut \in BOOLEAN
           /\ owner.completed \in Nat /\ owner.applied \in Nat /\ owner.completed <= gui.ticket
           /\ accepted \in Seq(Input) /\ Unapplied \in Seq(Input)
           /\ commands \in Seq(Command) /\ wheels \in Seq(Tag) /\ effects \in Seq(Tag) /\ updates \in Seq(Scenes)
           /\ canon \in Nat /\ extent \in Nat /\ extent \in Extents /\ painted \in Maybe(Pixels)
           /\ Seen(gui) /\ Sent(commands, wheels)
<1>1. load \in Workloads /\ gui \in GuiSet(load) /\ Handle(gui, owner, accepted)
  BY DEF IInv
<1>2. gui.ticket \in Nat /\ gui.last \in Nat /\ gui.ticketOut \in BOOLEAN
  BY <1>1, GuiFacts
<1>3. /\ owner.completed \in Nat /\ owner.applied \in Nat /\ accepted \in Seq(Input) /\ Unapplied \in Seq(Input)
      /\ owner.completed <= gui.ticket
  BY <1>1, HandleFacts DEF Unapplied, Handle
<1>4. canon \in Nat /\ extent \in Nat /\ extent \in Extents /\ painted \in Maybe(Pixels)
  BY DataAssumption DEF IInv, PageTypes
<1>5. commands \in Seq(Command) /\ wheels \in Seq(Tag) /\ effects \in Seq(Tag) /\ updates \in Seq(Scenes)
  BY DEF IInv
<1>6. Seen(gui) /\ Sent(commands, wheels)
  BY DEF IInv, Shown, Sent
<1> QED  BY <1>1, <1>2, <1>3, <1>4, <1>5, <1>6

LEMMA Sends ==
    ASSUME IInv, canonical' \in Nat, SendCanonical
    PROVE  Sent(commands', wheels')
<1>1. PICK x : x = [kind |-> "canonical", id |-> canonical']
  OBVIOUS
<1>2. x \in Command /\ x.kind = "canonical" /\ x \in Lasting
  <2>1. x \in Canonical
    BY <1>1 DEF Canonical
  <2>2. x \in Command /\ x.kind = "canonical"
    BY <1>1, <2>1 DEF Command
  <2> QED  BY <2>2, CommandFacts
<1>3. Mark(x) = <<"canonical", canonical'>>
  BY <1>1 DEF Mark
<1>4. commands' = Append(commands, x) /\ wheels' = Append(wheels, Mark(x))
  BY <1>1, <1>3 DEF SendCanonical
<1>5. /\ commands \in Seq(Command) /\ wheels \in Seq(Tag) /\ effects \in Seq(Tag)
      /\ accepted \in Seq(Input) /\ Unapplied \in Seq(Input)
      /\ gui.ticket \in Nat /\ gui.last \in Nat /\ gui.ticketOut \in BOOLEAN /\ owner.completed \in Nat
      /\ owner.completed <= gui.ticket /\ Sent(commands, wheels)
  BY IInvFacts
<1>6. commands' \in Seq(Command) /\ wheels' \in Seq(Tag)
  <2>1. Mark(x) \in Tag
    BY <1>2, TagFacts
  <2> QED  BY <1>2, <1>4, <1>5, <2>1
<1>7. Queue(commands', accepted, gui.last, gui.ticket, gui.ticketOut, owner.completed)
  <2>1. Follower(x, gui.last, gui.ticket, gui.ticket, gui.ticketOut)
    BY <1>2 DEF Follower
  <2>2. Queue(Append(commands, x), accepted, gui.last, gui.ticket, gui.ticketOut, owner.completed)
    BY <1>2, <1>5, <2>1, QueueAppends DEF Sent
  <2> QED  BY <1>4, <2>2
<1>8. Turn(commands', running)
  BY <1>4, <1>5, TurnAppends DEF Sent
<1>9. failures = 0 => Accounted(commands', gui.ticket, owner.completed)
  BY <1>2, <1>4, <1>5, AccountedAppends DEF Sent
<1>10. ~failed => Order(wheels', effects, Unapplied, commands')
  BY <1>2, <1>4, <1>5, OrderAppends DEF Sent
<1> QED  BY <1>6, <1>7, <1>8, <1>9, <1>10 DEF Sent

Less(ups, ups2) == ups2 = ups \/ (ups # <<>> /\ ups2 = Tail(ups))

LEMMA LessFacts ==
    ASSUME NEW ups \in Seq(Scenes), NEW ups2, Less(ups, ups2)
    PROVE  ups2 \in Seq(Scenes) /\ \A n \in 1 .. Len(ups2) : \E m \in 1 .. Len(ups) : ups2[n] = ups[m]
<1>1. CASE ups2 = ups
  BY <1>1
<1>2. CASE ups # <<>> /\ ups2 = Tail(ups)
  <2>1. ups2 \in Seq(Scenes) /\ Len(ups2) = Len(ups) - 1 /\ Len(ups) \in Nat
    BY <1>2
  <2>2. \A n \in 1 .. Len(ups2) : ups2[n] = ups[n + 1] /\ n + 1 \in 1 .. Len(ups)
    BY <1>2, <2>1
  <2> QED  BY <2>1, <2>2
<1> QED  BY <1>1, <1>2 DEF Less

LEMMA Withdraws ==
    ASSUME IInv, Soothed(gui, gate, gui', gate'), Less(updates, updates'), Sent(commands', wheels'),
           GuiTypes(published', frame', step', canonical'),
           step' # None /\ step'.do = "wheel" => NoCanonical(commands'),
           listened' \in BOOLEAN, listened' => gate'.latched,
           UNCHANGED <<load, owner, accepted, pageVars, effects, failed>>
    PROVE  IInv'
<1> USE DEF pageVars
<1>1. /\ load \in Workloads /\ gui \in GuiSet(load) /\ Handle(gui, owner, accepted)
      /\ updates \in Seq(Scenes) /\ effects \in Seq(Tag) /\ painted \in Maybe(Pixels) /\ Seen(gui)
  BY IInvFacts
<1>2. Calmed(gui, gui') /\ GateOK(gate')
  BY DEF Soothed
<1>3. load' \in Workloads /\ gui' \in GuiSet(load') /\ GateOK(gate')
  BY <1>1, <1>2 DEF Calmed
<1>4. PageTypes'
  BY DEF IInv, PageTypes
<1>5. /\ Handle(gui', owner, accepted) /\ Seen(gui') /\ Onward(gui, owner, gui', owner)
      /\ Carries(gui, owner, canon, extent, gui', owner, canon, extent)
  BY <1>1, <1>2, CalmHandle
<1>6. gui'.last = gui.last /\ gui'.ticket = gui.ticket /\ gui'.ticketOut = gui.ticketOut /\ gui'.scene = gui.scene
  BY <1>2 DEF Calmed
<1>7. /\ commands' \in Seq(Command) /\ wheels' \in Seq(Tag)
      /\ Queue(commands', accepted', gui'.last, gui'.ticket, gui'.ticketOut, owner'.completed)
      /\ Turn(commands', running')
      /\ failures' = 0 => Accounted(commands', gui'.ticket, owner'.completed)
      /\ ~failed' => Order(wheels', effects', Unapplied', commands')
  BY <1>6 DEF Sent, Unapplied
<1>8. updates' \in Seq(Scenes) /\ \A n \in 1 .. Len(updates') : \E m \in 1 .. Len(updates) : updates'[n] = updates[m]
  BY <1>1, LessFacts
<1>9. Shown(gui', owner', canon', extent', updates')
  <2>1. Shown(gui, owner, canon, extent, updates) /\ gui.scene \in Maybe(Scenes)
    BY <1>1, GuiFacts DEF IInv
  <2>2. Shown(gui', owner, canon, extent, updates')
    BY <1>1, <1>5, <1>6, <1>8, <2>1, ShownKept
  <2> QED  BY <2>2
<1>10. Painted(painted', gui', owner', canon', extent')
  <2>1. Painted(painted, gui, owner, canon, extent)
    BY DEF IInv
  <2>2. Painted(painted, gui', owner, canon, extent)
    BY <1>1, <1>5, <2>1, PaintedKept
  <2> QED  BY <2>2
<1>11. failed' => failures' > 0
  BY DEF IInv
<1>12. Doing("wheel")' => NoCanonical(commands')
  BY DEF Doing
<1> QED  BY <1>1, <1>3, <1>4, <1>5, <1>7, <1>8, <1>9, <1>10, <1>11, <1>12 DEF IInv

LEMMA ErrandFacts ==
    /\ \A e \in Errand :
          /\ e # None
          /\ e.do = "wheel" => e.delta \in Deltas
          /\ e.do = "install" => e.token \in Token
          /\ e.do = "rebind" => e.pub \in Scenes
          /\ e.do = "recompose" => e.pub \in Scenes /\ e.token \in Token
    /\ \A d \in Deltas : [do |-> "wheel", delta |-> d] \in Errand
    /\ \A t \in Token : [do |-> "install", token |-> t] \in Errand
    /\ [do |-> "present"] \in Errand
    /\ \A p \in Scenes : [do |-> "rebind", pub |-> p] \in Errand
    /\ \A p \in Scenes, t \in Token : [do |-> "recompose", pub |-> p, token |-> t] \in Errand
<1>1. ASSUME NEW e \in Errand
      PROVE  /\ e # None
             /\ e.do = "wheel" => e.delta \in Deltas
             /\ e.do = "install" => e.token \in Token
             /\ e.do = "rebind" => e.pub \in Scenes
             /\ e.do = "recompose" => e.pub \in Scenes /\ e.token \in Token
  <2>1. e # None
    BY NoneAssumption
  <2> HIDE DEF Scenes, Token
  <2> QED  BY <2>1 DEF Errand
<1>2. /\ \A d \in Deltas : [do |-> "wheel", delta |-> d] \in Errand
      /\ \A t \in Token : [do |-> "install", token |-> t] \in Errand
      /\ [do |-> "present"] \in Errand
      /\ \A p \in Scenes : [do |-> "rebind", pub |-> p] \in Errand
      /\ \A p \in Scenes, t \in Token : [do |-> "recompose", pub |-> p, token |-> t] \in Errand
  BY DEF Errand
<1> QED  BY <1>1, <1>2

LEMMA CloseSoothes ==
    ASSUME gui \in GuiSet(load), load \in Workloads, GateOK(gate), gui' = Closed(gui), gate' = gate
    PROVE  Soothed(gui, gate, gui', gate')
  BY ClosedCalms DEF Soothed

\* Nothing is sent, and the GUI does not latch a wheel.
LEMMA Rests ==
    ASSUME IInv, Soothed(gui, gate, gui', gate'), Less(updates, updates'),
           GuiTypes(published', frame', step', canonical'), step' # None => step'.do # "wheel",
           UNCHANGED <<load, owner, accepted, pageVars, commands, histVars>>
    PROVE  IInv'
<1>1. Sent(commands', wheels')
  <2>1. Sent(commands, wheels)
    BY IInvFacts
  <2> QED  BY <2>1 DEF histVars
<1>2. listened' \in BOOLEAN /\ (listened' => gate'.latched)
  BY DEF IInv, PageTypes, histVars, Soothed
<1>3. UNCHANGED <<load, owner, accepted, pageVars, effects, failed>>
  BY DEF histVars
<1> QED  BY <1>1, <1>2, <1>3, Withdraws

LEMMA GuiIs ==
    ASSUME IInv
    PROVE  /\ load \in Workloads /\ gui \in GuiSet(load) /\ GateOK(gate)
           /\ GuiTypes(published, frame, step, canonical)
           /\ step # None => step \in Errand
           /\ Soothed(gui, gate, gui, gate)
           /\ Less(updates, updates)
           /\ listened \in BOOLEAN /\ (listened => gate.latched)
           /\ Sent(commands, wheels)
<1>1. load \in Workloads /\ gui \in GuiSet(load) /\ GateOK(gate) /\ GuiTypes(published, frame, step, canonical)
  BY DEF IInv
<1>2. step # None => step \in Errand
  BY <1>1 DEF GuiTypes, Maybe
<1>3. Soothed(gui, gate, gui, gate)
  BY <1>1, CalmedSame DEF Soothed
<1> QED  BY <1>1, <1>2, <1>3, IInvFacts DEF IInv, PageTypes, Less

LEMMA LatchWheelStep ==
    ASSUME IInv, NEW d \in Deltas, LatchWheel(d)
    PROVE  IInv'
<1>1. step' = [do |-> "wheel", delta |-> d] /\ NoCanonical(commands)
  BY IInvFacts DEF LatchWheel, Drained, NoCanonical
<1>2. UNCHANGED <<load, handleVars, pageVars, commands, updates, published, frame, canonical, histVars>>
  BY DEF LatchWheel
<1>3. GuiTypes(published', frame', step', canonical')
  <2>1. step' \in Errand /\ step'.do # "rebind"
    BY <1>1, ErrandFacts
  <2> QED  BY <1>2, <2>1, GuiIs DEF GuiTypes, Maybe
<1>4. Soothed(gui, gate, gui', gate') /\ Less(updates, updates') /\ Sent(commands', wheels')
  BY <1>2, GuiIs DEF handleVars, histVars
<1>5. listened' \in BOOLEAN /\ (listened' => gate'.latched)
  BY <1>2, GuiIs DEF handleVars, histVars
<1>6. UNCHANGED <<load, owner, accepted, pageVars, effects, failed>> /\ NoCanonical(commands')
  BY <1>1, <1>2 DEF handleVars, histVars
<1> QED  BY <1>3, <1>4, <1>5, <1>6, Withdraws

LEMMA CanonicalWheelStep ==
    ASSUME IInv, CanonicalWheel
    PROVE  IInv'
<1>1. /\ SendCanonical /\ step = None
      /\ UNCHANGED <<load, handleVars, pageVars, updates, published, frame, step, effects, listened, failed>>
  BY DEF CanonicalWheel, GuiIdle
<1>2. canonical' \in Nat
  BY <1>1, GuiIs DEF SendCanonical, GuiTypes
<1>3. GuiTypes(published', frame', step', canonical')
  BY <1>1, <1>2, GuiIs DEF GuiTypes
<1>4. Sent(commands', wheels')
  BY <1>1, <1>2, Sends
<1>5. Soothed(gui, gate, gui', gate') /\ Less(updates, updates') /\ listened' \in BOOLEAN /\ (listened' => gate'.latched)
  BY <1>1, GuiIs DEF handleVars
<1>6. UNCHANGED <<load, owner, accepted, pageVars, effects, failed>>
  BY <1>1 DEF handleVars
<1> QED  BY <1>1, <1>3, <1>4, <1>5, <1>6, Withdraws

LEMMA PageInputStep ==
    ASSUME IInv, PageInput
    PROVE  IInv'
<1>1. /\ SendCanonical /\ step = None /\ published' = None /\ frame' = None
      /\ UNCHANGED <<load, owner, accepted, pageVars, updates, step, effects, listened, failed>>
  BY DEF PageInput, GuiIdle
<1>2. canonical' \in Nat
  BY <1>1, GuiIs DEF SendCanonical, GuiTypes
<1>3. GuiTypes(published', frame', step', canonical')
  BY <1>1, <1>2 DEF GuiTypes, Maybe
<1>4. Sent(commands', wheels')
  BY <1>1, <1>2, Sends
<1>5. Soothed(gui, gate, gui', gate')
  <2>1. UNCHANGED <<gui, gate>> \/ (gui' = Revoked(gui) /\ gate' = [gate EXCEPT !.authorized = None])
    BY DEF PageInput
  <2> QED  BY <2>1, GuiIs, SameSoothes, RevokeSoothes
<1>6. Less(updates, updates') /\ listened' \in BOOLEAN /\ (listened' => gate'.latched)
  BY <1>1, <1>5, GuiIs DEF Soothed
<1> QED  BY <1>1, <1>3, <1>4, <1>5, <1>6, Withdraws

LEMMA InstallFrameStep ==
    ASSUME IInv, InstallFrame
    PROVE  IInv'
<1>1. /\ step # None /\ step.do = "install" /\ Judge(step.token)
      /\ UNCHANGED <<load, owner, accepted, pageVars, commands, updates, published, canonical, histVars>>
      /\ (frame' = step.token /\ step' = [do |-> "present"]) \/ (step' = None /\ frame' = frame)
  BY DEF InstallFrame, Doing
<1>2. step.token \in Token
  BY <1>1, GuiIs, ErrandFacts
<1>3. GuiTypes(published', frame', step', canonical') /\ (step' # None => step'.do # "wheel")
  BY <1>1, <1>2, GuiIs, ErrandFacts DEF GuiTypes, Maybe
<1>4. Soothed(gui, gate, gui', gate')
  BY <1>1, GuiIs, JudgeCalms
<1>5. Less(updates, updates')
  BY <1>1, GuiIs
<1> QED  BY <1>1, <1>3, <1>4, <1>5, Rests

LEMMA ComposeFailsStep ==
    ASSUME IInv, ComposeFails
    PROVE  IInv'
<1>1. /\ step' = None
      /\ UNCHANGED <<load, owner, accepted, pageVars, commands, updates, published, canonical, histVars>>
      /\ \/ gui' = Revoked(gui) /\ gate' = [gate EXCEPT !.authorized = None] /\ frame' = None
         \/ UNCHANGED <<gui, gate, frame>>
  BY DEF ComposeFails, Withdraw
<1>2. GuiTypes(published', frame', step', canonical')
  BY <1>1, GuiIs DEF GuiTypes, Maybe
<1>3. Soothed(gui, gate, gui', gate')
  BY <1>1, GuiIs, SameSoothes, RevokeSoothes
<1>4. Less(updates, updates')
  BY <1>1, GuiIs
<1> QED  BY <1>1, <1>2, <1>3, <1>4, Rests

LEMMA PresentStep ==
    ASSUME IInv, Present
    PROVE  IInv'
<1>1. /\ step' = None /\ Judge(frame) /\ (frame' = frame \/ frame' = None)
      /\ UNCHANGED <<load, owner, accepted, pageVars, commands, updates, published, canonical, histVars>>
  BY DEF Present
<1>2. GuiTypes(published', frame', step', canonical')
  BY <1>1, GuiIs DEF GuiTypes, Maybe
<1>3. Soothed(gui, gate, gui', gate')
  BY <1>1, GuiIs, JudgeCalms
<1>4. Less(updates, updates')
  BY <1>1, GuiIs
<1> QED  BY <1>1, <1>2, <1>3, <1>4, Rests

LEMMA CloseAcceptanceStep ==
    ASSUME IInv, CloseAcceptance
    PROVE  IInv'
<1>1. /\ step = None /\ gui' = Closed(gui) /\ gate' = gate
      /\ UNCHANGED <<load, owner, accepted, pageVars, commands, updates, guiVars, histVars>>
  BY DEF CloseAcceptance, GuiIdle
<1>2. GuiTypes(published', frame', step', canonical') /\ step' = None
  BY <1>1, GuiIs DEF guiVars
<1>3. Soothed(gui, gate, gui', gate')
  BY <1>1, GuiIs, CloseSoothes
<1>4. Less(updates, updates')
  BY <1>1, GuiIs
<1> QED  BY <1>1, <1>2, <1>3, <1>4, Rests

LEMMA Keeps ==
    ASSUME IInv, NEW m, KeepOrClear(m), UNCHANGED <<step, canonical>>
    PROVE  /\ Soothed(gui, gate, gui', gate')
           /\ step = None => GuiTypes(published', frame', step', canonical')
<1>1. \/ UNCHANGED <<gui, gate, published, frame>>
      \/ published' = None /\ UNCHANGED <<gui, gate, frame>>
      \/ published' = None /\ Judge(frame) /\ (frame' = frame \/ frame' = None)
  BY DEF KeepOrClear
<1>2. Soothed(gui, gate, gui', gate')
  BY <1>1, GuiIs, SameSoothes, JudgeCalms
<1>3. step = None => GuiTypes(published', frame', step', canonical')
  BY <1>1, GuiIs DEF GuiTypes, Maybe
<1> QED  BY <1>2, <1>3

LEMMA UpdateSteps ==
    ASSUME IInv, NEW m, PlainUpdate(m) \/ UndrainedUpdate(m)
    PROVE  IInv'
<1>1. /\ step = None /\ KeepOrClear(m) /\ Less(updates, updates')
      /\ UNCHANGED <<load, owner, accepted, pageVars, commands, step, canonical, histVars>>
  BY GuiIs DEF PlainUpdate, UndrainedUpdate, GuiIdle, Less
<1>2. Soothed(gui, gate, gui', gate') /\ GuiTypes(published', frame', step', canonical')
  BY <1>1, Keeps
<1> QED  BY <1>1, <1>2, Rests

LEMMA RebindStep ==
    ASSUME IInv, Rebind
    PROVE  IInv'
<1>1. /\ step # None /\ step.do = "rebind" /\ frame' = None
      /\ UNCHANGED <<load, handleVars, pageVars, commands, updates, canonical, histVars>>
  BY DEF Rebind, Doing
<1>2. step.pub \in Scenes /\ frame \in Token
  BY <1>1, GuiIs, ErrandFacts DEF GuiTypes, Maybe
<1>3. PICK v \in Nat, n \in Nat : v = gui.visual /\ n = step.pub.publication
  BY <1>2, GuiIs, GuiFacts, SceneFacts
<1>4. PICK t : t = [frame EXCEPT !.publication = step.pub.publication, !.offset = gui.visual]
  OBVIOUS
<1>5. t \in Token
  BY <1>2, <1>3, <1>4 DEF Token
<1>6. \/ step' = [do |-> "recompose", pub |-> step.pub, token |-> t] /\ published' = published
      \/ step' = None /\ published' = step.pub
  BY <1>4 DEF Rebind
<1>7. GuiTypes(published', frame', step', canonical') /\ (step' # None => step'.do # "wheel")
  BY <1>1, <1>2, <1>5, <1>6, GuiIs, ErrandFacts DEF GuiTypes, Maybe
<1>8. Soothed(gui, gate, gui', gate') /\ Less(updates, updates')
  BY <1>1, GuiIs DEF handleVars
<1>9. UNCHANGED <<load, owner, accepted, pageVars, commands, histVars>>
  BY <1>1 DEF handleVars
<1> QED  BY <1>7, <1>8, <1>9, Rests

LEMMA RecomposeStep ==
    ASSUME IInv, Recompose
    PROVE  IInv'
<1>1. /\ step # None /\ step.do = "recompose" /\ step' = None
      /\ UNCHANGED <<load, owner, accepted, pageVars, commands, updates, canonical, histVars>>
  BY DEF Recompose, Doing
<1>2. step.pub \in Scenes /\ step.token \in Token
  BY <1>1, GuiIs, ErrandFacts
<1>3. \/ /\ Judge(step.token) /\ (frame' = step.token \/ frame' = None)
         /\ (published' = step.pub \/ published' = None)
      \/ /\ \/ gui' = Revoked(gui) /\ gate' = [gate EXCEPT !.authorized = None] /\ frame' = None
            \/ UNCHANGED <<gui, gate, frame>>
         /\ (published' = None \/ published' = published)
  BY DEF Recompose, Withdraw
<1>4. GuiTypes(published', frame', step', canonical')
  BY <1>1, <1>2, <1>3, GuiIs DEF GuiTypes, Maybe
<1>5. Soothed(gui, gate, gui', gate')
  BY <1>3, GuiIs, SameSoothes, RevokeSoothes, JudgeCalms
<1>6. Less(updates, updates')
  BY <1>1, GuiIs
<1> QED  BY <1>1, <1>4, <1>5, <1>6, Rests

LEMMA BlockingListenerStep ==
    ASSUME IInv, BlockingListener
    PROVE  IInv'
<1>1. /\ listened' = TRUE /\ gui' = Revoked(gui)
      /\ gate' = [gate EXCEPT !.authorized = None, !.latched = TRUE]
      /\ UNCHANGED <<load, owner, accepted, pageVars, commands, updates, guiVars, wheels, effects, failed>>
  BY DEF BlockingListener
<1>2. GateOK(gate') /\ gate'.latched = TRUE
  <2>1. GateOK(gate)
    BY GuiIs
  <2> QED  BY <1>1, <2>1 DEF GateOK
<1>3. Soothed(gui, gate, gui', gate')
  BY <1>1, <1>2, GuiIs, RevokedCalms DEF Soothed
<1>4. /\ Less(updates, updates') /\ Sent(commands', wheels')
      /\ GuiTypes(published', frame', step', canonical')
  BY <1>1, GuiIs DEF guiVars
<1>5. step' # None /\ step'.do = "wheel" => NoCanonical(commands')
  BY <1>1 DEF IInv, Doing, guiVars
<1> QED  BY <1>1, <1>2, <1>3, <1>4, <1>5, Withdraws

\* A scene is installed.
LEMMA InstalledFacts ==
    ASSUME IInv, NEW s \in Scenes, Installable(s), NEW trusted \in BOOLEAN, NEW h, h = Installed(s, trusted)
    PROVE  /\ h \in GuiSet(load) /\ h.scene = s /\ h.pending = After(gui.pending, s.ack)
           /\ h.last = gui.last /\ h.ticket = gui.ticket /\ h.ticketOut = gui.ticketOut
           /\ h.barrier = gui.barrier \/ h.barrier = None
           /\ h.policy = gui.policy /\ h.policyOut = gui.policyOut
           /\ Seen(h) /\ Handle(h, owner, accepted)
           /\ Carries(gui, owner, canon, extent, h, owner, canon, extent)
<1>1. load \in Workloads /\ gui \in GuiSet(load) /\ Handle(gui, owner, accepted)
  BY IInvFacts
<1>2. PICK kept : kept = After(gui.pending, s.ack)
  OBVIOUS
<1>3. Base(gui) <= s.ack /\ s.ack <= owner.applied /\ s.completed <= owner.completed
  BY SceneFacts DEF Installable, Base
<1>4. kept \in Seq(Input)
  <2>0. /\ gui.last \in Nat /\ Base(gui) \in Nat /\ owner.applied \in Nat /\ s.ack \in Nat
        /\ Fits(gui.pending, Base(gui), owner.applied, gui.last)
    BY <1>1, SceneFacts, HandleFacts
  <2>1. Fits(gui.pending, Base(gui), s.ack, gui.last) /\ gui.last = Base(gui) + Len(gui.pending)
    BY <1>1, <1>3, <2>0 DEF Fits, Handle
  <2>2. Follow(gui.pending, Base(gui), s.ack, gui.last)
        /\ IsSlice(Slice(gui.pending, Base(gui), s.ack, gui.last), gui.pending, Base(gui), s.ack, gui.last)
    BY <2>1, AfterIs, SliceFacts, Zenon
  <2> QED  BY <1>2, <2>2 DEF Follow, IsSlice
<1>5. PICK offset \in Nat : offset = Play(s.offset, kept, s.extent)
  BY <1>4, SceneFacts, PlayRange
<1>6. PICK complete \in BOOLEAN : complete = (~gui.ticketOut /\ s.completed = gui.ticket)
  OBVIOUS
<1>7. PICK ok \in BOOLEAN : ok = (Covers(s, offset) /\ trusted /\ complete /\ ~gui.policyOut /\ s.policy = gui.policy)
  OBVIOUS
<1>8. PICK v \in Nat : v = IF Covers(s, offset) THEN offset ELSE s.offset
  BY SceneFacts
<1>9. PICK bar \in Maybe(Nat) : bar = IF complete THEN None ELSE gui.barrier
  BY <1>1, GuiFacts DEF Maybe
<1>10. h = [gui EXCEPT !.scene = s, !.pending = kept, !.visual = v, !.eligible = ok, !.accepting = ok, !.barrier = bar]
  BY <1>2, <1>5, <1>6, <1>7, <1>8, <1>9 DEF Installed
<1>11. s \in Maybe(Scenes)
  BY DEF Maybe
<1>12. h \in GuiSet(load)
  <2>1. PICK g1 : g1 = [gui EXCEPT !.scene = s, !.pending = kept, !.visual = v]
    OBVIOUS
  <2>2. g1 \in GuiSet(load)
    BY <1>1, <1>4, <1>11, <2>1 DEF GuiSet
  <2>3. h = [g1 EXCEPT !.eligible = ok, !.accepting = ok, !.barrier = bar]
    BY <1>10, <2>1
  <2> QED  BY <2>2, <2>3 DEF GuiSet
<1>13. /\ h.scene = s /\ h.pending = kept /\ h.visual = v /\ h.eligible = ok /\ h.barrier = bar
       /\ h.last = gui.last /\ h.ticket = gui.ticket /\ h.ticketOut = gui.ticketOut
       /\ h.policy = gui.policy /\ h.policyOut = gui.policyOut
  BY <1>1, <1>10 DEF GuiSet
<1>14. Seen(h)
  <2>1. s # None
    BY NoneAssumption
  <2> QED  BY <1>5, <1>7, <1>8, <1>13, <2>1 DEF Seen
<1>15. h.barrier = gui.barrier \/ h.barrier = None
  BY <1>9, <1>13
<1>16. h.pending = After(gui.pending, s.ack)
  BY <1>2, <1>13
<1>17. /\ Handle(h, owner, accepted)
       /\ Carries(gui, owner, canon, extent, h, owner, canon, extent)
  BY <1>1, <1>3, <1>13, <1>15, <1>16, InstallHandle
<1> QED  BY <1>12, <1>13, <1>14, <1>15, <1>16, <1>17

LEMMA InstallKeeps ==
    ASSUME IInv, NEW s, s = Head(updates), updates # <<>>, Installable(s), NEW trusted \in BOOLEAN,
           NEW h, h = Installed(s, trusted), gui' = h \/ gui' = Closed(h),
           gate' = [gate EXCEPT !.authorized = s.policy, !.stale = gate'.stale],
           updates' = Tail(updates), GuiTypes(published', frame', step', canonical'),
           step' # None => step'.do # "wheel",
           UNCHANGED <<load, owner, accepted, pageVars, commands, histVars>>
    PROVE  IInv'
<1> USE DEF pageVars, histVars
<1>1. /\ load \in Workloads /\ gui \in GuiSet(load) /\ Handle(gui, owner, accepted)
      /\ updates \in Seq(Scenes) /\ painted \in Maybe(Pixels) /\ owner.applied \in Nat /\ owner.completed \in Nat
  BY IInvFacts
<1>2. s \in Scenes /\ s = updates[1] /\ 1 \in 1 .. Len(updates)
  BY <1>1
<1>3. /\ h \in GuiSet(load) /\ h.scene = s /\ h.last = gui.last /\ h.ticket = gui.ticket
      /\ h.ticketOut = gui.ticketOut /\ h.policy = gui.policy /\ h.policyOut = gui.policyOut
      /\ Seen(h) /\ Handle(h, owner, accepted)
      /\ Carries(gui, owner, canon, extent, h, owner, canon, extent)
  BY <1>2, InstalledFacts
<1>4. Calmed(h, gui')
  BY <1>1, <1>3, CalmedSame, ClosedCalms
<1>5. /\ Handle(gui', owner, accepted) /\ Seen(gui') /\ Onward(h, owner, gui', owner)
      /\ Carries(h, owner, canon, extent, gui', owner, canon, extent)
  BY <1>1, <1>3, <1>4, CalmHandle
<1>6. gui' \in GuiSet(load) /\ gui'.scene = s /\ gui'.last = gui.last /\ gui'.ticket = gui.ticket /\ gui'.ticketOut = gui.ticketOut
  BY <1>3, <1>4 DEF Calmed
<1>7. Onward(gui, owner, gui', owner)
  BY <1>3, <1>5 DEF Onward
<1>8. Carries(gui, owner, canon, extent, gui', owner, canon, extent)
  BY <1>1, <1>3, <1>5, CarriesTwice
<1>9. GateOK(gate') /\ gate'.latched = gate.latched
  <2>1. PICK x : gate' = [gate EXCEPT !.authorized = s.policy, !.stale = x]
    OBVIOUS
  <2> QED  BY <2>1 DEF IInv, GateOK
<1>10. updates' \in Seq(Scenes) /\ \A n \in 1 .. Len(updates') : \E m \in 1 .. Len(updates) : updates'[n] = updates[m]
  <2>1. Less(updates, updates') /\ updates \in Seq(Scenes)
    BY <1>1 DEF Less
  <2>2. PICK u : u = updates'
    OBVIOUS
  <2>3. Less(updates, u)
    BY <2>1, <2>2
  <2>4. u \in Seq(Scenes) /\ \A n \in 1 .. Len(u) : \E m \in 1 .. Len(updates) : u[n] = updates[m]
    BY ONLY <2>1, <2>3, LessFacts
  <2> QED  BY <2>2, <2>4
<1>11. Shown(gui', owner', canon', extent', updates')
  <2>1. Shown(gui, owner, canon, extent, updates) /\ gui.scene \in Maybe(Scenes)
    BY <1>1, GuiFacts DEF IInv
  <2>2. \E n \in 1 .. Len(updates) : gui'.scene = updates[n]
    BY <1>2, <1>6
  <2>3. updates \in Seq(Scenes) /\ Seen(gui')
    BY <1>1, <1>5
  <2>4. Shown(gui', owner, canon, extent, updates')
    BY ONLY <1>7, <1>8, <1>10, <2>1, <2>2, <2>3, ShownKept, Zenon
  <2> QED  BY <2>4
<1>12. Painted(painted', gui', owner', canon', extent')
  <2>1. Painted(painted, gui, owner, canon, extent)
    BY DEF IInv
  <2>2. Painted(painted, gui', owner, canon, extent)
    BY <1>1, <1>7, <1>8, <2>1, PaintedKept
  <2> QED  BY <2>2
<1>13. PageTypes'
  BY DEF IInv, PageTypes
<1>14. /\ commands' \in Seq(Command) /\ wheels' \in Seq(Tag) /\ effects' \in Seq(Tag)
       /\ Queue(commands', accepted', gui'.last, gui'.ticket, gui'.ticketOut, owner'.completed)
       /\ Turn(commands', running')
       /\ failures' = 0 => Accounted(commands', gui'.ticket, owner'.completed)
       /\ ~failed' => Order(wheels', effects', Unapplied', commands')
       /\ failed' => failures' > 0
       /\ listened' => gate'.latched
  BY <1>6, <1>9 DEF IInv, Unapplied
<1>15. Doing("wheel")' => NoCanonical(commands')
  BY DEF Doing
<1>16. load' \in Workloads /\ gui' \in GuiSet(load') /\ Handle(gui', owner', accepted')
  BY <1>1, <1>5, <1>6
<1> QED  BY <1>9, <1>10, <1>11, <1>12, <1>13, <1>14, <1>15, <1>16 DEF IInv

LEMMA CommitStep ==
    ASSUME IInv, NEW m \in BOOLEAN, Commit(m)
    PROVE  IInv'
<1> DEFINE pub == Head(updates)
           clears == /\ gate.stale # None /\ pub.ack >= gate.stale.seq
                     /\ pub.publication > gate.stale.publication
           after == [gate EXCEPT !.authorized = pub.policy, !.stale = IF clears THEN None ELSE @]
           trusted == gate.stale = None \/ clears
           fresh == Installed(pub, trusted)
<1>1. /\ step = None /\ updates # <<>> /\ updates' = Tail(updates)
      /\ UNCHANGED <<load, owner, accepted, pageVars, commands, canonical, histVars>>
  BY DEF Commit, GuiIdle
<1>2. Less(updates, updates')
  BY <1>1 DEF Less
<1>3. \/ UNCHANGED <<gui, gate, published, frame, step>>
      \/ /\ gui' = Revoked(gui) /\ gate' = [gate EXCEPT !.authorized = None]
         /\ published' = None /\ frame' = None /\ UNCHANGED step
      \/ gui' = Closed(gui) /\ UNCHANGED <<gate, published, frame, step>>
      \/ /\ Installable(pub) /\ gate' = after
         /\ gui' = fresh \/ gui' = Closed(fresh)
         /\ \/ published' = pub /\ UNCHANGED <<frame, step>>
            \/ /\ step' = None \/ (step' = [do |-> "rebind", pub |-> pub] /\ frame # None)
               /\ UNCHANGED <<published, frame>>
  BY DEF Commit
<1>4. CASE UNCHANGED <<gui, gate, published, frame, step>>
  <2>1. Soothed(gui, gate, gui', gate') /\ GuiTypes(published', frame', step', canonical')
    BY <1>1, <1>4, GuiIs
  <2> QED  BY <1>1, <1>2, <1>4, <2>1, Rests
<1>5. CASE /\ gui' = Revoked(gui) /\ gate' = [gate EXCEPT !.authorized = None]
           /\ published' = None /\ frame' = None /\ UNCHANGED step
  <2>1. Soothed(gui, gate, gui', gate')
    BY <1>5, GuiIs, RevokeSoothes
  <2>2. GuiTypes(published', frame', step', canonical')
    BY <1>1, <1>5, GuiIs DEF GuiTypes, Maybe
  <2> QED  BY <1>1, <1>2, <1>5, <2>1, <2>2, Rests
<1>6. CASE gui' = Closed(gui) /\ UNCHANGED <<gate, published, frame, step>>
  <2>1. Soothed(gui, gate, gui', gate') /\ GuiTypes(published', frame', step', canonical')
    BY <1>1, <1>6, GuiIs, CloseSoothes
  <2> QED  BY <1>1, <1>2, <1>6, <2>1, Rests
<1>7. CASE /\ Installable(pub) /\ gate' = after
           /\ gui' = fresh \/ gui' = Closed(fresh)
           /\ \/ published' = pub /\ UNCHANGED <<frame, step>>
              \/ /\ step' = None \/ (step' = [do |-> "rebind", pub |-> pub] /\ frame # None)
                 /\ UNCHANGED <<published, frame>>
  <2>1. PICK s : s = pub
    OBVIOUS
  <2>2. PICK tr \in BOOLEAN : tr = trusted
    OBVIOUS
  <2>3. PICK h : h = Installed(s, tr)
    OBVIOUS
  <2>4. gui' = h \/ gui' = Closed(h)
    BY <1>7, <2>1, <2>2, <2>3
  <2>5. gate' = [gate EXCEPT !.authorized = s.policy, !.stale = gate'.stale]
    BY <1>7, <2>1 DEF IInv, GateOK
  <2>6. s \in Scenes
    <3>1. updates \in Seq(Scenes)
      BY IInvFacts
    <3> QED  BY <1>1, <2>1, <3>1
  <2>7. GuiTypes(published', frame', step', canonical') /\ (step' # None => step'.do # "wheel")
    <3>1. [do |-> "rebind", pub |-> s] \in Errand /\ [do |-> "rebind", pub |-> s].do = "rebind"
      BY <2>6, ErrandFacts
    <3> HIDE DEF pub
    <3> QED  BY <1>1, <1>7, <2>1, <2>6, <3>1, GuiIs DEF GuiTypes, Maybe
  <2>8. Installable(s) /\ s = Head(updates)
    BY <1>7, <2>1
  <2> HIDE DEF pub, after, trusted, fresh, clears
  <2> QED  BY <1>1, <2>3, <2>4, <2>5, <2>7, <2>8, InstallKeeps
<1> QED  BY <1>3, <1>4, <1>5, <1>6, <1>7

-----------------------------------------------------------------------------
(* The GUI takes a wheel: an ordered fallback, or an accepted input. *)

LEMMA IssueFacts ==
    ASSUME IInv, NEW g, Calmed(gui, g), NEW h, h = Issue(g).gui, NEW f, f = Issue(g).fallback
    PROVE  /\ h \in GuiSet(load) /\ h.scene = gui.scene /\ h.last = gui.last
           /\ gui.ticket <= h.ticket /\ (gui.ticketOut => h.ticketOut)
           /\ Handle(h, owner, accepted) /\ Seen(h) /\ Onward(gui, owner, h, owner)
           /\ Carries(gui, owner, canon, extent, h, owner, canon, extent)
           /\ f \in Command /\ f.kind = "fallback"
           /\ Follower(f, gui.last, gui.ticket, h.ticket, h.ticketOut)
           /\ h.ticket = gui.ticket \/ (Ticketed(f) /\ f.ticket = gui.ticket + 1 /\ h.ticket = gui.ticket + 1)
<1>1. load \in Workloads /\ gui \in GuiSet(load) /\ Handle(gui, owner, accepted) /\ Seen(gui)
  BY IInvFacts
<1>2. PICK k : k = Closed(g)
  OBVIOUS
<1>3. g \in GuiSet(load) /\ Calmed(gui, k) /\ k \in GuiSet(load)
  <2>1. g \in GuiSet(load)
    BY DEF Calmed
  <2>2. Calmed(g, k)
    BY <1>1, <1>2, <2>1, ClosedCalms
  <2>3. Calmed(gui, k)
    BY <1>1, <2>2, CalmedTwice
  <2> QED  BY <2>1, <2>3 DEF Calmed
<1>4. /\ g.ticket = gui.ticket /\ k.ticket = gui.ticket /\ g.last = gui.last /\ k.last = gui.last
      /\ g.ticketOut = gui.ticketOut /\ g.pending = gui.pending /\ g.barrier = gui.barrier
      /\ k.scene = gui.scene /\ k.pending = gui.pending
  BY <1>3 DEF Calmed
<1>5. /\ Handle(k, owner, accepted) /\ Seen(k) /\ Onward(gui, owner, k, owner)
      /\ Carries(gui, owner, canon, extent, k, owner, canon, extent)
  BY <1>1, <1>3, CalmHandle
<1>6. /\ gui.last \in Nat /\ gui.ticket \in 0 .. load.ticket /\ load.ticket \in Nat /\ gui.ticketOut \in BOOLEAN
      /\ gui.barrier \in Maybe(Nat) /\ gui.pending \in Seq(Input) /\ accepted \in Seq(Input)
      /\ owner.completed \in Nat /\ owner.applied \in Nat
  BY <1>1, IInvFacts, GuiFacts, LoadFacts DEF GuiSet
<1> DEFINE Known(x) == x = None \/ (x \in Nat /\ x <= gui.last)
<1>7. PICK pending : pending = IF g.pending = <<>> THEN None ELSE Last(g.pending).seq
  OBVIOUS
<1>8. PICK newest : newest = IF accepted = <<>> THEN None ELSE Last(accepted).seq
  OBVIOUS
<1>9. Known(pending)
  <2>1. CASE g.pending = <<>>
    BY <1>7, <2>1
  <2>2. CASE g.pending # <<>>
    <3>1. PICK l \in Nat : l = Len(gui.pending) /\ l >= 1
      BY <1>4, <1>6, <2>2
    <3>2. Base(gui) \in Nat /\ gui.pending[l].seq = Base(gui) + l /\ Base(gui) + l = gui.last
      BY <1>1, <3>1, GuiFacts DEF Handle, Numbered
    <3>3. pending = gui.last
      BY <1>4, <1>7, <2>2, <3>1, <3>2 DEF Last
    <3> QED  BY <1>6, <3>3
  <2> QED  BY <2>1, <2>2
<1>10. Known(newest)
  <2>1. CASE accepted = <<>>
    BY <1>8, <2>1
  <2>2. CASE accepted # <<>>
    <3>1. PICK l \in Nat : l = Len(accepted) /\ l >= 1
      BY <1>6, <2>2
    <3>2. accepted[l].seq = owner.notified + l /\ owner.notified + l = gui.last
      BY <1>1, <3>1 DEF Handle, Numbered
    <3>3. newest = gui.last
      BY <1>8, <2>2, <3>1, <3>2 DEF Last
    <3> QED  BY <1>6, <3>3
  <2> QED  BY <2>1, <2>2
<1>11. Known(gui.barrier)
  BY <1>1, <1>6 DEF Handle, Maybe
<1>12. PICK first : first = IF g.barrier # None THEN g.barrier ELSE pending
  OBVIOUS
<1>13. PICK bar : bar = IF newest # None /\ (first = None \/ first < newest \/ Len(accepted) >= MaxPending)
                        THEN newest ELSE first
  OBVIOUS
<1>14. Known(bar)
  BY <1>4, <1>9, <1>10, <1>11, <1>12, <1>13
<1>15. PICK out \in BOOLEAN : out = (gui.ticketOut \/ gui.ticket = load.ticket)
  OBVIOUS
<1>16. PICK t \in 0 .. load.ticket : t = IF out THEN gui.ticket ELSE gui.ticket + 1
  <2>1. CASE out
    BY <1>6, <2>1
  <2>2. CASE ~out
    <3>0. gui.ticket # load.ticket
      BY <1>15, <2>2, Zenon
    <3>1. gui.ticket + 1 \in 0 .. load.ticket
      BY <1>6, <3>0
    <3> QED  BY <2>2, <3>1
  <2> QED  BY <2>1, <2>2
<1>17. h = [k EXCEPT !.barrier = bar, !.ticketOut = out, !.ticket = t]
  BY <1>2, <1>4, <1>7, <1>8, <1>12, <1>13, <1>15, <1>16 DEF Issue
<1>18. f = [kind |-> "fallback", after |-> bar, ticket |-> IF out THEN None ELSE gui.ticket + 1]
  BY <1>2, <1>4, <1>7, <1>8, <1>12, <1>13, <1>15 DEF Issue
<1>19. bar \in Maybe(Nat)
  BY <1>14 DEF Maybe
<1>20. h \in GuiSet(load)
  BY <1>3, <1>17, <1>19 DEF GuiSet
<1>21. /\ h.scene = k.scene /\ h.pending = k.pending /\ h.last = k.last /\ h.visual = k.visual
       /\ h.eligible = k.eligible /\ h.policy = k.policy /\ h.policyOut = k.policyOut
       /\ h.barrier = bar /\ h.ticket = t /\ h.ticketOut = out
  BY <1>3, <1>17 DEF GuiSet
<1>22. Seen(h)
  BY <1>5, <1>21 DEF Seen
<1>23. Handle(h, owner, accepted)
  <2>1. k.ticket \in Nat /\ h.ticket \in Nat /\ k.ticket <= h.ticket
    BY <1>4, <1>6, <1>16, <1>21
  <2>2. h.barrier # None => h.barrier <= h.last
    BY <1>4, <1>14, <1>21
  <2> QED  BY <1>5, <1>6, <1>21, <2>1, <2>2, HandleKept
<1>24. Onward(gui, owner, h, owner)
  BY <1>5, <1>21 DEF Onward
<1>25. Carries(gui, owner, canon, extent, h, owner, canon, extent)
  <2>1. h.scene = gui.scene /\ h.pending = gui.pending
    BY <1>4, <1>21
  <2> QED  BY <2>1, SameCarries
<1>26. f \in Command /\ f.kind = "fallback"
  <2>1. PICK tk \in Maybe(Nat) : tk = IF out THEN None ELSE gui.ticket + 1
    <3>1. gui.ticket + 1 \in Maybe(Nat) /\ None \in Maybe(Nat)
      BY <1>6 DEF Maybe
    <3>2. CASE out
      BY <3>1, <3>2
    <3>3. CASE ~out
      BY <3>1, <3>3
    <3> QED  BY <3>2, <3>3
  <2>2. f \in Fallback
    BY <1>18, <1>19, <2>1 DEF Fallback
  <2> QED  BY <1>18, <2>2 DEF Command
<1>27. gui.ticket + 1 # None
  BY <1>6, NoneAssumption
<1>28. Follower(f, gui.last, gui.ticket, h.ticket, h.ticketOut)
  BY <1>6, <1>14, <1>16, <1>18, <1>21, <1>27 DEF Follower
<1>29. h.ticket = gui.ticket \/ (Ticketed(f) /\ f.ticket = gui.ticket + 1 /\ h.ticket = gui.ticket + 1)
  BY <1>16, <1>18, <1>21, <1>27 DEF Ticketed
<1>30. gui.ticket <= h.ticket /\ (gui.ticketOut => h.ticketOut)
  BY <1>6, <1>15, <1>16, <1>21
<1> QED  BY <1>4, <1>20, <1>21, <1>22, <1>23, <1>24, <1>25, <1>26, <1>28, <1>29, <1>30

\* The rest of a step that takes a wheel.
Wheels(h) ==
    /\ gui' = h /\ h \in GuiSet(load) /\ h.scene = gui.scene /\ Seen(h)
    /\ Onward(gui, owner, h, owner)
    /\ Carries(gui, owner, canon, extent, h, owner, canon, extent)
    /\ Handle(h, owner, accepted')
    /\ commands' \in Seq(Command) /\ wheels' \in Seq(Tag)
    /\ Queue(commands', accepted', h.last, h.ticket, h.ticketOut, owner.completed)
    /\ Turn(commands', running)
    /\ failures = 0 => Accounted(commands', h.ticket, owner.completed)
    /\ ~failed => Order(wheels', effects, After(accepted', owner.applied), commands')
    /\ step' # None => step' \in Errand /\ step'.do = "install"

LEMMA WheelKeeps ==
    ASSUME IInv, NEW h, Wheels(h),
           UNCHANGED <<load, owner, gate, pageVars, updates, published, frame, canonical, effects, listened, failed>>
    PROVE  IInv'
<1> USE DEF pageVars
<1>1. /\ load \in Workloads /\ gui \in GuiSet(load) /\ Handle(gui, owner, accepted)
      /\ updates \in Seq(Scenes) /\ painted \in Maybe(Pixels)
  BY IInvFacts
<1>2. load' \in Workloads /\ gui' \in GuiSet(load') /\ GateOK(gate') /\ Handle(gui', owner', accepted')
  BY <1>1 DEF Wheels, IInv
<1>3. PageTypes' /\ (failed' => failures' > 0) /\ (listened' => gate'.latched)
  BY DEF IInv, PageTypes
<1>4. GuiTypes(published', frame', step', canonical') /\ (Doing("wheel")' => NoCanonical(commands'))
  BY DEF IInv, GuiTypes, Wheels, Maybe, Doing
<1>5. /\ commands' \in Seq(Command) /\ wheels' \in Seq(Tag) /\ effects' \in Seq(Tag) /\ updates' \in Seq(Scenes)
      /\ Queue(commands', accepted', gui'.last, gui'.ticket, gui'.ticketOut, owner'.completed)
      /\ Turn(commands', running')
      /\ failures' = 0 => Accounted(commands', gui'.ticket, owner'.completed)
      /\ ~failed' => Order(wheels', effects', Unapplied', commands')
  BY DEF IInv, Wheels, Unapplied
<1>6. Shown(gui', owner', canon', extent', updates')
  <2>1. Shown(gui, owner, canon, extent, updates) /\ gui.scene \in Maybe(Scenes)
    BY <1>1, GuiFacts DEF IInv
  <2>2. \A n \in 1 .. Len(updates) : \E m \in 1 .. Len(updates) : updates[n] = updates[m]
    OBVIOUS
  <2>3. Onward(gui, owner, h, owner) /\ Carries(gui, owner, canon, extent, h, owner, canon, extent)
        /\ h.scene = gui.scene /\ Seen(h) /\ updates \in Seq(Scenes)
    BY <1>1 DEF Wheels
  <2>4. Shown(h, owner, canon, extent, updates)
    BY ONLY <2>1, <2>2, <2>3, ShownKept, Zenon
  <2> QED  BY <2>4 DEF Wheels
<1>7. Painted(painted', gui', owner', canon', extent')
  <2>1. Painted(painted, gui, owner, canon, extent)
    BY DEF IInv
  <2>2. Painted(painted, h, owner, canon, extent)
    BY <1>1, <2>1, PaintedKept DEF Wheels
  <2> QED  BY <2>2 DEF Wheels
<1> QED  BY <1>2, <1>3, <1>4, <1>5, <1>6, <1>7 DEF IInv

LEMMA FallbackWheel ==
    ASSUME IInv, NEW g, Calmed(gui, g), NEW d, FallsBack(g, d), Scroll(g, d)
    PROVE  \E h : Wheels(h)
<1>1. PICK h : h = Issue(g).gui
  OBVIOUS
<1>2. PICK f : f = Issue(g).fallback
  OBVIOUS
<1>3. /\ gui' = h /\ commands' = Append(commands, f) /\ step' = None /\ accepted' = accepted
      /\ wheels' = IF f.ticket = None THEN wheels ELSE Append(wheels, <<"fallback", f.ticket>>)
  BY <1>1, <1>2 DEF Scroll
<1>4. /\ h \in GuiSet(load) /\ h.scene = gui.scene /\ h.last = gui.last
      /\ gui.ticket <= h.ticket /\ (gui.ticketOut => h.ticketOut)
      /\ Handle(h, owner, accepted) /\ Seen(h) /\ Onward(gui, owner, h, owner)
      /\ Carries(gui, owner, canon, extent, h, owner, canon, extent)
      /\ f \in Command /\ f.kind = "fallback"
      /\ Follower(f, gui.last, gui.ticket, h.ticket, h.ticketOut)
      /\ h.ticket = gui.ticket \/ (Ticketed(f) /\ f.ticket = gui.ticket + 1 /\ h.ticket = gui.ticket + 1)
  BY <1>1, <1>2, IssueFacts
<1>5. /\ load \in Workloads
      /\ commands \in Seq(Command) /\ wheels \in Seq(Tag) /\ effects \in Seq(Tag)
      /\ accepted \in Seq(Input) /\ Unapplied \in Seq(Input)
      /\ gui.ticket \in Nat /\ gui.last \in Nat /\ gui.ticketOut \in BOOLEAN /\ owner.completed \in Nat
      /\ owner.completed <= gui.ticket /\ Sent(commands, wheels)
  BY IInvFacts
<1>6. h.ticket \in Nat /\ h.ticketOut \in BOOLEAN
  BY <1>4, <1>5, GuiFacts
<1>7. Queue(commands', accepted', h.last, h.ticket, h.ticketOut, owner.completed)
  <2>1. Queue(Append(commands, f), accepted, gui.last, h.ticket, h.ticketOut, owner.completed)
    <3>1. Queue(commands, accepted, gui.last, gui.ticket, gui.ticketOut, owner.completed)
      BY <1>5 DEF Sent
    <3>2. PICK z \in Nat, t \in Nat, done \in Nat, t2 \in Nat :
              z = gui.last /\ t = gui.ticket /\ done = owner.completed /\ t2 = h.ticket
      BY <1>5, <1>6
    <3>3. PICK o \in BOOLEAN, o2 \in BOOLEAN : o = gui.ticketOut /\ o2 = h.ticketOut
      BY <1>5, <1>6
    <3>4. Queue(commands, accepted, z, t, o, done) /\ Follower(f, z, t, t2, o2)
      BY <1>4, <3>1, <3>2, <3>3
    <3>5. t <= t2 /\ (o => o2) /\ done <= t
      BY <1>4, <1>5, <3>2, <3>3
    <3>6. commands \in Seq(Command) /\ accepted \in Seq(Input) /\ f \in Command
      BY <1>4, <1>5
    <3>7. Queue(Append(commands, f), accepted, z, t2, o2, done)
      BY ONLY <3>4, <3>5, <3>6, QueueAppends, z \in Nat, t \in Nat, done \in Nat, t2 \in Nat,
              o \in BOOLEAN, o2 \in BOOLEAN
    <3> QED  BY <3>2, <3>3, <3>7
  <2> QED  BY <1>3, <1>4, <2>1
<1>8. Turn(commands', running)
  BY <1>3, <1>5, TurnAppends DEF Sent
<1>9. failures = 0 => Accounted(commands', h.ticket, owner.completed)
  BY <1>3, <1>4, <1>5, <1>6, AccountedAppends DEF Sent
<1>10. /\ f.ticket # None => f \in Lasting /\ Mark(f) = <<"fallback", f.ticket>> /\ Mark(f) \in Tag
       /\ f.ticket = None => f \notin Lasting
  <2>1. f.ticket # None => f \in Lasting
    BY <1>4, CommandFacts DEF Ticketed
  <2>2. f.ticket = None => f \notin Lasting
    BY <1>4, CommandFacts DEF Ticketed
  <2>3. f.ticket # None => Mark(f) = <<"fallback", f.ticket>> /\ Mark(f) \in Tag
    BY <1>4, <2>1, TagFacts DEF Mark
  <2> QED  BY <2>1, <2>2, <2>3
<1>11. commands' \in Seq(Command) /\ wheels' \in Seq(Tag)
  <2>1. commands' \in Seq(Command)
    BY <1>3, <1>4, <1>5
  <2>2. CASE f.ticket = None
    BY <1>3, <1>5, <2>1, <2>2
  <2>3. CASE f.ticket # None
    <3>1. PICK y \in Tag : y = <<"fallback", f.ticket>>
      BY <1>10, <2>3
    <3>2. wheels' = Append(wheels, y)
      BY <1>3, <2>3, <3>1
    <3> QED  BY <1>5, <2>1, <3>2
  <2> QED  BY <2>2, <2>3
<1>12. ~failed => Order(wheels', effects, After(accepted', owner.applied), commands')
  <2>1. ~failed => Order(wheels, effects, Unapplied, commands)
    BY <1>5 DEF Sent
  <2>2. ~failed => Order(wheels', effects, Unapplied, commands')
    BY <1>3, <1>4, <1>5, <1>10, <2>1, OrderAppends
  <2> QED  BY <1>3, <2>2 DEF Unapplied
<1>13. Wheels(h)
  BY <1>3, <1>4, <1>7, <1>8, <1>9, <1>11, <1>12 DEF Wheels
<1> QED  BY <1>13

LEMMA AcceptWheel ==
    ASSUME IInv, NEW d \in Deltas, ~FallsBack(gui, d), NoCanonical(commands), Scroll(gui, d)
    PROVE  \E h : Wheels(h)
<1>1. /\ load \in Workloads /\ gui \in GuiSet(load) /\ Handle(gui, owner, accepted) /\ Seen(gui)
      /\ commands \in Seq(Command) /\ wheels \in Seq(Tag) /\ effects \in Seq(Tag)
      /\ accepted \in Seq(Input) /\ Unapplied \in Seq(Input)
      /\ gui.ticket \in Nat /\ gui.last \in Nat /\ gui.ticketOut \in BOOLEAN
      /\ owner.completed \in Nat /\ owner.applied \in Nat /\ Sent(commands, wheels)
  BY IInvFacts
<1>2. /\ gui.scene \in Maybe(Scenes) /\ gui.visual \in Nat /\ gui.pending \in Seq(Input) /\ gui.policy \in Nat
      /\ gui.last \in 0 .. load.sequence /\ load.sequence \in Nat /\ d \in Int
      /\ MaxPending \in Nat
  BY <1>1, GuiFacts, LoadFacts, DataAssumption DEF GuiSet
<1>3. /\ ~(Len(accepted) >= MaxPending) /\ ~FallbackPending(gui) /\ gui.scene # None /\ gui.eligible
      /\ Within(gui.visual + d, gui.scene.extent) /\ ~(Len(gui.pending) >= MaxPending)
      /\ gui.last # load.sequence
  BY DEF FallsBack, Refuses
<1>4. /\ gui.scene \in Scenes /\ gui.scene.publication \in Nat /\ gui.scene.extent \in Nat
      /\ gui.scene.completed \in Nat /\ gui.scene.offset \in Nat
  <2>1. gui.scene \in Scenes
    BY <1>2, <1>3 DEF Maybe
  <2> QED  BY <2>1, SceneFacts
<1>5. ~gui.ticketOut /\ gui.ticket <= owner.completed
  <2>1. ~gui.ticketOut /\ ~(gui.ticket > 0 /\ gui.scene.completed < gui.ticket)
    BY <1>3 DEF FallbackPending
  <2>2. gui.scene.completed <= owner.completed
    BY <1>1, <1>3 DEF Handle
  <2> QED  BY <1>1, <1>4, <2>1, <2>2
<1>6. PICK v \in Nat : v = gui.visual + d /\ v <= gui.scene.extent
  BY <1>2, <1>3, <1>4 DEF Within
<1>7. PICK z \in Nat : z = gui.last + 1 /\ z \in 0 .. load.sequence
  BY <1>2, <1>3
<1>8. PICK i : i = [seq |-> z, delta |-> d, visual |-> v]
  OBVIOUS
<1>9. i \in Input /\ i.seq = z /\ i.delta = d /\ i.visual = v
  BY <1>8 DEF Input
<1>10. PICK x : x = [kind |-> "accepted", input |-> i]
  OBVIOUS
<1>11. PICK h : h = [gui EXCEPT !.pending = Append(gui.pending, i), !.last = z, !.visual = v]
  OBVIOUS
<1>12. PICK token : token = [seq |-> z, policy |-> gui.policy, offset |-> v, publication |-> gui.scene.publication]
  OBVIOUS
<1>13. /\ gui' = h /\ accepted' = Append(accepted, i) /\ commands' = Append(commands, x)
       /\ wheels' = Append(wheels, <<"input", z>>)
       /\ step' = [do |-> "install", token |-> token]
  BY <1>6, <1>7, <1>8, <1>9, <1>10, <1>11, <1>12 DEF Scroll
<1>14. Append(gui.pending, i) \in Seq(Input)
  BY <1>2, <1>9
<1>15. h \in GuiSet(load)
  BY <1>1, <1>7, <1>11, <1>14 DEF GuiSet
<1>16. /\ h.scene = gui.scene /\ h.pending = Append(gui.pending, i) /\ h.last = z /\ h.visual = v
       /\ h.ticket = gui.ticket /\ h.ticketOut = gui.ticketOut /\ h.barrier = gui.barrier
       /\ h.policy = gui.policy /\ h.policyOut = gui.policyOut /\ h.eligible = gui.eligible
  BY <1>1, <1>11 DEF GuiSet
<1>17. /\ Handle(h, owner, accepted')
       /\ After(accepted', owner.applied) = Append(Unapplied, i)
       /\ Carries(gui, owner, canon, extent, h, owner, canon, extent)
  <2>1. Len(gui.pending) < MaxPending /\ Len(accepted) < MaxPending
    BY <1>1, <1>2, <1>3
  <2>2. h.last = gui.last + 1 /\ i.seq = gui.last + 1
    BY <1>7, <1>9, <1>16
  <2>3. /\ Handle(h, owner, Append(accepted, i))
        /\ After(Append(accepted, i), owner.applied) = Append(After(accepted, owner.applied), i)
        /\ Carries(gui, owner, canon, extent, h, owner, canon, extent)
    BY <1>1, <1>9, <1>16, <2>1, <2>2, AcceptHandle
  <2> QED  BY <1>13, <2>3 DEF Unapplied
<1>18. Onward(gui, owner, h, owner)
  <2>1. gui.policyOut => h.policyOut
    BY <1>16, Zenon
  <2>2. gui.policy <= h.policy /\ h.policy \in Nat /\ owner.applied <= owner.applied /\ owner.completed <= owner.completed
    <3>1. /\ h.policy = gui.policy /\ gui.policy \in Nat
          /\ owner.applied \in Nat /\ owner.completed \in Nat
      BY <1>1, <1>2, <1>16, Zenon
    <3> QED  BY ONLY <3>1
  <2> QED  BY <1>1, <1>2, <2>1, <2>2, Zenon DEF Onward
<1>19. Seen(h)
  <2>1. PICK s : s = gui.scene
    OBVIOUS
  <2>2. s.offset \in Nat /\ s.extent \in Nat /\ s.policy = gui.policy /\ ~gui.policyOut
        /\ gui.visual = Play(s.offset, gui.pending, s.extent)
    BY <1>1, <1>3, <1>4, <2>1 DEF Seen
  <2>3. PICK p \in Seq(Input) : p = gui.pending
    BY <1>2
  <2>4. Append(p, i) = p \o <<i>> /\ <<i>> \in Seq(Input)
    BY <1>9
  <2>5. Play(s.offset, p \o <<i>>, s.extent) = Play(Play(s.offset, p, s.extent), <<i>>, s.extent)
    BY <2>2, <2>4, PlayConcat
  <2>6. Play(gui.visual, <<i>>, s.extent) = Clamp(gui.visual + i.delta, s.extent)
    BY <1>2, <1>9, <2>2, PlayOne
  <2>7. Clamp(v, s.extent) = v
    BY <1>6, <2>1, <2>2 DEF Clamp
  <2>8. v = Play(s.offset, Append(p, i), s.extent)
    BY <1>6, <1>9, <2>2, <2>3, <2>4, <2>5, <2>6, <2>7
  <2> QED  BY <1>3, <1>16, <2>1, <2>2, <2>3, <2>8 DEF Seen
<1>20. /\ \A n \in 1 .. Len(commands) : commands[n] \notin Lasting
       /\ x \in Command /\ x \notin Lasting
       /\ Queue(Append(commands, x), Append(accepted, i), gui.last + 1, gui.ticket, FALSE, owner.completed)
  <2>1. gui.ticketOut = FALSE
    BY <1>1, <1>5
  <2>2. Queue(commands, accepted, gui.last, gui.ticket, FALSE, owner.completed)
    BY <1>1, <2>1 DEF Sent
  <2> QED  BY <1>1, <1>5, <1>9, <1>10, <2>2, QueueAccepts
<1>21. Queue(commands', accepted', h.last, h.ticket, h.ticketOut, owner.completed)
  <2>1. h.ticketOut = FALSE /\ h.last = gui.last + 1
    BY <1>1, <1>5, <1>7, <1>16
  <2> QED  BY <1>13, <1>16, <1>20, <2>1
<1>22. Turn(commands', running)
  BY <1>1, <1>13, TurnAppends DEF Sent
<1>23. failures = 0 => Accounted(commands', h.ticket, owner.completed)
  BY <1>1, <1>13, <1>16, <1>20, AccountedAppends DEF Sent
<1>24. ~failed => Order(wheels', effects, After(accepted', owner.applied), commands')
  <2>1. ~failed => Order(wheels, effects, Unapplied, commands)
    BY <1>1 DEF Sent
  <2>2. ~failed => Order(Append(wheels, <<"input", i.seq>>), effects, Append(Unapplied, i), Append(commands, x))
    BY <1>1, <1>9, <1>20, <2>1, OrderAccepts
  <2> QED  BY <1>9, <1>13, <1>17, <2>2
<1>25. commands' \in Seq(Command) /\ wheels' \in Seq(Tag)
  <2>1. PICK y \in Tag : y = <<"input", z>>
    BY DEF Tag
  <2>2. Append(commands, x) \in Seq(Command) /\ Append(wheels, y) \in Seq(Tag)
    BY <1>1, <1>20
  <2> QED  BY <1>13, <2>1, <2>2
<1>26. step' \in Errand /\ step'.do = "install"
  <2>1. token \in Token
    BY <1>2, <1>4, <1>12 DEF Token
  <2> QED  BY <1>13, <2>1, ErrandFacts
<1>27. Wheels(h)
  BY <1>13, <1>15, <1>16, <1>17, <1>18, <1>19, <1>21, <1>22, <1>23, <1>24, <1>25, <1>26 DEF Wheels
<1> QED  BY <1>27

LEMMA ClosedWheelStep ==
    ASSUME IInv, NEW d \in Deltas, ClosedWheel(d)
    PROVE  IInv'
<1>1. PICK g : g = Closed(gui)
  OBVIOUS
<1>2. load \in Workloads /\ gui \in GuiSet(load)
  BY IInvFacts
<1>3. Calmed(gui, g) /\ ~g.accepting
  BY <1>1, <1>2, ClosedCalms
<1>4. FallsBack(g, d)
  BY <1>3 DEF FallsBack, Refuses
<1>5. Scroll(g, d)
  BY <1>1 DEF ClosedWheel
<1>6. PICK h : Wheels(h)
  BY <1>3, <1>4, <1>5, FallbackWheel
<1>7. UNCHANGED <<load, owner, gate, pageVars, updates, published, frame, canonical, effects, listened, failed>>
  BY DEF ClosedWheel
<1> QED  BY <1>6, <1>7, WheelKeeps

LEMMA LatchedWheelStep ==
    ASSUME IInv, LatchedWheel
    PROVE  IInv'
<1>1. /\ load \in Workloads /\ gui \in GuiSet(load) /\ step \in Errand /\ step.do = "wheel"
      /\ NoCanonical(commands)
  <2>1. Doing("wheel")
    BY DEF LatchedWheel
  <2>2. step # None /\ step.do = "wheel"
    BY <2>1 DEF Doing
  <2>3. NoCanonical(commands)
    BY <2>1 DEF IInv
  <2> QED  BY <2>2, <2>3, GuiIs
<1>2. step.delta \in Deltas
  BY <1>1, ErrandFacts
<1>3. UNCHANGED <<load, owner, gate, pageVars, updates, published, frame, effects, listened, failed>>
  BY DEF LatchedWheel
<1>4. CASE Current(published)
  <2>1. Scroll(gui, step.delta) /\ UNCHANGED canonical
    BY <1>4 DEF LatchedWheel
  <2>2. \E h : Wheels(h)
    <3>1. CASE FallsBack(gui, step.delta)
      BY <1>1, <2>1, <3>1, CalmedSame, FallbackWheel
    <3>2. CASE ~FallsBack(gui, step.delta)
      BY <1>1, <1>2, <2>1, <3>2, AcceptWheel
    <3> QED  BY <3>1, <3>2
  <2> QED  BY <1>3, <2>1, <2>2, WheelKeeps
<1>5. CASE ~Current(published)
  <2>1. SendCanonical /\ step' = None /\ UNCHANGED <<gui, accepted>>
    BY <1>5 DEF LatchedWheel
  <2>2. canonical' \in Nat
    BY <2>1, GuiIs DEF SendCanonical, GuiTypes
  <2>3. GuiTypes(published', frame', step', canonical')
    BY <1>3, <2>1, <2>2, GuiIs DEF GuiTypes, Maybe
  <2>4. Sent(commands', wheels')
    BY <2>1, <2>2, Sends
  <2>5. Soothed(gui, gate, gui', gate') /\ Less(updates, updates') /\ listened' \in BOOLEAN /\ (listened' => gate'.latched)
    BY <1>3, <2>1, GuiIs
  <2> QED  BY <1>3, <2>1, <2>3, <2>4, <2>5, Withdraws
<1> QED  BY <1>4, <1>5

-----------------------------------------------------------------------------
(* The page owner. *)

\* The owner's ledger o, the FIFO q, the commands c and what was performed, e,
\* may be the next ones.
Works(o, q, c, e, run, fl, bad) ==
    /\ c \in Seq(Command) /\ e \in Seq(Tag)
    /\ Handle(gui, o, q)
    /\ Queue(c, q, gui.last, gui.ticket, gui.ticketOut, o.completed)
    /\ Turn(c, run)
    /\ fl = 0 => Accounted(c, gui.ticket, o.completed)
    /\ bad => fl > 0
    /\ ~bad => Order(wheels, e, After(q, o.applied), c)
    /\ NoCanonical(commands) => NoCanonical(c)
    /\ owner.applied <= o.applied /\ owner.completed <= o.completed

\* The pixels p are those painted last, still true of the page or no longer clean.
Repaints(p, o, can, ext) ==
    \/ p = painted /\ Carries(gui, owner, canon, extent, gui, o, can, ext)
    \/ painted # None /\ p = [painted EXCEPT !.clean = FALSE]
    \/ painted = None /\ p = None

\* What is published stays true of the page, or the GUI loses its policy.
Moves(g, o, can, ext) ==
    /\ can \in Nat /\ ext \in Extents
    /\ Carries(gui, owner, canon, extent, gui, o, can, ext) \/ Lost(gui, g)

\* The rest of the owner's state.
Tools(set, sm, lay, fl, run, bad) ==
    /\ set \in Maybe(Settings) /\ sm \in Maybe(Nat) /\ lay \in Nat /\ fl \in Nat
    /\ run \in BOOLEAN /\ bad \in BOOLEAN

LEMMA OwnerKeeps ==
    ASSUME IInv, Soothed(gui, gate, gui', gate'),
           Works(owner', accepted', commands', effects', running', failures', failed'),
           Moves(gui', owner', canon', extent'),
           Repaints(painted', owner', canon', extent'),
           Tools(setting', smooth', layouts', failures', running', failed'),
           UNCHANGED <<load, nextPub, updates, guiVars, wheels, listened>>
    PROVE  IInv'
<1>1. /\ load \in Workloads /\ gui \in GuiSet(load) /\ Handle(gui, owner, accepted) /\ Seen(gui)
      /\ updates \in Seq(Scenes) /\ painted \in Maybe(Pixels)
      /\ owner.applied \in Nat /\ owner.completed \in Nat
  BY IInvFacts
<1>2. Calmed(gui, gui') /\ GateOK(gate') /\ (gate.latched => gate'.latched)
  BY DEF Soothed
<1>3. Handle(gui, owner', accepted') /\ owner'.applied \in Nat /\ owner'.completed \in Nat
      /\ owner.applied <= owner'.applied /\ owner.completed <= owner'.completed
  <2>1. Handle(gui, owner', accepted') /\ owner.applied <= owner'.applied /\ owner.completed <= owner'.completed
    BY DEF Works
  <2>2. PICK o, q : o = owner' /\ q = accepted'
    OBVIOUS
  <2>3. Handle(gui, o, q)
    BY <2>1, <2>2
  <2>4. o.applied \in Nat /\ o.completed \in Nat
    BY <1>1, <2>3, HandleFacts
  <2> QED  BY <2>1, <2>2, <2>4
<1>4. /\ gui' \in GuiSet(load) /\ gui'.last = gui.last /\ gui'.ticket = gui.ticket /\ gui'.ticketOut = gui.ticketOut
      /\ gui'.scene = gui.scene
  BY <1>2 DEF Calmed
<1>5. PICK g, o, q : g = gui' /\ o = owner' /\ q = accepted'
  OBVIOUS
<1>6. PICK can, ext : can = canon' /\ ext = extent'
  OBVIOUS
<1>7. /\ Handle(g, o, q) /\ Seen(g) /\ Onward(gui, o, g, o)
      /\ Carries(gui, o, can, ext, g, o, can, ext)
  <2>1. Handle(gui, o, q) /\ Calmed(gui, g)
    BY <1>2, <1>3, <1>5
  <2> QED  BY <1>1, <2>1, CalmHandle
<1>8. Onward(gui, owner, g, o)
  <2>1. owner.applied <= o.applied /\ owner.completed <= o.completed
    BY <1>3, <1>5
  <2> QED  BY <1>1, <1>7, <2>1, Zenon DEF Onward
<1>9. Carries(gui, owner, canon, extent, gui, o, can, ext) => Carries(gui, owner, canon, extent, g, o, can, ext)
  <2>1. owner.applied \in Nat /\ o.applied \in Nat /\ owner.applied <= o.applied
    BY <1>1, <1>3, <1>5
  <2> QED  BY <1>7, <2>1, CarriesTwice, Zenon
<1>10. Shown(g, o, can, ext, updates)
  <2>1. Shown(gui, owner, canon, extent, updates) /\ gui.scene \in Maybe(Scenes)
    BY <1>1, GuiFacts DEF IInv
  <2>2. \A n \in 1 .. Len(updates) : \E m \in 1 .. Len(updates) : updates[n] = updates[m]
    OBVIOUS
  <2>3. Carries(gui, owner, canon, extent, g, o, can, ext) \/ Lost(gui, g)
    BY <1>5, <1>6, <1>9 DEF Moves
  <2>4. g.scene = gui.scene
    BY <1>4, <1>5
  <2> QED  BY ONLY <1>1, <1>7, <1>8, <2>1, <2>2, <2>3, <2>4, ShownKept, Zenon
<1>11. PICK p : p = painted'
  OBVIOUS
<1>12. p \in Maybe(Pixels) /\ Painted(p, g, o, can, ext)
  <2>1. Painted(painted, gui, owner, canon, extent)
    BY DEF IInv
  <2>2. Repaints(p, o, can, ext)
    BY <1>5, <1>6, <1>11
  <2>3. CASE p = painted /\ Carries(gui, owner, canon, extent, gui, o, can, ext)
    BY <1>1, <1>8, <1>9, <2>1, <2>3, PaintedKept, Zenon
  <2>4. CASE painted # None /\ p = [painted EXCEPT !.clean = FALSE]
    <3>1. painted \in Pixels
      BY <1>1, <2>4 DEF Maybe
    <3>2. Painted(p, g, o, can, ext) /\ p \in Pixels
      BY <1>8, <2>1, <2>4, <3>1, PaintedDirty, Zenon
    <3> QED  BY <3>2 DEF Maybe
  <2>5. CASE painted = None /\ p = None
    BY <2>5 DEF Painted, Maybe
  <2> QED  BY <2>2, <2>3, <2>4, <2>5 DEF Repaints
<1>13. PageTypes'
  <2>1. canon' \in Nat /\ extent' \in Extents /\ painted' \in Maybe(Pixels)
    BY <1>11, <1>12 DEF Moves
  <2>2. nextPub' \in Nat /\ listened' \in BOOLEAN
    BY DEF IInv, PageTypes
  <2>3. /\ setting' \in Maybe(Settings) /\ smooth' \in Maybe(Nat) /\ layouts' \in Nat /\ failures' \in Nat
        /\ running' \in BOOLEAN /\ failed' \in BOOLEAN
    BY DEF Tools
  <2> QED  BY <2>1, <2>2, <2>3 DEF PageTypes
<1>14. GuiTypes(published', frame', step', canonical') /\ (Doing("wheel")' => NoCanonical(commands'))
  BY DEF IInv, GuiTypes, guiVars, Doing, Works
<1>15. /\ commands' \in Seq(Command) /\ wheels' \in Seq(Tag) /\ effects' \in Seq(Tag) /\ updates' \in Seq(Scenes)
       /\ Turn(commands', running') /\ (failed' => failures' > 0)
       /\ ~failed' => Order(wheels', effects', Unapplied', commands')
  BY DEF IInv, Works, Unapplied
<1>16. /\ Queue(commands', accepted', gui'.last, gui'.ticket, gui'.ticketOut, owner'.completed)
       /\ failures' = 0 => Accounted(commands', gui'.ticket, owner'.completed)
  BY <1>4 DEF Works
<1>17. listened' => gate'.latched
  BY <1>2 DEF IInv
<1>18. load' \in Workloads /\ gui' \in GuiSet(load') /\ Handle(gui', owner', accepted')
  BY <1>1, <1>4, <1>5, <1>7
<1>19. Shown(gui', owner', canon', extent', updates') /\ Painted(painted', gui', owner', canon', extent')
  BY <1>5, <1>6, <1>10, <1>11, <1>12
<1> QED  BY <1>2, <1>13, <1>14, <1>15, <1>16, <1>17, <1>18, <1>19 DEF IInv

LEMMA WorksSame ==
    ASSUME IInv
    PROVE  /\ Works(owner, accepted, commands, effects, running, failures, failed)
           /\ Tools(setting, smooth, layouts, failures, running, failed)
           /\ Soothed(gui, gate, gui, gate) /\ canon \in Nat /\ extent \in Extents /\ extent \in Nat
           /\ Carries(gui, owner, canon, extent, gui, owner, canon, extent)
<1>1. owner.applied \in Nat /\ owner.completed \in Nat
  BY IInvFacts
<1>2. owner.applied <= owner.applied /\ owner.completed <= owner.completed
  BY <1>1
<1>3. Works(owner, accepted, commands, effects, running, failures, failed)
  BY <1>2 DEF IInv, Works, Unapplied
<1>4. Tools(setting, smooth, layouts, failures, running, failed)
  BY DEF IInv, PageTypes, Tools
<1> QED  BY <1>3, <1>4, GuiIs, IInvFacts, SameCarries

\* The inputs are performed early.
LEMMA WorksMaterialized ==
    ASSUME IInv
    PROVE  /\ Works(Materialized, accepted, commands, MaterializedEffects, running, failures, failed)
           /\ Carries(gui, owner, canon, extent, gui, Materialized, MaterializedOffset, extent)
           /\ MaterializedOffset \in Nat
           /\ Clamp(MaterializedOffset, extent) # MaterializedOffset => MaterializedOffset = canon
<1>1. /\ load \in Workloads /\ gui \in GuiSet(load) /\ Handle(gui, owner, accepted)
      /\ canon \in Nat /\ extent \in Extents /\ extent \in Nat /\ effects \in Seq(Tag) /\ wheels \in Seq(Tag)
      /\ Unapplied \in Seq(Input) /\ commands \in Seq(Command) /\ owner.completed \in Nat
  BY IInvFacts
<1>2. PICK o, at, e : o = Materialized /\ at = MaterializedOffset /\ e = MaterializedEffects
  OBVIOUS
<1>3. /\ Handle(gui, o, accepted) /\ o.completed = owner.completed
      /\ Advances(gui, owner, o, canon, at, extent)
      /\ at \in Nat /\ e \in Seq(Tag)
      /\ Clamp(at, extent) # at => at = canon
      /\ \/ After(accepted, o.applied) = <<>> /\ e = effects \o Performed(Unapplied)
         \/ After(accepted, o.applied) = Unapplied /\ e = effects
  BY ONLY <1>1, <1>2, Materializes
<1>4. Carries(gui, owner, canon, extent, gui, o, at, extent)
  BY <1>1, <1>3, AdvanceCarries, Zenon
<1>5. ASSUME ~failed
      PROVE  Order(wheels, e, After(accepted, o.applied), commands)
  <2>1. Order(wheels, effects, Unapplied, commands)
    BY <1>5 DEF IInv
  <2>2. Order(wheels, effects \o Performed(Unapplied), <<>>, commands)
    BY <1>1, <2>1, OrderPerforms
  <2> QED  BY <1>3, <2>1, <2>2
<1>6. owner.applied <= o.applied /\ owner.completed <= o.completed
  BY <1>1, <1>3 DEF Advances
<1>7. Works(o, accepted, commands, e, running, failures, failed)
  BY <1>1, <1>3, <1>5, <1>6 DEF IInv, Works
<1> QED  BY <1>2, <1>3, <1>4, <1>7

LEMMA DirtyRepaints ==
    ASSUME NEW changed \in BOOLEAN, Dirty(changed), NEW o, NEW can, NEW ext,
           ~changed => Carries(gui, owner, canon, extent, gui, o, can, ext)
    PROVE  Repaints(painted', o, can, ext)
<1>1. CASE painted = None
  BY <1>1 DEF Dirty, Repaints
<1>2. CASE painted # None /\ changed
  BY <1>2 DEF Dirty, Repaints
<1>3. CASE painted # None /\ ~changed
  BY <1>3 DEF Dirty, Repaints
<1> QED  BY <1>1, <1>2, <1>3

-----------------------------------------------------------------------------
(* Script on the owner: reads of the geometry and scrolls. *)

LEMMA SoothedTwice ==
    ASSUME NEW g \in GuiSet(load), load \in Workloads, NEW t, NEW h, NEW u, NEW k, NEW v,
           Soothed(g, t, h, u), Soothed(h, u, k, v)
    PROVE  /\ Soothed(g, t, k, v) /\ h \in GuiSet(load) /\ GateOK(u)
           /\ Lost(g, h) \/ Lost(h, k) => Lost(g, k)
<1>1. Calmed(g, h) /\ Calmed(h, k) /\ h \in GuiSet(load) /\ k \in GuiSet(load)
  BY DEF Soothed, Calmed
<1>2. Calmed(g, k)
  BY <1>1, CalmedTwice
<1>3. g.policy \in Nat /\ h.policy \in Nat /\ k.policy \in Nat
  BY <1>1, GuiFacts
<1>4. g.policy <= h.policy /\ h.policy <= k.policy /\ (h.policyOut => k.policyOut)
  BY <1>1 DEF Calmed
<1>5. Lost(g, h) \/ Lost(h, k) => Lost(g, k)
  BY <1>3, <1>4 DEF Lost
<1> QED  BY <1>1, <1>2, <1>5 DEF Soothed

LEMMA RevokeBoth ==
    ASSUME NEW g \in GuiSet(load), load \in Workloads, NEW t, GateOK(t)
    PROVE  /\ Soothed(g, t, Revoked(g), [t EXCEPT !.authorized = None]) /\ Lost(g, Revoked(g))
           /\ Soothed(g, t, g, t)
<1>1. GateOK([t EXCEPT !.authorized = None]) /\ [t EXCEPT !.authorized = None].latched = t.latched
  BY DEF GateOK
<1> QED  BY <1>1, RevokedCalms, CalmedSame DEF Soothed

LEMMA FinishSoothes ==
    ASSUME NEW g \in GuiSet(load), load \in Workloads, NEW t, GateOK(t), NEW token, NEW x \in Nat,
           NEW r, r = Finish(g, t, token, x)
    PROVE  Soothed(g, t, r.gui, r.gate)
<1>1. CASE token = None \/ t.mutation # token
  <2>1. r.gui = g /\ r.gate = t
    BY <1>1 DEF Finish
  <2> QED  BY <2>1, RevokeBoth
<1>2. CASE ~(token = None \/ t.mutation # token)
  <2>1. PICK k : k = Revoked(g)
    OBVIOUS
  <2>2. Calmed(g, k) /\ ~k.eligible /\ k \in GuiSet(load)
    BY <2>1, RevokedCalms DEF Calmed
  <2>3. k.visual \in Nat
    BY <2>2, GuiFacts
  <2>4. PICK v \in Nat : v = IF Within(x, extent) THEN x ELSE k.visual
    BY <2>3
  <2>5. r.gui = [k EXCEPT !.visual = v] /\ r.gate = [t EXCEPT !.mutation = None, !.authorized = None]
    BY <1>2, <2>1, <2>4 DEF Finish
  <2>6. Calmed(g, r.gui)
    BY <2>2, <2>5, Rebased, CalmedTwice
  <2>7. GateOK(r.gate) /\ r.gate.latched = t.latched
    BY <2>5 DEF GateOK, Maybe
  <2> QED  BY <2>6, <2>7 DEF Soothed
<1> QED  BY <1>1, <1>2

LEMMA GeometryReadStep ==
    ASSUME IInv, GeometryRead
    PROVE  IInv'
<1>1. PICK at : at = MaterializedOffset
  OBVIOUS
<1>2. PICK next : next = Clamp(at, extent)
  OBVIOUS
<1>3. /\ owner' = Materialized /\ effects' = MaterializedEffects /\ canon' = next
      /\ next = at => gui' = gui /\ gate' = gate
      /\ next # at => gui' = Revoked(gui) /\ gate' = [gate EXCEPT !.authorized = None]
      /\ Dirty(canon' # canon)
      /\ UNCHANGED <<load, accepted, extent, nextPub, running, setting, smooth, layouts, failures,
                     commands, updates, guiVars, wheels, listened, failed>>
  BY <1>1, <1>2 DEF GeometryRead
<1>4. load \in Workloads /\ gui \in GuiSet(load) /\ GateOK(gate) /\ extent \in Nat /\ extent \in Extents
  BY GuiIs, IInvFacts
<1>5. /\ Works(owner', accepted', commands', effects', running', failures', failed')
      /\ Carries(gui, owner, canon, extent, gui, owner', at, extent)
      /\ at \in Nat /\ (next # at => at = canon)
  BY <1>1, <1>2, <1>3, WorksMaterialized
<1>6. next \in Nat
  BY <1>2, <1>4, <1>5, ClampFacts
<1>7. Soothed(gui, gate, gui', gate') /\ (next # at => Lost(gui, gui'))
  BY <1>3, <1>4, RevokeBoth
<1>8. next = at => Carries(gui, owner, canon, extent, gui, owner', canon', extent')
  BY <1>3, <1>5
<1>9. Moves(gui', owner', canon', extent')
  BY <1>3, <1>4, <1>6, <1>7, <1>8 DEF Moves
<1>10. Repaints(painted', owner', canon', extent')
  <2>1. PICK changed \in BOOLEAN : changed = (canon' # canon)
    OBVIOUS
  <2>2. ~changed => next = at
    BY <1>3, <1>5, <2>1
  <2>3. Dirty(changed)
    BY <1>3, <2>1
  <2>4. PICK o, can, ext : o = owner' /\ can = canon' /\ ext = extent'
    OBVIOUS
  <2>5. ~changed => Carries(gui, owner, canon, extent, gui, o, can, ext)
    BY <1>8, <2>2, <2>4
  <2>6. Repaints(painted', o, can, ext)
    BY <2>3, <2>5, DirtyRepaints
  <2> QED  BY <2>4, <2>6
<1>11. Tools(setting', smooth', layouts', failures', running', failed')
  BY <1>3, WorksSame
<1> QED  BY <1>3, <1>5, <1>7, <1>9, <1>10, <1>11, OwnerKeeps

LEMMA PrepareScrollStep ==
    ASSUME IInv, NEW x \in Targets, NEW animated \in BOOLEAN, PrepareScroll(x, animated)
    PROVE  IInv'
<1> DEFINE spent == gate.next = None \/ gate.next >= load.mutation
<1>1. PICK k : k = Revoked(gui)
  OBVIOUS
<1>2. PICK v : v = IF CanMaterialize THEN MaterializedOffset ELSE gui.visual
  OBVIOUS
<1>3. /\ owner' = Materialized /\ effects' = MaterializedEffects /\ canon' = MaterializedOffset
      /\ Dirty(canon' # canon)
      /\ setting' = [to |-> x, animated |-> animated, token |-> gate.next]
      /\ gui' = [k EXCEPT !.policyOut = k.policyOut \/ spent, !.visual = v]
      /\ gate' = [gate EXCEPT !.authorized = None,
                              !.mutation = IF gate.next = None THEN gate.mutation ELSE gate.next,
                              !.next = IF spent THEN None ELSE gate.next + 1]
      /\ UNCHANGED <<load, accepted, extent, nextPub, running, smooth, layouts, failures,
                     commands, updates, guiVars, wheels, listened, failed>>
  BY <1>1, <1>2 DEF PrepareScroll
<1>4. load \in Workloads /\ gui \in GuiSet(load) /\ GateOK(gate) /\ extent \in Nat /\ extent \in Extents
  BY GuiIs, IInvFacts
<1>5. /\ Works(owner', accepted', commands', effects', running', failures', failed')
      /\ Carries(gui, owner, canon, extent, gui, owner', canon', extent')
      /\ canon' \in Nat
  BY <1>3, WorksMaterialized
<1>6. v \in Nat
  BY <1>2, <1>4, WorksMaterialized, GuiFacts
<1>7. GateOK(gate') /\ gate'.latched = gate.latched
  <2>1. gate.next \in Maybe(Nat) /\ gate.mutation \in Maybe(Nat)
    BY <1>4 DEF GateOK
  <2>2. PICK m \in Maybe(Nat) : m = IF gate.next = None THEN gate.mutation ELSE gate.next
    BY <2>1
  <2>3. PICK n \in Maybe(Nat) : n = IF spent THEN None ELSE gate.next + 1
    <3>1. CASE spent
      BY <3>1 DEF Maybe
    <3>2. CASE ~spent
      <4>1. gate.next \in Nat
        BY <2>1, <3>2 DEF Maybe
      <4>2. gate.next + 1 \in Maybe(Nat)
        BY <4>1 DEF Maybe
      <4> QED  BY <3>2, <4>2
    <3> QED  BY <3>1, <3>2
  <2>4. gate' = [gate EXCEPT !.authorized = None, !.mutation = m, !.next = n]
    BY <1>3, <2>2, <2>3
  <2> QED  BY <1>4, <2>4 DEF GateOK
<1>8. Soothed(gui, gate, gui', gate')
  <2>1. Calmed(gui, k) /\ ~k.eligible /\ k \in GuiSet(load)
    BY <1>1, <1>4, RevokedCalms DEF Calmed
  <2>2. PICK b \in BOOLEAN : b = (k.policyOut \/ spent)
    OBVIOUS
  <2>3. k.policyOut => b
    BY <2>2, Zenon
  <2>4. PICK h : h = [k EXCEPT !.policyOut = b, !.visual = v]
    OBVIOUS
  <2>5. gui' = h
    BY <1>3, <2>2, <2>4
  <2>6. h \in GuiSet(load)
    BY <1>6, <2>1, <2>4 DEF GuiSet
  <2>7. /\ h.scene = k.scene /\ h.pending = k.pending /\ h.last = k.last
        /\ h.ticket = k.ticket /\ h.barrier = k.barrier /\ h.ticketOut = k.ticketOut
        /\ h.policy = k.policy /\ h.policyOut = b /\ h.eligible = k.eligible
    BY <2>1, <2>4 DEF GuiSet
  <2>8. k.policy \in Nat
    BY <1>4, <2>1, GuiFacts
  <2>9. Calmed(k, h)
    BY <2>1, <2>3, <2>6, <2>7, <2>8 DEF Calmed
  <2>10. Calmed(gui, h)
    BY <1>4, <2>1, <2>9, CalmedTwice
  <2> QED  BY <1>7, <2>5, <2>10 DEF Soothed
<1>9. Moves(gui', owner', canon', extent')
  BY <1>3, <1>4, <1>5 DEF Moves
<1>10. Repaints(painted', owner', canon', extent')
  <2>1. PICK changed \in BOOLEAN : changed = (canon' # canon)
    OBVIOUS
  <2>2. Dirty(changed)
    BY <1>3, <2>1
  <2>3. PICK o, can, ext : o = owner' /\ can = canon' /\ ext = extent'
    OBVIOUS
  <2>4. Carries(gui, owner, canon, extent, gui, o, can, ext)
    BY <1>5, <2>3
  <2>5. Repaints(painted', o, can, ext)
    BY <2>2, <2>4, DirtyRepaints
  <2> QED  BY <2>3, <2>5
<1>11. Tools(setting', smooth', layouts', failures', running', failed')
  <2>1. gate.next \in Maybe(Nat) /\ x \in Nat
    BY <1>4, DataAssumption DEF GateOK
  <2>2. setting' \in Maybe(Settings)
    BY <1>3, <2>1 DEF Settings, Maybe
  <2> QED  BY <1>3, <2>2, WorksSame DEF Tools
<1> QED  BY <1>3, <1>5, <1>8, <1>9, <1>10, <1>11, OwnerKeeps

\* The owner moves the page, or leaves it where it is, and takes no command.
LEMMA PageMoves ==
    ASSUME IInv, Soothed(gui, gate, gui', gate'),
           canon' \in Nat, extent' \in Extents, NEW changed \in BOOLEAN, Dirty(changed),
           ~changed => canon' = canon /\ extent' = extent,
           canon' # canon \/ extent' # extent => Lost(gui, gui'),
           setting' \in Maybe(Settings), smooth' \in Maybe(Nat), layouts' \in Nat,
           UNCHANGED <<load, owner, accepted, nextPub, running, failures, commands, updates, guiVars, histVars>>
    PROVE  IInv'
<1>1. /\ Works(owner', accepted', commands', effects', running', failures', failed')
      /\ Tools(setting', smooth', layouts', failures', running', failed')
  BY WorksSame DEF histVars, Tools
<1>2. canon' = canon /\ extent' = extent => Carries(gui, owner, canon, extent, gui, owner', canon', extent')
  BY WorksSame
<1>3. Moves(gui', owner', canon', extent')
  BY <1>2 DEF Moves
<1>4. Repaints(painted', owner', canon', extent')
  <2>1. PICK o, can, ext : o = owner' /\ can = canon' /\ ext = extent'
    OBVIOUS
  <2>2. ~changed => Carries(gui, owner, canon, extent, gui, o, can, ext)
    BY <1>2, <2>1
  <2>3. Repaints(painted', o, can, ext)
    BY <2>2, DirtyRepaints
  <2> QED  BY <2>1, <2>3
<1>5. UNCHANGED <<load, nextPub, updates, guiVars, wheels, listened>>
  BY DEF histVars
<1> QED  BY <1>1, <1>3, <1>4, <1>5, OwnerKeeps

LEMMA FinishScrollStep ==
    ASSUME IInv, FinishScroll
    PROVE  IInv'
<1>1. /\ load \in Workloads /\ gui \in GuiSet(load) /\ GateOK(gate) /\ extent \in Nat /\ extent \in Extents
      /\ canon \in Nat
  BY GuiIs, IInvFacts
<1>2. setting \in Settings /\ setting.to \in Nat /\ setting.token \in Maybe(Nat) /\ setting # None
  <2>1. setting # None /\ setting \in Maybe(Settings)
    BY DEF IInv, PageTypes, FinishScroll
  <2> QED  BY <2>1 DEF Maybe, Settings
<1>3. PICK next \in Nat : next = Clamp(setting.to, extent)
  BY <1>1, <1>2, ClampFacts
<1>4. PICK from \in Nat : from = IF setting.animated THEN Clamp(canon, extent) ELSE canon
  BY <1>1, ClampFacts
<1>5. PICK animates \in BOOLEAN : animates = (setting.animated /\ next # from)
  OBVIOUS
<1>6. PICK to \in Nat : to = IF animates THEN from ELSE next
  OBVIOUS
<1>7. PICK old : old = Finish(gui, gate, smooth, canon)
  OBVIOUS
<1>8. PICK set : set = IF to # canon
                       THEN [gui |-> Revoked(old.gui), gate |-> [old.gate EXCEPT !.authorized = None]]
                       ELSE old
  OBVIOUS
<1>9. PICK done : done = IF animates THEN set ELSE Finish(set.gui, set.gate, setting.token, next)
  OBVIOUS
<1>10. /\ setting' = None /\ smooth' = (IF animates THEN setting.token ELSE None)
       /\ canon' = to /\ gui' = done.gui /\ gate' = done.gate /\ Dirty(canon' # canon)
       /\ UNCHANGED <<load, owner, accepted, extent, nextPub, running, layouts, failures,
                      commands, updates, guiVars, histVars>>
  BY <1>3, <1>4, <1>5, <1>6, <1>7, <1>8, <1>9 DEF FinishScroll
<1>11. Soothed(gui, gate, old.gui, old.gate)
  BY <1>1, <1>7, FinishSoothes
<1>12. old.gui \in GuiSet(load) /\ GateOK(old.gate)
  BY <1>11 DEF Soothed, Calmed
<1>13. Soothed(old.gui, old.gate, set.gui, set.gate) /\ (to # canon => Lost(old.gui, set.gui))
  <2>1. CASE to # canon
    <3>1. set.gui = Revoked(old.gui) /\ set.gate = [old.gate EXCEPT !.authorized = None]
      BY <1>8, <2>1
    <3> QED  BY <1>1, <1>12, <3>1, RevokeBoth
  <2>2. CASE to = canon
    <3>1. set = old
      BY <1>8, <2>2
    <3> QED  BY <1>1, <1>12, <2>2, <3>1, RevokeBoth
  <2> QED  BY <2>1, <2>2
<1>14. set.gui \in GuiSet(load) /\ GateOK(set.gate)
  BY <1>13 DEF Soothed, Calmed
<1>15. Soothed(set.gui, set.gate, done.gui, done.gate)
  <2>1. CASE animates
    <3>1. done = set
      BY <1>9, <2>1
    <3> QED  BY <1>1, <1>14, <3>1, RevokeBoth
  <2>2. CASE ~animates
    <3>1. done = Finish(set.gui, set.gate, setting.token, next)
      BY <1>9, <2>2
    <3> QED  BY <1>1, <1>14, <3>1, FinishSoothes
  <2> QED  BY <2>1, <2>2
<1>16. Soothed(gui, gate, set.gui, set.gate) /\ (to # canon => Lost(gui, set.gui))
  BY <1>1, <1>11, <1>13, SoothedTwice
<1>17. Soothed(gui, gate, done.gui, done.gate) /\ (to # canon => Lost(gui, done.gui))
  BY <1>1, <1>15, <1>16, SoothedTwice
<1>18. setting' \in Maybe(Settings) /\ smooth' \in Maybe(Nat) /\ layouts' \in Nat
  <2>1. setting' \in Maybe(Settings) /\ smooth' \in Maybe(Nat)
    BY <1>2, <1>10 DEF Maybe
  <2> QED  BY <1>10, <2>1 DEF IInv, PageTypes
<1>19. PICK changed \in BOOLEAN : changed = (canon' # canon)
  OBVIOUS
<1>20. Dirty(changed) /\ (~changed => canon' = canon)
  BY <1>10, <1>19
<1>21. /\ Soothed(gui, gate, gui', gate') /\ canon' \in Nat /\ extent' \in Extents /\ extent' = extent
       /\ canon' # canon => Lost(gui, gui')
  BY <1>1, <1>10, <1>17
<1> QED  BY <1>10, <1>18, <1>20, <1>21, PageMoves

LEMMA SmoothEndStep ==
    ASSUME IInv, NEW x \in Targets, SmoothEnd(x)
    PROVE  IInv'
<1>1. /\ load \in Workloads /\ gui \in GuiSet(load) /\ GateOK(gate) /\ extent \in Nat /\ extent \in Extents
      /\ canon \in Nat /\ x \in Nat
  BY GuiIs, IInvFacts, DataAssumption
<1>2. PICK next \in Nat : next = Clamp(x, extent)
  BY <1>1, ClampFacts
<1>3. PICK moved : moved = IF next = canon THEN [gui |-> gui, gate |-> gate]
                           ELSE [gui |-> Revoked(gui), gate |-> [gate EXCEPT !.authorized = None]]
  OBVIOUS
<1>4. PICK done : done = Finish(moved.gui, moved.gate, smooth, next)
  OBVIOUS
<1>5. /\ smooth' = None /\ canon' = next /\ gui' = done.gui /\ gate' = done.gate /\ Dirty(canon' # canon)
      /\ UNCHANGED <<load, owner, accepted, extent, nextPub, running, setting, layouts, failures,
                     commands, updates, guiVars, histVars>>
  BY <1>2, <1>3, <1>4 DEF SmoothEnd
<1>6. Soothed(gui, gate, moved.gui, moved.gate) /\ (next # canon => Lost(gui, moved.gui))
  <2>1. CASE next = canon
    <3>1. moved.gui = gui /\ moved.gate = gate
      BY <1>3, <2>1
    <3> QED  BY <1>1, <2>1, <3>1, RevokeBoth
  <2>2. CASE next # canon
    <3>1. moved.gui = Revoked(gui) /\ moved.gate = [gate EXCEPT !.authorized = None]
      BY <1>3, <2>2
    <3> QED  BY <1>1, <3>1, RevokeBoth
  <2> QED  BY <2>1, <2>2
<1>7. moved.gui \in GuiSet(load) /\ GateOK(moved.gate)
  BY <1>6 DEF Soothed, Calmed
<1>8. Soothed(moved.gui, moved.gate, done.gui, done.gate)
  BY <1>1, <1>4, <1>7, FinishSoothes
<1>9. Soothed(gui, gate, done.gui, done.gate) /\ (next # canon => Lost(gui, done.gui))
  BY <1>1, <1>6, <1>8, SoothedTwice
<1>10. setting' \in Maybe(Settings) /\ smooth' \in Maybe(Nat) /\ layouts' \in Nat
  BY <1>5 DEF IInv, PageTypes, Maybe
<1>11. PICK changed \in BOOLEAN : changed = (canon' # canon)
  OBVIOUS
<1>12. Dirty(changed) /\ (~changed => canon' = canon)
  BY <1>5, <1>11
<1>13. /\ Soothed(gui, gate, gui', gate') /\ canon' \in Nat /\ extent' \in Extents /\ extent' = extent
       /\ canon' # canon => Lost(gui, gui')
  BY <1>1, <1>5, <1>9
<1> QED  BY <1>5, <1>10, <1>12, <1>13, PageMoves

LEMMA PolicyChangeStep ==
    ASSUME IInv, NEW max \in Extents, PolicyChange(max)
    PROVE  IInv'
<1>1. load \in Workloads /\ gui \in GuiSet(load) /\ GateOK(gate) /\ canon \in Nat
  BY GuiIs, IInvFacts
<1>2. /\ layouts' = layouts + 1 /\ gui' = Revoked(gui) /\ gate' = [gate EXCEPT !.authorized = None]
      /\ extent' = max /\ Dirty(max # extent)
      /\ UNCHANGED <<load, owner, accepted, canon, nextPub, running, setting, smooth, failures,
                     commands, updates, guiVars, histVars>>
  BY DEF PolicyChange
<1>3. Soothed(gui, gate, gui', gate') /\ Lost(gui, gui')
  BY <1>1, <1>2, RevokeBoth
<1>4. setting' \in Maybe(Settings) /\ smooth' \in Maybe(Nat) /\ layouts' \in Nat
  BY <1>2 DEF IInv, PageTypes
<1>5. PICK changed \in BOOLEAN : changed = (max # extent)
  OBVIOUS
<1>6. Dirty(changed) /\ (~changed => extent' = extent)
  BY <1>2, <1>5
<1>7. canon' \in Nat /\ extent' \in Extents /\ canon' = canon
  BY <1>1, <1>2
<1> QED  BY <1>2, <1>3, <1>4, <1>6, <1>7, PageMoves

-----------------------------------------------------------------------------
(* The owner paints and publishes. *)

LEMMA PaintsTruth ==
    ASSUME IInv, NEW p, p = [offset |-> canon, extent |-> extent, clean |-> TRUE,
                             ack |-> owner.applied, completed |-> owner.completed]
    PROVE  p \in Pixels /\ p.clean /\ Painted(p, gui, owner, canon, extent)
<1>1. /\ load \in Workloads /\ gui \in GuiSet(load) /\ Handle(gui, owner, accepted) /\ canon \in Nat
      /\ extent \in Nat /\ extent \in Extents /\ owner.applied \in Nat /\ owner.completed \in Nat
  BY IInvFacts
<1>2. /\ p \in Pixels /\ p.clean /\ p.offset = canon /\ p.extent = extent /\ p.ack = owner.applied
      /\ p.completed = owner.completed
  BY <1>1 DEF Pixels
<1>3. Slice(gui.pending, Base(gui), owner.applied, owner.applied) = <<>>
  BY <1>1 DEF Slice
<1>4. Reaches(canon, owner.applied, extent, gui, owner, canon, extent)
  BY <1>1, <1>3, PlayEmpty DEF Reaches
<1>5. owner.applied <= owner.applied /\ owner.completed <= owner.completed
  BY <1>1
<1>6. Painted(p, gui, owner, canon, extent)
  BY <1>2, <1>4, <1>5 DEF Painted
<1> QED  BY <1>2, <1>6

LEMMA PixelsTrue ==
    ASSUME IInv, NEW p \in Pixels, p.clean, Painted(p, gui, owner, canon, extent)
    PROVE  Scene(p) \in Scenes /\ Truth(Scene(p), gui, owner, canon, extent)
<1>1. gui.policy \in Nat /\ gui.epoch \in Nat /\ nextPub \in Nat
  <2>1. load \in Workloads /\ gui \in GuiSet(load)
    BY IInvFacts
  <2> QED  BY <2>1, GuiFacts DEF IInv, PageTypes
<1>2. PICK s : s = Scene(p)
  OBVIOUS
<1>3. /\ s.policy = gui.policy /\ s.ack = p.ack /\ s.offset = p.offset /\ s.extent = p.extent
  BY <1>2 DEF Scene
<1>4. s \in Scenes
  BY <1>1, <1>2, SceneFacts DEF Scene, Scenes
<1>5. p # None
  BY NoneAssumption
<1>6. p.ack <= owner.applied /\ Reaches(p.offset, p.ack, p.extent, gui, owner, canon, extent)
  BY <1>5 DEF Painted
<1>7. gui.policy <= gui.policy
  BY <1>1
<1> QED  BY <1>2, <1>3, <1>4, <1>6, <1>7 DEF Truth

LEMMA PublishStep ==
    ASSUME IInv, NEW paint \in BOOLEAN, NEW posted \in BOOLEAN, Publish(paint, posted)
    PROVE  IInv'
<1>1. PICK p : p = IF paint THEN [offset |-> canon, extent |-> extent, clean |-> TRUE,
                                  ack |-> owner.applied, completed |-> owner.completed]
                   ELSE painted
  OBVIOUS
<1>2. /\ painted' = p
      /\ paint \/ (painted # None /\ painted.clean)
      /\ posted => nextPub' = nextPub + 1 /\ updates' = Append(updates, Scene(p))
      /\ ~posted => nextPub' = nextPub /\ updates' = updates
      /\ UNCHANGED <<load, handleVars, canon, extent, running, setting, smooth, layouts, failures,
                     commands, guiVars, histVars>>
  BY <1>1 DEF Publish
<1>3. p \in Pixels /\ p.clean /\ Painted(p, gui, owner, canon, extent)
  <2>1. CASE paint
    <3>1. p = [offset |-> canon, extent |-> extent, clean |-> TRUE,
               ack |-> owner.applied, completed |-> owner.completed]
      BY <1>1, <2>1
    <3> QED  BY <3>1, PaintsTruth
  <2>2. CASE ~paint
    <3>1. p = painted /\ painted # None /\ painted.clean /\ painted \in Maybe(Pixels)
      BY <1>1, <1>2, <2>2, IInvFacts
    <3> QED  BY <3>1 DEF IInv, Maybe
  <2> QED  BY <2>1, <2>2
<1>4. Scene(p) \in Scenes /\ Truth(Scene(p), gui, owner, canon, extent)
  BY <1>3, PixelsTrue
<1>5. updates' \in Seq(Scenes) /\ \A n \in 1 .. Len(updates') : Truth(updates'[n], gui, owner, canon, extent)
  <2>1. updates \in Seq(Scenes) /\ \A n \in 1 .. Len(updates) : Truth(updates[n], gui, owner, canon, extent)
    BY IInvFacts DEF IInv, Shown
  <2>2. CASE ~posted
    BY <1>2, <2>1, <2>2
  <2>3. CASE posted
    <3>1. PICK s \in Scenes : s = Scene(p)
      BY <1>4
    <3>2. PICK u : u = Append(updates, s)
      OBVIOUS
    <3>3. PICK m \in Nat : m = Len(updates)
      BY <2>1
    <3>4. u \in Seq(Scenes) /\ Len(u) = m + 1 /\ u[m + 1] = s /\ \A n \in 1 .. m : u[n] = updates[n]
      BY <2>1, <3>2, <3>3
    <3>5. ASSUME NEW n \in 1 .. m + 1
          PROVE  Truth(u[n], gui, owner, canon, extent)
      <4>1. CASE n = m + 1
        BY <1>4, <3>1, <3>4, <4>1
      <4>2. CASE n # m + 1
        <5>1. n \in 1 .. m
          BY <4>2
        <5> QED  BY <2>1, <3>3, <3>4, <5>1
      <4> QED  BY <4>1, <4>2
    <3>6. updates' = u
      BY <1>2, <2>3, <3>1, <3>2
    <3> QED  BY <3>4, <3>5, <3>6
  <2> QED  BY <2>2, <2>3
<1>6. Shown(gui', owner', canon', extent', updates')
  <2>1. Shown(gui, owner, canon, extent, updates')
    BY <1>5 DEF IInv, Shown
  <2> QED  BY <1>2, <2>1 DEF handleVars
<1>7. Painted(painted', gui', owner', canon', extent')
  BY <1>2, <1>3 DEF handleVars
<1>8. PageTypes'
  <2>1. painted' \in Maybe(Pixels)
    BY <1>2, <1>3 DEF Maybe
  <2>2. nextPub' \in Nat
    BY <1>2 DEF IInv, PageTypes
  <2> QED  BY <1>2, <2>1, <2>2 DEF IInv, PageTypes, histVars
<1>9. /\ load' \in Workloads /\ gui' \in GuiSet(load') /\ GateOK(gate') /\ Handle(gui', owner', accepted')
      /\ GuiTypes(published', frame', step', canonical')
      /\ commands' \in Seq(Command) /\ wheels' \in Seq(Tag) /\ effects' \in Seq(Tag)
      /\ Queue(commands', accepted', gui'.last, gui'.ticket, gui'.ticketOut, owner'.completed)
      /\ Turn(commands', running')
      /\ Doing("wheel")' => NoCanonical(commands')
      /\ failures' = 0 => Accounted(commands', gui'.ticket, owner'.completed)
      /\ failed' => failures' > 0
      /\ ~failed' => Order(wheels', effects', Unapplied', commands')
      /\ listened' => gate'.latched
  BY <1>2 DEF IInv, handleVars, guiVars, histVars, Doing, Unapplied
<1> QED  BY <1>5, <1>6, <1>7, <1>8, <1>9 DEF IInv

-----------------------------------------------------------------------------
(* The owner carries out the commands. *)

LEMMA TailKeeps ==
    ASSUME NEW c \in Seq(Command), c # <<>>
    PROVE  /\ Head(c) = c[1] /\ c[1] \in Command /\ Tail(c) \in Seq(Command)
           /\ NoCanonical(c) => NoCanonical(Tail(c))
<1>1. PICK m \in Nat : m = Len(c) /\ m >= 1
  OBVIOUS
<1>2. PICK d : d = Tail(c)
  OBVIOUS
<1>3. d \in Seq(Command) /\ Len(d) = m - 1 /\ \A n \in 1 .. m - 1 : d[n] = c[n + 1] /\ n + 1 \in 1 .. m
  BY <1>1, <1>2
<1>4. Head(c) = c[1] /\ c[1] \in Command
  BY <1>1
<1>5. NoCanonical(c) => NoCanonical(d)
  BY <1>1, <1>3 DEF NoCanonical
<1> QED  BY <1>2, <1>3, <1>4, <1>5

\* A command that is not an accepted input: when the FIFO is empty, all is performed.
LEMMA NothingAhead ==
    ASSUME IInv, commands # <<>>, commands[1].kind # "accepted"
    PROVE  /\ accepted = <<>> /\ Unapplied = <<>>
           /\ owner.applied = gui.last /\ owner.notified = gui.last
<1>1. /\ load \in Workloads /\ gui \in GuiSet(load) /\ Handle(gui, owner, accepted)
      /\ commands \in Seq(Command) /\ accepted \in Seq(Input) /\ owner.completed \in Nat
      /\ gui.last \in Nat /\ gui.ticket \in Nat /\ gui.ticketOut \in BOOLEAN /\ owner.applied \in Nat
  BY IInvFacts
<1>2. Queue(commands, accepted, gui.last, gui.ticket, gui.ticketOut, owner.completed)
  BY DEF IInv
<1>3. accepted = <<>>
  BY <1>1, <1>2, QueueDrops
<1>4. owner.notified \in Nat /\ Len(After(accepted, owner.applied)) = gui.last - owner.applied
      /\ After(accepted, owner.applied) \in Seq(Input)
  BY <1>1, HandleFacts
<1>5. Len(accepted) = 0
  BY <1>3
<1>6. owner.notified + Len(accepted) = gui.last /\ owner.notified <= owner.applied /\ owner.applied <= gui.last
  BY <1>1 DEF Handle
<1>7. owner.applied = gui.last /\ owner.notified = gui.last
  BY <1>1, <1>4, <1>5, <1>6
<1>8. PICK u \in Seq(Input) : u = After(accepted, owner.applied) /\ Len(u) = 0
  BY <1>1, <1>4, <1>7
<1>9. Unapplied = <<>>
  BY <1>8 DEF Unapplied
<1> QED  BY <1>3, <1>7, <1>9

\* What is left when such a command is dropped, done or rejected.
LEMMA Drops ==
    ASSUME IInv, commands # <<>>, NEW c, c = commands[1], c.kind # "accepted"
    PROVE  /\ NextCommand = c /\ c \in Command /\ Tail(commands) \in Seq(Command)
           /\ NoCanonical(commands) => NoCanonical(Tail(commands))
           /\ Queue(Tail(commands), accepted, gui.last, gui.ticket, gui.ticketOut, owner.completed)
           /\ Ticketed(c) =>
                 /\ c.ticket \in Nat /\ owner.completed < c.ticket /\ c.ticket <= gui.ticket
                 /\ Queue(Tail(commands), accepted, gui.last, gui.ticket, gui.ticketOut, c.ticket)
           /\ failures = 0 /\ ~Ticketed(c) => Accounted(Tail(commands), gui.ticket, owner.completed)
           /\ failures = 0 /\ Ticketed(c) => Ready(c) /\ Accounted(Tail(commands), gui.ticket, c.ticket)
           /\ ~failed /\ c \notin Lasting => Order(wheels, effects, Unapplied, Tail(commands))
           /\ ~failed /\ c \in Lasting => Order(wheels, Append(effects, Mark(c)), Unapplied, Tail(commands))
<1>1. /\ load \in Workloads /\ gui \in GuiSet(load) /\ Handle(gui, owner, accepted)
      /\ commands \in Seq(Command) /\ accepted \in Seq(Input) /\ owner.completed \in Nat
      /\ gui.last \in Nat /\ gui.ticket \in Nat /\ gui.ticketOut \in BOOLEAN /\ owner.applied \in Nat
      /\ wheels \in Seq(Tag) /\ effects \in Seq(Tag) /\ Unapplied \in Seq(Input)
  BY IInvFacts
<1>2. Queue(commands, accepted, gui.last, gui.ticket, gui.ticketOut, owner.completed)
  BY DEF IInv
<1>3. NextCommand = c /\ c \in Command /\ Tail(commands) \in Seq(Command)
      /\ (NoCanonical(commands) => NoCanonical(Tail(commands)))
  BY <1>1, TailKeeps DEF NextCommand
<1>4. Queue(Tail(commands), accepted, gui.last, gui.ticket, gui.ticketOut, owner.completed)
  BY <1>1, <1>2, QueueDrops
<1>5. ASSUME Ticketed(c)
      PROVE  c.ticket \in Nat /\ owner.completed < c.ticket /\ c.ticket <= gui.ticket /\ c.kind = "fallback"
             /\ (c.after # None => c.after \in Nat /\ c.after <= gui.last)
  <2>1. c.ticket \in Nat /\ c.kind = "fallback" /\ c.after \in Maybe(Nat) /\ c.ticket # None
    BY <1>3, <1>5, CommandFacts DEF Ticketed
  <2>2. 1 \in 1 .. Len(commands)
    BY <1>1
  <2> QED  BY <1>2, <2>1, <2>2 DEF Queue, Maybe
<1>6. ASSUME Ticketed(c)
      PROVE  Queue(Tail(commands), accepted, gui.last, gui.ticket, gui.ticketOut, c.ticket)
  <2>1. PICK done2 \in Nat : done2 = c.ticket
    BY <1>5, <1>6
  <2>2. Queue(Tail(commands), accepted, gui.last, gui.ticket, gui.ticketOut, done2)
    BY <1>1, <1>2, <1>6, <2>1, QueueDrops
  <2> QED  BY <2>1, <2>2
<1>7. ASSUME failures = 0
      PROVE  /\ ~Ticketed(c) => Accounted(Tail(commands), gui.ticket, owner.completed)
             /\ Ticketed(c) => c.ticket = owner.completed + 1 /\ Accounted(Tail(commands), gui.ticket, c.ticket)
  <2>1. Accounted(commands, gui.ticket, owner.completed)
    BY <1>7 DEF IInv
  <2> QED  BY <1>1, <1>2, <2>1, AccountedDrops
<1>8. owner.applied = gui.last /\ owner.notified = gui.last /\ Unapplied = <<>>
  BY NothingAhead
<1>9. failures = 0 /\ Ticketed(c) => Ready(c)
  BY <1>5, <1>7, <1>8 DEF Ready, Ticketed
<1>10. ASSUME ~failed
       PROVE  /\ c \notin Lasting => Order(wheels, effects, Unapplied, Tail(commands))
              /\ c \in Lasting => Order(wheels, Append(effects, Mark(c)), Unapplied, Tail(commands))
  <2>1. Order(wheels, effects, Unapplied, commands)
    BY <1>10 DEF IInv
  <2> QED  BY <1>1, <1>8, <2>1, OrderTakes
<1> QED  BY <1>3, <1>4, <1>5, <1>6, <1>7, <1>9, <1>10

\* The page does not move, and the GUI's part of the handle stays.
LEMMA CommandKeeps ==
    ASSUME IInv, Works(owner', accepted', commands', effects', running', failures', failed'),
           owner'.applied = owner.applied, running' \in BOOLEAN, failed' \in BOOLEAN, failures' \in Nat,
           UNCHANGED <<load, gui, gate, canon, extent, painted, nextPub, setting, smooth, layouts,
                       updates, guiVars, wheels, listened>>
    PROVE  IInv'
<1>1. Soothed(gui, gate, gui', gate') /\ Tools(setting', smooth', layouts', failures', running', failed')
  BY WorksSame DEF Tools
<1>2. PICK o : o = owner'
  OBVIOUS
<1>3. Carries(gui, owner, canon, extent, gui, o, canon, extent)
  BY <1>2, SameCarries
<1>4. Moves(gui', owner', canon', extent') /\ Repaints(painted', owner', canon', extent')
  BY <1>2, <1>3, WorksSame DEF Moves, Repaints
<1> QED  BY <1>1, <1>4, OwnerKeeps

LEMMA StartFallbackStep ==
    ASSUME IInv, StartFallback
    PROVE  IInv'
<1>1. PICK c : c = commands[1]
  OBVIOUS
<1>2. commands # <<>> /\ NextCommand = c /\ c.kind = "fallback" /\ c.kind # "accepted"
  <2>1. commands # <<>> /\ NextCommand.kind = "fallback" /\ commands \in Seq(Command)
    BY IInvFacts DEF StartFallback
  <2> QED  BY <1>1, <2>1, TailKeeps DEF NextCommand
<1>3. UNCHANGED <<load, handleVars, canon, extent, painted, nextPub, setting, smooth, layouts, failures,
                  updates, guiVars, wheels, effects, listened>>
  BY DEF StartFallback
<1>4. failures' \in Nat /\ failures' = failures
  BY <1>3 DEF IInv, PageTypes
<1>5. CASE Ready(c)
  <2>1. running' = TRUE /\ UNCHANGED <<commands, failed>>
    BY <1>2, <1>5 DEF StartFallback
  <2>2. Turn(commands, TRUE)
    BY <1>1, <1>2, <1>5 DEF Turn, Ticketed, Ready
  <2>3. Works(owner, accepted, commands, effects, TRUE, failures, failed)
    BY <2>2, WorksSame DEF Works
  <2>4. Works(owner', accepted', commands', effects', running', failures', failed')
    BY <1>3, <2>1, <2>3 DEF handleVars
  <2>5. failed' \in BOOLEAN
    BY <2>1 DEF IInv, PageTypes
  <2> QED  BY <1>3, <1>4, <2>1, <2>4, <2>5, CommandKeeps DEF handleVars
<1>6. CASE ~Ready(c)
  <2>1. commands' = Tail(commands) /\ failed' = (failed \/ c.ticket # None) /\ running' = running
    BY <1>2, <1>6 DEF StartFallback
  <2>2. failed' \in BOOLEAN /\ running' \in BOOLEAN /\ ~running /\ running' = FALSE
    BY <2>1 DEF IInv, PageTypes, StartFallback, OwnerFree
  <2>3. failures = 0 => ~Ticketed(c)
    BY <1>1, <1>2, <1>6, Drops
  <2>4. failed' => failures > 0
    <3>1. failed' => failed \/ c.ticket # None
      BY <2>1, Zenon
    <3>2. failed => failures > 0
      BY DEF IInv
    <3>3. c.ticket # None => failures > 0
      BY <1>2, <1>4, <2>3 DEF Ticketed
    <3> QED  BY <3>1, <3>2, <3>3, Zenon
  <2>5. ASSUME ~failed'
        PROVE  Order(wheels, effects, Unapplied, Tail(commands))
    <3>1. ~failed /\ c.ticket = None
      BY <2>1, <2>5
    <3>2. c \in Command
      BY <1>1, <1>2, Drops
    <3>3. c \notin Lasting
      BY <1>2, <3>1, <3>2, CommandFacts DEF Ticketed
    <3> QED  BY <1>1, <1>2, <3>1, <3>3, Drops
  <2>6. Works(owner, accepted, Tail(commands), effects, FALSE, failures, failed')
    <3>1. /\ Tail(commands) \in Seq(Command) /\ (NoCanonical(commands) => NoCanonical(Tail(commands)))
          /\ Queue(Tail(commands), accepted, gui.last, gui.ticket, gui.ticketOut, owner.completed)
          /\ failures = 0 => Accounted(Tail(commands), gui.ticket, owner.completed)
      BY <1>1, <1>2, <2>3, Drops
    <3>2. Turn(Tail(commands), FALSE)
      BY DEF Turn
    <3> QED  BY <2>4, <2>5, <3>1, <3>2, WorksSame DEF Works, Unapplied
  <2>7. Works(owner', accepted', commands', effects', running', failures', failed')
    BY <1>3, <2>1, <2>2, <2>6 DEF handleVars
  <2> QED  BY <1>3, <1>4, <2>2, <2>7, CommandKeeps DEF handleVars
<1> QED  BY <1>5, <1>6

LEMMA HandleCompletes ==
    ASSUME NEW g \in GuiSet(load), load \in Workloads, NEW o, NEW q, Handle(g, o, q),
           NEW t \in Nat, o.completed < t, t <= g.ticket, NEW o2, o2 = [o EXCEPT !.completed = t]
    PROVE  Handle(g, o2, q) /\ o2.completed = t /\ o2.applied = o.applied
<1>1. o \in OwnerSet /\ o.completed \in Nat
  BY DEF Handle, OwnerSet
<1>2. o2 \in OwnerSet
  BY <1>1 DEF OwnerSet
<1>3. o2.completed = t /\ o2.applied = o.applied /\ o2.notified = o.notified /\ o2.materialized = o.materialized
  BY <1>1 DEF OwnerSet
<1>4. g.scene # None => g.scene.completed <= t
  <2> SUFFICES ASSUME g.scene # None
               PROVE  g.scene.completed <= t
    OBVIOUS
  <2>1. g.scene \in Maybe(Scenes)
    BY GuiFacts
  <2>2. g.scene.completed \in Nat
    BY <2>1, SceneFacts DEF Maybe
  <2>3. g.scene.completed <= o.completed
    BY DEF Handle
  <2> QED  BY <1>1, <2>2, <2>3
<1>5. Handle(g, o2, q)
  BY <1>2, <1>3, <1>4 DEF Handle
<1> QED  BY <1>3, <1>5

\* The command under way is the first one, and not an accepted input.
LEMMA UnderWay ==
    ASSUME IInv, running, NEW c, c = commands[1]
    PROVE  /\ commands # <<>> /\ NextCommand = c /\ c.kind # "accepted" /\ c \in Command
           /\ c.kind = "fallback" => Ticketed(c) /\ c \in Lasting /\ Mark(c) = <<"fallback", c.ticket>>
           /\ c.kind = "canonical" => c \in Lasting /\ Mark(c) = <<"canonical", c.id>> /\ ~Ticketed(c)
           /\ c \in Lasting => Mark(c) \in Tag
<1>1. commands # <<>> /\ (c.kind = "canonical" \/ Ticketed(c)) /\ commands \in Seq(Command)
  BY DEF IInv, Turn
<1>2. c.kind # "accepted"
  BY <1>1 DEF Ticketed
<1>3. NextCommand = c /\ c \in Command
  BY <1>1, TailKeeps DEF NextCommand
<1>4. c.kind = "fallback" => Ticketed(c) /\ c \in Lasting /\ Mark(c) = <<"fallback", c.ticket>>
  BY <1>1, <1>3, CommandFacts DEF Mark
<1>5. c.kind = "canonical" => c \in Lasting /\ Mark(c) = <<"canonical", c.id>> /\ ~Ticketed(c)
  BY <1>3, CommandFacts DEF Mark, Ticketed
<1>6. c \in Lasting => Mark(c) \in Tag
  BY TagFacts
<1> QED  BY <1>1, <1>2, <1>3, <1>4, <1>5, <1>6

LEMMA EndFallbackStep ==
    ASSUME IInv, EndFallback
    PROVE  IInv'
<1>1. PICK c : c = commands[1]
  OBVIOUS
<1>2. running /\ NextCommand.kind = "fallback" /\ running' = FALSE /\ commands' = Tail(commands)
  BY DEF EndFallback
<1>3. /\ commands # <<>> /\ NextCommand = c /\ c.kind = "fallback" /\ c.kind # "accepted" /\ Ticketed(c)
      /\ c \in Lasting /\ Mark(c) = <<"fallback", c.ticket>> /\ Mark(c) \in Tag
  BY <1>1, <1>2, UnderWay
<1>4. UNCHANGED <<load, gui, accepted, gate, canon, extent, painted, nextPub, setting, smooth, layouts, failures,
                  updates, guiVars, wheels, listened>>
  BY DEF EndFallback
<1>5. /\ load \in Workloads /\ gui \in GuiSet(load) /\ Handle(gui, owner, accepted) /\ effects \in Seq(Tag)
      /\ owner.completed \in Nat /\ owner.applied \in Nat
  BY IInvFacts
<1>6. failures' \in Nat /\ failures' = failures
  BY <1>4 DEF IInv, PageTypes
<1>7. Turn(Tail(commands), FALSE)
  BY DEF Turn
<1>8. CASE Ready(c)
  <2>1. /\ owner' = [owner EXCEPT !.completed = c.ticket] /\ failed' = failed
        /\ effects' = Append(effects, Mark(c))
    BY <1>3, <1>8 DEF EndFallback
  <2>2. /\ c.ticket \in Nat /\ owner.completed < c.ticket /\ c.ticket <= gui.ticket
        /\ Queue(Tail(commands), accepted, gui.last, gui.ticket, gui.ticketOut, c.ticket)
        /\ Tail(commands) \in Seq(Command) /\ (NoCanonical(commands) => NoCanonical(Tail(commands)))
        /\ failures = 0 => Accounted(Tail(commands), gui.ticket, c.ticket)
        /\ ~failed => Order(wheels, Append(effects, Mark(c)), Unapplied, Tail(commands))
    BY <1>1, <1>3, Drops
  <2>3. PICK o : o = [owner EXCEPT !.completed = c.ticket]
    OBVIOUS
  <2>4. Handle(gui, o, accepted) /\ o.completed = c.ticket /\ o.applied = owner.applied
    BY <1>5, <2>2, <2>3, HandleCompletes
  <2>5. Append(effects, Mark(c)) \in Seq(Tag)
    BY <1>3, <1>5
  <2>6. owner.applied <= o.applied /\ owner.completed <= o.completed
    BY <1>5, <2>2, <2>4
  <2>7. failed => failures > 0
    BY DEF IInv
  <2>8. Works(o, accepted, Tail(commands), Append(effects, Mark(c)), FALSE, failures, failed)
    BY <1>7, <2>2, <2>4, <2>5, <2>6, <2>7 DEF Works, Unapplied
  <2>9. Works(owner', accepted', commands', effects', running', failures', failed')
    BY <1>2, <1>4, <2>1, <2>3, <2>8
  <2>10. owner'.applied = owner.applied /\ running' \in BOOLEAN /\ failed' \in BOOLEAN
    BY <1>2, <2>1, <2>3, <2>4 DEF IInv, PageTypes
  <2> QED  BY <1>4, <1>6, <2>9, <2>10, CommandKeeps
<1>9. CASE ~Ready(c)
  <2>1. failed' = TRUE /\ UNCHANGED <<owner, effects>>
    BY <1>3, <1>9 DEF EndFallback
  <2>2. failures > 0
    BY <1>1, <1>3, <1>6, <1>9, Drops
  <2>3. /\ Tail(commands) \in Seq(Command) /\ (NoCanonical(commands) => NoCanonical(Tail(commands)))
        /\ Queue(Tail(commands), accepted, gui.last, gui.ticket, gui.ticketOut, owner.completed)
    BY <1>1, <1>3, Drops
  <2>4. Works(owner, accepted, Tail(commands), effects, FALSE, failures, TRUE)
    <3>1. failures # 0
      BY <2>2
    <3>2. /\ effects \in Seq(Tag) /\ Handle(gui, owner, accepted)
          /\ owner.applied <= owner.applied /\ owner.completed <= owner.completed
      BY <1>5
    <3> QED  BY <1>7, <2>2, <2>3, <3>1, <3>2, Zenon DEF Works
  <2>5. Works(owner', accepted', commands', effects', running', failures', failed')
    BY <1>2, <1>4, <2>1, <2>4
  <2> QED  BY <1>2, <1>4, <1>6, <2>1, <2>5, CommandKeeps
<1> QED  BY <1>8, <1>9

LEMMA FallbackErrorStep ==
    ASSUME IInv, FallbackError
    PROVE  IInv'
<1>1. PICK c : c = commands[1]
  OBVIOUS
<1>2. running /\ NextCommand.kind = "fallback" /\ running' = FALSE /\ commands' = Tail(commands)
  BY DEF FallbackError
<1>3. /\ commands # <<>> /\ NextCommand = c /\ c.kind = "fallback" /\ c.kind # "accepted" /\ Ticketed(c)
      /\ c \in Lasting /\ Mark(c) = <<"fallback", c.ticket>> /\ Mark(c) \in Tag
  BY <1>1, <1>2, UnderWay
<1>4. UNCHANGED <<load, handleVars, canon, extent, painted, nextPub, setting, smooth, layouts,
                  updates, guiVars, wheels, listened, failed>>
  BY DEF FallbackError
<1>5. effects' = Append(effects, Mark(c)) /\ failures' = failures + 1
  BY <1>3 DEF FallbackError
<1>6. failures' \in Nat /\ failures' > 0 /\ failures' # 0 /\ failed' \in BOOLEAN
  BY <1>4, <1>5 DEF IInv, PageTypes
<1>7. /\ Tail(commands) \in Seq(Command) /\ (NoCanonical(commands) => NoCanonical(Tail(commands)))
      /\ Queue(Tail(commands), accepted, gui.last, gui.ticket, gui.ticketOut, owner.completed)
      /\ ~failed => Order(wheels, Append(effects, Mark(c)), Unapplied, Tail(commands))
  BY <1>1, <1>3, Drops
<1>8. Append(effects, Mark(c)) \in Seq(Tag)
  BY <1>3, IInvFacts
<1>9. Turn(Tail(commands), FALSE)
  BY DEF Turn
<1>10. Works(owner, accepted, Tail(commands), Append(effects, Mark(c)), FALSE, failures', failed)
  BY <1>6, <1>7, <1>8, <1>9, WorksSame DEF Works, Unapplied
<1>11. Works(owner', accepted', commands', effects', running', failures', failed')
  BY <1>2, <1>4, <1>5, <1>10 DEF handleVars
<1> QED  BY <1>2, <1>4, <1>6, <1>11, CommandKeeps DEF handleVars

LEMMA StartCanonicalStep ==
    ASSUME IInv, StartCanonical
    PROVE  IInv'
<1>1. PICK c : c = commands[1]
  OBVIOUS
<1>2. commands # <<>> /\ c.kind = "canonical"
  <2>1. commands # <<>> /\ NextCommand.kind = "canonical" /\ commands \in Seq(Command)
    BY IInvFacts DEF StartCanonical
  <2> QED  BY <1>1, <2>1, TailKeeps DEF NextCommand
<1>3. /\ running' = TRUE
      /\ UNCHANGED <<load, handleVars, canon, extent, painted, nextPub, setting, smooth, layouts, failures,
                     commands, updates, guiVars, histVars>>
  BY DEF StartCanonical
<1>4. Turn(commands, TRUE)
  BY <1>1, <1>2 DEF Turn
<1>5. Works(owner, accepted, commands, effects, TRUE, failures, failed)
  BY <1>4, WorksSame DEF Works
<1>6. Works(owner', accepted', commands', effects', running', failures', failed')
  BY <1>3, <1>5 DEF handleVars, histVars
<1>7. failures' \in Nat /\ failed' \in BOOLEAN
  BY <1>3 DEF IInv, PageTypes, histVars
<1> QED  BY <1>3, <1>6, <1>7, CommandKeeps DEF handleVars, histVars

LEMMA EndCanonicalStep ==
    ASSUME IInv, EndCanonical
    PROVE  IInv'
<1>1. PICK c : c = commands[1]
  OBVIOUS
<1>2. running /\ NextCommand.kind = "canonical" /\ running' = FALSE /\ commands' = Tail(commands)
  BY DEF EndCanonical
<1>3. /\ commands # <<>> /\ NextCommand = c /\ c.kind # "accepted" /\ ~Ticketed(c)
      /\ c \in Lasting /\ Mark(c) = <<"canonical", c.id>> /\ Mark(c) \in Tag
  BY <1>1, <1>2, UnderWay
<1>4. UNCHANGED <<load, handleVars, canon, extent, painted, nextPub, setting, smooth, layouts, failures,
                  updates, guiVars, wheels, listened, failed>>
  BY DEF EndCanonical
<1>5. effects' = Append(effects, Mark(c))
  BY <1>3 DEF EndCanonical
<1>6. failures' \in Nat /\ failed' \in BOOLEAN
  BY <1>4 DEF IInv, PageTypes
<1>7. /\ Tail(commands) \in Seq(Command) /\ (NoCanonical(commands) => NoCanonical(Tail(commands)))
      /\ Queue(Tail(commands), accepted, gui.last, gui.ticket, gui.ticketOut, owner.completed)
      /\ failures = 0 => Accounted(Tail(commands), gui.ticket, owner.completed)
      /\ ~failed => Order(wheels, Append(effects, Mark(c)), Unapplied, Tail(commands))
  BY <1>1, <1>3, Drops
<1>8. Append(effects, Mark(c)) \in Seq(Tag)
  BY <1>3, IInvFacts
<1>9. Turn(Tail(commands), FALSE)
  BY DEF Turn
<1>10. Works(owner, accepted, Tail(commands), Append(effects, Mark(c)), FALSE, failures, failed)
  BY <1>7, <1>8, <1>9, WorksSame DEF Works, Unapplied
<1>11. Works(owner', accepted', commands', effects', running', failures', failed')
  BY <1>2, <1>4, <1>5, <1>10 DEF handleVars
<1> QED  BY <1>2, <1>4, <1>6, <1>11, CommandKeeps DEF handleVars

\* The accepted input at the head of the queue is always claimed.
LEMMA InputClaimed ==
    ASSUME IInv, commands # <<>>, NEW c, c = commands[1], c.kind = "accepted"
    PROVE  /\ accepted # <<>> /\ c.input = accepted[1] /\ Claims(c.input)
           /\ c.input.seq = owner.notified + 1 /\ c.input \in Input
           /\ Fresh(owner) => Unapplied = accepted
           /\ Queue(Tail(commands), Tail(accepted), gui.last, gui.ticket, gui.ticketOut, owner.completed)
<1>1. /\ load \in Workloads /\ gui \in GuiSet(load) /\ Handle(gui, owner, accepted)
      /\ commands \in Seq(Command) /\ accepted \in Seq(Input) /\ owner.completed \in Nat
      /\ gui.last \in Nat /\ gui.ticket \in Nat /\ gui.ticketOut \in BOOLEAN /\ owner.applied \in Nat
  BY IInvFacts
<1>2. Queue(commands, accepted, gui.last, gui.ticket, gui.ticketOut, owner.completed)
  BY DEF IInv
<1>3. /\ accepted # <<>> /\ c.input = accepted[1]
      /\ Queue(Tail(commands), Tail(accepted), gui.last, gui.ticket, gui.ticketOut, owner.completed)
  BY <1>1, <1>2, QueueTakes
<1>4. PICK i : i = c.input
  OBVIOUS
<1>5. /\ i \in Input /\ i = Head(accepted) /\ i.seq = owner.notified + 1 /\ i.seq \in Nat
      /\ i.seq > owner.applied => owner.applied = owner.notified /\ owner.materialized = <<>>
                                  /\ After(accepted, owner.applied) = accepted
      /\ ~(i.seq > owner.applied) => owner.materialized # <<>> /\ Head(owner.materialized) = i
  BY <1>1, <1>3, <1>4, TakesInput
<1>6. i.seq > owner.applied => Len(owner.materialized) < MaxPending
  <2>1. MaxPending \in Nat \ {0} /\ Len(<<>>) = 0
    BY DataAssumption
  <2>2. 0 < MaxPending
    BY <2>1
  <2> QED  BY <1>5, <2>1, <2>2
<1>7. Claims(i)
  BY <1>3, <1>5, <1>6 DEF Claims
<1>8. Fresh(owner) => Unapplied = accepted
  BY <1>5 DEF Fresh, Unapplied
<1> QED  BY <1>3, <1>4, <1>5, <1>7, <1>8

LEMMA TakeAcceptedStep ==
    ASSUME IInv, TakeAccepted
    PROVE  IInv'
<1>1. PICK c : c = commands[1]
  OBVIOUS
<1>2. commands # <<>> /\ NextCommand = c /\ c.kind = "accepted" /\ c \in Command
      /\ Tail(commands) \in Seq(Command) /\ (NoCanonical(commands) => NoCanonical(Tail(commands)))
  <2>1. commands # <<>> /\ NextCommand.kind = "accepted" /\ commands \in Seq(Command)
    BY IInvFacts DEF TakeAccepted
  <2> QED  BY <1>1, <2>1, TailKeeps DEF NextCommand
<1>3. PICK i \in Input : i = c.input
  BY <1>1, <1>2, InputClaimed
<1>4. /\ accepted # <<>> /\ i = accepted[1] /\ Claims(i) /\ i.seq = owner.notified + 1
      /\ Fresh(owner) => Unapplied = accepted
      /\ Queue(Tail(commands), Tail(accepted), gui.last, gui.ticket, gui.ticketOut, owner.completed)
  BY <1>1, <1>2, <1>3, InputClaimed
<1>5. PICK fresh \in BOOLEAN : fresh = Fresh(owner)
  <2>1. owner.notified \in Nat /\ owner.applied \in Nat
    BY DEF IInv, Handle, OwnerSet
  <2>2. Fresh(owner) \in BOOLEAN
    BY <2>1 DEF Fresh
  <2> QED  BY <2>2
<1>6. /\ load \in Workloads /\ gui \in GuiSet(load) /\ Handle(gui, owner, accepted)
      /\ commands \in Seq(Command) /\ accepted \in Seq(Input) /\ Unapplied \in Seq(Input)
      /\ owner.completed \in Nat /\ owner.applied \in Nat /\ canon \in Nat /\ extent \in Nat /\ extent \in Extents
      /\ wheels \in Seq(Tag) /\ effects \in Seq(Tag)
      /\ gui.last \in Nat /\ gui.ticket \in Nat /\ gui.ticketOut \in BOOLEAN
  BY IInvFacts
<1>7. PICK o : o = Taken(owner)
  OBVIOUS
<1>8. /\ commands' = Tail(commands) /\ accepted' = Tail(accepted) /\ owner' = o /\ failed' = failed
      /\ canon' = IF fresh THEN Clamp(canon + i.delta, extent) ELSE canon
      /\ effects' = IF fresh THEN Append(effects, <<"input", i.seq>>) ELSE effects
      /\ Dirty(canon' # canon) /\ ~running
      /\ UNCHANGED <<load, gui, gate, extent, nextPub, running, setting, smooth, layouts, failures,
                     updates, guiVars, wheels, listened>>
  <2>1. fresh = (i.seq > owner.applied)
    BY <1>4, <1>5 DEF Fresh
  <2>2. /\ commands' = Tail(commands) /\ accepted' = Tail(accepted) /\ failed' = failed
        /\ owner' = [owner EXCEPT !.notified = i.seq,
                                  !.applied = IF i.seq > owner.applied THEN i.seq ELSE @,
                                  !.materialized = IF i.seq > owner.applied THEN @ ELSE Tail(@)]
        /\ canon' = IF i.seq > owner.applied THEN Clamp(canon + i.delta, extent) ELSE canon
        /\ effects' = IF i.seq > owner.applied THEN Append(effects, <<"input", i.seq>>) ELSE effects
        /\ Dirty(canon' # canon) /\ ~running
        /\ UNCHANGED <<load, gui, gate, extent, nextPub, running, setting, smooth, layouts, failures,
                       updates, guiVars, wheels, listened>>
    BY <1>2, <1>3, <1>4 DEF TakeAccepted, OwnerFree
  <2>3. owner' = o
    BY <1>4, <1>7, <2>2 DEF Taken, Fresh
  <2> QED  BY <2>1, <2>2, <2>3
<1>9. PICK to : to = Clamp(canon + i.delta, extent)
  OBVIOUS
<1>10. to \in Nat
  <2>1. i.delta \in Int
    BY DataAssumption DEF Input
  <2>2. PICK y \in Int : y = canon + i.delta
    BY <1>6, <2>1
  <2>3. Clamp(y, extent) \in 0 .. extent
    <3>1. extent \in Nat
      BY <1>6
    <3> QED  BY ONLY <3>1, y \in Int, ClampFacts
  <2> QED  BY <1>6, <1>9, <2>2, <2>3
<1>11. /\ Handle(gui, o, Tail(accepted)) /\ o.completed = owner.completed
       /\ fresh => /\ o.applied = owner.applied + 1
                   /\ After(Tail(accepted), o.applied) = Tail(accepted)
                   /\ Advances(gui, owner, o, canon, to, extent)
       /\ ~fresh => o.applied = owner.applied /\ After(Tail(accepted), o.applied) = Unapplied
  <2>1. Takes(gui, owner, accepted, o, fresh, canon, extent)
    BY ONLY <1>4, <1>5, <1>6, <1>7, TakeHandle, Zenon
  <2> QED  BY <1>4, <1>9, <2>1 DEF Unapplied, Takes
<1>12. owner.applied <= o.applied /\ owner.completed <= o.completed
  BY <1>5, <1>6, <1>11
<1>13. ~Ticketed(c) /\ c \notin Lasting
  BY <1>2, CommandFacts DEF Ticketed
<1>14. failures = 0 => Accounted(Tail(commands), gui.ticket, owner.completed)
  <2>1. Queue(commands, accepted, gui.last, gui.ticket, gui.ticketOut, owner.completed)
    BY DEF IInv
  <2>2. failures = 0 => Accounted(commands, gui.ticket, owner.completed)
    BY DEF IInv
  <2> QED  BY <1>1, <1>2, <1>6, <1>13, <2>1, <2>2, AccountedDrops
<1>15. effects' \in Seq(Tag)
  <2>0. i.seq \in Nat
    BY DEF Input
  <2>1. <<"input", i.seq>> \in Tag
    BY <2>0 DEF Tag
  <2>2. Append(effects, <<"input", i.seq>>) \in Seq(Tag)
    BY <1>6, <2>1
  <2>3. CASE fresh
    BY <1>8, <2>2, <2>3
  <2>4. CASE ~fresh
    BY <1>6, <1>8, <2>4
  <2> QED  BY <2>3, <2>4
<1>16. ~failed => Order(wheels, effects', After(Tail(accepted), o.applied), Tail(commands))
  <2> SUFFICES ASSUME ~failed
               PROVE  Order(wheels, effects', After(Tail(accepted), o.applied), Tail(commands))
    OBVIOUS
  <2>1. Order(wheels, effects, Unapplied, commands)
    BY DEF IInv
  <2>2. Order(wheels, effects, Unapplied, Tail(commands))
    BY <1>1, <1>2, <1>6, <1>13, <2>1, OrderTakes
  <2>3. CASE ~fresh
    BY <1>8, <1>11, <2>2, <2>3
  <2>4. CASE fresh
    <3>1. Unapplied = accepted /\ accepted # <<>> /\ Head(accepted) = i
      BY <1>4, <1>5, <1>6, <2>4
    <3>2. Order(wheels, Append(effects, <<"input", Head(accepted).seq>>), Tail(accepted), Tail(commands))
      BY <1>2, <1>6, <2>2, <3>1, OrderPerforms
    <3>3. effects' = Append(effects, <<"input", i.seq>>) /\ After(Tail(accepted), o.applied) = Tail(accepted)
      BY <1>8, <1>11, <2>4
    <3> QED  BY <3>1, <3>2, <3>3
  <2> QED  BY <2>3, <2>4
<1>17. Works(owner', accepted', commands', effects', running', failures', failed')
  <2>1. Turn(Tail(commands), running)
    BY <1>8 DEF Turn
  <2>2. failed => failures > 0
    BY DEF IInv
  <2>3. Works(o, Tail(accepted), Tail(commands), effects', running, failures, failed)
    BY <1>2, <1>4, <1>11, <1>12, <1>14, <1>15, <1>16, <2>1, <2>2 DEF Works
  <2> QED  BY <1>8, <2>3
<1>18. PICK can : can = canon'
  OBVIOUS
<1>19. can \in Nat /\ Carries(gui, owner, canon, extent, gui, o, can, extent)
  <2>1. CASE fresh
    <3>1. can = to /\ Advances(gui, owner, o, canon, to, extent)
      BY <1>8, <1>9, <1>11, <1>18, <2>1
    <3> QED  BY <1>6, <1>10, <3>1, AdvanceCarries
  <2>2. CASE ~fresh
    <3>1. can = canon /\ o.applied = owner.applied
      BY <1>8, <1>11, <1>18, <2>2
    <3> QED  BY <1>6, <3>1, SameCarries
  <2> QED  BY <2>1, <2>2
<1>20. Moves(gui', owner', canon', extent')
  BY <1>6, <1>8, <1>18, <1>19 DEF Moves
<1>21. Repaints(painted', owner', canon', extent')
  <2>1. PICK changed \in BOOLEAN : changed = (canon' # canon)
    OBVIOUS
  <2>2. Dirty(changed)
    BY <1>8, <2>1
  <2>3. Repaints(painted', o, can, extent)
    BY <1>19, <2>2, DirtyRepaints
  <2> QED  BY <1>8, <1>18, <2>3
<1>22. Tools(setting', smooth', layouts', failures', running', failed') /\ Soothed(gui, gate, gui', gate')
  BY <1>8, WorksSame
<1> QED  BY <1>8, <1>17, <1>20, <1>21, <1>22, OwnerKeeps

-----------------------------------------------------------------------------
(* The invariant holds. *)

LEMMA IInvInit == Init => IInv
<1> SUFFICES ASSUME Init
             PROVE  IInv
  OBVIOUS
<1>1. load \in Workloads
  BY DEF Init
<1>2. gui = NewGui /\ gui \in GuiSet(load)
  <2>1. 0 \in 0 .. load.sequence /\ 0 \in 0 .. load.ticket /\ 0 \in 0 .. load.policy /\ 0 \in 0 .. load.epoch
    BY <1>1, LoadFacts
  <2>2. None \in Maybe(Scenes) /\ None \in Maybe(Nat) /\ <<>> \in Seq(Input)
    BY DEF Maybe
  <2> QED  BY <2>1, <2>2 DEF Init, NewGui, GuiSet
<1>3. /\ gui.scene = None /\ gui.pending = <<>> /\ gui.last = 0 /\ gui.ticket = 0 /\ gui.barrier = None
      /\ gui.eligible = FALSE
  BY <1>2 DEF NewGui
<1>4. GateOK(gate)
  BY DEF Init, NewGate, GateOK, Maybe
<1>5. /\ owner \in OwnerSet /\ owner.applied = 0 /\ owner.notified = 0 /\ owner.completed = 0
      /\ owner.materialized = <<>>
  <2>1. <<>> \in Seq(Input)
    OBVIOUS
  <2> QED  BY <2>1 DEF Init, NewOwner, OwnerSet
<1>6. GuiTypes(published, frame, step, canonical) /\ ~Doing("wheel")
  BY DEF Init, GuiTypes, Maybe, Doing
<1>7. PageTypes
  BY DEF Init, PageTypes, Maybe
<1>8. commands = <<>> /\ accepted = <<>> /\ updates = <<>> /\ wheels = <<>> /\ effects = <<>>
  BY DEF Init
<1>9. commands \in Seq(Command) /\ updates \in Seq(Scenes) /\ wheels \in Seq(Tag) /\ effects \in Seq(Tag)
  BY <1>8
<1>10. Handle(gui, owner, accepted)
  <2>1. Base(gui) = 0
    BY <1>3 DEF Base
  <2>2. Numbered(<<>>, 0) /\ Len(<<>>) = 0
    BY DEF Numbered
  <2>3. Slice(<<>>, 0, 0, 0) = <<>>
    BY <2>2, SliceCut
  <2>4. 0 <= MaxPending
    BY DataAssumption
  <2> QED  BY <1>3, <1>5, <1>8, <2>1, <2>2, <2>3, <2>4 DEF Handle
<1>11. Queue(commands, accepted, gui.last, gui.ticket, gui.ticketOut, owner.completed)
  <2>1. Len(<<>>) = 0 /\ 1 .. 0 = {} /\ 0 + 1 .. 0 = {}
    OBVIOUS
  <2> QED  BY <1>8, <2>1 DEF Queue
<1>12. Turn(commands, running) /\ Accounted(commands, gui.ticket, owner.completed)
  BY <1>3, <1>5 DEF Init, Turn, Accounted
<1>13. Order(wheels, effects, Unapplied, commands)
  <2>1. PICK u \in Seq(Input) : u = Unapplied /\ Len(u) = 0
    BY <1>1, <1>2, <1>3, <1>5, <1>10, HandleFacts DEF Unapplied
  <2>2. Unapplied = <<>>
    BY <2>1
  <2>3. Performed(<<>>) = <<>> /\ Marks(<<>>) = <<>>
    BY DEF Performed, Marks
  <2>4. Keep(commands, Lasting) = <<>>
    <3>1. \A n \in 1 .. Len(commands) : commands[n] \notin Lasting
      BY <1>8
    <3> QED  BY <1>9, <3>1, KeptFacts, Zenon DEF Kept
  <2>5. <<>> = <<>> \o (<<>> \o <<>>)
    OBVIOUS
  <2> QED  BY <1>8, <2>2, <2>3, <2>4, <2>5 DEF Order
<1>14. Shown(gui, owner, canon, extent, updates)
  <2>1. 1 .. Len(updates) = {}
    BY <1>8
  <2> QED  BY <1>3, <2>1 DEF Shown, Seen
<1>15. Painted(painted, gui, owner, canon, extent)
  BY DEF Init, Painted
<1>16. ~failed /\ ~listened
  BY DEF Init
<1> QED  BY <1>1, <1>2, <1>4, <1>6, <1>7, <1>9, <1>10, <1>11, <1>12, <1>13, <1>14, <1>15, <1>16 DEF IInv

LEMMA IInvNext == IInv /\ [Next]_vars => IInv'
<1> SUFFICES ASSUME IInv, [Next]_vars
             PROVE  IInv'
  OBVIOUS
<1>1. CASE GuiStep
  <2>1. ASSUME NEW d \in Deltas, LatchWheel(d) \/ ClosedWheel(d)
        PROVE  IInv'
    BY <2>1, LatchWheelStep, ClosedWheelStep
  <2>2. ASSUME NEW m \in BOOLEAN, PlainUpdate(m) \/ UndrainedUpdate(m) \/ Commit(m)
        PROVE  IInv'
    BY <2>2, UpdateSteps, CommitStep
  <2> QED  BY <1>1, <2>1, <2>2, LatchedWheelStep, CanonicalWheelStep, PageInputStep, InstallFrameStep, ComposeFailsStep,
              PresentStep, CloseAcceptanceStep, RebindStep, RecomposeStep DEF GuiStep
<1>2. CASE OwnerStep
  <2>1. ASSUME NEW x \in Targets, NEW s \in BOOLEAN, PrepareScroll(x, s)
        PROVE  IInv'
    BY <2>1, PrepareScrollStep
  <2>2. ASSUME NEW x \in Targets, SmoothEnd(x)
        PROVE  IInv'
    BY <2>2, SmoothEndStep
  <2>3. ASSUME NEW e \in Extents, PolicyChange(e)
        PROVE  IInv'
    BY <2>3, PolicyChangeStep
  <2>4. ASSUME NEW paint \in BOOLEAN, NEW posted \in BOOLEAN, Publish(paint, posted)
        PROVE  IInv'
    BY <2>4, PublishStep
  <2> QED  BY <1>2, <2>1, <2>2, <2>3, <2>4, TakeAcceptedStep, StartFallbackStep, EndFallbackStep, FallbackErrorStep,
              StartCanonicalStep, EndCanonicalStep, GeometryReadStep, FinishScrollStep, BlockingListenerStep
           DEF OwnerStep
<1>3. CASE UNCHANGED vars
  BY <1>3 DEF vars, handleVars, pageVars, guiVars, histVars, IInv, PageTypes, Doing, Unapplied
<1> QED  BY <1>1, <1>2, <1>3 DEF Next

LEMMA IInvAlways == Spec => []IInv
  BY IInvInit, IInvNext, PTL DEF Spec

-----------------------------------------------------------------------------
(* The theorems. *)

\* The FIFO of NativeScrollState holds exactly the accepted inputs the owner has
\* not been notified of, in order, those performed early are its prefix, every
\* queue keeps its capacity, and no claim or fallback is rejected as a
\* duplicate, a gap or out of order unless a dispatch has failed
\* (claim_notification_for, materialize_pending, fallback_ready).
THEOREM OwnerAgreesAlways == Spec => []OwnerAgrees
<1>1. IInv => OwnerAgrees
  <2> SUFFICES ASSUME IInv
               PROVE  OwnerAgrees
    OBVIOUS
  <2>1. load \in Workloads /\ gui \in GuiSet(load) /\ Handle(gui, owner, accepted)
    BY IInvFacts
  <2>2. PICK a \in Nat, n \in Nat, z \in Nat, t \in Nat, c \in Nat, q \in Seq(Input) :
            /\ a = owner.applied /\ n = owner.notified /\ z = gui.last /\ t = gui.ticket /\ c = owner.completed
            /\ q = accepted
    BY <2>1, HandleFacts, GuiFacts
  <2>3. /\ Numbered(q, n) /\ n + Len(q) = z /\ n <= a /\ a <= z /\ c <= t /\ Len(q) <= MaxPending
        /\ Len(gui.pending) <= MaxPending
        /\ owner.materialized = Slice(q, n, n, a) /\ owner \in OwnerSet
    BY <2>1, <2>2 DEF Handle
  <2>4. PICK l \in Nat : l = Len(q)
    BY <2>2
  <2>5. Fits(q, n, n, a)
    BY <2>3, <2>4 DEF Fits
  <2>6. IsSlice(Slice(q, n, n, a), q, n, n, a)
    BY <2>5, SliceFacts, Zenon
  <2>7. owner.materialized \in Seq(Input) /\ Len(owner.materialized) = a - n
    BY <2>3, <2>6 DEF IsSlice
  <2>8. owner.materialized = SubSeq(q, 1, a - n)
    <3>1. a <= n + Len(q)
      BY <2>3, <2>4
    <3> QED  BY <2>3, <3>1, SliceCut
  <2>9. owner \in [applied : 0 .. gui.last, notified : Nat, materialized : Seq(Input), completed : 0 .. gui.ticket]
    <3>1. a \in 0 .. z /\ c \in 0 .. t
      BY <2>3
    <3> QED  BY <2>2, <2>3, <3>1 DEF OwnerSet
  <2>10. {Len(gui.pending), Len(accepted), Len(owner.materialized)} \subseteq 0 .. MaxPending
    <3>1. gui.pending \in Seq(Input) /\ MaxPending \in Nat
      BY <2>1, GuiFacts, DataAssumption
    <3>2. Len(gui.pending) \in 0 .. MaxPending
      BY <2>3, <3>1
    <3>3. Len(accepted) \in 0 .. MaxPending
      BY <2>2, <2>3, <3>1
    <3>4. Len(owner.materialized) \in 0 .. MaxPending
      BY <2>3, <2>4, <2>7, <3>1
    <3> QED  BY <3>2, <3>3, <3>4
  <2>11. TypeOK
    <3>1. accepted \in Seq(Input)
      BY <2>2
    <3>2. /\ canon \in Nat /\ extent \in Extents /\ painted \in Maybe(Pixels) /\ nextPub \in Nat
          /\ {running, listened, failed} \subseteq BOOLEAN /\ failures \in Nat
      BY DEF IInv, PageTypes
    <3>3. published \in Maybe(Scenes) /\ frame \in Maybe(Token) /\ step \in Maybe(Errand) /\ canonical \in Nat
      BY DEF IInv, GuiTypes
    <3>4. commands \in Seq(Command) /\ updates \in Seq(Scenes)
      BY DEF IInv
    <3> QED  BY <2>1, <2>9, <2>10, <3>1, <3>2, <3>3, <3>4 DEF TypeOK, GuiSet
  <2>12. \A k \in DOMAIN accepted : accepted[k].seq = owner.notified + k
    <3>1. DOMAIN q = 1 .. Len(q)
      BY <2>2
    <3> QED  BY <2>2, <2>3, <3>1 DEF Numbered
  <2>13. Len(accepted) = gui.last - owner.notified
    BY <2>2, <2>3, <2>4
  <2>14. failed => failures > 0
    BY DEF IInv
  <2> QED  BY <2>2, <2>8, <2>11, <2>12, <2>13, <2>14 DEF OwnerAgrees
<1> QED  BY <1>1, IInvAlways, PTL

\* The page performs the user's wheels each once and in the order in which the
\* GUI received them, whichever of the three paths a wheel took
\* (try_native_scroll, apply_native_scroll_accepted and _fallback,
\* materialize_pending), as long as the owner has rejected none.
THEOREM WheelOrderAlways == Spec => []WheelOrder
<1>1. IInv => WheelOrder
  <2> SUFFICES ASSUME IInv, ~failed
               PROVE  IsPrefix(effects, wheels)
    BY DEF WheelOrder
  <2>1. Order(wheels, effects, Unapplied, commands)
    BY DEF IInv
  <2> QED  BY <2>1, IInvFacts, OrderPrefix
<1> QED  BY <1>1, IInvAlways, PTL

\* While publication_gate lets the GUI scroll by itself, its visual offset is
\* the one the page has after the inputs that are still on their way
\* (ScrollState::install and accept against materialize_pending, the geometry
\* reads and the programmatic scrolls of the owner).
THEOREM VisualTruthAlways == Spec => []VisualTruth
<1>1. IInv => VisualTruth
  <2> SUFFICES ASSUME IInv, Eligible(gui, gate)
               PROVE  gui.visual = Play(canon, Unapplied, extent)
    BY DEF VisualTruth
  <2>1. load \in Workloads /\ gui \in GuiSet(load) /\ Handle(gui, owner, accepted) /\ Seen(gui) /\ extent \in Nat
    BY IInvFacts
  <2>2. gui.eligible
    BY DEF Eligible
  <2>3. PICK s : s = gui.scene
    OBVIOUS
  <2>4. s # None /\ s.policy = gui.policy /\ ~gui.policyOut /\ gui.visual = Play(s.offset, gui.pending, s.extent)
    BY <2>1, <2>2, <2>3 DEF Seen
  <2>5. s \in Scenes /\ s.offset \in Nat /\ s.ack \in Nat
    <3>1. s \in Scenes
      BY <2>1, <2>3, <2>4, GuiFacts DEF Maybe
    <3> QED  BY <3>1, SceneFacts
  <2>6. Reaches(s.offset, s.ack, s.extent, gui, owner, canon, extent)
    BY <2>3, <2>4 DEF IInv, Shown, Truth
  <2>7. Base(gui) = s.ack
    BY <2>3, <2>4 DEF Base
  <2>8. PICK b \in Nat, a \in Nat, z \in Nat : b = Base(gui) /\ a = owner.applied /\ z = gui.last
    BY <2>1, HandleFacts
  <2>9. s.extent = extent /\ canon = Play(s.offset, Slice(gui.pending, b, b, a), extent)
    BY <2>5, <2>6, <2>7, <2>8 DEF Reaches
  <2>10. Unapplied = Slice(gui.pending, b, a, z) /\ Fits(gui.pending, b, a, z)
    BY <2>1, <2>8, HandleFacts DEF Unapplied
  <2>11. Numbered(gui.pending, b) /\ b + Len(gui.pending) = z /\ b <= a
    BY <2>1, <2>8 DEF Handle
  <2>12. Fits(gui.pending, b, b, a)
    BY <2>10, <2>11 DEF Fits
  <2>13. Replays(gui.pending, b, b, a, z, s.offset, extent)
    BY <2>1, <2>5, <2>10, <2>12, PlaySlice, Zenon
  <2>14. Slice(gui.pending, b, b, z) = gui.pending
    BY <2>11, SliceCut
  <2> QED  BY <2>4, <2>9, <2>10, <2>13, <2>14 DEF Replays
<1> QED  BY <1>1, IInvAlways, PTL

\* What the parts of the handle do to the number of the last accepted input.
LEMMA LastKept ==
    ASSUME NEW g \in GuiSet(load), load \in Workloads
    PROVE  /\ Revoked(g).last = g.last /\ Closed(g).last = g.last
           /\ Issue(g).gui.last = g.last
           /\ \A t, token : \A x \in Nat : Finish(g, t, token, x).gui.last = g.last
<1>1. Revoked(g).last = g.last
  BY RevokedCalms DEF Calmed
<1>2. Closed(g).last = g.last /\ Closed(g) \in GuiSet(load)
  BY ClosedCalms DEF Calmed
<1>3. Issue(g).gui.last = g.last
  <2>1. PICK k : k = Closed(g)
    OBVIOUS
  <2>2. PICK b, o, n : Issue(g).gui = [k EXCEPT !.barrier = b, !.ticketOut = o, !.ticket = n]
    BY <2>1 DEF Issue
  <2>3. [k EXCEPT !.barrier = b, !.ticketOut = o, !.ticket = n].last = k.last
    BY <1>2, <2>1 DEF GuiSet
  <2> QED  BY <1>2, <2>1, <2>2, <2>3
<1>4. ASSUME NEW t, NEW token, NEW x \in Nat
      PROVE  Finish(g, t, token, x).gui.last = g.last
  <2>1. PICK k : k = Revoked(g) /\ k \in GuiSet(load)
    BY RevokedCalms DEF Calmed
  <2>2. CASE token = None \/ t.mutation # token
    BY <2>2 DEF Finish
  <2>3. CASE ~(token = None \/ t.mutation # token)
    <3>1. PICK v : Finish(g, t, token, x).gui = [k EXCEPT !.visual = v]
      BY <2>1, <2>3 DEF Finish
    <3>2. [k EXCEPT !.visual = v].last = k.last
      BY <2>1 DEF GuiSet
    <3> QED  BY <1>1, <2>1, <3>1, <3>2
  <2> QED  BY <2>2, <2>3
<1> QED  BY <1>1, <1>2, <1>3, <1>4

LEMMA GuiStepAcceptsNothing ==
    ASSUME IInv, listened, GuiStep
    PROVE  gui'.last = gui.last
<1>1. load \in Workloads /\ gui \in GuiSet(load) /\ GateOK(gate) /\ gate.latched
  BY GuiIs
<1>2. Revoked(gui).last = gui.last /\ Closed(gui).last = gui.last
  BY <1>1, LastKept
<1>3. ASSUME NEW t, Judge(t)
      PROVE  gui'.last = gui.last
  BY <1>1, <1>3, JudgeCalms DEF Soothed, Calmed
<1>4. ASSUME NEW p, Withdraw(p)
      PROVE  gui'.last = gui.last
  BY <1>2, <1>4 DEF Withdraw
<1>5. ASSUME NEW m, KeepOrClear(m)
      PROVE  gui'.last = gui.last
  BY <1>3, <1>5 DEF KeepOrClear
<1>6. ASSUME NEW d \in Deltas, LatchWheel(d)
      PROVE  gui'.last = gui.last
  BY <1>6 DEF LatchWheel, handleVars
<1>7. ASSUME NEW d \in Deltas, ClosedWheel(d)
      PROVE  gui'.last = gui.last
  <2>1. PICK g : g = Closed(gui)
    OBVIOUS
  <2>2. g \in GuiSet(load) /\ ~g.accepting /\ g.last = gui.last
    BY <1>1, <2>1, ClosedCalms DEF Calmed
  <2>3. FallsBack(g, d) /\ Scroll(g, d)
    BY <1>7, <2>1, <2>2 DEF FallsBack, Refuses, ClosedWheel
  <2>4. gui' = Issue(g).gui
    BY <2>3 DEF Scroll
  <2> QED  BY <1>1, <2>2, <2>4, LastKept
<1>8. ASSUME LatchedWheel
      PROVE  gui'.last = gui.last
  <2>1. ~Current(published)
    BY <1>1 DEF Current, Eligible
  <2> QED  BY <1>8, <2>1 DEF LatchedWheel
<1>9. ASSUME CanonicalWheel \/ PageInput \/ CloseAcceptance \/ Rebind
      PROVE  gui'.last = gui.last
  BY <1>2, <1>9 DEF CanonicalWheel, PageInput, CloseAcceptance, Rebind, handleVars
<1>10. ASSUME InstallFrame \/ ComposeFails \/ Present \/ Recompose
       PROVE  gui'.last = gui.last
  BY <1>3, <1>4, <1>10 DEF InstallFrame, ComposeFails, Present, Recompose
<1>11. ASSUME NEW m \in BOOLEAN, PlainUpdate(m) \/ UndrainedUpdate(m)
       PROVE  gui'.last = gui.last
  BY <1>5, <1>11 DEF PlainUpdate, UndrainedUpdate
<1>12. ASSUME NEW m \in BOOLEAN, Commit(m)
       PROVE  gui'.last = gui.last
  \* A listener keeps the gate latched, so that no scene is installed.
  <2>1. gui' = gui \/ gui' = Revoked(gui) \/ gui' = Closed(gui)
    BY <1>1, <1>12 DEF Commit
  <2> QED  BY <1>2, <2>1
<1> QED  BY <1>6, <1>7, <1>8, <1>9, <1>10, <1>11, <1>12 DEF GuiStep

LEMMA OwnerStepAcceptsNothing ==
    ASSUME IInv, OwnerStep
    PROVE  gui'.last = gui.last
<1>1. load \in Workloads /\ gui \in GuiSet(load) /\ extent \in Nat /\ canon \in Nat
  BY IInvFacts
<1>2. Revoked(gui).last = gui.last /\ Revoked(gui) \in GuiSet(load)
  BY <1>1, RevokedCalms DEF Calmed
<1>3. ASSUME TakeAccepted \/ StartFallback \/ EndFallback \/ FallbackError \/ StartCanonical \/ EndCanonical
      PROVE  gui'.last = gui.last
  BY <1>3 DEF TakeAccepted, StartFallback, EndFallback, FallbackError, StartCanonical, EndCanonical, handleVars
<1>4. ASSUME GeometryRead \/ BlockingListener
      PROVE  gui'.last = gui.last
  BY <1>2, <1>4 DEF GeometryRead, BlockingListener
<1>5. ASSUME NEW x \in Targets, NEW s \in BOOLEAN, PrepareScroll(x, s)
      PROVE  gui'.last = gui.last
  <2>1. PICK k : k = Revoked(gui)
    OBVIOUS
  <2>2. PICK b, v : gui' = [k EXCEPT !.policyOut = b, !.visual = v]
    BY <1>5, <2>1 DEF PrepareScroll
  <2>3. [k EXCEPT !.policyOut = b, !.visual = v].last = k.last
    BY <1>2, <2>1 DEF GuiSet
  <2> QED  BY <1>2, <2>1, <2>2, <2>3
<1>6. ASSUME FinishScroll
      PROVE  gui'.last = gui.last
  <2>1. PICK next : next = Clamp(setting.to, extent)
    OBVIOUS
  <2>2. next \in Nat
    <3>1. setting \in Settings
      BY <1>6 DEF FinishScroll, IInv, PageTypes, Maybe
    <3>2. setting.to \in Int
      BY <3>1 DEF Settings
    <3> QED  BY <1>1, <2>1, <3>2, ClampFacts
  <2>3. PICK old : old = Finish(gui, gate, smooth, canon)
    OBVIOUS
  <2>5. old.gui \in GuiSet(load) /\ old.gui.last = gui.last
    <3>1. GateOK(gate)
      BY GuiIs
    <3> QED  BY <1>1, <2>3, <3>1, FinishSoothes DEF Soothed, Calmed
  <2>6. Revoked(old.gui).last = gui.last /\ Revoked(old.gui) \in GuiSet(load)
    BY <1>1, <2>5, RevokedCalms DEF Calmed
  <2>7. \E h, t : /\ h = old.gui \/ h = Revoked(old.gui)
                  /\ gui' = h \/ gui' = Finish(h, t, setting.token, next).gui
    <3>2. \E st : /\ \/ st = old
                     \/ st = [gui |-> Revoked(old.gui), gate |-> [old.gate EXCEPT !.authorized = None]]
                  /\ gui' = st.gui \/ gui' = Finish(st.gui, st.gate, setting.token, next).gui
      BY <1>6, <2>1, <2>3, Zenon DEF FinishScroll
    <3>3. PICK st : /\ \/ st = old
                       \/ st = [gui |-> Revoked(old.gui), gate |-> [old.gate EXCEPT !.authorized = None]]
                    /\ gui' = st.gui \/ gui' = Finish(st.gui, st.gate, setting.token, next).gui
      BY <3>2
    <3>4. st.gui = old.gui \/ st.gui = Revoked(old.gui)
      BY <3>3
    <3> QED  BY <3>3, <3>4
  <2>8. PICK h, t : /\ h = old.gui \/ h = Revoked(old.gui)
                    /\ gui' = h \/ gui' = Finish(h, t, setting.token, next).gui
    BY <2>7
  <2>9. h \in GuiSet(load) /\ h.last = gui.last
    BY <2>5, <2>6, <2>8
  <2> QED  BY <1>1, <2>2, <2>8, <2>9, LastKept
<1>7. ASSUME NEW x \in Targets, SmoothEnd(x)
      PROVE  gui'.last = gui.last
  <2>1. PICK next : next = Clamp(x, extent)
    OBVIOUS
  <2>2. next \in Nat
    BY <1>1, <2>1, ClampFacts, DataAssumption
  <2>3. PICK h, t : /\ h = gui \/ h = Revoked(gui)
                    /\ gui' = Finish(h, t, smooth, next).gui
    <3>1. CASE next = canon
      <4>1. gui' = Finish(gui, gate, smooth, next).gui
        BY <1>7, <2>1, <3>1 DEF SmoothEnd
      <4> QED  BY <4>1
    <3>2. CASE next # canon
      <4>1. gui' = Finish(Revoked(gui), [gate EXCEPT !.authorized = None], smooth, next).gui
        BY <1>7, <2>1, <3>2 DEF SmoothEnd
      <4> QED  BY <4>1
    <3> QED  BY <3>1, <3>2
  <2>4. h \in GuiSet(load) /\ h.last = gui.last
    BY <1>1, <1>2, <2>3
  <2> QED  BY <1>1, <2>2, <2>3, <2>4, LastKept
<1>8. ASSUME NEW e \in Extents, PolicyChange(e)
      PROVE  gui'.last = gui.last
  BY <1>2, <1>8 DEF PolicyChange
<1>9. ASSUME NEW paint \in BOOLEAN, NEW posted \in BOOLEAN, Publish(paint, posted)
      PROVE  gui'.last = gui.last
  BY <1>9 DEF Publish, handleVars
<1> QED  BY <1>3, <1>4, <1>5, <1>6, <1>7, <1>8, <1>9 DEF OwnerStep

\* Once the page has had a blocking wheel listener no step accepts a wheel:
\* revoke_for_blocking_listener latches the gate for good, and
\* scroll_for_publication checks it again under the lock.
THEOREM BlockedNeverAcceptsAlways == Spec => BlockedNeverAccepts
<1>1. IInv /\ [Next]_vars => [listened => gui'.last = gui.last]_vars
  BY GuiStepAcceptsNothing, OwnerStepAcceptsNothing DEF Next
<1> QED  BY <1>1, IInvAlways, PTL DEF Spec, BlockedNeverAccepts
=============================================================================
