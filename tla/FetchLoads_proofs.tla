-------------------------- MODULE FetchLoads_proofs --------------------------
(***************************************************************************)
(* The safety properties of FetchLoads and XmlHttpRequest, for any number  *)
(* of documents, fetches, background requests and calls of the page, any   *)
(* body lengths and preflight ages, and any quota.                         *)
(***************************************************************************)
EXTENDS XmlHttpRequest, Orderings_proofs

-----------------------------------------------------------------------------
(* The inductive invariant. *)

\* Where a background request is and what has become of it: not started,
\* waiting for its deadline in the table, sent and still in the table, or out
\* of the table because it was sent and finished, cancelled or refused.
Position(b, l, f, act, js) ==
    LET entry == l.pending[b]
        was   == f[b]
        ends  == was.cancelled \/ was.refused
    IN  /\ b \in l.activated <=> was.later /\ was.handed = 1
        /\ b > l.next => entry = None /\ was.handed = 0 /\ ~ends
        /\ entry # None => was.doc = entry.doc /\ was.later = entry.later /\ ~ends
        /\ entry # None /\ entry.request => was.handed = 0 /\ entry.doc \in act
        /\ entry # None /\ ~entry.request => was.handed = 1
        /\ entry = None /\ b <= l.next => \/ was.handed = 1 /\ ~ends
                                          \/ was.handed = 0 /\ ends
        /\ js[<<"load", b>>] # None => entry # None /\ ~entry.request

Positions == \A b \in LoadIds : Position(b, loads, fate, active, jobs)

\* The reservation of a table, which makes sense because it is finite.
Exact(l) ==
    /\ IsFiniteSet(Bytes(l.pending, Occupied(l)))
    /\ l.reserved = Cardinality(Bytes(l.pending, Occupied(l)))

LoadInv == TypeOK /\ Exact(loads) /\ Positions /\ NothingForRetired

\* The networking closures and the endings that are told to the page.
Closure == [kind : {"success", "error", "timeout", "abort"}, send : Nat]
Event   == [send : Nat, event : {"load", "error", "timeout", "abort"}]

Objects == [id : Nat, readyState : 0 .. 4, sendFlag : BOOLEAN, terminal : BOOLEAN,
            fetchId : FetchIds \cup {None}, timed : BOOLEAN, timer : Nat,
            response : Nat, opened : Nat, sent : Nat]

XhrTypeOK ==
    /\ xhr \in Objects
    /\ starts \subseteq Nat /\ refused \subseteq Nat
    /\ owned \in [FetchIds -> Nat]
    /\ net \in Seq(Closure)
    /\ fin \in Ending \cup {None}
    /\ told \in Seq(Event)
    /\ torn \subseteq Nat

\* The request numbered s of object x is over: x has moved on or is finished.
Over(s, x) == s < x.id \/ (s = x.id /\ x.terminal)

\* Some ending of s is among the events h.
Told(s, h) == \E n \in DOMAIN h : h[n].send = s

\* Closures of abort() that are still queued.
Aborts == {n \in DOMAIN net : net[n].kind = "abort"}

\* What is told is over, and is told once.
ToldOnce ==
    /\ \A n \in DOMAIN told : told[n].send \notin torn => Over(told[n].send, xhr)
    /\ \A m, n \in DOMAIN told :
          told[m].send = told[n].send /\ told[m].send \notin torn => m = n

\* An ending in progress is of the open request until it is terminal, and the
\* page has not been told.
InProgress ==
    fin # None =>
        /\ fin.stage \in {2, 3} => fin.send \in torn \/ (fin.send = xhr.id /\ ~xhr.terminal)
        /\ fin.stage = 4 /\ fin.send \notin torn => Over(fin.send, xhr)
        /\ fin.send \notin torn => ~Told(fin.send, told)

\* A closure of abort() is the only ending its request can still have.
AbortsPending ==
    /\ \A n \in Aborts : net[n].send \notin torn =>
          /\ net[n].send < xhr.id /\ ~Told(net[n].send, told)
          /\ fin # None => fin.send # net[n].send
    /\ \A m, n \in Aborts : net[m].send = net[n].send /\ net[m].send \notin torn => m = n

XhrInv ==
    /\ XhrTypeOK
    /\ xhr.terminal => xhr.readyState # 1
    /\ xhr.response \in {0, xhr.id} \cup torn
    /\ ToldOnce /\ InProgress /\ AbortsPending

IInv == LoadInv /\ XhrInv

-----------------------------------------------------------------------------
(* The preflight cache. *)

\* A finite set of numbers that is not empty has a largest one.
LEMMA MaxFacts ==
    ASSUME NEW S \in SUBSET Nat, IsFiniteSet(S), S # {}
    PROVE  Max(S) \in S /\ \A y \in S : Max(S) >= y
<1> DEFINE Top(T) == \E x \in T : \A y \in T : x >= y
           Bad == {n \in Nat : \E T \in SUBSET S : T # {} /\ Cardinality(T) = n /\ ~Top(T)}
<1>1. Bad = {}
  <2> SUFFICES ASSUME Bad # {}
               PROVE  FALSE
    OBVIOUS
  <2>1. PICK n \in Bad : \A m \in Bad : n <= m
    BY LeastNumber
  <2>2. PICK T \in SUBSET S : T # {} /\ Cardinality(T) = n /\ ~Top(T)
    BY <2>1
  <2>3. PICK x \in T : TRUE
    BY <2>2
  <2> DEFINE U == T \ {x}
  <2>4. IsFiniteSet(T) /\ IsFiniteSet(U) /\ Cardinality(U) = n - 1
    BY <2>2, <2>3, FS_Subset, FS_RemoveElement
  <2>5. Cardinality(U) \in Nat /\ Cardinality(T) \in Nat
    BY <2>4, FS_CardinalityType
  <2>6. U = {} \/ Top(U)
    <3>1. U \in SUBSET S /\ n - 1 \in Nat /\ ~(n <= n - 1)
      BY <2>2, <2>4, <2>5
    <3>2. n - 1 \notin Bad
      BY <2>1, <3>1
    <3> HIDE DEF Top, U
    <3>3. QED
      BY <2>4, <3>1, <3>2
  <2>7. CASE U = {}
    BY <2>2, <2>3, <2>7
  <2>8. CASE Top(U)
    <3>1. PICK z \in U : \A y \in U : z >= y
      BY <2>8
    <3>2. z \in Nat /\ x \in Nat /\ z \in T
      BY <2>2, <2>3, <3>1
    <3>3. CASE z >= x
      BY <2>2, <3>1, <3>2, <3>3
    <3>4. CASE x > z
      <4>1. \A y \in T : y \in Nat /\ (y = x \/ z >= y)
        BY <2>2, <3>1
      <4>2. \A y \in T : x >= y
        BY <3>2, <3>4, <4>1
      <4>3. QED
        BY <2>2, <2>3, <4>2
    <3>5. QED
      BY <3>2, <3>3, <3>4
  <2>9. QED
    BY <2>6, <2>7, <2>8
<1>2. Cardinality(S) \in Nat
  BY FS_CardinalityType
<1>3. \E x \in S : \A y \in S : x >= y
  BY <1>1, <1>2
<1>4. QED
  BY <1>3 DEF Max

\* Images of finite sets are finite.
LEMMA FiniteImage ==
    ASSUME NEW S, IsFiniteSet(S), NEW f, f \in [S -> {f[x] : x \in S}]
    PROVE  IsFiniteSet({f[x] : x \in S})
<1>1. f \in Surjection(S, {f[x] : x \in S})
  BY DEF Surjection
<1>2. QED
  BY <1>1, FS_Surjection

\* PreflightCache::merge keeps a cache a cache, and no valid approval gets
\* shorter.
LEMMA MergeFacts ==
    ASSUME NEW c \in [Keys -> Nat], NEW snapshots \in SUBSET [Keys -> Nat],
           IsFiniteSet(snapshots), NEW now \in Nat
    PROVE  /\ Merge(c, snapshots, now) \in [Keys -> Nat]
           /\ \A k \in Keys : c[k] > now => Merge(c, snapshots, now)[k] >= c[k]
<1>1. CASE snapshots = {}
  BY <1>1 DEF Merge
<1>2. CASE snapshots # {}
  <2> DEFINE Seen(k) == {Fresh(s[k], now) : s \in snapshots}
             All(k)  == {Fresh(c[k], now)} \cup Seen(k)
  <2>1. \A k \in Keys : Max(All(k)) \in Nat /\ Max(All(k)) >= Fresh(c[k], now)
    <3> TAKE k \in Keys
    <3> DEFINE f == [s \in snapshots |-> Fresh(s[k], now)]
    <3>1. IsFiniteSet({f[s] : s \in snapshots})
      BY FiniteImage
    <3>2. {f[s] : s \in snapshots} = Seen(k)
      OBVIOUS
    <3>3. IsFiniteSet(All(k))
      BY <3>1, <3>2, FS_AddElement
    <3>4. All(k) \in SUBSET Nat /\ Fresh(c[k], now) \in All(k)
      BY DEF Fresh
    <3> HIDE DEF All
    <3>5. QED
      BY <3>3, <3>4, MaxFacts
  <2>2. Merge(c, snapshots, now) = [k \in Keys |-> Max(All(k))]
    BY <1>2 DEF Merge
  <2> HIDE DEF All
  <2>3. Merge(c, snapshots, now) \in [Keys -> Nat]
    BY <2>1, <2>2
  <2>4. ASSUME NEW k \in Keys, c[k] > now
        PROVE  Merge(c, snapshots, now)[k] >= c[k]
    BY <2>1, <2>2, <2>4 DEF Fresh
  <2>5. QED
    BY <2>3, <2>4
<1>3. QED
  BY <1>1, <1>2

\* So is a snapshot after its preflight.
LEMMA AfterPreflightFacts ==
    ASSUME NEW s \in [Keys -> Nat], NEW key \in Keys \cup {None}, NEW at \in Nat,
           NEW age \in Nat
    PROVE  AfterPreflight(s, key, at, age) \in [Keys -> Nat]
<1> DEFINE kept == [k \in Keys |-> Fresh(s[k], at)]
<1>1. kept \in [Keys -> Nat]
  BY DEF Fresh
<1> HIDE DEF kept
<1>2. key \in Keys => [kept EXCEPT ![key] = at + age] \in [Keys -> Nat]
  BY <1>1
<1> USE DEF kept
<1>3. QED
  BY <1>1, <1>2 DEF AfterPreflight

-----------------------------------------------------------------------------
(* The table of background requests. *)

LEMMA InBytes ==
    ASSUME NEW p, NEW ids, NEW x
    PROVE  x \in Bytes(p, ids) <=> \E b \in ids : x \in {b} \X (1 .. p[b].size)
  BY DEF Bytes

\* Two tables whose entries agree in size have the same bytes.
LEMMA SameBytes ==
    ASSUME NEW p, NEW q, NEW ids, \A b \in ids : p[b].size = q[b].size
    PROVE  Bytes(p, ids) = Bytes(q, ids)
  BY DEF Bytes

\* The bytes of different entries are different bytes.
LEMMA BytesMinus ==
    ASSUME NEW p, NEW A, NEW B, NEW D, \A b : b \in D <=> b \in A /\ b \notin B, NEW x
    PROVE  x \in Bytes(p, D) <=> x \in Bytes(p, A) /\ x \notin Bytes(p, B)
<1> DEFINE In(b) == x \in {b} \X (1 .. p[b].size)
<1>1. \A b, c : In(b) /\ In(c) => b = c
  OBVIOUS
<1>2. /\ x \in Bytes(p, D) <=> \E b \in D : In(b)
      /\ x \in Bytes(p, A) <=> \E b \in A : In(b)
      /\ x \in Bytes(p, B) <=> \E b \in B : In(b)
  BY InBytes
<1> HIDE DEF In
<1>3. QED
  BY <1>1, <1>2, Zenon

LEMMA BytesWithin ==
    ASSUME NEW p, NEW A, NEW B, B \subseteq A
    PROVE  Bytes(p, B) \subseteq Bytes(p, A)
  BY DEF Bytes

\* Each field of a table updated by itself.
LEMMA TableUpdates ==
    ASSUME NEW l \in Table, NEW v
    PROVE  /\ [l EXCEPT !.next = v] = [next |-> v, reserved |-> l.reserved,
                                       activated |-> l.activated, pending |-> l.pending]
           /\ [l EXCEPT !.reserved = v] = [next |-> l.next, reserved |-> v,
                                           activated |-> l.activated, pending |-> l.pending]
           /\ [l EXCEPT !.activated = v] = [next |-> l.next, reserved |-> l.reserved,
                                            activated |-> v, pending |-> l.pending]
           /\ [l EXCEPT !.pending = v] = [next |-> l.next, reserved |-> l.reserved,
                                          activated |-> l.activated, pending |-> v]
  BY DEF Table

\* m is the table l without the entries ids.
Released(m, l, ids) ==
    /\ m \in Table /\ Exact(m) /\ m.next = l.next /\ m.activated = l.activated
    /\ \A b \in LoadIds : /\ b \in ids => m.pending[b] = None
                          /\ b \notin ids => m.pending[b] = l.pending[b]

\* A released set of entries takes its bytes along.
LEMMA ReleaseFacts ==
    ASSUME NEW l \in Table, Exact(l), NEW ids \in SUBSET Occupied(l)
    PROVE  Released(Release(l, ids), l, ids)
<1> DEFINE r == Release(l, ids)
           q == [b \in LoadIds |-> IF b \in ids THEN None ELSE l.pending[b]]
           A == Occupied(l)
           D == {b \in LoadIds : q[b] # None}
           B == Bytes(l.pending, A)
           C == Bytes(l.pending, ids)
           v == l.reserved - Cardinality(C)
<1>1. r = [[l EXCEPT !.reserved = v] EXCEPT !.pending = q]
  BY DEF Release
<1>2. /\ q \in [LoadIds -> Entry \cup {None}]
      /\ \A b \in D : q[b] = l.pending[b]
      /\ \A b : b \in D <=> b \in A /\ b \notin ids
  BY DEF Table, Occupied
<1>3. l.next \in 0 .. MaxLoads /\ l.activated \in SUBSET LoadIds /\ l.reserved \in 0 .. Quota
  BY DEF Table
<1>4. IsFiniteSet(B) /\ l.reserved = Cardinality(B)
  BY DEF Exact
<1>5. C \subseteq B
  BY BytesWithin
<1> HIDE DEF q, v, D, r
<1>6. r = [next |-> l.next, reserved |-> v, activated |-> l.activated, pending |-> q]
  <2>1. [l EXCEPT !.reserved = v] =
            [next |-> l.next, reserved |-> v, activated |-> l.activated, pending |-> l.pending]
    BY TableUpdates
  <2>2. QED
    BY <1>1, <2>1
<1>7. Occupied(r) = D
  BY <1>6 DEF Occupied, D
<1>8. Bytes(q, D) = Bytes(l.pending, D)
  BY <1>2, SameBytes
<1>9. \A x : x \in Bytes(l.pending, D) <=> x \in Bytes(l.pending, A) /\ x \notin Bytes(l.pending, ids)
  BY <1>2, BytesMinus
<1>10. Bytes(q, D) = B \ C
  BY <1>8, <1>9
<1> HIDE DEF B, C
<1>11. IsFiniteSet(B \ C) /\ Cardinality(B \ C) = Cardinality(B) - Cardinality(C)
  <2>1. B \cap C = C
    BY <1>5
  <2>2. IsFiniteSet(B \ C) /\ Cardinality(B \ C) = Cardinality(B) - Cardinality(B \cap C)
    BY <1>4, FS_Difference
  <2>3. QED
    BY <2>1, <2>2
<1>12. Cardinality(B \ C) \in Nat /\ Cardinality(C) \in Nat
  BY <1>4, <1>5, <1>11, FS_CardinalityType, FS_Subset
<1>13. v = Cardinality(B \ C) /\ v \in 0 .. Quota
  BY <1>3, <1>4, <1>11, <1>12, BoundsAssumption DEF v
<1>14. r \in Table
  BY <1>2, <1>3, <1>6, <1>13 DEF Table
<1>15. Exact(r)
  BY <1>6, <1>7, <1>10, <1>11, <1>13 DEF Exact
<1>16. QED
  BY <1>6, <1>14, <1>15 DEF Released, r, q

\* start reserves the bytes of the entry it inserts.
LEMMA InsertFacts ==
    ASSUME NEW l \in Table, Exact(l), NEW b \in LoadIds, l.pending[b] = None,
           NEW e \in Entry, l.reserved + e.size <= Quota
    PROVE  LET r == [next |-> b, reserved |-> l.reserved + e.size,
                     activated |-> l.activated, pending |-> [l.pending EXCEPT ![b] = e]]
           IN  r \in Table /\ Exact(r)
<1> DEFINE q == [l.pending EXCEPT ![b] = e]
           r == [next |-> b, reserved |-> l.reserved + e.size, activated |-> l.activated,
                 pending |-> q]
           A == Occupied(l)
           D == {c \in LoadIds : q[c] # None}
           B == Bytes(l.pending, A)
           C == {b} \X (1 .. e.size)
<1>1. /\ q \in [LoadIds -> Entry \cup {None}] /\ q[b] = e
      /\ \A c \in LoadIds \ {b} : q[c] = l.pending[c]
  BY DEF Table
<1>2. /\ \A c : c \in A <=> c \in D /\ c \notin {b}
      /\ b \in D /\ b \notin A
  BY <1>1, NoneAssumption DEF Occupied
<1>3. l.reserved \in 0 .. Quota /\ l.activated \in SUBSET LoadIds /\ e.size \in Nat
  BY DEF Table, Entry
<1>4. IsFiniteSet(B) /\ l.reserved = Cardinality(B)
  BY DEF Exact
<1>5. r \in Table
  <2>1. l.reserved + e.size \in 0 .. Quota /\ b \in 0 .. MaxLoads
    BY <1>3, BoundsAssumption DEF LoadIds
  <2> HIDE DEF q
  <2>2. QED
    BY <1>1, <1>3, <2>1 DEF Table
<1>6. Occupied(r) = D
  BY DEF Occupied
<1> HIDE DEF q, D
<1>7. Bytes(q, {b}) = C
  BY <1>1 DEF Bytes
<1>8. Bytes(q, A) = B
  <2>1. \A c \in A : q[c].size = l.pending[c].size
    BY <1>1, <1>2 DEF Occupied
  <2>2. QED
    BY <2>1, SameBytes
<1>9. \A x : x \in Bytes(q, A) <=> x \in Bytes(q, D) /\ x \notin Bytes(q, {b})
  BY <1>2, BytesMinus
<1>10. Bytes(q, {b}) \subseteq Bytes(q, D)
  BY <1>2, BytesWithin
<1>11. IsFiniteSet(C) /\ Cardinality(C) = e.size
  <2>1. IsFiniteSet({b}) /\ Cardinality({b}) = 1
    BY FS_Singleton
  <2>2. IsFiniteSet(1 .. e.size) /\ Cardinality(1 .. e.size) = e.size
    BY <1>3, FS_Interval
  <2>3. IsFiniteSet(C) /\ Cardinality(C) = Cardinality({b}) * Cardinality(1 .. e.size)
    BY <2>1, <2>2, FS_Product
  <2>4. QED
    BY <1>3, <2>1, <2>2, <2>3
<1> HIDE DEF B, C
<1>12. Bytes(q, D) = B \cup C /\ B \cap C = {}
  BY <1>7, <1>8, <1>9, <1>10
<1>13. IsFiniteSet(B \cup C) /\ Cardinality(B \cup C) = Cardinality(B) + Cardinality(C)
  <2>1. Cardinality(B \cap C) = 0
    BY <1>12, FS_EmptySet
  <2>2. Cardinality(B) \in Nat
    BY <1>4, FS_CardinalityType
  <2>3. /\ IsFiniteSet(B \cup C)
        /\ Cardinality(B \cup C) = Cardinality(B) + Cardinality(C) - Cardinality(B \cap C)
    BY <1>4, <1>11, FS_Union
  <2>4. QED
    BY <1>3, <1>11, <2>1, <2>2, <2>3
<1>14. Exact(r)
  <2>1. r.pending = q /\ r.reserved = l.reserved + e.size
    OBVIOUS
  <2> HIDE DEF r
  <2>2. QED
    BY <1>4, <1>6, <1>11, <1>12, <1>13, <2>1 DEF Exact
<1>15. QED
  BY <1>5, <1>14 DEF q

\* m is the table l with the entries ids handed over, or released when the
\* queue is stopped.
Activated(m, l, ids) ==
    /\ m \in Table /\ Exact(m) /\ m.next = l.next
    /\ \A b \in LoadIds :
          /\ b \in m.activated <=> \/ b \in l.activated
                                   \/ ~stopped /\ b \in ids /\ l.pending[b].later
          /\ b \notin ids => m.pending[b] = l.pending[b]
          /\ b \in ids /\ stopped => m.pending[b] = None
          /\ b \in ids /\ ~stopped => m.pending[b] = [l.pending[b] EXCEPT !.request = FALSE]

\* activate_or_release: a stopped queue releases, any other takes the requests
\* and leaves the reservation alone.
LEMMA ActivateFacts ==
    ASSUME NEW l \in Table, Exact(l), NEW ids \in SUBSET Occupied(l), stopped \in BOOLEAN
    PROVE  Activated(Activate(l, ids), l, ids)
<1>1. CASE stopped
  <2>1. Activate(l, ids) = Release(l, ids)
    BY <1>1 DEF Activate
  <2>2. Released(Activate(l, ids), l, ids)
    BY <2>1, ReleaseFacts
  <2>3. QED
    BY <1>1, <2>2 DEF Activated, Released
<1>2. CASE ~stopped
  <2> DEFINE r == Activate(l, ids)
             p == [b \in LoadIds |->
                      IF b \in ids THEN [l.pending[b] EXCEPT !.request = FALSE]
                      ELSE l.pending[b]]
  <2>1. r = [next |-> l.next, reserved |-> l.reserved,
             activated |-> l.activated \cup {b \in ids : l.pending[b].later},
             pending |-> p]
    BY <1>2 DEF Activate, Table
  <2>2. \A b \in ids : l.pending[b] \in Entry
    BY DEF Occupied, Table
  <2>3. \A b \in ids : /\ [l.pending[b] EXCEPT !.request = FALSE] \in Entry
                       /\ [l.pending[b] EXCEPT !.request = FALSE].size = l.pending[b].size
    BY <2>2 DEF Entry
  <2>4. p \in [LoadIds -> Entry \cup {None}]
    BY <2>3 DEF Table
  <2>5. \A b \in LoadIds : /\ p[b] = None <=> l.pending[b] = None
                           /\ b \in Occupied(l) => p[b].size = l.pending[b].size
    BY <2>3, NoneAssumption DEF Occupied
  <2> HIDE DEF p
  <2>6. r \in Table
    BY <2>1, <2>4 DEF Table, Occupied
  <2>7. Occupied(r) = Occupied(l) /\ Bytes(p, Occupied(l)) = Bytes(l.pending, Occupied(l))
    <3>1. Occupied(r) = Occupied(l)
      BY <2>1, <2>5 DEF Occupied
    <3>2. \A b \in Occupied(l) : p[b].size = l.pending[b].size
      BY <2>5 DEF Occupied
    <3>3. QED
      BY <3>1, <3>2, SameBytes
  <2>8. Exact(r)
    BY <2>1, <2>7 DEF Exact
  <2> USE DEF p
  <2>9. QED
    BY <1>2, <2>1, <2>6, <2>8 DEF Activated
<1>3. QED
  BY <1>1, <1>2

-----------------------------------------------------------------------------
(* Jobs and fates. *)

LEMMA JobNames ==
    /\ \A b \in LoadIds : <<"load", b>> \in Jobs
    /\ \A i \in FetchIds : <<"fetch", i>> \in Jobs
    /\ \A b, i : <<"load", b>> # <<"fetch", i>>
  BY DEF Jobs

LEMMA HandOverFacts ==
    ASSUME NEW f \in [LoadIds -> Fate], NEW ids, stopped \in BOOLEAN
    PROVE  /\ HandOver(f, ids) \in [LoadIds -> Fate]
           /\ \A b \in LoadIds :
                 LET was == f[b]
                     is  == HandOver(f, ids)[b]
                 IN  /\ b \notin ids => is = was
                     /\ b \in ids => /\ is.doc = was.doc /\ is.later = was.later
                                     /\ is.cancelled = was.cancelled
                     /\ b \in ids /\ stopped => is.refused /\ is.handed = was.handed
                     /\ b \in ids /\ ~stopped => /\ is.refused = was.refused
                                                 /\ is.handed = was.handed + 1
<1>1. \A b \in LoadIds : f[b] \in Fate
  OBVIOUS
<1>2. ASSUME NEW b \in LoadIds
      PROVE  LET r == [f[b] EXCEPT !.refused = TRUE]
                 h == [f[b] EXCEPT !.handed = @ + 1]
             IN  /\ r \in Fate /\ h \in Fate
                 /\ r.doc = f[b].doc /\ r.later = f[b].later /\ r.cancelled = f[b].cancelled
                 /\ r.refused /\ r.handed = f[b].handed
                 /\ h.doc = f[b].doc /\ h.later = f[b].later /\ h.cancelled = f[b].cancelled
                 /\ h.refused = f[b].refused /\ h.handed = f[b].handed + 1
  <2>1. PICK w \in Fate : f[b] = w
    BY <1>1
  <2>2. w = [doc |-> w.doc, later |-> w.later, handed |-> w.handed, refused |-> w.refused,
             cancelled |-> w.cancelled]
    BY DEF Fate
  <2>3. [w EXCEPT !.refused = TRUE] =
            [doc |-> w.doc, later |-> w.later, handed |-> w.handed, refused |-> TRUE,
             cancelled |-> w.cancelled]
    <3>1. PICK yes : yes = TRUE
      OBVIOUS
    <3>2. [w EXCEPT !.refused = yes] =
            [doc |-> w.doc, later |-> w.later, handed |-> w.handed, refused |-> yes,
             cancelled |-> w.cancelled]
      BY DEF Fate
    <3>3. QED
      BY <3>1, <3>2, Zenon
  <2>4. [w EXCEPT !.handed = w.handed + 1] =
            [doc |-> w.doc, later |-> w.later, handed |-> w.handed + 1, refused |-> w.refused,
             cancelled |-> w.cancelled]
    BY DEF Fate
  <2>5. w.doc \in Documents \cup {None} /\ w.later \in BOOLEAN /\ w.handed \in Nat
        /\ w.refused \in BOOLEAN /\ w.cancelled \in BOOLEAN /\ w.handed + 1 \in Nat
    BY DEF Fate
  <2>6. QED
    BY <2>1, <2>3, <2>4, <2>5 DEF Fate
<1>3. QED
  BY <1>1, <1>2 DEF HandOver

\* The jobs after submit: one for each request handed to a running queue.
LEMMA SubmittedFacts ==
    ASSUME NEW js \in [Jobs -> Job \cup {None}], NEW l \in Table,
           NEW ids \in SUBSET Occupied(l), NEW c \in [Keys -> Nat], clock \in Nat
    PROVE  /\ Submitted(js, l, ids, c) \in [Jobs -> Job \cup {None}]
           /\ \A i \in FetchIds : Submitted(js, l, ids, c)[<<"fetch", i>>] = js[<<"fetch", i>>]
           /\ \A b \in LoadIds : b \notin ids \/ stopped =>
                 Submitted(js, l, ids, c)[<<"load", b>>] = js[<<"load", b>>]
<1>1. \A b \in ids : b \in LoadIds /\ l.pending[b] \in Entry
  BY DEF Occupied, Table
<1>2. \A b \in ids : NewJob(l.pending[b].key, c) \in Job
  BY <1>1 DEF NewJob, Job, Entry
<1>3. QED
  BY <1>2, JobNames DEF Submitted

\* activate_or_release moves a waiting request on, and leaves every other one
\* where it is.
LEMMA ActivatePosition ==
    ASSUME NEW l \in Table, Exact(l), NEW f \in [LoadIds -> Fate],
           NEW js \in [Jobs -> Job \cup {None}], NEW c \in [Keys -> Nat],
           NEW ids \in SUBSET Deferred(l), NEW act, NEW act2,
           clock \in Nat, stopped \in BOOLEAN,
           NEW b \in LoadIds, Position(b, l, f, act, js),
           b \in Deferred(l) \ ids => l.pending[b].doc \in act2
    PROVE  Position(b, Activate(l, ids), HandOver(f, ids), act2, Submitted(js, l, ids, c))
<1> DEFINE m == Activate(l, ids)
           g == HandOver(f, ids)
           ks == Submitted(js, l, ids, c)
<1>1. /\ ids \in SUBSET Occupied(l)
      /\ b \in ids => l.pending[b] \in Entry /\ l.pending[b].request /\ l.pending[b] # None
  BY DEF Deferred, Occupied, Table
<1>2. /\ m.next = l.next
      /\ b \in m.activated <=>
            b \in l.activated \/ (~stopped /\ b \in ids /\ l.pending[b].later)
      /\ b \notin ids => m.pending[b] = l.pending[b]
      /\ b \in ids /\ stopped => m.pending[b] = None
      /\ b \in ids /\ ~stopped => m.pending[b] = [l.pending[b] EXCEPT !.request = FALSE]
  <2>1. Activated(m, l, ids)
    BY <1>1, ActivateFacts
  <2> HIDE DEF m
  <2>2. QED
    BY <2>1 DEF Activated
<1>3. /\ b \notin ids => g[b] = f[b]
      /\ b \in ids => /\ g[b].doc = f[b].doc /\ g[b].later = f[b].later
                      /\ g[b].cancelled = f[b].cancelled
      /\ b \in ids /\ stopped => g[b].refused /\ g[b].handed = f[b].handed
      /\ b \in ids /\ ~stopped => /\ g[b].refused = f[b].refused
                                  /\ g[b].handed = f[b].handed + 1
  BY HandOverFacts
<1>4. b \notin ids \/ stopped => ks[<<"load", b>>] = js[<<"load", b>>]
  BY <1>1, SubmittedFacts
<1>5. l.next \in Nat /\ b \in Nat /\ f[b].handed \in Nat
  BY BoundsAssumption DEF Table, LoadIds, Fate
<1> HIDE DEF m, g, ks
<1>6. CASE b \notin ids
  <2>1. m.pending[b] = l.pending[b] /\ g[b] = f[b] /\ ks[<<"load", b>>] = js[<<"load", b>>]
        /\ m.next = l.next /\ (b \in m.activated <=> b \in l.activated)
    BY <1>2, <1>3, <1>4, <1>6
  <2>2. l.pending[b] # None /\ l.pending[b].request => l.pending[b].doc \in act2
    BY <1>6 DEF Deferred
  <2>3. QED
    BY <2>1, <2>2 DEF Position, m, g, ks
<1>7. CASE b \in ids /\ stopped
  <2>1. js[<<"load", b>>] = None /\ b <= l.next /\ f[b].handed = 0 /\ ~f[b].cancelled
    BY <1>1, <1>5, <1>7 DEF Position
  <2>2. m.pending[b] = None /\ ks[<<"load", b>>] = None /\ g[b].refused /\ g[b].handed = 0
        /\ m.next = l.next /\ (b \in m.activated <=> b \in l.activated)
        /\ g[b].later = f[b].later
    BY <1>2, <1>3, <1>4, <1>7, <2>1
  <2>3. b \in l.activated <=> f[b].later /\ f[b].handed = 1
    BY DEF Position
  <2>4. QED
    BY <1>5, <2>1, <2>2, <2>3 DEF Position, m, g, ks
<1>8. CASE b \in ids /\ ~stopped
  <2>1. b <= l.next /\ f[b].handed = 0 /\ ~f[b].cancelled /\ ~f[b].refused
        /\ f[b].doc = l.pending[b].doc /\ f[b].later = l.pending[b].later
    BY <1>1, <1>5, <1>8 DEF Position
  <2>2. m.pending[b] # None /\ ~m.pending[b].request
        /\ m.pending[b].doc = l.pending[b].doc /\ m.pending[b].later = l.pending[b].later
    <3>1. [l.pending[b] EXCEPT !.request = FALSE] \in Entry
      BY <1>1, <1>8 DEF Entry
    <3>2. QED
      BY <1>1, <1>2, <1>8, <3>1, NoneAssumption DEF Entry
  <2>3. g[b].handed = 1 /\ ~g[b].cancelled /\ ~g[b].refused /\ g[b].doc = f[b].doc
        /\ g[b].later = f[b].later
    BY <1>3, <1>8, <2>1
  <2>4. b \in l.activated <=> f[b].later /\ f[b].handed = 1
    BY DEF Position
  <2>5. b \in m.activated <=> g[b].later /\ g[b].handed = 1
    BY <1>2, <1>8, <2>1, <2>3, <2>4
  <2>6. ~(b > m.next)
    BY <1>2, <1>5, <2>1
  <2>7. QED
    BY <2>1, <2>2, <2>3, <2>5, <2>6 DEF Position, m, g, ks
<1>9. QED
  BY <1>6, <1>7, <1>8

\* An entry whose request was sent may leave the table with its job.
LEMMA ReleasePosition ==
    ASSUME NEW l \in Table, Exact(l), NEW f, NEW act, NEW js, NEW ks,
           NEW ids \in SUBSET Occupied(l), NEW b \in LoadIds, Position(b, l, f, act, js),
           b \in ids => ~l.pending[b].request /\ ks[<<"load", b>>] = None,
           b \notin ids => ks[<<"load", b>>] = js[<<"load", b>>]
    PROVE  Position(b, Release(l, ids), f, act, ks)
<1> DEFINE m == Release(l, ids)
<1>1. m.next = l.next /\ m.activated = l.activated
      /\ (b \in ids => m.pending[b] = None) /\ (b \notin ids => m.pending[b] = l.pending[b])
  <2>1. Released(m, l, ids)
    BY ReleaseFacts
  <2> HIDE DEF m
  <2>2. QED
    BY <2>1 DEF Released
<1>2. b \in ids => l.pending[b] # None
  BY DEF Occupied
<1> HIDE DEF m
<1>3. CASE b \in ids
  BY <1>1, <1>2, <1>3 DEF Position, m
<1>4. CASE b \notin ids
  BY <1>1, <1>4 DEF Position, m
<1>5. QED
  BY <1>3, <1>4

-----------------------------------------------------------------------------
(* The steps of FetchLoads. *)

\* What the types give to every step.
LEMMA Basics ==
    ASSUME TypeOK
    PROVE  /\ clock \in Nat /\ clock >= 1 /\ nextFetch \in Nat /\ stopped \in BOOLEAN
           /\ loads.next \in Nat /\ load \in Workloads
           /\ load.fetches \in 0 .. MaxFetches /\ load.loads \in 0 .. MaxLoads
           /\ load.time \in 1 .. MaxTime /\ load.keys \subseteq Keys \cup {None}
           /\ MaxFetches \in Nat /\ MaxLoads \in Nat /\ MaxTime \in Nat /\ Quota \in Nat
  BY BoundsAssumption, WorkloadsAssumption DEF TypeOK, Table

\* Only the jobs of background requests matter for them, and only whether
\* they are there.
LEMMA PositionsKept ==
    ASSUME Positions, UNCHANGED <<loads, fate, active>>,
           \A b \in LoadIds : jobs'[<<"load", b>>] # None => jobs[<<"load", b>>] # None
    PROVE  Positions'
<1>1. ASSUME NEW b \in LoadIds
      PROVE  Position(b, loads, fate, active, jobs')
  <2>1. Position(b, loads, fate, active, jobs)
    BY DEF Positions
  <2>2. jobs'[<<"load", b>>] # None => jobs[<<"load", b>>] # None
    OBVIOUS
  <2>3. QED
    BY <2>1, <2>2 DEF Position
<1>2. QED
  BY <1>1 DEF Positions

LEMMA BeginKeeps ==
    ASSUME LoadInv, NEW d \in Documents, NEW key \in Keys \cup {None}, Begin(d, key),
           load' = load
    PROVE  LoadInv'
<1> DEFINE i == nextFetch + 1
<1>0. TypeOK /\ Exact(loads) /\ Positions /\ NothingForRetired
  BY DEF LoadInv
<1>1. /\ d \in active /\ nextFetch' = i /\ fetches' = [fetches EXCEPT ![i] = d]
      /\ page' = [page EXCEPT ![i] = "waiting"]
      /\ jobs' = [jobs EXCEPT ![<<"fetch", i>>] = NewJob(key, cache)]
      /\ UNCHANGED <<clock, active, stopped, callbacks, loads, cache, fate>>
  BY DEF Begin
<1>2. i \in FetchIds /\ i \in 0 .. MaxFetches
  BY <1>0, Basics DEF Begin, FetchIds
<1>3. NewJob(key, cache) \in Job
  BY <1>0, Basics DEF NewJob, Job, TypeOK
<1> HIDE DEF i
<1>4. /\ jobs' \in [Jobs -> Job \cup {None}]
      /\ \A j \in Jobs : j # <<"fetch", i>> => jobs'[j] = jobs[j]
  BY <1>0, <1>1, <1>2, <1>3, JobNames DEF TypeOK
<1>5. /\ fetches' \in [FetchIds -> Documents \cup {None}] /\ fetches'[i] = d
      /\ \A n \in FetchIds : n # i => fetches'[n] = fetches[n]
  BY <1>0, <1>1, <1>2 DEF TypeOK
<1>6. page' \in [FetchIds -> {"none", "waiting", "loaded", "failed", "aborted", "gone"}]
  BY <1>0, <1>1, <1>2 DEF TypeOK
<1>7. TypeOK'
  BY <1>0, <1>1, <1>2, <1>4, <1>5, <1>6 DEF TypeOK
<1>8. Positions'
  BY <1>0, <1>1, <1>4, JobNames, PositionsKept
<1>9. NothingForRetired'
  <2>1. \A n \in FetchIds : n # i => jobs'[<<"fetch", n>>] = jobs[<<"fetch", n>>]
    BY <1>4, JobNames
  <2>2. \A n \in FetchIds : fetches'[n] # None => fetches'[n] \in active'
    BY <1>0, <1>1, <1>5 DEF NothingForRetired
  <2>3. \A n \in FetchIds : fetches'[n] = None => jobs'[<<"fetch", n>>] = None
    BY <1>0, <1>5, <2>1, NoneAssumption DEF NothingForRetired
  <2>4. QED
    BY <1>0, <1>1, <2>2, <2>3 DEF NothingForRetired
<1>10. Exact(loads)'
  BY <1>0, <1>1
<1>11. QED
  BY <1>7, <1>8, <1>9, <1>10 DEF LoadInv

\* A fetch is dropped with its job: cancel.
LEMMA DropKeeps ==
    ASSUME LoadInv, NEW i \in FetchIds,
           fetches' = [fetches EXCEPT ![i] = None],
           jobs' = [jobs EXCEPT ![<<"fetch", i>>] = None],
           page' = [page EXCEPT ![i] = "aborted"],
           UNCHANGED <<clock, active, stopped, nextFetch, callbacks, loads, cache, fate, load>>
    PROVE  LoadInv'
<1>0. TypeOK /\ Exact(loads) /\ Positions /\ NothingForRetired
  BY DEF LoadInv
<1>1. /\ jobs' \in [Jobs -> Job \cup {None}] /\ jobs'[<<"fetch", i>>] = None
      /\ \A j \in Jobs : j # <<"fetch", i>> => jobs'[j] = jobs[j]
  BY <1>0, JobNames DEF TypeOK
<1>2. /\ fetches' \in [FetchIds -> Documents \cup {None}] /\ fetches'[i] = None
      /\ \A n \in FetchIds : n # i => fetches'[n] = fetches[n]
  BY <1>0 DEF TypeOK
<1>3. page' \in [FetchIds -> {"none", "waiting", "loaded", "failed", "aborted", "gone"}]
  BY <1>0 DEF TypeOK
<1>4. TypeOK'
  BY <1>0, <1>1, <1>2, <1>3 DEF TypeOK
<1>5. Positions'
  BY <1>0, <1>1, JobNames, PositionsKept
<1>6. NothingForRetired'
  <2>1. \A n \in FetchIds : n # i => jobs'[<<"fetch", n>>] = jobs[<<"fetch", n>>]
    BY <1>1, JobNames
  <2>2. QED
    BY <1>0, <1>1, <1>2, <2>1 DEF NothingForRetired
<1>7. Exact(loads)'
  BY <1>0
<1>8. QED
  BY <1>4, <1>5, <1>6, <1>7 DEF LoadInv

LEMMA AbortKeeps ==
    ASSUME LoadInv, NEW i \in FetchIds, Abort(i), load' = load
    PROVE  LoadInv'
  BY DropKeeps DEF Abort

LEMMA ExecuteKeeps ==
    ASSUME LoadInv, NEW j \in Jobs, Execute(j), load' = load
    PROVE  LoadInv'
<1>0. TypeOK /\ Exact(loads) /\ Positions /\ NothingForRetired
  BY DEF LoadInv
<1>1. jobs[j] \in Job /\ jobs[j] # None
  BY <1>0 DEF Execute, TypeOK
<1>2. \E new \in Job : jobs' = [jobs EXCEPT ![j] = new]
  <2>1. PICK job \in Job : job = jobs[j]
    BY <1>1
  <2>2. job.cache \in [Keys -> Nat] /\ job.key \in Keys \cup {None} /\ job.since \in Nat
    BY DEF Job
  <2>3. CASE jobs' = [jobs EXCEPT ![j].state = "panicked"]
    <3>1. [job EXCEPT !.state = "panicked"] \in Job
      BY DEF Job
    <3>2. jobs' = [jobs EXCEPT ![j] = [job EXCEPT !.state = "panicked"]]
      BY <2>1, <2>3
    <3>3. QED
      BY <3>1, <3>2
  <2>4. CASE \E at \in jobs[j].since .. clock, age \in Ages, result \in {"loaded", "failed"} :
                jobs' = [jobs EXCEPT ![j].state = result,
                            ![j].cache = AfterPreflight(@, jobs[j].key, at, age)]
    <3>1. PICK at \in jobs[j].since .. clock, age \in Ages, result \in {"loaded", "failed"} :
                jobs' = [jobs EXCEPT ![j].state = result,
                            ![j].cache = AfterPreflight(@, jobs[j].key, at, age)]
      BY <2>4
    <3>2. at \in Nat /\ age \in Nat
      BY <1>0, <2>1, <2>2, Basics, DataAssumption
    <3>3. PICK c \in [Keys -> Nat] : c = AfterPreflight(job.cache, job.key, at, age)
      BY <2>2, <3>2, AfterPreflightFacts
    <3>4. PICK new : new = [state |-> result, key |-> job.key, since |-> job.since, cache |-> c]
      OBVIOUS
    <3>5. new \in Job
      BY <2>2, <3>4 DEF Job
    <3>6. jobs' = [jobs EXCEPT ![j] = new]
      <4>1. jobs' = [jobs EXCEPT ![j].state = result, ![j].cache = c]
        <5>1. [jobs EXCEPT ![j].state = result][j].cache = job.cache
          BY <1>0, <2>1 DEF TypeOK, Job
        <5>2. QED
          BY <2>1, <3>1, <3>3, <5>1
      <4>2. [[job EXCEPT !.state = result] EXCEPT !.cache = c] = new
        <5>1. [job EXCEPT !.state = result] =
                 [state |-> result, key |-> job.key, since |-> job.since, cache |-> job.cache]
          BY DEF Job
        <5>2. PICK mid : mid = [job EXCEPT !.state = result]
          OBVIOUS
        <5>3. mid = [state |-> result, key |-> job.key, since |-> job.since,
                     cache |-> job.cache]
          BY <5>1, <5>2
        <5>4. [mid EXCEPT !.cache = c] = new
          BY <3>4, <5>3
        <5>5. QED
          BY <5>2, <5>4
      <4>3. [jobs EXCEPT ![j].state = result, ![j].cache = c] =
               [jobs EXCEPT ![j] = [[job EXCEPT !.state = result] EXCEPT !.cache = c]]
        BY <1>0, <2>1 DEF TypeOK
      <4>4. QED
        BY <4>1, <4>2, <4>3
    <3>7. QED
      BY <3>5, <3>6
  <2>5. QED
    BY <2>3, <2>4 DEF Execute
<1>3. PICK new \in Job : jobs' = [jobs EXCEPT ![j] = new]
  BY <1>2
<1>4. UNCHANGED <<clock, active, stopped, fetches, nextFetch, page, callbacks, loads, cache, fate>>
  BY DEF Execute, fetchVars
<1>5. /\ jobs' \in [Jobs -> Job \cup {None}]
      /\ \A x \in Jobs : jobs'[x] # None => jobs[x] # None
      /\ \A x \in Jobs : jobs[x] = None => jobs'[x] = None
  BY <1>0, <1>1, <1>3 DEF TypeOK
<1>6. TypeOK'
  BY <1>0, <1>4, <1>5 DEF TypeOK
<1>7. Positions'
  BY <1>0, <1>4, <1>5, JobNames, PositionsKept
<1>8. NothingForRetired'
  <2>1. \A n \in FetchIds : jobs[<<"fetch", n>>] = None => jobs'[<<"fetch", n>>] = None
    BY <1>5, JobNames
  <2>2. QED
    BY <1>0, <1>4, <2>1 DEF NothingForRetired
<1>9. QED
  BY <1>0, <1>4, <1>6, <1>7, <1>8 DEF LoadInv

LEMMA RunCallbackKeeps ==
    ASSUME LoadInv, RunCallback, load' = load
    PROVE  LoadInv'
<1>0. TypeOK /\ Exact(loads) /\ Positions /\ NothingForRetired
  BY DEF LoadInv
<1>1. UNCHANGED <<clock, active, stopped, fetches, nextFetch, loads, jobs, cache, fate>>
  BY DEF RunCallback
<1>2. callbacks \in Seq(Callback) /\ callbacks # <<>> /\ callbacks' = Tail(callbacks)
  BY <1>0 DEF RunCallback, TypeOK
<1>3. Head(callbacks) \in Callback /\ callbacks' \in Seq(Callback)
      /\ \A n \in DOMAIN callbacks' : callbacks'[n] = callbacks[n + 1] /\ n + 1 \in DOMAIN callbacks
  BY <1>2
<1>4. page' \in [FetchIds -> {"none", "waiting", "loaded", "failed", "aborted", "gone"}]
  <2>1. PICK task \in Callback : task = Head(callbacks)
    BY <1>3
  <2>2. task.id \in FetchIds /\ task.result \in {"loaded", "failed"}
    BY DEF Callback
  <2>3. page' = page \/ page' = [page EXCEPT ![task.id] = task.result]
    BY <2>1 DEF RunCallback
  <2>4. QED
    BY <1>0, <2>2, <2>3 DEF TypeOK
<1>5. TypeOK'
  BY <1>0, <1>1, <1>3, <1>4 DEF TypeOK
<1>6. NothingForRetired'
  BY <1>0, <1>1, <1>3 DEF NothingForRetired
<1>7. QED
  BY <1>0, <1>1, <1>5, <1>6, PositionsKept DEF LoadInv

LEMMA TickKeeps ==
    ASSUME LoadInv, Tick, load' = load
    PROVE  LoadInv'
<1>0. TypeOK /\ Exact(loads) /\ Positions /\ NothingForRetired
  BY DEF LoadInv
<1>1. UNCHANGED <<active, stopped, fetches, nextFetch, page, callbacks, loads, jobs, cache, fate>>
  BY DEF Tick, fetchVars
<1>2. clock' \in 1 .. MaxTime
  BY <1>0, Basics DEF Tick
<1>3. TypeOK'
  BY <1>0, <1>1, <1>2 DEF TypeOK
<1>4. QED
  BY <1>0, <1>1, <1>3, PositionsKept DEF LoadInv, NothingForRetired

LEMMA CancelKeeps ==
    ASSUME LoadInv, NEW b \in LoadIds, Cancel(b), load' = load
    PROVE  LoadInv'
<1>0. TypeOK /\ Exact(loads) /\ Positions /\ NothingForRetired
  BY DEF LoadInv
<1>1. /\ b \in Deferred(loads) /\ loads' = Release(loads, {b})
      /\ fate' = [fate EXCEPT ![b].cancelled = TRUE]
      /\ UNCHANGED <<clock, active, stopped, fetches, nextFetch, page, callbacks, jobs, cache>>
  BY DEF Cancel, fetchVars
<1>2. loads \in Table /\ {b} \in SUBSET Occupied(loads)
      /\ loads.pending[b] # None /\ loads.pending[b].request
  BY <1>0, <1>1 DEF TypeOK, Deferred, Occupied
<1>3. Released(loads', loads, {b})
  BY <1>0, <1>1, <1>2, ReleaseFacts
<1>4. /\ fate' \in [LoadIds -> Fate]
      /\ fate'[b].cancelled /\ fate'[b].later = fate[b].later /\ fate'[b].handed = fate[b].handed
      /\ \A c \in LoadIds : c # b => fate'[c] = fate[c]
  <2>1. PICK w \in Fate : w = fate[b]
    BY <1>0 DEF TypeOK
  <2>2. PICK yes \in BOOLEAN : yes = TRUE
    OBVIOUS
  <2>3. fate' = [fate EXCEPT ![b] = [w EXCEPT !.cancelled = yes]]
    BY <1>1, <2>1, <2>2
  <2>4. PICK new : new = [w EXCEPT !.cancelled = yes]
    OBVIOUS
  <2>5. new \in Fate /\ new.cancelled = yes /\ new.later = w.later /\ new.handed = w.handed
    BY <2>4 DEF Fate
  <2>6. fate' = [fate EXCEPT ![b] = new]
    BY <2>3, <2>4
  <2>7. QED
    BY <1>0, <2>1, <2>2, <2>5, <2>6 DEF TypeOK
<1>5. Positions'
  <2>1. ASSUME NEW c \in LoadIds
        PROVE  Position(c, loads', fate', active, jobs)
    <3>1. Position(c, loads, fate, active, jobs)
      BY <1>0 DEF Positions
    <3>2. /\ loads'.next = loads.next /\ loads'.activated = loads.activated
          /\ c = b => loads'.pending[c] = None
          /\ c # b => loads'.pending[c] = loads.pending[c]
      BY <1>3 DEF Released
    <3>3. CASE c = b
      <4>1. fate[b].handed = 0 /\ jobs[<<"load", b>>] = None
        BY <1>2, <3>1, <3>3 DEF Position
      <4>2. c \in loads.activated <=> fate[c].later /\ fate[c].handed = 1
        BY <3>1 DEF Position
      <4>3. ~(c > loads.next)
        BY <1>2, <3>1, <3>3 DEF Position
      <4>4. QED
        BY <1>4, <3>2, <3>3, <4>1, <4>2, <4>3 DEF Position
    <3>4. CASE c # b
      BY <1>4, <3>1, <3>2, <3>4 DEF Position
    <3>5. QED
      BY <3>3, <3>4
  <2>2. QED
    BY <1>1, <2>1 DEF Positions
<1>6. loads' \in Table /\ Exact(loads')
  BY <1>3 DEF Released
<1>7. TypeOK'
  BY <1>0, <1>1, <1>4, <1>6 DEF TypeOK
<1>8. NothingForRetired'
  BY <1>0, <1>1 DEF NothingForRetired
<1>9. QED
  BY <1>5, <1>6, <1>7, <1>8 DEF LoadInv

LEMMA StartKeeps ==
    ASSUME LoadInv, NEW d \in Documents, NEW size \in Sizes, NEW key \in Keys \cup {None},
           NEW deadline \in Nat \cup {None}, NEW later \in BOOLEAN,
           Start(d, size, key, deadline, later), load' = load
    PROVE  LoadInv'
<1>0. TypeOK /\ Exact(loads) /\ Positions /\ NothingForRetired
  BY DEF LoadInv
<1>1. PICK b : b = loads.next + 1
  OBVIOUS
<1>2. PICK e : e = [doc |-> d, size |-> size, key |-> key, deadline |-> deadline,
                    request |-> TRUE, later |-> later]
  OBVIOUS
<1>3. PICK l : l = [next |-> b, reserved |-> loads.reserved + size,
                    activated |-> loads.activated, pending |-> [loads.pending EXCEPT ![b] = e]]
  OBVIOUS
<1>4. PICK ids : ids = IF deadline # None /\ deadline <= clock THEN {b} ELSE {}
  OBVIOUS
<1>5. PICK f : f = [fate EXCEPT ![b].doc = d, ![b].later = later]
  OBVIOUS
<1>6. loads \in Table
  BY <1>0 DEF TypeOK
<1>7. /\ d \in active /\ b <= load.loads /\ WithinQuota(size)
      /\ loads' = Activate(l, ids)
      /\ jobs' = Submitted(jobs, l, ids, cache)
      /\ fate' = HandOver(f, ids)
      /\ UNCHANGED <<clock, active, stopped, fetches, nextFetch, page, callbacks, cache>>
  <2>1. [loads EXCEPT !.next = b, !.reserved = @ + size, !.pending[b] = e] = l
    <3>1. PICK l1 : l1 = [loads EXCEPT !.next = b]
      OBVIOUS
    <3>2. l1 = [next |-> b, reserved |-> loads.reserved, activated |-> loads.activated,
                pending |-> loads.pending]
      BY <1>6, <3>1, TableUpdates
    <3>3. PICK l2 : l2 = [l1 EXCEPT !.reserved = @ + size]
      OBVIOUS
    <3>4. l2 = [next |-> b, reserved |-> loads.reserved + size,
                activated |-> loads.activated, pending |-> loads.pending]
      BY <3>2, <3>3
    <3>5. [l2 EXCEPT !.pending[b] = e] = l
      BY <1>3, <3>4
    <3>6. QED
      BY <3>1, <3>3, <3>5
  <2>2. QED
    BY <1>1, <1>2, <1>4, <1>5, <2>1 DEF Start, fetchVars
<1>8. b \in LoadIds /\ b \in Nat /\ loads.next \in Nat /\ b > loads.next
  BY <1>0, <1>1, <1>7, Basics DEF LoadIds
<1>9. Position(b, loads, fate, active, jobs)
  BY <1>0, <1>8 DEF Positions
<1>10. loads.pending[b] = None /\ fate[b].handed = 0 /\ ~fate[b].cancelled /\ ~fate[b].refused
       /\ jobs[<<"load", b>>] = None /\ b \notin loads.activated
  BY <1>8, <1>9 DEF Position
<1>11. e \in Entry /\ e.size = size /\ size \in Nat
  BY <1>2, DataAssumption DEF Entry
<1>12. l \in Table /\ Exact(l)
  <2>1. loads.reserved + e.size <= Quota
    BY <1>7, <1>11 DEF WithinQuota
  <2>2. QED
    BY <1>0, <1>3, <1>6, <1>8, <1>10, <1>11, <2>1, InsertFacts
<1>13. /\ f \in [LoadIds -> Fate] /\ f[b].doc = d /\ f[b].later = later
       /\ f[b].handed = 0 /\ ~f[b].cancelled /\ ~f[b].refused
       /\ \A c \in LoadIds : c # b => f[c] = fate[c]
  <2>1. PICK w \in Fate : w = fate[b]
    BY <1>0, <1>8 DEF TypeOK
  <2>2. PICK new : new = [doc |-> d, later |-> later, handed |-> w.handed,
                          refused |-> w.refused, cancelled |-> w.cancelled]
    OBVIOUS
  <2>3. f = [fate EXCEPT ![b] = new]
    <3>1. PICK w1 : w1 = [w EXCEPT !.doc = d]
      OBVIOUS
    <3>2. w1 = [doc |-> d, later |-> w.later, handed |-> w.handed,
                refused |-> w.refused, cancelled |-> w.cancelled]
      BY <3>1 DEF Fate
    <3>3. [w1 EXCEPT !.later = later] = new
      BY <2>2, <3>2
    <3>4. PICK g : g = [fate EXCEPT ![b].doc = d]
      OBVIOUS
    <3>5. g[b] = w1 /\ g = [fate EXCEPT ![b] = w1]
      BY <1>0, <1>8, <2>1, <3>1, <3>4 DEF TypeOK
    <3>6. f = [g EXCEPT ![b].later = later]
      BY <1>5, <3>4
    <3>7. f = [g EXCEPT ![b] = new]
      BY <3>3, <3>5, <3>6
    <3>8. QED
      BY <1>0, <1>8, <3>5, <3>7 DEF TypeOK
  <2>4. new \in Fate
    BY <2>2 DEF Fate
  <2>5. f[b] = new /\ f \in [LoadIds -> Fate] /\ \A c \in LoadIds : c # b => f[c] = fate[c]
    BY <1>0, <1>8, <2>3, <2>4 DEF TypeOK
  <2>6. QED
    BY <1>10, <2>1, <2>2, <2>5
<1>14. l.next = b /\ l.activated = loads.activated /\ l.pending[b] = e
       /\ \A c \in LoadIds : c # b => l.pending[c] = loads.pending[c]
  BY <1>3, <1>6, <1>8 DEF Table
<1>15. ASSUME NEW c \in LoadIds
       PROVE  Position(c, l, f, active, jobs)
  <2>1. CASE c = b
    <3>1. e # None /\ e.request /\ e.doc = d /\ e.later = later
      BY <1>2, <1>11, NoneAssumption
    <3>2. QED
      BY <1>7, <1>8, <1>10, <1>13, <1>14, <2>1, <3>1 DEF Position
  <2>2. CASE c # b
    <3>1. Position(c, loads, fate, active, jobs)
      BY <1>0 DEF Positions
    <3>2. f[c] = fate[c] /\ l.pending[c] = loads.pending[c]
      BY <1>13, <1>14, <2>2
    <3>3. (c > b => c > loads.next) /\ (c <= b => c <= loads.next)
      BY <1>1, <1>8, <2>2 DEF LoadIds
    <3>4. QED
      BY <1>14, <3>1, <3>2, <3>3 DEF Position
  <2>3. QED
    BY <2>1, <2>2
<1>16. ids \in SUBSET Deferred(l) /\ ids \in SUBSET Occupied(l)
  <2>1. b \in Deferred(l) /\ b \in Occupied(l)
    BY <1>2, <1>8, <1>11, <1>14, NoneAssumption DEF Deferred, Occupied
  <2>2. QED
    BY <1>4, <2>1
<1>17. /\ clock \in Nat /\ stopped \in BOOLEAN /\ cache \in [Keys -> Nat]
       /\ jobs \in [Jobs -> Job \cup {None}]
  BY <1>0, Basics DEF TypeOK
<1>18. Positions'
  <2>1. ASSUME NEW c \in LoadIds
        PROVE  Position(c, Activate(l, ids), HandOver(f, ids), active,
                        Submitted(jobs, l, ids, cache))
    <3>1. c \in Deferred(l) \ ids => l.pending[c].doc \in active
      BY <1>15 DEF Position, Deferred
    <3>2. QED
      BY <1>12, <1>13, <1>15, <1>16, <1>17, <3>1, ActivatePosition
  <2>2. QED
    BY <1>7, <2>1 DEF Positions
<1>19. loads' \in Table /\ Exact(loads')
  <2>1. Activated(loads', l, ids)
    BY <1>7, <1>12, <1>16, <1>17, ActivateFacts
  <2>2. QED
    BY <2>1 DEF Activated
<1>20. /\ jobs' \in [Jobs -> Job \cup {None}]
       /\ \A i \in FetchIds : jobs'[<<"fetch", i>>] = jobs[<<"fetch", i>>]
  BY <1>7, <1>12, <1>16, <1>17, SubmittedFacts
<1>21. fate' \in [LoadIds -> Fate]
  BY <1>7, <1>13, <1>17, HandOverFacts
<1>22. TypeOK'
  BY <1>0, <1>7, <1>19, <1>20, <1>21 DEF TypeOK
<1>23. NothingForRetired'
  BY <1>0, <1>7, <1>20 DEF NothingForRetired
<1>24. QED
  BY <1>18, <1>19, <1>22, <1>23 DEF LoadInv

\* The jobs in gone are dropped.
LEMMA DroppedJobs ==
    ASSUME NEW ks \in [Jobs -> Job \cup {None}], NEW gone, NEW js,
           js = [j \in Jobs |-> IF j \in gone THEN None ELSE ks[j]]
    PROVE  /\ js \in [Jobs -> Job \cup {None}]
           /\ \A j \in Jobs : /\ j \in gone => js[j] = None
                              /\ j \notin gone => js[j] = ks[j]
  OBVIOUS

LEMMA RetireKeeps ==
    ASSUME LoadInv, NEW d \in Documents, Retire(d), load' = load
    PROVE  LoadInv'
<1>0. TypeOK /\ Exact(loads) /\ Positions /\ NothingForRetired
  BY DEF LoadInv
<1>1. PICK own : own = {i \in FetchIds : fetches[i] = d}
  OBVIOUS
<1>2. PICK ids : ids = Owned(d)
  OBVIOUS
<1>3. PICK ks : ks = Submitted(jobs, loads, ids, cache)
  OBVIOUS
<1>4. /\ d \in active /\ active' = active \ {d} /\ Abandon(d)
      /\ callbacks' = Keep(callbacks, {t \in ToSet(callbacks) : t.doc # d})
      /\ loads' = Activate(loads, ids)
      /\ fetches' = [i \in FetchIds |-> IF i \in own THEN None ELSE fetches[i]]
      /\ jobs' = [j \in Jobs |-> IF j \in {"fetch"} \X own THEN None ELSE ks[j]]
      /\ fate' = HandOver(fate, ids)
      /\ UNCHANGED <<clock, stopped, nextFetch, cache>>
  BY <1>1, <1>2, <1>3 DEF Retire
<1>5. /\ loads \in Table /\ fate \in [LoadIds -> Fate] /\ cache \in [Keys -> Nat]
      /\ jobs \in [Jobs -> Job \cup {None}] /\ clock \in Nat /\ stopped \in BOOLEAN
      /\ fetches \in [FetchIds -> Documents \cup {None}] /\ callbacks \in Seq(Callback)
  BY <1>0, Basics DEF TypeOK
<1>6. ids \in SUBSET Deferred(loads) /\ ids \in SUBSET Occupied(loads)
  BY <1>2 DEF Owned, Deferred, Occupied
<1>7. /\ ks \in [Jobs -> Job \cup {None}]
      /\ \A i \in FetchIds : ks[<<"fetch", i>>] = jobs[<<"fetch", i>>]
  BY <1>3, <1>5, <1>6, SubmittedFacts
<1>8. /\ jobs' \in [Jobs -> Job \cup {None}]
      /\ \A i \in own : jobs'[<<"fetch", i>>] = None
      /\ \A i \in FetchIds \ own : jobs'[<<"fetch", i>>] = jobs[<<"fetch", i>>]
      /\ \A b \in LoadIds : jobs'[<<"load", b>>] = ks[<<"load", b>>]
  <2>1. PICK gone : gone = {"fetch"} \X own
    OBVIOUS
  <2>2. /\ \A i \in own : <<"fetch", i>> \in gone /\ i \in FetchIds
        /\ \A i \in FetchIds \ own : <<"fetch", i>> \notin gone
        /\ \A b : <<"load", b>> \notin gone
    BY <1>1, <2>1
  <2>3. /\ jobs' \in [Jobs -> Job \cup {None}]
        /\ \A j \in Jobs : /\ j \in gone => jobs'[j] = None
                           /\ j \notin gone => jobs'[j] = ks[j]
    BY <1>4, <1>7, <2>1, DroppedJobs
  <2>4. QED
    BY <1>7, <2>2, <2>3, JobNames
<1>9. Positions'
  <2>1. ASSUME NEW b \in LoadIds
        PROVE  Position(b, loads', fate', active', jobs')
    <3>1. Position(b, loads, fate, active, jobs)
      BY <1>0 DEF Positions
    <3>2. b \in Deferred(loads) \ ids => loads.pending[b].doc \in active'
      BY <1>2, <1>4, <3>1 DEF Position, Deferred, Owned
    <3>3. PICK act : act = active'
      OBVIOUS
    <3>4. Position(b, Activate(loads, ids), HandOver(fate, ids), act,
                   Submitted(jobs, loads, ids, cache))
      BY <1>0, <1>5, <1>6, <3>1, <3>2, <3>3, ActivatePosition
    <3>5. Position(b, loads', fate', active', ks)
      BY <1>3, <1>4, <3>3, <3>4
    <3>6. QED
      BY <1>8, <3>5 DEF Position
  <2>2. QED
    BY <2>1 DEF Positions
<1>10. loads' \in Table /\ Exact(loads')
  <2>1. Activated(loads', loads, ids)
    BY <1>0, <1>4, <1>5, <1>6, ActivateFacts
  <2>2. QED
    BY <2>1 DEF Activated
<1>11. fate' \in [LoadIds -> Fate]
  BY <1>4, <1>5, HandOverFacts
<1>12. page' \in [FetchIds -> {"none", "waiting", "loaded", "failed", "aborted", "gone"}]
  BY <1>0, <1>4 DEF TypeOK, Abandon
<1>13. /\ callbacks' \in Seq(Callback)
       /\ \A n \in DOMAIN callbacks' : callbacks'[n].doc \in active'
  <2>1. PICK S : S = {t \in ToSet(callbacks) : t.doc # d}
    OBVIOUS
  <2>2. callbacks' \in Seq(Callback) /\ ToSet(callbacks') = ToSet(callbacks) \cap S
    BY <1>4, <1>5, <2>1, KeepFacts
  <2>3. \A t \in ToSet(callbacks) : t.doc \in active
    BY <1>0, InToSet DEF NothingForRetired
  <2>4. \A t \in ToSet(callbacks') : t.doc \in active'
    BY <1>4, <2>1, <2>2, <2>3
  <2>5. QED
    BY <2>2, <2>4, InToSet
<1>14. /\ fetches' \in [FetchIds -> Documents \cup {None}]
       /\ \A i \in own : fetches'[i] = None
       /\ \A i \in FetchIds \ own : fetches'[i] = fetches[i] /\ fetches[i] # d
  BY <1>1, <1>4, <1>5
<1>15. active' \subseteq Documents
  BY <1>0, <1>4 DEF TypeOK
<1>16. TypeOK'
  BY <1>0, <1>4, <1>8, <1>10, <1>11, <1>12, <1>13, <1>14, <1>15 DEF TypeOK
<1>17. NothingForRetired'
  <2>1. \A i \in FetchIds : fetches'[i] # None => fetches'[i] \in active'
    BY <1>0, <1>4, <1>14 DEF NothingForRetired
  <2>2. \A i \in FetchIds : fetches'[i] = None => jobs'[<<"fetch", i>>] = None
    BY <1>0, <1>8, <1>14 DEF NothingForRetired
  <2>3. QED
    BY <1>13, <2>1, <2>2 DEF NothingForRetired
<1>18. QED
  BY <1>9, <1>10, <1>16, <1>17 DEF LoadInv

\* The snapshots of finished workers are finitely many caches.
LEMMA SnapshotsFacts ==
    ASSUME TypeOK, NEW js \in SUBSET Jobs
    PROVE  Snapshots(js) \in SUBSET [Keys -> Nat] /\ IsFiniteSet(Snapshots(js))
<1>1. IsFiniteSet(Jobs)
  <2>1. IsFiniteSet(FetchIds) /\ IsFiniteSet(LoadIds)
    BY Basics, FS_Interval DEF FetchIds, LoadIds
  <2>2. IsFiniteSet({"fetch"}) /\ IsFiniteSet({"load"})
    BY FS_Singleton
  <2>3. IsFiniteSet({"fetch"} \X FetchIds) /\ IsFiniteSet({"load"} \X LoadIds)
    BY <2>1, <2>2, FS_Product
  <2>4. QED
    BY <2>3, FS_Union DEF Jobs
<1> DEFINE S == {j \in js : Complete(j)}
           f == [j \in S |-> jobs[j].cache]
<1>2. IsFiniteSet(S)
  BY <1>1, FS_Subset
<1>3. Snapshots(js) = {f[j] : j \in S}
  BY DEF Snapshots
<1>4. f \in [S -> {f[j] : j \in S}]
  OBVIOUS
<1>5. \A j \in S : jobs[j].cache \in [Keys -> Nat]
  BY DEF TypeOK, Complete, Job
<1>6. \A j \in S : f[j] \in [Keys -> Nat]
  BY <1>5
<1> HIDE DEF S, f
<1>7. IsFiniteSet({f[j] : j \in S})
  BY <1>2, <1>4, FiniteImage
<1>8. QED
  BY <1>3, <1>6, <1>7

\* deliver queues a callback for each collected fetch of an active document.
LEMMA DeliveredFacts ==
    ASSUME TypeOK, NEW fs \in SUBSET FetchIds, NEW order \in SetToSeqs(fs)
    PROVE  /\ Delivered(order) \in Seq(Callback)
           /\ \A n \in DOMAIN Delivered(order) : Delivered(order)[n].doc \in active
<1> DEFINE S == {i \in FetchIds : fetches[i] \in active}
           live == Keep(order, S)
<1>1. IsFiniteSet(fs)
  <2>1. IsFiniteSet(FetchIds)
    BY Basics, FS_Interval DEF FetchIds
  <2>2. QED
    BY <2>1, FS_Subset
<1>2. Cardinality(fs) \in Nat
  BY <1>1, FS_CardinalityType
<1>3. order \in Seq(fs)
  BY <1>2 DEF SetToSeqs
<1>4. live \in Seq(fs) /\ ToSet(live) = ToSet(order) \cap S
  BY <1>3, KeepFacts
<1>5. Delivered(order) =
        [n \in DOMAIN live |->
            [id |-> live[n], doc |-> fetches[live[n]],
             result |-> IF jobs[<<"fetch", live[n]>>].state = "loaded"
                        THEN "loaded" ELSE "failed"]]
  BY DEF Delivered
<1>6. \A n \in DOMAIN live : live[n] \in FetchIds /\ fetches[live[n]] \in active
  BY <1>4, InToSet
<1> HIDE DEF live
<1>7. active \subseteq Documents
  BY DEF TypeOK
<1>8. \A n \in DOMAIN live :
        /\ Delivered(order)[n] \in Callback /\ Delivered(order)[n].doc \in active
  BY <1>5, <1>6, <1>7 DEF Callback
<1>9. DOMAIN live = 1 .. Len(live) /\ Len(live) \in Nat /\ DOMAIN Delivered(order) = DOMAIN live
  BY <1>4, <1>5
<1>10. Delivered(order) \in [1 .. Len(live) -> Callback]
  BY <1>5, <1>8, <1>9
<1>11. QED
  BY <1>8, <1>9, <1>10

\* poll: the invariant, and no valid approval gets shorter.
LEMMA PollKeeps ==
    ASSUME LoadInv, Poll, load' = load
    PROVE  LoadInv' /\ \A k \in Keys : cache[k] > clock => cache'[k] >= cache[k]
<1>0. TypeOK /\ Exact(loads) /\ Positions /\ NothingForRetired
  BY DEF LoadInv
<1>1. PICK fs, bs, ids : fs = FinishedFetches /\ bs = FinishedLoads /\ ids = Due
  OBVIOUS
<1>2. PICK fjobs, bjobs : /\ fjobs = {<<"fetch", i>> : i \in fs}
                          /\ bjobs = {<<"load", b>> : b \in bs}
  OBVIOUS
<1>3. PICK merged : merged = Merge(cache, Snapshots(fjobs), clock)
  OBVIOUS
<1>4. PICK ks, mid : ks = Submitted(jobs, loads, ids, merged) /\ mid = Activate(loads, ids)
  OBVIOUS
<1>5. /\ \E order \in SetToSeqs(fs) : callbacks' = callbacks \o Delivered(order)
      /\ fetches' = [i \in FetchIds |-> IF i \in fs THEN None ELSE fetches[i]]
      /\ loads' = Release(mid, bs)
      /\ jobs' = [j \in Jobs |-> IF j \in fjobs \cup bjobs THEN None ELSE ks[j]]
      /\ cache' = Merge(merged, Snapshots(bjobs), clock)
      /\ fate' = HandOver(fate, ids)
      /\ UNCHANGED <<clock, active, stopped, nextFetch, page>>
  BY <1>1, <1>2, <1>3, <1>4 DEF Poll
<1>6. /\ loads \in Table /\ fate \in [LoadIds -> Fate] /\ cache \in [Keys -> Nat]
      /\ jobs \in [Jobs -> Job \cup {None}] /\ clock \in Nat /\ stopped \in BOOLEAN
      /\ fetches \in [FetchIds -> Documents \cup {None}] /\ callbacks \in Seq(Callback)
  BY <1>0, Basics DEF TypeOK
<1>7. /\ fs \in SUBSET FetchIds /\ bs \in SUBSET LoadIds
      /\ fjobs \in SUBSET Jobs /\ bjobs \in SUBSET Jobs
      /\ ids \in SUBSET Deferred(loads) /\ ids \in SUBSET Occupied(loads)
  BY <1>1, <1>2, JobNames DEF FinishedFetches, FinishedLoads, Due, Deferred, Occupied
<1>8. merged \in [Keys -> Nat] /\ \A k \in Keys : cache[k] > clock => merged[k] >= cache[k]
  <2>1. Snapshots(fjobs) \in SUBSET [Keys -> Nat] /\ IsFiniteSet(Snapshots(fjobs))
    BY <1>0, <1>7, SnapshotsFacts
  <2>2. QED
    BY <1>3, <1>6, <2>1, MergeFacts
<1>9. cache' \in [Keys -> Nat] /\ \A k \in Keys : merged[k] > clock => cache'[k] >= merged[k]
  <2>1. Snapshots(bjobs) \in SUBSET [Keys -> Nat] /\ IsFiniteSet(Snapshots(bjobs))
    BY <1>0, <1>7, SnapshotsFacts
  <2>2. QED
    BY <1>5, <1>6, <1>8, <2>1, MergeFacts
<1>10. \A k \in Keys : cache[k] > clock => cache'[k] >= cache[k]
  <2> TAKE k \in Keys
  <2>1. cache[k] \in Nat /\ merged[k] \in Nat /\ cache'[k] \in Nat
    BY <1>6, <1>8, <1>9
  <2>2. PICK x, y, z \in Nat : x = cache[k] /\ y = merged[k] /\ z = cache'[k]
    BY <2>1
  <2>3. (x > clock => y >= x) /\ (y > clock => z >= y)
    BY <1>8, <1>9, <2>2
  <2>4. x > clock => z >= x
    BY <1>6, <2>3
  <2>5. QED
    BY <2>2, <2>4
<1>11. /\ ks \in [Jobs -> Job \cup {None}]
       /\ \A i \in FetchIds : ks[<<"fetch", i>>] = jobs[<<"fetch", i>>]
  BY <1>4, <1>6, <1>7, <1>8, SubmittedFacts
<1>12. /\ jobs' \in [Jobs -> Job \cup {None}]
       /\ \A i \in fs : jobs'[<<"fetch", i>>] = None
       /\ \A i \in FetchIds \ fs : jobs'[<<"fetch", i>>] = jobs[<<"fetch", i>>]
       /\ \A b \in bs : jobs'[<<"load", b>>] = None
       /\ \A b \in LoadIds \ bs : jobs'[<<"load", b>>] = ks[<<"load", b>>]
  <2>1. PICK gone : gone = fjobs \cup bjobs
    OBVIOUS
  <2>2. /\ \A i \in fs : <<"fetch", i>> \in gone
        /\ \A i \in FetchIds \ fs : <<"fetch", i>> \notin gone
        /\ \A b \in bs : <<"load", b>> \in gone
        /\ \A b \in LoadIds \ bs : <<"load", b>> \notin gone
    BY <1>2, <2>1
  <2>3. /\ jobs' \in [Jobs -> Job \cup {None}]
        /\ \A j \in Jobs : /\ j \in gone => jobs'[j] = None
                           /\ j \notin gone => jobs'[j] = ks[j]
    BY <1>5, <1>11, <2>1, DroppedJobs
  <2>4. QED
    BY <1>7, <1>11, <2>2, <2>3, JobNames
<1>13. Activated(mid, loads, ids)
  BY <1>0, <1>4, <1>6, <1>7, ActivateFacts
<1>14. \A b \in bs : /\ b \notin ids /\ mid.pending[b] = loads.pending[b]
                     /\ mid.pending[b] # None /\ ~mid.pending[b].request
  <2> TAKE b \in bs
  <2>1. loads.pending[b] # None /\ jobs[<<"load", b>>] # None
    BY <1>1 DEF FinishedLoads, Finished
  <2>2. Position(b, loads, fate, active, jobs)
    BY <1>0, <1>7 DEF Positions
  <2>3. ~loads.pending[b].request
    BY <2>1, <2>2 DEF Position
  <2>4. b \notin ids
    BY <1>7, <2>3 DEF Deferred
  <2>5. QED
    BY <1>7, <1>13, <2>1, <2>3, <2>4 DEF Activated
<1>15. mid \in Table /\ Exact(mid) /\ bs \in SUBSET Occupied(mid)
  BY <1>7, <1>13, <1>14 DEF Activated, Occupied
<1>16. loads' \in Table /\ Exact(loads')
  <2>1. Released(loads', mid, bs)
    BY <1>5, <1>15, ReleaseFacts
  <2>2. QED
    BY <2>1 DEF Released
<1>17. Positions'
  <2>1. ASSUME NEW b \in LoadIds
        PROVE  Position(b, loads', fate', active', jobs')
    <3>1. Position(b, loads, fate, active, jobs)
      BY <1>0 DEF Positions
    <3>2. b \in Deferred(loads) \ ids => loads.pending[b].doc \in active
      BY <3>1 DEF Position, Deferred
    <3>3. Position(b, Activate(loads, ids), HandOver(fate, ids), active,
                   Submitted(jobs, loads, ids, merged))
      BY <1>0, <1>6, <1>7, <1>8, <3>1, <3>2, ActivatePosition
    <3>4. PICK f, js : f = fate' /\ js = jobs'
      OBVIOUS
    <3>5. Position(b, mid, f, active, ks)
      BY <1>4, <1>5, <3>3, <3>4
    <3>6. /\ b \in bs => ~mid.pending[b].request /\ js[<<"load", b>>] = None
          /\ b \notin bs => js[<<"load", b>>] = ks[<<"load", b>>]
      BY <1>12, <1>14, <3>4
    <3>7. Position(b, Release(mid, bs), f, active, js)
      BY <1>15, <3>5, <3>6, ReleasePosition
    <3>8. QED
      BY <1>5, <3>4, <3>7
  <2>2. QED
    BY <2>1 DEF Positions
<1>18. fate' \in [LoadIds -> Fate]
  BY <1>5, <1>6, HandOverFacts
<1>19. /\ callbacks' \in Seq(Callback)
       /\ \A n \in DOMAIN callbacks' : callbacks'[n].doc \in active
  <2>1. PICK order \in SetToSeqs(fs) : callbacks' = callbacks \o Delivered(order)
    BY <1>5
  <2>2. PICK new : new = Delivered(order)
    OBVIOUS
  <2>3. new \in Seq(Callback) /\ \A n \in DOMAIN new : new[n].doc \in active
    BY <1>0, <1>7, <2>2, DeliveredFacts
  <2>4. callbacks' = callbacks \o new /\ \A n \in DOMAIN callbacks : callbacks[n].doc \in active
    BY <1>0, <2>1, <2>2 DEF NothingForRetired
  <2>5. QED
    BY <1>6, <2>3, <2>4
<1>20. /\ fetches' \in [FetchIds -> Documents \cup {None}]
       /\ \A i \in fs : fetches'[i] = None
       /\ \A i \in FetchIds \ fs : fetches'[i] = fetches[i]
  BY <1>5, <1>6, <1>7
<1>21. TypeOK'
  BY <1>0, <1>5, <1>9, <1>12, <1>16, <1>18, <1>19, <1>20 DEF TypeOK
<1>22. NothingForRetired'
  BY <1>0, <1>5, <1>12, <1>19, <1>20 DEF NothingForRetired
<1>23. QED
  BY <1>10, <1>16, <1>17, <1>21, <1>22 DEF LoadInv

\* Every step keeps the invariant; poll alone changes the cache.
LEMMA StepKeeps ==
    ASSUME LoadInv, Step, load' = load
    PROVE  LoadInv' /\ \A k \in Keys : cache[k] > clock => cache'[k] >= cache[k]
<1>0. TypeOK
  BY DEF LoadInv
<1>1. load.keys \subseteq Keys \cup {None} /\ clock \in Nat
  BY <1>0, Basics
<1>2. cache \in [Keys -> Nat]
  BY <1>0 DEF TypeOK
<1>3. cache' = cache => \A k \in Keys : cache[k] > clock => cache'[k] >= cache[k]
  BY <1>2
<1>4. ASSUME NEW d \in Documents, NEW key \in load.keys, Begin(d, key)
      PROVE  LoadInv' /\ cache' = cache
  BY <1>1, <1>4, BeginKeeps DEF Begin
<1>5. ASSUME NEW d \in Documents, NEW size \in Sizes, NEW key \in load.keys,
             Beacon(d, size, key) \/ FetchLater(d, size, key)
      PROVE  LoadInv' /\ cache' = cache
  <2>1. PICK deadline \in Nat \cup {None}, later \in BOOLEAN : Start(d, size, key, deadline, later)
    <3>1. \A x \in Delays : clock + x \in Nat
      BY <1>1, DataAssumption
    <3>2. QED
      BY <1>1, <1>5, <3>1 DEF Beacon, FetchLater
  <2>2. QED
    BY <1>1, <2>1, StartKeeps DEF Start
<1>6. ASSUME NEW i \in FetchIds, Abort(i)
      PROVE  LoadInv' /\ cache' = cache
  BY <1>6, AbortKeeps DEF Abort
<1>7. ASSUME NEW b \in LoadIds, Cancel(b)
      PROVE  LoadInv' /\ cache' = cache
  BY <1>7, CancelKeeps DEF Cancel
<1>8. ASSUME NEW j \in Jobs, Execute(j)
      PROVE  LoadInv' /\ cache' = cache
  BY <1>8, ExecuteKeeps DEF Execute
<1>9. ASSUME NEW d \in Documents, Retire(d)
      PROVE  LoadInv' /\ cache' = cache
  BY <1>9, RetireKeeps DEF Retire
<1>10. CASE Poll
  BY <1>10, PollKeeps
<1>11. ASSUME RunCallback
       PROVE  LoadInv' /\ cache' = cache
  BY <1>11, RunCallbackKeeps DEF RunCallback
<1>12. ASSUME Tick
       PROVE  LoadInv' /\ cache' = cache
  BY <1>12, TickKeeps DEF Tick
<1>13. QED
  BY <1>3, <1>4, <1>5, <1>6, <1>7, <1>8, <1>9, <1>10, <1>11, <1>12 DEF Step

LEMMA InitFacts ==
    ASSUME Init
    PROVE  LoadInv
<1>1. loads.pending = [b \in LoadIds |-> None] /\ loads.next = 0 /\ loads.reserved = 0
      /\ loads.activated = {}
  BY DEF Init
<1>2. Exact(loads)
  <2>1. Occupied(loads) = {}
    BY <1>1 DEF Occupied
  <2>2. Bytes(loads.pending, Occupied(loads)) = {}
    BY <2>1 DEF Bytes
  <2>3. QED
    BY <1>1, <2>2, FS_EmptySet DEF Exact
<1>3. loads \in Table
  BY BoundsAssumption DEF Init, Table
<1>4. fate \in [LoadIds -> Fate]
  BY DEF Init, Fate
<1>5. clock \in 1 .. MaxTime /\ load \in Workloads
  BY BoundsAssumption, WorkloadsAssumption DEF Init
<1>6. TypeOK
  <2>1. /\ fetches \in [FetchIds -> Documents \cup {None}] /\ nextFetch \in 0 .. MaxFetches
        /\ cache \in [Keys -> Nat] /\ jobs \in [Jobs -> Job \cup {None}]
    BY BoundsAssumption DEF Init
  <2>2. /\ page \in [FetchIds -> {"none", "waiting", "loaded", "failed", "aborted", "gone"}]
        /\ active \subseteq Documents /\ stopped \in BOOLEAN
    BY DEF Init
  <2>3. callbacks \in Seq(Callback)
    BY DEF Init
  <2>4. QED
    BY <1>3, <1>4, <1>5, <2>1, <2>2, <2>3 DEF TypeOK
<1>7. Positions
  <2>1. ASSUME NEW b \in LoadIds
        PROVE  Position(b, loads, fate, active, jobs)
    <3>1. fate[b].handed = 0 /\ ~fate[b].refused /\ ~fate[b].cancelled
      BY DEF Init
    <3>2. loads.pending[b] = None /\ jobs[<<"load", b>>] = None /\ ~(b <= loads.next)
      BY <1>1, JobNames DEF Init, LoadIds
    <3>3. QED
      BY <1>1, <3>1, <3>2 DEF Position
  <2>2. QED
    BY <2>1 DEF Positions
<1>8. NothingForRetired
  BY JobNames DEF Init, NothingForRetired
<1>9. QED
  BY <1>2, <1>6, <1>7, <1>8 DEF LoadInv

-----------------------------------------------------------------------------
(* The steps of XmlHttpRequest. *)

\* The queue of closures, as far as abort() is concerned, is what it was or
\* has lost its head.
Shifted == \E s \in {0, 1} : \A n \in Aborts' : n + s \in Aborts /\ net'[n] = net[n + s]

LEMMA NetTail ==
    ASSUME net \in Seq(Closure), net # <<>>, net' = Tail(net)
    PROVE  net' \in Seq(Closure) /\ Shifted /\ Head(net) \in Closure
<1>1. \A n \in DOMAIN net' : n + 1 \in DOMAIN net /\ net'[n] = net[n + 1]
  OBVIOUS
<1>2. \A n \in Aborts' : n + 1 \in Aborts /\ net'[n] = net[n + 1]
  BY <1>1 DEF Aborts
<1>3. net' \in Seq(Closure) /\ Head(net) \in Closure
  OBVIOUS
<1>4. QED
  BY <1>2, <1>3, Zenon DEF Shifted

LEMMA NetAppend ==
    ASSUME net \in Seq(Closure), NEW c \in Closure, net' = Append(net, c), c.kind # "abort"
    PROVE  net' \in Seq(Closure) /\ Shifted
<1>1. \A n \in DOMAIN net' : \/ n \in DOMAIN net /\ net'[n] = net[n] /\ n + 0 = n
                             \/ net'[n] = c
  OBVIOUS
<1>2. \A n \in Aborts' : n + 0 \in Aborts /\ net'[n] = net[n + 0]
  BY <1>1 DEF Aborts
<1>3. net' \in Seq(Closure)
  OBVIOUS
<1>4. QED
  BY <1>2, <1>3 DEF Shifted

LEMMA NetSame ==
    ASSUME net \in Seq(Closure), net' = net
    PROVE  Shifted
<1>1. \A n \in Aborts' : n + 0 \in Aborts /\ net'[n] = net[n + 0]
  BY DEF Aborts
<1>2. QED
  BY <1>1 DEF Shifted

\* The numbers in the state of the object are numbers.
LEMMA Numbers ==
    ASSUME XhrTypeOK
    PROVE  /\ xhr.id \in Nat
           /\ \A n \in DOMAIN net : n \in Nat /\ net[n].send \in Nat
           /\ \A n \in DOMAIN told : n \in Nat /\ told[n].send \in Nat
           /\ fin # None => fin.send \in Nat /\ fin.stage \in 2 .. 4
<1>1. \A n \in DOMAIN net : n \in Nat /\ net[n] \in Closure
  BY DEF XhrTypeOK
<1>2. \A n \in DOMAIN told : n \in Nat /\ told[n] \in Event
  BY DEF XhrTypeOK
<1>3. xhr.id \in Nat
  BY DEF XhrTypeOK, Objects
<1>4. fin # None => fin.send \in Nat /\ fin.stage \in 2 .. 4
  BY DEF XhrTypeOK, Ending
<1>5. QED
  BY <1>1, <1>2, <1>3, <1>4 DEF Closure, Event

\* Queued closures of abort() stay the only ending of their requests when the
\* object moves on or another ending begins for the request that is open.
LEMMA AbortsKept ==
    ASSUME AbortsPending, Shifted, torn \subseteq torn', XhrTypeOK, XhrTypeOK',
           xhr'.id >= xhr.id, told' = told,
           fin' # None => fin'.send = xhr.id \/ (fin # None /\ fin'.send = fin.send)
    PROVE  AbortsPending'
<1>1. PICK s \in {0, 1} : \A n \in Aborts' : n + s \in Aborts /\ net'[n] = net[n + s]
  BY DEF Shifted
<1>2. xhr.id \in Nat /\ xhr'.id \in Nat /\ \A n \in Aborts : n \in Nat /\ net[n].send \in Nat
  BY Numbers DEF Aborts, XhrTypeOK, Objects
<1>3. ASSUME NEW n \in Aborts', net'[n].send \notin torn'
      PROVE  /\ net'[n].send < xhr'.id /\ ~Told(net'[n].send, told')
             /\ fin' # None => fin'.send # net'[n].send
  <2>1. PICK x : x = net'[n].send
    OBVIOUS
  <2>2. n + s \in Aborts /\ net[n + s].send = x /\ x \notin torn
    BY <1>1, <1>3, <2>1
  <2>3. x < xhr.id /\ ~Told(x, told) /\ (fin # None => fin.send # x)
    BY <2>2 DEF AbortsPending
  <2>4. x \in Nat
    BY <1>2, <2>2
  <2>5. x < xhr'.id /\ x # xhr.id
    BY <1>2, <2>3, <2>4
  <2>6. fin' # None => fin'.send # x
    BY <2>3, <2>5
  <2>7. QED
    BY <2>1, <2>3, <2>5, <2>6
<1>4. ASSUME NEW m \in Aborts', NEW n \in Aborts',
             net'[m].send = net'[n].send, net'[m].send \notin torn'
      PROVE  m = n
  <2>1. /\ m + s \in Aborts /\ net'[m] = net[m + s]
        /\ n + s \in Aborts /\ net'[n] = net[n + s] /\ net'[m].send \notin torn
    BY <1>1, <1>4
  <2>2. m + s = n + s
    BY <1>4, <2>1 DEF AbortsPending
  <2>3. m \in Nat /\ n \in Nat
    BY Numbers DEF Aborts, XhrTypeOK
  <2>4. QED
    BY <2>2, <2>3
<1>5. AbortsPending' =
        /\ \A n \in Aborts' : net'[n].send \notin torn' =>
              /\ net'[n].send < xhr'.id /\ ~Told(net'[n].send, told')
              /\ fin' # None => fin'.send # net'[n].send
        /\ \A m, n \in Aborts' :
              net'[m].send = net'[n].send /\ net'[m].send \notin torn' => m = n
  BY DEF AbortsPending
<1>6. QED
  BY <1>3, <1>4, <1>5

\* What is over stays over.
Moves == xhr'.id > xhr.id \/ (xhr'.id = xhr.id /\ (xhr.terminal => xhr'.terminal))

LEMMA OverKept ==
    ASSUME XhrTypeOK, XhrTypeOK', Moves, NEW s \in Nat, Over(s, xhr)
    PROVE  Over(s, xhr')
<1>1. xhr.id \in Nat /\ xhr'.id \in Nat
  BY DEF XhrTypeOK, Objects
<1>2. QED
  BY <1>1 DEF Over, Moves

LEMMA ToldKept ==
    ASSUME ToldOnce, XhrTypeOK, XhrTypeOK', told' = told, torn \subseteq torn', Moves
    PROVE  ToldOnce'
<1>1. ASSUME NEW n \in DOMAIN told, told[n].send \notin torn'
      PROVE  Over(told[n].send, xhr')
  <2>1. told[n].send \in Nat
    BY Numbers
  <2>2. Over(told[n].send, xhr)
    BY <1>1 DEF ToldOnce
  <2>3. QED
    BY <2>1, <2>2, OverKept
<1>2. QED
  BY <1>1 DEF ToldOnce

\* The fields of the object that the endings depend on stay as they are.
Quiet ==
    /\ xhr'.id = xhr.id /\ xhr'.terminal = xhr.terminal
    /\ xhr'.readyState = xhr.readyState /\ xhr'.response = xhr.response
    /\ UNCHANGED <<fin, told, torn>>

LEMMA QuietKeeps ==
    ASSUME XhrInv, Quiet, Shifted, XhrTypeOK'
    PROVE  XhrInv'
<1>1. XhrTypeOK /\ ToldOnce /\ InProgress /\ AbortsPending
  BY DEF XhrInv
<1>2. xhr.id \in Nat
  BY <1>1, Numbers
<1>3. ToldOnce'
  BY <1>1, <1>2, ToldKept DEF Quiet, Moves
<1>4. AbortsPending'
  BY <1>1, <1>2, AbortsKept DEF Quiet
<1>5. InProgress'
  <2>1. \A s : Over(s, xhr) <=> Over(s, xhr')
    BY DEF Quiet, Over
  <2>2. QED
    BY <1>1, <2>1 DEF InProgress, Quiet
<1>6. QED
  BY <1>3, <1>4, <1>5 DEF XhrInv, Quiet

\* Opening or aborting in the middle of a success marks both requests.
LEMMA TearFacts ==
    ASSUME XhrTypeOK, NEW id \in Nat, Tear(id)
    PROVE  /\ torn' \subseteq Nat /\ torn \subseteq torn'
           /\ fin # None /\ fin.stage \in {2, 3} => fin.send \in torn'
<1>1. torn \subseteq Nat
  BY DEF XhrTypeOK
<1>2. CASE InSuccess
  <2>1. fin.send \in Nat
    BY <1>2, Numbers DEF InSuccess
  <2>2. QED
    BY <1>1, <1>2, <2>1 DEF Tear
<1>3. CASE ~InSuccess
  BY <1>1, <1>3 DEF Tear, InSuccess
<1>4. QED
  BY <1>2, <1>3

LEMMA OpenKeeps ==
    ASSUME XhrInv, Open
    PROVE  XhrInv'
<1>1. XhrTypeOK /\ ToldOnce /\ InProgress /\ AbortsPending
  BY DEF XhrInv
<1>2. PICK state \in {1, xhr.readyState} :
         xhr' = [xhr EXCEPT !.id = xhr.id + 1, !.readyState = state, !.sendFlag = FALSE,
                          !.terminal = FALSE, !.fetchId = None, !.timer = 0,
                          !.response = 0, !.opened = xhr.id + 1]
  BY DEF Open
<1>3. UNCHANGED <<starts, refused, owned, net, fin, told>> /\ Tear(xhr.id + 1)
  BY DEF Open
<1>4. /\ xhr' \in Objects /\ xhr'.id = xhr.id + 1 /\ ~xhr'.terminal
      /\ xhr'.response = 0 /\ xhr.id \in Nat
  <2>1. xhr \in Objects /\ xhr.id + 1 \in Nat /\ state \in 0 .. 4 /\ xhr.id \in Nat
    BY <1>1 DEF XhrTypeOK, Objects
  <2>2. PICK x : x = [xhr EXCEPT !.id = xhr.id + 1, !.readyState = state, !.sendFlag = FALSE]
    OBVIOUS
  <2>3. x \in Objects /\ x.id = xhr.id + 1
    BY <2>1, <2>2 DEF Objects
  <2>4. PICK y : y = [x EXCEPT !.terminal = FALSE, !.fetchId = None, !.timer = 0]
    OBVIOUS
  <2>5. y \in Objects /\ y.id = xhr.id + 1 /\ ~y.terminal
    BY <2>3, <2>4 DEF Objects
  <2>6. xhr' = [y EXCEPT !.response = 0, !.opened = xhr.id + 1]
    BY <1>2, <2>2, <2>4
  <2>7. QED
    BY <2>1, <2>5, <2>6 DEF Objects
<1>5. /\ torn' \subseteq Nat /\ torn \subseteq torn'
      /\ fin # None /\ fin.stage \in {2, 3} => fin.send \in torn'
  BY <1>1, <1>3, <1>4, TearFacts
<1>6. XhrTypeOK'
  BY <1>1, <1>3, <1>4, <1>5 DEF XhrTypeOK
<1>7. Moves /\ xhr'.id >= xhr.id
  BY <1>4 DEF Moves
<1>8. ToldOnce'
  BY <1>1, <1>3, <1>5, <1>6, <1>7, ToldKept
<1>9. AbortsPending'
  <2>1. Shifted
    BY <1>1, <1>3, NetSame DEF XhrTypeOK
  <2>2. QED
    BY <1>1, <1>3, <1>5, <1>6, <1>7, <2>1, AbortsKept
<1>10. InProgress'
  <2> SUFFICES ASSUME fin # None
               PROVE  /\ fin.stage \in {2, 3} => fin.send \in torn'
                      /\ fin.stage = 4 /\ fin.send \notin torn' => Over(fin.send, xhr')
                      /\ fin.send \notin torn' => ~Told(fin.send, told)
    BY <1>3 DEF InProgress
  <2>1. fin.stage = 4 /\ fin.send \notin torn' => Over(fin.send, xhr')
    BY <1>1, <1>5, <1>6, <1>7, Numbers, OverKept DEF InProgress
  <2>2. QED
    BY <1>1, <1>5, <2>1 DEF InProgress
<1>11. QED
  BY <1>4, <1>6, <1>8, <1>9, <1>10 DEF XhrInv

LEMMA SendKeeps ==
    ASSUME XhrInv, Send
    PROVE  XhrInv'
<1>1. XhrTypeOK /\ (xhr.terminal => xhr.readyState # 1)
  BY DEF XhrInv
<1>2. PICK timed \in BOOLEAN :
          xhr' = [xhr EXCEPT !.sendFlag = TRUE, !.terminal = FALSE, !.timed = timed,
                             !.timer = IF timed THEN xhr.id ELSE 0, !.sent = xhr.id]
  BY DEF Send
<1>3. /\ UNCHANGED <<refused, owned, net, fin, told, torn>>
      /\ starts' = starts \cup {xhr.id} /\ xhr.readyState = 1
  BY DEF Send
<1>4. /\ xhr' \in Objects /\ xhr'.id = xhr.id /\ ~xhr'.terminal /\ ~xhr.terminal
      /\ xhr'.response = xhr.response /\ xhr'.readyState = xhr.readyState /\ xhr.id \in Nat
  <2>1. PICK timer \in Nat : timer = IF timed THEN xhr.id ELSE 0
    BY <1>1 DEF XhrTypeOK, Objects
  <2>2. xhr' = [xhr EXCEPT !.sendFlag = TRUE, !.terminal = FALSE, !.timed = timed,
                           !.timer = timer, !.sent = xhr.id]
    BY <1>2, <2>1
  <2>3. QED
    BY <1>1, <1>3, <2>2 DEF XhrTypeOK, Objects
<1>5. XhrTypeOK'
  BY <1>1, <1>3, <1>4 DEF XhrTypeOK
<1>6. xhr'.terminal = xhr.terminal
  BY <1>1, <1>4, <1>5 DEF XhrTypeOK, Objects
<1>7. QED
  BY <1>1, <1>3, <1>4, <1>5, <1>6, NetSame, QuietKeeps DEF Quiet, XhrTypeOK

LEMMA SendThrowsKeeps ==
    ASSUME XhrInv, SendThrows
    PROVE  XhrInv'
<1>1. XhrTypeOK /\ (xhr.terminal => xhr.readyState # 1)
  BY DEF XhrInv
<1>2. /\ xhr' = [xhr EXCEPT !.sendFlag = TRUE, !.terminal = FALSE] /\ xhr.readyState = 1
      /\ UNCHANGED <<starts, refused, owned, net, fin, told, torn>>
  BY DEF SendThrows
<1>3. /\ xhr' \in Objects /\ xhr'.id = xhr.id /\ ~xhr'.terminal /\ ~xhr.terminal
      /\ xhr'.response = xhr.response /\ xhr'.readyState = xhr.readyState
  BY <1>1, <1>2 DEF XhrTypeOK, Objects
<1>4. XhrTypeOK'
  BY <1>1, <1>2, <1>3 DEF XhrTypeOK
<1>5. xhr'.terminal = xhr.terminal
  BY <1>1, <1>3, <1>4 DEF XhrTypeOK, Objects
<1>6. QED
  BY <1>1, <1>2, <1>3, <1>4, <1>5, NetSame, QuietKeeps DEF Quiet, XhrTypeOK

LEMMA AbortRequestKeeps ==
    ASSUME XhrInv, AbortRequest
    PROVE  XhrInv'
<1>1. XhrTypeOK /\ ToldOnce /\ InProgress /\ AbortsPending
  BY DEF XhrInv
<1>2. UNCHANGED <<starts, refused, owned, fin, told>>
  BY DEF AbortRequest
<1>3. CASE ~(xhr.sendFlag /\ ~xhr.terminal)
  <2>1. xhr' = [xhr EXCEPT !.fetchId = None, !.timer = 0] /\ UNCHANGED <<net, torn>>
    BY <1>3 DEF AbortRequest
  <2>2. /\ xhr' \in Objects /\ xhr'.id = xhr.id /\ xhr'.terminal = xhr.terminal
        /\ xhr'.response = xhr.response /\ xhr'.readyState = xhr.readyState
    BY <1>1, <2>1 DEF XhrTypeOK, Objects
  <2>3. XhrTypeOK'
    BY <1>1, <1>2, <2>1, <2>2 DEF XhrTypeOK
  <2>4. QED
    BY <1>1, <1>2, <2>1, <2>2, <2>3, NetSame, QuietKeeps DEF Quiet, XhrTypeOK
<1>4. CASE xhr.sendFlag /\ ~xhr.terminal
  <2>1. /\ xhr' = [xhr EXCEPT !.id = xhr.id + 1, !.readyState = 0, !.sendFlag = FALSE,
                               !.terminal = TRUE, !.fetchId = None, !.timer = 0,
                               !.response = 0]
        /\ net' = Append(net, [kind |-> "abort", send |-> xhr.id])
        /\ Tear(xhr.id + 1)
    BY <1>4 DEF AbortRequest
  <2>2. /\ xhr' \in Objects /\ xhr'.id = xhr.id + 1 /\ xhr'.terminal /\ xhr'.readyState = 0
        /\ xhr'.response = 0 /\ xhr.id \in Nat
    <3>1. xhr \in Objects /\ xhr.id + 1 \in Nat /\ xhr.id \in Nat
      BY <1>1 DEF XhrTypeOK, Objects
    <3>a. PICK state \in 0 .. 4 : state = 0
      OBVIOUS
    <3>2. PICK x : x = [xhr EXCEPT !.id = xhr.id + 1, !.readyState = state, !.sendFlag = FALSE]
      OBVIOUS
    <3>3. x \in Objects /\ x.id = xhr.id + 1 /\ x.readyState = 0
      BY <3>1, <3>a, <3>2 DEF Objects
    <3>4. PICK y : y = [x EXCEPT !.terminal = TRUE, !.fetchId = None]
      OBVIOUS
    <3>5. y \in Objects /\ y.id = xhr.id + 1 /\ y.terminal /\ y.readyState = 0
      BY <3>3, <3>4 DEF Objects
    <3>6. xhr' = [y EXCEPT !.timer = 0, !.response = 0]
      BY <2>1, <3>a, <3>2, <3>4
    <3>7. QED
      BY <3>1, <3>5, <3>6 DEF Objects
  <2>3. /\ torn' \subseteq Nat /\ torn \subseteq torn'
        /\ fin # None /\ fin.stage \in {2, 3} => fin.send \in torn'
    BY <1>1, <2>1, <2>2, TearFacts
  <2>4. PICK c \in Closure : c = [kind |-> "abort", send |-> xhr.id]
    BY <2>2 DEF Closure
  <2>5. /\ net' \in Seq(Closure) /\ net \in Seq(Closure) /\ Len(net) \in Nat
        /\ DOMAIN net = 1 .. Len(net) /\ DOMAIN net' = 1 .. (Len(net) + 1)
        /\ net'[Len(net) + 1] = c
        /\ \A n \in DOMAIN net : net'[n] = net[n]
    BY <1>1, <2>1, <2>4 DEF XhrTypeOK
  <2>6. XhrTypeOK'
    BY <1>1, <1>2, <2>2, <2>3, <2>5 DEF XhrTypeOK
  <2>7. Moves /\ xhr'.id >= xhr.id
    BY <2>2 DEF Moves
  <2>8. ToldOnce'
    BY <1>1, <1>2, <2>3, <2>6, <2>7, ToldKept
  <2>9. InProgress'
    <3> SUFFICES ASSUME fin # None
                 PROVE  /\ fin.stage \in {2, 3} => fin.send \in torn'
                        /\ fin.stage = 4 /\ fin.send \notin torn' => Over(fin.send, xhr')
                        /\ fin.send \notin torn' => ~Told(fin.send, told)
      BY <1>2 DEF InProgress
    <3>1. fin.stage = 4 /\ fin.send \notin torn' => Over(fin.send, xhr')
      BY <1>1, <2>3, <2>6, <2>7, Numbers, OverKept DEF InProgress
    <3>2. QED
      BY <1>1, <2>3, <3>1 DEF InProgress
  <2>10. ~Over(xhr.id, xhr)
    BY <1>4, <2>2 DEF Over
  <2>11. /\ xhr.id \notin torn => ~Told(xhr.id, told)
         /\ fin # None /\ xhr.id \notin torn' => fin.send # xhr.id
    <3>1. xhr.id \notin torn => ~Told(xhr.id, told)
      BY <1>1, <2>10 DEF ToldOnce, Told
    <3>2. fin # None /\ xhr.id \notin torn' => fin.send # xhr.id
      BY <1>1, <2>3, <2>10, Numbers DEF InProgress
    <3>3. QED
      BY <3>1, <3>2
  <2>12. \A n \in Aborts' : \/ n \in Aborts /\ net'[n] = net[n]
                            \/ n = Len(net) + 1 /\ net'[n].send = xhr.id
    BY <2>4, <2>5 DEF Aborts
  <2>13. \A n \in Aborts : net[n].send \notin torn =>
            /\ net[n].send < xhr.id /\ ~Told(net[n].send, told)
            /\ fin # None => fin.send # net[n].send
            /\ net[n].send \in Nat
    BY <1>1, Numbers DEF AbortsPending, Aborts
  <2>14. ASSUME NEW n \in Aborts', net'[n].send \notin torn'
         PROVE  /\ net'[n].send < xhr'.id /\ ~Told(net'[n].send, told)
                /\ fin # None => fin.send # net'[n].send
    <3>1. CASE n \in Aborts /\ net'[n] = net[n]
      <4>1. PICK x : x = net[n].send
        OBVIOUS
      <4>2. x < xhr.id /\ ~Told(x, told) /\ x \in Nat /\ (fin # None => fin.send # x)
        BY <2>3, <2>13, <2>14, <3>1, <4>1
      <4>3. x < xhr'.id
        BY <2>2, <4>2
      <4>4. QED
        BY <3>1, <4>1, <4>2, <4>3
    <3>2. CASE n = Len(net) + 1 /\ net'[n].send = xhr.id
      BY <2>2, <2>3, <2>11, <2>14, <3>2
    <3>3. QED
      BY <2>12, <3>1, <3>2
  <2>15. ASSUME NEW m \in Aborts', NEW n \in Aborts',
                net'[m].send = net'[n].send, net'[m].send \notin torn'
         PROVE  m = n
    <3>1. \A k \in Aborts : net[k].send \notin torn => net[k].send # xhr.id
      BY <2>2, <2>13
    <3>2. net'[m].send \notin torn
      BY <2>3, <2>15
    <3>3. QED
      BY <1>1, <2>12, <2>15, <3>1, <3>2 DEF AbortsPending
  <2>16. AbortsPending'
    BY <1>2, <2>14, <2>15 DEF AbortsPending
  <2>17. QED
    BY <2>2, <2>6, <2>8, <2>9, <2>16 DEF XhrInv
<1>5. QED
  BY <1>3, <1>4

\* Microtasks and the timeout: they touch the fetch, the timer and the queue.
LEMMA StartFetchKeeps ==
    ASSUME XhrInv, TypeOK, NEW send \in Nat, StartFetch(send)
    PROVE  XhrInv'
<1>1. XhrTypeOK
  BY DEF XhrInv
<1>2. UNCHANGED <<net, fin, told, torn>> /\ starts' = starts \ {send}
  BY DEF StartFetch
<1>3. /\ xhr' \in Objects /\ refused' \subseteq Nat /\ owned' \in [FetchIds -> Nat]
      /\ xhr'.id = xhr.id /\ xhr'.terminal = xhr.terminal
      /\ xhr'.response = xhr.response /\ xhr'.readyState = xhr.readyState
  <2>1. CASE UNCHANGED <<xhr, owned>> /\ (refused' = refused \/ refused' = refused \cup {send})
    BY <1>1, <2>1 DEF XhrTypeOK
  <2>2. CASE /\ Begin(Home, None)
             /\ xhr' = [xhr EXCEPT !.fetchId = nextFetch']
             /\ owned' = [owned EXCEPT ![nextFetch'] = send]
             /\ UNCHANGED refused
    <3>1. PICK i \in FetchIds : i = nextFetch'
      BY <2>2, Basics DEF Begin, FetchIds
    <3>2. xhr' = [xhr EXCEPT !.fetchId = i] /\ owned' = [owned EXCEPT ![i] = send]
      BY <2>2, <3>1
    <3>3. xhr \in Objects /\ owned \in [FetchIds -> Nat] /\ refused \subseteq Nat
      BY <1>1 DEF XhrTypeOK
    <3>4. QED
      BY <2>2, <3>2, <3>3 DEF Objects
  <2>3. QED
    BY <2>1, <2>2 DEF StartFetch
<1>4. XhrTypeOK'
  BY <1>1, <1>2, <1>3 DEF XhrTypeOK
<1>5. QED
  BY <1>1, <1>2, <1>3, <1>4, NetSame, QuietKeeps DEF Quiet, XhrTypeOK

LEMMA ReactKeeps ==
    ASSUME XhrInv, NEW send \in Nat, NEW kind \in {"success", "error", "timeout"},
           React(send, kind), refused' \subseteq Nat, owned' \in [FetchIds -> Nat]
    PROVE  XhrInv'
<1>1. XhrTypeOK
  BY DEF XhrInv
<1>2. UNCHANGED <<starts, fin, told, torn>>
  BY DEF React
<1>3. /\ xhr' \in Objects
      /\ xhr'.id = xhr.id /\ xhr'.terminal = xhr.terminal
      /\ xhr'.response = xhr.response /\ xhr'.readyState = xhr.readyState
  <2>1. xhr' = xhr \/ xhr' = [xhr EXCEPT !.fetchId = None]
    BY DEF React
  <2>2. QED
    BY <1>1, <2>1 DEF XhrTypeOK, Objects
<1>4. net' \in Seq(Closure) /\ Shifted
  <2>1. PICK c \in Closure : c = [kind |-> kind, send |-> send]
    BY DEF Closure
  <2>2. c.kind # "abort"
    BY <2>1
  <2>3. net \in Seq(Closure)
    BY <1>1 DEF XhrTypeOK
  <2>4. net' = net \/ net' = Append(net, c)
    BY <2>1 DEF React
  <2>5. QED
    BY <2>2, <2>3, <2>4, NetSame, NetAppend
<1>5. XhrTypeOK'
  BY <1>1, <1>2, <1>3, <1>4 DEF XhrTypeOK
<1>6. QED
  BY <1>2, <1>3, <1>4, <1>5, QuietKeeps DEF Quiet

LEMMA SettledKeeps ==
    ASSUME XhrInv, NEW i \in FetchIds, Settled(i)
    PROVE  XhrInv'
<1>1. XhrTypeOK
  BY DEF XhrInv
<1>2. owned[i] \in Nat /\ owned' \in [FetchIds -> Nat] /\ refused' \subseteq Nat
  BY <1>1 DEF Settled, XhrTypeOK
<1>3. PICK kind \in {"success", "error", "timeout"} : React(owned[i], kind)
  BY DEF Settled
<1>4. PICK send \in Nat : send = owned[i]
  BY <1>2
<1>5. React(send, kind)
  BY <1>3, <1>4
<1>6. QED
  BY <1>2, <1>5, ReactKeeps

LEMMA RefusedKeeps ==
    ASSUME XhrInv, NEW send \in Nat, Refused(send)
    PROVE  XhrInv'
<1>1. XhrTypeOK
  BY DEF XhrInv
<1>2. owned' \in [FetchIds -> Nat] /\ refused' \subseteq Nat /\ React(send, "error")
  BY <1>1 DEF Refused, XhrTypeOK
<1>3. QED
  BY <1>2, ReactKeeps

LEMMA TimeoutFiresKeeps ==
    ASSUME XhrInv, TimeoutFires
    PROVE  XhrInv'
<1>1. XhrTypeOK
  BY DEF XhrInv
<1>2. /\ xhr' = [xhr EXCEPT !.timer = 0]
      /\ net' = Append(net, [kind |-> "timeout", send |-> xhr.timer])
      /\ UNCHANGED <<starts, refused, owned, fin, told, torn>>
  BY DEF TimeoutFires
<1>3. /\ xhr' \in Objects /\ xhr.timer \in Nat
      /\ xhr'.id = xhr.id /\ xhr'.terminal = xhr.terminal
      /\ xhr'.response = xhr.response /\ xhr'.readyState = xhr.readyState
  BY <1>1, <1>2 DEF XhrTypeOK, Objects
<1>4. net' \in Seq(Closure) /\ Shifted
  <2>1. PICK c \in Closure : c = [kind |-> "timeout", send |-> xhr.timer]
    BY <1>3 DEF Closure
  <2>2. c.kind # "abort" /\ net \in Seq(Closure) /\ net' = Append(net, c)
    BY <1>1, <1>2, <2>1 DEF XhrTypeOK
  <2>3. QED
    BY <2>2, NetAppend
<1>5. XhrTypeOK'
  BY <1>1, <1>2, <1>3, <1>4 DEF XhrTypeOK
<1>6. QED
  BY <1>2, <1>3, <1>4, <1>5, QuietKeeps DEF Quiet

\* An ending begins for the open request: its closure leaves the queue, and
\* the object stays open (stage 2) or is finished (stage 4).
Begins(s) ==
    /\ s = xhr.id /\ ~xhr.terminal /\ fin = None
    /\ fin' # None /\ fin'.send = s
    /\ \/ fin'.stage = 2 /\ xhr'.id = xhr.id /\ ~xhr'.terminal
       \/ fin'.stage = 4 /\ xhr'.id = xhr.id /\ xhr'.terminal
       \/ fin'.stage = 4 /\ xhr'.id = xhr.id + 1 /\ xhr'.terminal
    /\ xhr'.readyState # 1
    /\ xhr'.response \in {0, xhr'.id}
    /\ UNCHANGED <<told, torn>>

LEMMA BeginsKeeps ==
    ASSUME XhrInv, NEW s, Begins(s), Shifted, XhrTypeOK'
    PROVE  XhrInv'
<1>1. XhrTypeOK /\ ToldOnce /\ AbortsPending
  BY DEF XhrInv
<1>2. xhr.id \in Nat /\ s \in Nat
  BY <1>1, Numbers DEF Begins
<1>3. Moves /\ xhr'.id >= xhr.id
  BY <1>2 DEF Begins, Moves
<1>4. ToldOnce'
  BY <1>1, <1>3, ToldKept DEF Begins
<1>5. AbortsPending'
  BY <1>1, <1>3, AbortsKept DEF Begins
<1>6. InProgress'
  <2>1. s \notin torn => ~Told(s, told)
    BY <1>1, <1>2 DEF ToldOnce, Told, Begins, Over
  <2>2. fin'.stage = 4 => Over(s, xhr')
    BY <1>2 DEF Begins, Over
  <2>3. fin'.stage \in {2, 3} => s = xhr'.id /\ ~xhr'.terminal
    BY DEF Begins
  <2>4. QED
    BY <2>1, <2>2, <2>3 DEF Begins, InProgress
<1>7. QED
  BY <1>4, <1>5, <1>6 DEF Begins, XhrInv

\* A closure leaves the queue and nothing else happens.
LEMMA IgnoredKeeps ==
    ASSUME XhrInv, NEW kind, AtClosure(kind), UNCHANGED <<xhr, fin, told>>
    PROVE  XhrInv'
<1>1. XhrTypeOK /\ net \in Seq(Closure)
  BY DEF XhrInv, XhrTypeOK
<1>2. net # <<>> /\ net' = Tail(net) /\ UNCHANGED <<starts, refused, owned, torn>>
  BY DEF AtClosure
<1>3. net' \in Seq(Closure) /\ Shifted
  BY <1>1, <1>2, NetTail
<1>4. XhrTypeOK'
  BY <1>1, <1>2, <1>3 DEF XhrTypeOK
<1>5. QED
  BY <1>2, <1>3, <1>4, QuietKeeps DEF Quiet

LEMMA FinishSuccessKeeps ==
    ASSUME XhrInv, FinishSuccess
    PROVE  XhrInv'
<1>1. XhrTypeOK /\ net \in Seq(Closure)
  BY DEF XhrInv, XhrTypeOK
<1>2. /\ net # <<>> /\ net' = Tail(net) /\ fin = None
      /\ UNCHANGED <<starts, refused, owned, torn, told>>
  BY DEF FinishSuccess, AtClosure
<1>3. net' \in Seq(Closure) /\ Shifted /\ Head(net) \in Closure
  BY <1>1, <1>2, NetTail
<1>4. PICK s \in Nat : s = Head(net).send
  BY <1>3 DEF Closure
<1>5. CASE ~Current(s)
  BY <1>4, <1>5, IgnoredKeeps DEF FinishSuccess
<1>6. CASE Current(s)
  <2>1. /\ xhr' = [xhr EXCEPT !.timer = 0, !.readyState = 2, !.response = s]
        /\ fin' = [send |-> s, stage |-> 2, event |-> "load"]
    BY <1>4, <1>6 DEF FinishSuccess
  <2>2. s = xhr.id /\ ~xhr.terminal
    BY <1>6 DEF Current, Stale
  <2>3. fin' \in Ending /\ fin' # None
    BY <2>1, EndingAssumption DEF Ending
  <2>4. /\ xhr' \in Objects /\ xhr'.id = xhr.id /\ ~xhr'.terminal /\ xhr'.readyState = 2
        /\ xhr'.response = s
    <3>1. PICK state \in 0 .. 4 : state = 2
      OBVIOUS
    <3>2. xhr' = [xhr EXCEPT !.timer = 0, !.readyState = state, !.response = s]
      BY <2>1, <3>1
    <3>3. xhr \in Objects
      BY <1>1 DEF XhrTypeOK
    <3>4. QED
      BY <2>2, <3>1, <3>2, <3>3 DEF Objects
  <2>5. XhrTypeOK'
    BY <1>1, <1>2, <1>3, <2>3, <2>4 DEF XhrTypeOK
  <2>6. Begins(s)
    BY <1>2, <2>1, <2>2, <2>3, <2>4 DEF Begins
  <2>7. QED
    BY <1>3, <2>5, <2>6, BeginsKeeps
<1>7. QED
  BY <1>5, <1>6

LEMMA FinishErrorKeeps ==
    ASSUME XhrInv, FinishError
    PROVE  XhrInv'
<1>1. XhrTypeOK /\ net \in Seq(Closure)
  BY DEF XhrInv, XhrTypeOK
<1>2. /\ net # <<>> /\ net' = Tail(net) /\ fin = None
      /\ UNCHANGED <<starts, refused, owned, torn, told>>
  BY DEF FinishError, AtClosure
<1>3. net' \in Seq(Closure) /\ Shifted /\ Head(net) \in Closure
  BY <1>1, <1>2, NetTail
<1>4. PICK s \in Nat : s = Head(net).send
  BY <1>3 DEF Closure
<1>5. CASE ~Current(s)
  BY <1>4, <1>5, IgnoredKeeps DEF FinishError
<1>6. CASE Current(s)
  <2>1. /\ xhr' = [xhr EXCEPT !.timer = 0, !.readyState = 4, !.response = 0,
                              !.sendFlag = FALSE, !.terminal = TRUE]
        /\ fin' = [send |-> s, stage |-> 4, event |-> "error"]
    BY <1>4, <1>6 DEF FinishError
  <2>2. s = xhr.id /\ ~xhr.terminal
    BY <1>6 DEF Current, Stale
  <2>3. fin' \in Ending /\ fin' # None
    BY <2>1, EndingAssumption DEF Ending
  <2>4. /\ xhr' \in Objects /\ xhr'.id = xhr.id /\ xhr'.terminal /\ xhr'.readyState = 4
        /\ xhr'.response = 0
    <3>1. PICK state \in 0 .. 4 : state = 4
      OBVIOUS
    <3>2. PICK x : x = [xhr EXCEPT !.timer = 0, !.readyState = state, !.response = 0]
      OBVIOUS
    <3>3. xhr' = [x EXCEPT !.sendFlag = FALSE, !.terminal = TRUE]
      BY <2>1, <3>1, <3>2
    <3>4. xhr \in Objects
      BY <1>1 DEF XhrTypeOK
    <3>5. x \in Objects /\ x.id = xhr.id /\ x.readyState = 4 /\ x.response = 0
      BY <3>1, <3>2, <3>4 DEF Objects
    <3>6. QED
      BY <3>3, <3>5 DEF Objects
  <2>5. XhrTypeOK'
    BY <1>1, <1>2, <1>3, <2>3, <2>4 DEF XhrTypeOK
  <2>6. Begins(s)
    BY <1>2, <2>1, <2>2, <2>3, <2>4 DEF Begins
  <2>7. QED
    BY <1>3, <2>5, <2>6, BeginsKeeps
<1>7. QED
  BY <1>5, <1>6

LEMMA FinishTimeoutKeeps ==
    ASSUME XhrInv, FinishTimeout
    PROVE  XhrInv'
<1>1. XhrTypeOK /\ net \in Seq(Closure)
  BY DEF XhrInv, XhrTypeOK
<1>2. /\ net # <<>> /\ net' = Tail(net) /\ fin = None
      /\ UNCHANGED <<starts, refused, owned, torn, told>>
  BY DEF FinishTimeout, AtClosure
<1>3. net' \in Seq(Closure) /\ Shifted /\ Head(net) \in Closure
  BY <1>1, <1>2, NetTail
<1>4. PICK s \in Nat : s = Head(net).send
  BY <1>3 DEF Closure
<1>5. CASE ~(Current(s) /\ xhr.sendFlag)
  BY <1>4, <1>5, IgnoredKeeps DEF FinishTimeout
<1>6. CASE Current(s) /\ xhr.sendFlag
  <2>1. /\ xhr' = [xhr EXCEPT !.id = xhr.id + 1, !.fetchId = None, !.timer = 0,
                               !.readyState = 4, !.response = 0, !.sendFlag = FALSE,
                               !.terminal = TRUE]
        /\ fin' = [send |-> s, stage |-> 4, event |-> "timeout"]
    BY <1>4, <1>6 DEF FinishTimeout
  <2>2. s = xhr.id /\ ~xhr.terminal
    BY <1>6 DEF Current, Stale
  <2>3. fin' \in Ending /\ fin' # None
    BY <2>1, EndingAssumption DEF Ending
  <2>4. /\ xhr' \in Objects /\ xhr'.id = xhr.id + 1 /\ xhr'.terminal /\ xhr'.readyState = 4
        /\ xhr'.response = 0
    <3>1. PICK state \in 0 .. 4 : state = 4
      OBVIOUS
    <3>2. PICK w : w = [xhr EXCEPT !.id = xhr.id + 1, !.fetchId = None, !.timer = 0]
      OBVIOUS
    <3>3. PICK x : x = [w EXCEPT !.readyState = state, !.response = 0]
      OBVIOUS
    <3>4. xhr' = [x EXCEPT !.sendFlag = FALSE, !.terminal = TRUE]
      BY <2>1, <3>1, <3>2, <3>3
    <3>5. xhr \in Objects /\ xhr.id + 1 \in Nat
      BY <1>1, Numbers DEF XhrTypeOK
    <3>6. w \in Objects /\ w.id = xhr.id + 1
      BY <3>2, <3>5 DEF Objects
    <3>7. x \in Objects /\ x.id = xhr.id + 1 /\ x.readyState = 4 /\ x.response = 0
      BY <3>1, <3>3, <3>6 DEF Objects
    <3>8. QED
      BY <3>4, <3>7 DEF Objects
  <2>5. XhrTypeOK'
    BY <1>1, <1>2, <1>3, <2>3, <2>4 DEF XhrTypeOK
  <2>6. Begins(s)
    BY <1>2, <2>1, <2>2, <2>3, <2>4 DEF Begins
  <2>7. QED
    BY <1>3, <2>5, <2>6, BeginsKeeps
<1>7. QED
  BY <1>5, <1>6

\* _finishSuccess goes on: a request that was not torn is still the open one.
LEMMA GoOnKeeps ==
    ASSUME XhrInv, GoOn
    PROVE  XhrInv'
<1>1. XhrTypeOK /\ ToldOnce /\ InProgress /\ AbortsPending
  BY DEF XhrInv
<1>2. UNCHANGED <<starts, refused, owned, net, told, torn>> /\ fin # None
      /\ fin.stage \in {2, 3} /\ fin \in Ending /\ fin.send \in Nat
  BY <1>1, Numbers DEF GoOn, InSuccess, XhrTypeOK
<1>3. Shifted
  BY <1>1, <1>2, NetSame DEF XhrTypeOK
<1>4. /\ fin.send \in torn \/ (fin.send = xhr.id /\ ~xhr.terminal)
      /\ fin.send \notin torn => ~Told(fin.send, told)
  BY <1>1, <1>2 DEF InProgress
<1>5. CASE fin.stage = 2 /\ xhr' = [xhr EXCEPT !.readyState = 3] /\ fin' = [fin EXCEPT !.stage = 3]
  <2>1. /\ xhr' \in Objects /\ xhr'.id = xhr.id /\ xhr'.terminal = xhr.terminal
        /\ xhr'.readyState = 3 /\ xhr'.response = xhr.response
    <3>1. PICK state \in 0 .. 4 : state = 3
      OBVIOUS
    <3>2. xhr' = [xhr EXCEPT !.readyState = state]
      BY <1>5, <3>1
    <3>3. xhr \in Objects
      BY <1>1 DEF XhrTypeOK
    <3>4. QED
      BY <3>1, <3>2, <3>3 DEF Objects
  <2>2. fin' \in Ending /\ fin' # None /\ fin'.send = fin.send /\ fin'.stage = 3
    BY <1>2, <1>5, EndingAssumption DEF Ending
  <2>3. XhrTypeOK'
    BY <1>1, <1>2, <2>1, <2>2 DEF XhrTypeOK
  <2>4. Moves /\ xhr'.id >= xhr.id
    BY <1>1, <2>1, Numbers DEF Moves
  <2>5. ToldOnce' /\ AbortsPending'
    BY <1>1, <1>2, <1>3, <2>2, <2>3, <2>4, ToldKept, AbortsKept
  <2>6. InProgress'
    BY <1>2, <1>4, <2>1, <2>2 DEF InProgress
  <2>7. QED
    BY <1>2, <2>1, <2>3, <2>5, <2>6 DEF XhrInv
<1>6. CASE /\ fin.stage = 3
           /\ xhr' = [xhr EXCEPT !.readyState = 4, !.sendFlag = FALSE, !.terminal = TRUE,
                                 !.response = fin.send]
           /\ fin' = [fin EXCEPT !.stage = 4]
  <2>1. /\ xhr' \in Objects /\ xhr'.id = xhr.id /\ xhr'.terminal
        /\ xhr'.readyState = 4 /\ xhr'.response = fin.send
    <3>1. PICK state \in 0 .. 4 : state = 4
      OBVIOUS
    <3>2. PICK x : x = [xhr EXCEPT !.readyState = state, !.sendFlag = FALSE]
      OBVIOUS
    <3>3. xhr' = [x EXCEPT !.terminal = TRUE, !.response = fin.send]
      BY <1>6, <3>1, <3>2
    <3>4. xhr \in Objects
      BY <1>1 DEF XhrTypeOK
    <3>5. x \in Objects /\ x.id = xhr.id /\ x.readyState = 4
      BY <3>1, <3>2, <3>4 DEF Objects
    <3>6. QED
      BY <1>2, <3>3, <3>5 DEF Objects
  <2>2. fin' \in Ending /\ fin' # None /\ fin'.send = fin.send /\ fin'.stage = 4
    BY <1>2, <1>6, EndingAssumption DEF Ending
  <2>3. XhrTypeOK'
    BY <1>1, <1>2, <2>1, <2>2 DEF XhrTypeOK
  <2>4. Moves /\ xhr'.id >= xhr.id
    BY <1>1, <2>1, Numbers DEF Moves
  <2>5. ToldOnce' /\ AbortsPending'
    BY <1>1, <1>2, <1>3, <2>2, <2>3, <2>4, ToldKept, AbortsKept
  <2>6. InProgress'
    <3>1. fin.send \notin torn => Over(fin.send, xhr')
      BY <1>4, <2>1 DEF Over
    <3>2. QED
      BY <1>2, <1>4, <2>2, <3>1 DEF InProgress
  <2>7. xhr'.response \in {0, xhr'.id} \cup torn'
    BY <1>2, <1>4, <2>1
  <2>8. QED
    BY <2>1, <2>3, <2>5, <2>6, <2>7 DEF XhrInv
<1>7. QED
  BY <1>5, <1>6 DEF GoOn

\* An event appended to what the page was told: it is of a request that is
\* over and was not told, and no closure of abort() is left for it.
LEMMA TellKeeps ==
    ASSUME XhrInv, NEW e \in Event, told' = Append(told, e), XhrTypeOK', fin' = None,
           xhr' = xhr, torn' = torn, Shifted,
           e.send \notin torn => Over(e.send, xhr) /\ ~Told(e.send, told),
           \A n \in Aborts' : net'[n].send \notin torn => net'[n].send # e.send
    PROVE  XhrInv'
<1>1. XhrTypeOK /\ ToldOnce /\ AbortsPending
  BY DEF XhrInv
<1>2. /\ Len(told) \in Nat /\ DOMAIN told = 1 .. Len(told) /\ DOMAIN told' = 1 .. (Len(told) + 1)
      /\ told'[Len(told) + 1] = e /\ \A n \in DOMAIN told : told'[n] = told[n]
  BY <1>1 DEF XhrTypeOK
<1>3. \A n \in DOMAIN told' : \/ n \in DOMAIN told /\ told'[n] = told[n]
                              \/ n = Len(told) + 1 /\ told'[n] = e
  BY <1>2
<1>4. ToldOnce'
  <2>1. ASSUME NEW n \in DOMAIN told', told'[n].send \notin torn
        PROVE  Over(told'[n].send, xhr)
    BY <1>1, <1>3, <2>1 DEF ToldOnce
  <2>2. ASSUME NEW m \in DOMAIN told', NEW n \in DOMAIN told',
               told'[m].send = told'[n].send, told'[m].send \notin torn
        PROVE  m = n
    <3>1. e.send \notin torn => \A k \in DOMAIN told : told[k].send # e.send
      BY DEF Told
    <3>2. QED
      BY <1>1, <1>3, <2>2, <3>1 DEF ToldOnce
  <2>3. QED
    BY <2>1, <2>2 DEF ToldOnce
<1>5. PICK s \in {0, 1} : \A n \in Aborts' : n + s \in Aborts /\ net'[n] = net[n + s]
  BY DEF Shifted
<1>6. AbortsPending'
  <2>1. ASSUME NEW n \in Aborts', net'[n].send \notin torn
        PROVE  net'[n].send < xhr.id /\ ~Told(net'[n].send, told')
    <3>1. PICK x : x = net'[n].send
      OBVIOUS
    <3>2. x \notin torn /\ x # e.send /\ n + s \in Aborts /\ net[n + s].send = x
      BY <1>5, <2>1, <3>1
    <3>3. x < xhr.id /\ ~Told(x, told)
      BY <1>1, <3>2 DEF AbortsPending
    <3>4. ~Told(x, told')
      BY <1>3, <3>2, <3>3 DEF Told
    <3>5. QED
      BY <3>1, <3>3, <3>4
  <2>2. ASSUME NEW m \in Aborts', NEW n \in Aborts',
               net'[m].send = net'[n].send, net'[m].send \notin torn
        PROVE  m = n
    <3>1. /\ m + s \in Aborts /\ net'[m] = net[m + s]
          /\ n + s \in Aborts /\ net'[n] = net[n + s]
      BY <1>5
    <3>2. m + s = n + s
      BY <1>1, <2>2, <3>1 DEF AbortsPending
    <3>3. m \in Nat /\ n \in Nat
      BY DEF Aborts, XhrTypeOK
    <3>4. QED
      BY <3>2, <3>3
  <2>3. QED
    BY <2>1, <2>2 DEF AbortsPending
<1>7. QED
  BY <1>4, <1>6 DEF XhrInv, InProgress

LEMMA FireEndingKeeps ==
    ASSUME XhrInv, FireEnding
    PROVE  XhrInv'
<1>1. XhrTypeOK /\ InProgress /\ AbortsPending /\ fin # None /\ fin.stage = 4
  BY DEF XhrInv, FireEnding
<1>2. PICK e : e = [send |-> fin.send, event |-> fin.event]
  OBVIOUS
<1>3. told' = Append(told, e) /\ fin' = None
      /\ UNCHANGED <<xhr, starts, refused, owned, net, torn>>
  BY <1>2 DEF FireEnding
<1>4. e \in Event /\ e.send = fin.send
  BY <1>1, <1>2 DEF XhrTypeOK, Ending, Event
<1>5. XhrTypeOK'
  <2>1. told \in Seq(Event)
    BY <1>1 DEF XhrTypeOK
  <2>2. told' \in Seq(Event)
    BY <1>3, <1>4, <2>1
  <2>3. QED
    BY <1>1, <1>3, <2>2 DEF XhrTypeOK
<1>6. Shifted /\ Aborts' = Aborts
  BY <1>1, <1>3, NetSame DEF XhrTypeOK, Aborts
<1>7. e.send \notin torn => Over(e.send, xhr) /\ ~Told(e.send, told)
  BY <1>1, <1>4 DEF InProgress
<1>8. \A n \in Aborts' : net'[n].send \notin torn => net'[n].send # e.send
  BY <1>1, <1>3, <1>4, <1>6 DEF AbortsPending
<1>9. QED
  BY <1>3, <1>4, <1>5, <1>6, <1>7, <1>8, TellKeeps

LEMMA FinishAbortKeeps ==
    ASSUME XhrInv, FinishAbort
    PROVE  XhrInv'
<1>1. XhrTypeOK /\ AbortsPending /\ net \in Seq(Closure)
  BY DEF XhrInv, XhrTypeOK
<1>2. /\ net # <<>> /\ net' = Tail(net) /\ fin = None /\ Head(net).kind = "abort"
      /\ UNCHANGED <<starts, refused, owned, torn, xhr, fin>>
  BY DEF FinishAbort, AtClosure
<1>3. net' \in Seq(Closure) /\ Shifted /\ Head(net) \in Closure
  BY <1>1, <1>2, NetTail
<1>4. PICK s \in Nat : s = Head(net).send
  BY <1>3 DEF Closure
<1>5. CASE xhr.id # s + 1
  <2>1. told' = told
    BY <1>4, <1>5 DEF FinishAbort
  <2>2. QED
    BY <1>2, <2>1, IgnoredKeeps DEF FinishAbort
<1>6. CASE xhr.id = s + 1
  <2>1. PICK e \in Event : e = [send |-> s, event |-> "abort"]
    BY DEF Event
  <2>2. told' = Append(told, e) /\ e.send = s
    BY <1>4, <1>6, <2>1 DEF FinishAbort
  <2>3. XhrTypeOK'
    <3>1. told \in Seq(Event)
      BY <1>1 DEF XhrTypeOK
    <3>2. told' \in Seq(Event)
      BY <2>2, <3>1
    <3>3. QED
      BY <1>1, <1>2, <1>3, <3>2 DEF XhrTypeOK
  <2>4. 1 \in Aborts /\ net[1].send = s
    BY <1>1, <1>2, <1>4 DEF Aborts
  <2>5. s \notin torn => Over(s, xhr) /\ ~Told(s, told)
    BY <1>1, <2>4 DEF AbortsPending, Over
  <2>6. \A n \in Aborts' : net'[n].send \notin torn => net'[n].send # s
    <3>1. \A n \in DOMAIN net' : n \in Nat /\ n >= 1 /\ n + 1 \in DOMAIN net /\ net'[n] = net[n + 1]
      BY <1>1, <1>2
    <3>2. \A n \in Aborts' : n + 1 \in Aborts /\ net'[n] = net[n + 1] /\ n + 1 # 1
      BY <3>1 DEF Aborts
    <3>3. QED
      BY <1>1, <2>4, <3>2 DEF AbortsPending
  <2>7. QED
    BY <1>2, <1>3, <2>2, <2>3, <2>5, <2>6, TellKeeps
<1>7. QED
  BY <1>5, <1>6

-----------------------------------------------------------------------------
(* The steps of the composition. *)

LEMMA UnchangedKeeps ==
    ASSUME LoadInv, UNCHANGED vars
    PROVE  LoadInv' /\ cache' = cache
<1>1. /\ UNCHANGED <<clock, active, stopped, fetches, nextFetch, page, callbacks>>
      /\ UNCHANGED <<loads, jobs, cache, fate, load>>
  BY DEF vars, fetchVars
<1>2. TypeOK /\ Exact(loads) /\ Positions /\ NothingForRetired
  BY DEF LoadInv
<1>3. TypeOK'
  BY <1>1, <1>2 DEF TypeOK
<1>4. Exact(loads')
  BY <1>1, <1>2
<1>5. Positions'
  BY <1>1, <1>2, PositionsKept
<1>6. NothingForRetired'
  BY <1>1, <1>2 DEF NothingForRetired
<1>7. QED
  BY <1>1, <1>3, <1>4, <1>5, <1>6 DEF LoadInv

LEMMA CancelFetchKeeps ==
    ASSUME LoadInv, XhrTypeOK, CancelFetch, outsideFetch
    PROVE  LoadInv' /\ cache' = cache
<1>1. CASE xhr.fetchId = None
  <2>1. UNCHANGED vars
    BY <1>1 DEF CancelFetch, outsideFetch, vars, fetchVars
  <2>2. QED
    BY <2>1, UnchangedKeeps
<1>2. CASE xhr.fetchId # None
  <2>1. PICK i \in FetchIds : i = xhr.fetchId
    BY <1>2 DEF XhrTypeOK, Objects
  <2>2. /\ fetches' = [fetches EXCEPT ![i] = None]
        /\ jobs' = [jobs EXCEPT ![<<"fetch", i>>] = None]
        /\ page' = [page EXCEPT ![i] = "aborted"]
    BY <1>2, <2>1 DEF CancelFetch
  <2>3. UNCHANGED <<clock, active, stopped, nextFetch, callbacks, loads, cache, fate, load>>
    BY DEF outsideFetch
  <2>4. QED
    BY <2>2, <2>3, DropKeeps
<1>3. QED
  BY <1>1, <1>2

\* The page, the microtasks and the networking tasks leave the cache alone.
LEMMA ObjectKeepsLoads ==
    ASSUME LoadInv, XhrTypeOK,
           \/ Open \/ Send \/ SendThrows \/ AbortRequest
           \/ Microtask \/ TimeoutFires \/ Networking
    PROVE  LoadInv' /\ cache' = cache
<1>1. ASSUME Open \/ AbortRequest
      PROVE  LoadInv' /\ cache' = cache
  BY <1>1, CancelFetchKeeps DEF Open, AbortRequest
<1>2. ASSUME Send
      PROVE  LoadInv' /\ cache' = cache
  <2>1. UNCHANGED vars
    BY <1>2 DEF Send, outsideFetch, vars, fetchVars
  <2>2. QED
    BY <2>1, UnchangedKeeps
<1>3. ASSUME NEW s \in Sends, StartFetch(s)
      PROVE  LoadInv' /\ cache' = cache
  <2>1. CASE UNCHANGED <<fetches, nextFetch, page, jobs>>
    <3>1. UNCHANGED vars
      BY <1>3, <2>1 DEF StartFetch, vars, fetchVars
    <3>2. QED
      BY <3>1, UnchangedKeeps
  <2>2. CASE Begin(Home, None)
    BY <1>3, <2>2, HomeAssumption, BeginKeeps DEF StartFetch
  <2>3. QED
    BY <1>3, <2>1, <2>2 DEF StartFetch
<1>4. ASSUME FinishTimeout
      PROVE  LoadInv' /\ cache' = cache
  <2>1. CancelFetch \/ UNCHANGED <<fetches, jobs, page>>
    BY <1>4 DEF FinishTimeout
  <2>2. outsideFetch
    BY <1>4 DEF FinishTimeout
  <2>3. CASE UNCHANGED <<fetches, jobs, page>>
    <3>1. UNCHANGED vars
      BY <2>2, <2>3 DEF outsideFetch, vars, fetchVars
    <3>2. QED
      BY <3>1, UnchangedKeeps
  <2>4. QED
    BY <2>1, <2>2, <2>3, CancelFetchKeeps
<1>5. ASSUME NEW s \in Sends, Refused(s)
      PROVE  LoadInv' /\ cache' = cache
  BY <1>5, UnchangedKeeps DEF Refused, React
<1>6. ASSUME NEW i \in FetchIds, Settled(i)
      PROVE  LoadInv' /\ cache' = cache
  BY <1>6, UnchangedKeeps DEF Settled, React
<1>7. ASSUME \/ SendThrows \/ TimeoutFires \/ FinishSuccess \/ FinishError \/ FinishAbort
             \/ GoOn \/ FireEnding
      PROVE  LoadInv' /\ cache' = cache
  <2>1. UNCHANGED vars
    BY <1>7 DEF SendThrows, TimeoutFires, FinishSuccess, FinishError, FinishAbort,
                GoOn, FireEnding
  <2>2. QED
    BY <2>1, UnchangedKeeps
<1>8. QED
  BY <1>1, <1>2, <1>3, <1>4, <1>5, <1>6, <1>7 DEF Microtask, Networking

\* Every step of the object keeps what is known of it.
LEMMA ObjectKeeps ==
    ASSUME XhrInv, TypeOK,
           \/ Open \/ Send \/ SendThrows \/ AbortRequest
           \/ Microtask \/ TimeoutFires \/ Networking
    PROVE  XhrInv'
<1>1. CASE Open \/ Send \/ SendThrows \/ AbortRequest \/ TimeoutFires
  BY <1>1, OpenKeeps, SendKeeps, SendThrowsKeeps, AbortRequestKeeps, TimeoutFiresKeeps
<1>2. CASE Microtask
  <2>1. Sends \subseteq Nat
    BY Numbers DEF Sends, XhrInv
  <2>2. ASSUME NEW s \in Sends, StartFetch(s) \/ Refused(s)
        PROVE  XhrInv'
    BY <2>1, <2>2, StartFetchKeeps, RefusedKeeps
  <2>3. ASSUME NEW i \in FetchIds, Settled(i)
        PROVE  XhrInv'
    BY <2>3, SettledKeeps
  <2>4. QED
    BY <1>2, <2>2, <2>3 DEF Microtask
<1>3. CASE Networking
  BY <1>3, FinishSuccessKeeps, FinishErrorKeeps, FinishTimeoutKeeps, FinishAbortKeeps,
     GoOnKeeps, FireEndingKeeps DEF Networking
<1>4. QED
  BY <1>1, <1>2, <1>3

\* The steps of FetchLoads leave the object as it is.
LEMMA XhrVarsKeep ==
    ASSUME XhrInv, UNCHANGED xhrVars
    PROVE  XhrInv'
<1>1. UNCHANGED <<xhr, starts, refused, owned, net, fin, told, torn>>
  BY DEF xhrVars
<1>2. XhrTypeOK' /\ Aborts' = Aborts
  BY <1>1 DEF XhrInv, XhrTypeOK, Aborts
<1>3. ToldOnce' /\ InProgress'
  BY <1>1 DEF XhrInv, ToldOnce, InProgress
<1>4. AbortsPending'
  BY <1>1, <1>2 DEF XhrInv, AbortsPending
<1>5. QED
  BY <1>1, <1>2, <1>3, <1>4 DEF XhrInv

LEMMA NextKeeps ==
    ASSUME IInv, [XhrNext]_allVars
    PROVE  IInv' /\ \A k \in Keys : cache[k] > clock => cache'[k] >= cache[k]
<1>0. LoadInv /\ XhrInv /\ TypeOK /\ XhrTypeOK
  BY DEF IInv, LoadInv, XhrInv
<1>1. cache' = cache => \A k \in Keys : cache[k] > clock => cache'[k] >= cache[k]
  <2>1. cache \in [Keys -> Nat]
    BY <1>0 DEF TypeOK
  <2>2. QED
    BY <2>1
<1>2. CASE OthersStep
  <2>1. Step /\ load' = load /\ UNCHANGED xhrVars
    BY <1>2 DEF OthersStep
  <2>2. QED
    BY <1>0, <2>1, StepKeeps, XhrVarsKeep DEF IInv
<1>3. CASE UNCHANGED allVars
  <2>1. UNCHANGED vars /\ UNCHANGED xhrVars
    BY <1>3 DEF allVars
  <2>2. QED
    BY <1>0, <1>1, <2>1, UnchangedKeeps, XhrVarsKeep DEF IInv
<1>4. CASE \/ Open \/ Send \/ SendThrows \/ AbortRequest
           \/ Microtask \/ TimeoutFires \/ Networking
  BY <1>0, <1>1, <1>4, ObjectKeepsLoads, ObjectKeeps DEF IInv
<1>5. QED
  BY <1>2, <1>3, <1>4 DEF XhrNext

LEMMA XhrInitFacts ==
    ASSUME XhrInit
    PROVE  IInv
<1>1. LoadInv
  BY InitFacts DEF XhrInit
<1>2. /\ starts = {} /\ refused = {} /\ owned = [i \in FetchIds |-> 0]
      /\ net = <<>> /\ fin = None /\ told = <<>> /\ torn = {}
  BY DEF XhrInit
<1>3. xhr \in Objects /\ ~xhr.terminal /\ xhr.response = 0
  <2>1. PICK state \in 0 .. 4 : state = 0
    OBVIOUS
  <2>2. xhr = [id |-> 0, readyState |-> state, sendFlag |-> FALSE, terminal |-> FALSE,
               fetchId |-> None, timed |-> FALSE, timer |-> 0, response |-> 0,
               opened |-> 0, sent |-> 0]
    BY <2>1 DEF XhrInit
  <2>3. QED
    BY <2>2 DEF Objects
<1>4. XhrTypeOK
  BY <1>2, <1>3 DEF XhrTypeOK
<1>5. DOMAIN told = {} /\ Aborts = {}
  BY <1>2 DEF Aborts
<1>6. ToldOnce /\ InProgress /\ AbortsPending
  BY <1>2, <1>5 DEF ToldOnce, InProgress, AbortsPending
<1>7. QED
  BY <1>1, <1>3, <1>4, <1>6 DEF IInv, XhrInv

-----------------------------------------------------------------------------
(* What the invariant says. *)

LEMMA FateFollows ==
    ASSUME LoadInv
    PROVE  DeferredFate
<1>1. loads.next \in 0 .. MaxLoads /\ loads.next \in Nat /\ MaxLoads \in Nat
      /\ fate \in [LoadIds -> Fate]
  BY Basics DEF LoadInv, TypeOK, Table
<1>2. ASSUME NEW b \in 1 .. loads.next
      PROVE  /\ fate[b].handed <= 1
             /\ fate[b].handed = 1 => ~fate[b].cancelled /\ ~fate[b].refused
             /\ fate[b].doc \notin active =>
                   fate[b].handed = 1 \/ fate[b].cancelled \/ fate[b].refused
             /\ b \in loads.activated <=> fate[b].later /\ fate[b].handed = 1
  <2>1. b \in LoadIds /\ b <= loads.next
    BY <1>1 DEF LoadIds
  <2>2. Position(b, loads, fate, active, jobs)
    BY <2>1 DEF LoadInv, Positions
  <2>3. CASE loads.pending[b] = None
    BY <2>1, <2>2, <2>3 DEF Position
  <2>4. CASE loads.pending[b] # None
    BY <2>1, <2>2, <2>4 DEF Position
  <2>5. QED
    BY <2>3, <2>4
<1>3. QED
  BY <1>2 DEF DeferredFate

LEMMA OnceFollows ==
    ASSUME XhrInv
    PROVE  EndsOnce
<1>1. ASSUME NEW send \in Sends \ torn
      PROVE  Cardinality(Endings(send)) <= 1
  <2>1. \A m, n \in Endings(send) : m = n
    BY DEF XhrInv, ToldOnce, Endings
  <2>2. CASE Endings(send) = {}
    BY <2>2, FS_EmptySet
  <2>3. CASE Endings(send) # {}
    <3>1. PICK n : n \in Endings(send)
      BY <2>3
    <3>2. Endings(send) = {n}
      BY <2>1, <3>1
    <3>3. QED
      BY <3>2, FS_Singleton
  <2>4. QED
    BY <2>2, <2>3
<1>2. QED
  BY <1>1 DEF EndsOnce, XhrInv

LEMMA Invariance == XhrSpec => []IInv
<1>1. XhrInit => IInv
  BY XhrInitFacts
<1>2. IInv /\ [XhrNext]_allVars => IInv'
  BY NextKeeps
<1>3. QED
  BY <1>1, <1>2, PTL DEF XhrSpec

\* reserved_bytes stays within KEEPALIVE_QUOTA and is exactly the body bytes of
\* the requests in the table, by whichever of completion, cancellation, refusal
\* and panic a request leaves it (background.rs).
THEOREM QuotaExactAlways == XhrSpec => []QuotaExact
<1>1. IInv => QuotaExact
  BY DEF IInv, LoadInv, Exact, QuotaExact
<1>2. QED
  BY <1>1, Invariance, PTL

\* A beacon or a deferred request is handed over at most once, never after it
\* was cancelled, and is not left behind when its document goes; the activated
\* flag its page reads agrees (activate_or_release, retire_document_tree).
THEOREM DeferredFateAlways == XhrSpec => []DeferredFate
<1>1. IInv => DeferredFate
  BY FateFollows DEF IInv
<1>2. QED
  BY <1>1, Invariance, PTL

\* No pending fetch, job or queued callback is of a retired document, although
\* workers finish and polls collect at any time (deliver, retire_document_tree).
THEOREM NothingForRetiredAlways == XhrSpec => []NothingForRetired
<1>1. IInv => NothingForRetired
  BY DEF IInv, LoadInv
<1>2. QED
  BY <1>1, Invariance, PTL

\* An XMLHttpRequest tells its page one ending of a request, whichever of the
\* answer, the timeout, abort() and open() comes first, unless a listener opened
\* or aborted it in the middle of _finishSuccess.
THEOREM EndsOnceAlways == XhrSpec => []EndsOnce
<1>1. IInv => EndsOnce
  BY OnceFollows DEF IInv
<1>2. QED
  BY <1>1, Invariance, PTL

\* No step shortens a preflight approval that is still valid, however many
\* workers bring back snapshots that are older (PreflightCache::merge).
THEOREM ApprovalKeptAlways == XhrSpec => ApprovalKept
<1>1. IInv /\ [XhrNext]_allVars =>
         [\A k \in Keys : cache[k] > clock => cache'[k] >= cache[k]]_vars
  BY NextKeeps
<1>2. QED
  BY <1>1, Invariance, PTL DEF XhrSpec, ApprovalKept

=============================================================================
