--------------------------- MODULE WebLocks_proofs ---------------------------
(***************************************************************************)
(* Proofs about the lock manager and its pages, for any number of          *)
(* documents, names and requests: exclusion, no grantable request that     *)
(* waits, no barging, and agreement of pages and manager.                  *)
(***************************************************************************)
EXTENDS WebLocks, Orderings_proofs

Table    == [Ids -> Requests \cup {None}]
Managers == [requests : Table, held : [Names -> Seq(Ids)], pending : [Names -> Seq(Ids)]]

\* The requests of a name that hold it, and those that wait.
Holders(req, n) == {i \in Ids : /\ req[i] # None /\ req[i].name = n
                                /\ req[i].state \in {"granted", "held"}}
Waiters(req, n) == {i \in Ids : /\ req[i] # None /\ req[i].name = n
                                /\ req[i].state = "pending"}

Apart == {p \in Ids \X Ids : p[1] # p[2]}
Older == {p \in Ids \X Ids : p[1] < p[2]}
Ordered(s, R) == \A i, j \in DOMAIN s : i < j => <<s[i], s[j]>> \in R

\* The lists of a name say what the table says, the queue in the order of the
\* requests, and its holders exclude each other.
Agrees(req, held, pend, n) ==
    /\ held \in Seq(Ids) /\ pend \in Seq(Ids)
    /\ Ordered(held, Apart) /\ ToSet(held) = Holders(req, n)
    /\ Ordered(pend, Older) /\ ToSet(pend) = Waiters(req, n)
    /\ \A i, j \in ToSet(held) : i # j => req[i].mode = "shared" /\ req[j].mode = "shared"

SharedUpTo(req, pend, k) == \A j \in 1 .. k : req[pend[j]].mode = "shared"

\* Granted, for one name's lists.
Grantees(req, held, pend) ==
    {k \in DOMAIN pend :
        /\ \A i \in ToSet(held) : req[i].mode = "shared"
        /\ SharedUpTo(req, pend, k) \/ (k = 1 /\ held = <<>>)}

LEMMA GrantedIsGrantees ==
    ASSUME NEW m, NEW n
    PROVE  Granted(m, n) = Grantees(m.requests, m.held[n], m.pending[n])
  BY DEF Granted, Grantees, AllShared, SharedUpTo

\* The ids of a queue.
LEMMA InQueue ==
    ASSUME NEW req \in Table, NEW n, NEW held, NEW pend, Agrees(req, held, pend, n)
    PROVE  /\ DOMAIN pend = 1 .. Len(pend) /\ Len(pend) \in Nat
           /\ \A k \in DOMAIN pend :
                 /\ pend[k] \in Ids /\ pend[k] \in Waiters(req, n)
                 /\ req[pend[k]] \in Requests /\ req[pend[k]].mode \in Modes
           /\ \A j, k \in DOMAIN pend : (j < k => pend[j] < pend[k]) /\ (pend[j] = pend[k] => j = k)
           /\ \A i \in Waiters(req, n) : \E k \in DOMAIN pend : pend[k] = i
           /\ \A i \in Ids : i \in Nat
<1>1. pend \in Seq(Ids) /\ ToSet(pend) = Waiters(req, n)
  BY DEF Agrees
<1>2. DOMAIN pend = 1 .. Len(pend) /\ Len(pend) \in Nat
  BY <1>1
<1>3. \A i \in Ids : i \in Nat
  BY DEF Ids
<1>4. ASSUME NEW k \in DOMAIN pend
      PROVE  /\ pend[k] \in Ids /\ pend[k] \in Waiters(req, n)
             /\ req[pend[k]] \in Requests /\ req[pend[k]].mode \in Modes
  <2>1. pend[k] \in Waiters(req, n)
    BY <1>1, InToSet
  <2>2. req[pend[k]] \in Requests
    BY <2>1 DEF Waiters, Table
  <2>3. QED
    BY <2>1, <2>2 DEF Waiters, Requests
<1>5. \A j, k \in DOMAIN pend : j < k => pend[j] < pend[k]
  BY DEF Agrees, Ordered, Older
<1>6. \A j, k \in DOMAIN pend : pend[j] = pend[k] => j = k
  BY <1>2, <1>3, <1>4, <1>5
<1>7. \A i \in Waiters(req, n) : \E k \in DOMAIN pend : pend[k] = i
  BY <1>1, InToSet
<1>8. QED
  BY <1>2, <1>3, <1>4, <1>5, <1>6, <1>7

\* What is granted is a prefix of the queue.
LEMMA GranteesArePrefix ==
    ASSUME NEW req, NEW held, NEW pend \in Seq(Ids)
    PROVE  /\ Grantees(req, held, pend) \in SUBSET (DOMAIN pend)
           /\ \A j \in DOMAIN pend : \A k \in Grantees(req, held, pend) :
                 j < k => j \in Grantees(req, held, pend)
<1>1. SUFFICES ASSUME NEW j \in DOMAIN pend, NEW k \in Grantees(req, held, pend), j < k
               PROVE  j \in Grantees(req, held, pend)
  BY DEF Grantees
<1>2. DOMAIN pend = 1 .. Len(pend) /\ k \in DOMAIN pend
  BY DEF Grantees
<1>3. k # 1 /\ SharedUpTo(req, pend, k)
  BY <1>1, <1>2 DEF Grantees
<1>4. SharedUpTo(req, pend, j)
  BY <1>1, <1>2, <1>3 DEF SharedUpTo
<1>5. QED
  BY <1>1, <1>4 DEF Grantees

\* The table after a grant of the ids in G.
Grants(req, new, G) ==
    /\ \A i \in G : /\ new[i] # None /\ new[i].name = req[i].name /\ new[i].mode = req[i].mode
                    /\ new[i].client = req[i].client /\ new[i].state = "granted"
    /\ \A i \in Ids \ G : new[i] = req[i]

\* web_lock_advance for one name: exclusion holds afterwards, and nothing more
\* can be granted.
LEMMA AdvanceStep ==
    ASSUME NEW req \in Table, NEW n, NEW held, NEW pend, Agrees(req, held, pend, n),
           NEW new \in Table, NEW I, I = Grantees(req, held, pend),
           Grants(req, new, ToSet(Pick(pend, I)))
    PROVE  /\ Agrees(new, held \o Pick(pend, I), Pick(pend, DOMAIN pend \ I), n)
           /\ Grantees(new, held \o Pick(pend, I), Pick(pend, DOMAIN pend \ I)) = {}
<1> DEFINE gone == Pick(pend, I)
           rest == Pick(pend, DOMAIN pend \ I)
           now == held \o gone
<1>1. held \in Seq(Ids) /\ pend \in Seq(Ids) /\ I \in SUBSET (DOMAIN pend)
  BY GranteesArePrefix DEF Agrees
<1>2. /\ gone \in Seq(Ids) /\ rest \in Seq(Ids)
      /\ ToSet(gone) = {pend[k] : k \in I} /\ ToSet(rest) = {pend[k] : k \in DOMAIN pend \ I}
  BY <1>1, PickFacts, PickElements
<1>3. Ordered(gone, Older) /\ Ordered(rest, Older)
  <2>1. \A i, j \in DOMAIN pend : i < j => <<pend[i], pend[j]>> \in Older
    BY DEF Agrees, Ordered
  <2>2. QED
    BY <1>1, <2>1, PickOrder DEF Ordered
<1>4. PICK f : Along(rest, pend, DOMAIN pend \ I, f)
  BY <1>1, PickFacts
<1>5. Grants(req, new, ToSet(gone))
  OBVIOUS
<1> HIDE DEF gone, rest
<1>6. /\ \A k \in DOMAIN pend :
            /\ pend[k] \in Ids /\ pend[k] \in Waiters(req, n)
            /\ req[pend[k]] \in Requests /\ req[pend[k]].mode \in Modes
      /\ \A j, k \in DOMAIN pend : pend[j] = pend[k] => j = k
      /\ \A i \in Waiters(req, n) : \E k \in DOMAIN pend : pend[k] = i
  BY InQueue
<1>7. ToSet(gone) \subseteq Waiters(req, n) /\ ToSet(rest) = Waiters(req, n) \ ToSet(gone)
  BY <1>1, <1>2, <1>6
<1>8. Holders(new, n) = Holders(req, n) \cup ToSet(gone) /\ Waiters(new, n) = ToSet(rest)
  BY <1>5, <1>7 DEF Holders, Waiters, Grants
<1>9. ToSet(held) = Holders(req, n) /\ Ordered(held, Apart)
  BY DEF Agrees
<1>10. Holders(req, n) \cap ToSet(gone) = {}
  BY <1>7 DEF Holders, Waiters
<1>11. now \in Seq(Ids) /\ ToSet(now) = Holders(new, n) /\ Ordered(now, Apart)
  <2>1. now \in Seq(Ids) /\ ToSet(now) = ToSet(held) \cup ToSet(gone)
    BY <1>1, <1>2, ConcatOrder
  <2>2. \A i, j \in DOMAIN gone : i < j => <<gone[i], gone[j]>> \in Apart
    <3>1. \A x \in Older : x \in Apart
      BY DEF Older, Apart, Ids
    <3>2. QED
      BY <1>3, <3>1 DEF Ordered
  <2>3. \A x \in ToSet(held), y \in ToSet(gone) : <<x, y>> \in Apart
    BY <1>7, <1>9, <1>10 DEF Apart, Holders, Waiters
  <2>4. \A i, j \in DOMAIN held : i < j => <<held[i], held[j]>> \in Apart
    BY <1>9 DEF Ordered
  <2>5. \A i, j \in DOMAIN now : i < j => <<now[i], now[j]>> \in Apart
    BY <1>1, <1>2, <2>2, <2>3, <2>4, ConcatOrder
  <2>6. QED
    BY <1>8, <1>9, <2>1, <2>5 DEF Ordered
<1> HIDE DEF now
<1>12. \A i \in Ids : req[i] # None => new[i] # None /\ new[i].mode = req[i].mode
  BY <1>5 DEF Grants
<1>13. \A i \in Holders(req, n) \cup ToSet(gone) : new[i].mode = req[i].mode
  <2>1. \A i \in Holders(req, n) \cup ToSet(gone) : i \in Ids /\ req[i] # None
    BY <1>7 DEF Holders, Waiters
  <2>2. QED
    BY <1>12, <2>1
<1>14. CASE \A k \in I : SharedUpTo(req, pend, k)
  <2>1. I # {} => \A i \in Holders(req, n) \cup ToSet(gone) : req[i].mode = "shared"
    <3>1. SUFFICES ASSUME I # {} PROVE \A i \in Holders(req, n) \cup ToSet(gone) : req[i].mode = "shared"
      OBVIOUS
    <3>2. \A i \in Holders(req, n) : req[i].mode = "shared"
      BY <1>9, <3>1 DEF Grantees
    <3>3. \A k \in I : req[pend[k]].mode = "shared"
      BY <1>1, <1>14 DEF SharedUpTo
    <3>4. QED
      BY <1>2, <3>2, <3>3
  <2>2. I = {} => ToSet(gone) = {}
    BY <1>2
  <2>3. \A i, j \in ToSet(now) : i # j => new[i].mode = "shared" /\ new[j].mode = "shared"
    BY <1>8, <1>9, <1>11, <1>13, <2>1, <2>2 DEF Agrees
  <2>4. ASSUME NEW k \in Grantees(new, now, rest)
        PROVE  FALSE
    <3>1. /\ k \in DOMAIN rest /\ (\A i \in Holders(new, n) : new[i].mode = "shared")
          /\ SharedUpTo(new, rest, k) \/ (k = 1 /\ now = <<>>)
      BY <1>11, <2>4 DEF Grantees
    <3>2. DOMAIN rest = 1 .. Len(rest) /\ Len(rest) \in Nat /\ DOMAIN pend = 1 .. Len(pend) /\ Len(pend) \in Nat
      BY <1>1, <1>2
    <3>3. 1 \in 1 .. Len(rest) /\ k \in Nat /\ 1 <= k
      BY <3>1, <3>2
    <3>4. PICK j \in DOMAIN pend \ I : j = f[1] /\ rest[1] = pend[j]
      BY <1>4, <3>3 DEF Along
    <3>5. \A x \in DOMAIN pend : x < j => x \in I
      <4>1. SUFFICES ASSUME NEW x \in DOMAIN pend, x < j, x \notin I
                     PROVE  FALSE
        OBVIOUS
      <4>2. PICK y \in 1 .. Len(rest) : f[y] = x
        BY <1>4, <4>1 DEF Along
      <4>3. y = 1 \/ 1 < y
        BY <3>2
      <4>4. 1 < y => f[1] < f[y]
        BY <1>4, <3>3 DEF Along
      <4>5. QED
        BY <3>2, <3>4, <4>1, <4>2, <4>3, <4>4
    <3>6. \A i \in Holders(req, n) : req[i].mode = "shared"
      BY <1>8, <1>13, <3>1
    <3>7. SharedUpTo(req, pend, j - 1)
      <4>1. CASE j = 1
        BY <4>1 DEF SharedUpTo
      <4>2. CASE j # 1
        <5>1. j - 1 \in DOMAIN pend /\ j - 1 < j
          BY <3>2, <4>2
        <5>2. QED
          BY <1>14, <3>5, <5>1
      <4>3. QED
        BY <4>1, <4>2
    <3>8. CASE SharedUpTo(new, rest, k)
      <4>1. new[rest[1]].mode = "shared"
        BY <3>3, <3>8 DEF SharedUpTo
      <4>2. req[pend[j]].mode = "shared"
        <5>1. pend[j] \in Ids /\ req[pend[j]] # None
          BY <1>6 DEF Waiters
        <5>2. QED
          BY <1>12, <3>4, <4>1, <5>1
      <4>3. SharedUpTo(req, pend, j)
        BY <3>2, <3>7, <4>2 DEF SharedUpTo
      <4>4. j \in I
        BY <1>9, <3>6, <4>3 DEF Grantees
      <4>5. QED
        BY <3>4, <4>4
    <3>9. CASE now = <<>>
      <4>1. ToSet(now) = {}
        BY <3>9 DEF ToSet
      <4>2. ToSet(gone) = {} /\ ToSet(held) = {}
        BY <1>8, <1>9, <1>11, <4>1
      <4>3. I = {}
        <5>1. \A x \in I : pend[x] \in ToSet(gone)
          BY <1>2
        <5>2. QED
          BY <4>2, <5>1
      <4>4. held = <<>>
        <5>1. DOMAIN held = {}
          BY <4>2 DEF ToSet
        <5>2. QED
          BY <1>1, <5>1
      <4>5. j = 1
        <5>1. 1 \in DOMAIN pend /\ j >= 1
          BY <3>2
        <5>2. QED
          BY <3>2, <3>5, <4>3, <5>1
      <4>6. j \in I
        BY <1>9, <3>6, <4>4, <4>5 DEF Grantees
      <4>7. QED
        BY <3>4, <4>6
    <3>10. QED
      BY <3>1, <3>8, <3>9
  <2>5. QED
    BY <1>2, <1>3, <1>8, <1>11, <2>3, <2>4 DEF Agrees, gone, rest, now
<1>15. CASE \E k \in I : ~SharedUpTo(req, pend, k)
  <2>1. PICK k \in I : ~SharedUpTo(req, pend, k)
    BY <1>15
  <2>2. k = 1 /\ held = <<>>
    BY <2>1 DEF Grantees
  <2>3. req[pend[1]].mode # "shared"
    BY <2>1, <2>2 DEF SharedUpTo
  <2>4. I = {1}
    <3>1. ASSUME NEW x \in I, x # 1
          PROVE  FALSE
      <4>1. SharedUpTo(req, pend, x) /\ x \in DOMAIN pend
        BY <3>1 DEF Grantees
      <4>2. 1 \in 1 .. x
        BY <1>1, <4>1
      <4>3. QED
        BY <2>3, <4>1, <4>2 DEF SharedUpTo
    <3>2. QED
      BY <2>1, <2>2, <3>1
  <2>5. ToSet(gone) = {pend[1]} /\ ToSet(held) = {}
    <3>1. ToSet(gone) = {pend[1]}
      BY <1>2, <2>4
    <3>2. ToSet(held) = {}
      BY <2>2 DEF ToSet
    <3>3. QED
      BY <3>1, <3>2
  <2>6. ToSet(now) = {pend[1]}
    BY <1>8, <1>9, <1>11, <2>5
  <2>7. new[pend[1]].mode # "shared"
    BY <1>13, <2>3, <2>5
  <2>8. Grantees(new, now, rest) = {}
    BY <2>6, <2>7 DEF Grantees
  <2>9. QED
    BY <1>2, <1>3, <1>8, <1>11, <2>6, <2>8 DEF Agrees, gone, rest, now
<1>16. QED
  BY <1>14, <1>15

\* A name whose requests are left alone keeps its lists.
Same(req, new, n) ==
    /\ Holders(new, n) = Holders(req, n) /\ Waiters(new, n) = Waiters(req, n)
    /\ \A i \in Holders(req, n) \cup Waiters(req, n) : new[i].mode = req[i].mode

LEMMA AgreesFrame ==
    ASSUME NEW req, NEW new, NEW n, NEW held, NEW pend, Agrees(req, held, pend, n),
           Same(req, new, n)
    PROVE  /\ Agrees(new, held, pend, n)
           /\ Grantees(new, held, pend) = Grantees(req, held, pend)
<1> USE DEF Same
<1>1. Agrees(new, held, pend, n)
  BY DEF Agrees
<1>2. \A i \in ToSet(held) : new[i].mode = req[i].mode
  BY DEF Agrees
<1>3. \A k \in DOMAIN pend : new[pend[k]].mode = req[pend[k]].mode
  BY InToSet DEF Agrees
<1>4. \A k \in DOMAIN pend : SharedUpTo(new, pend, k) <=> SharedUpTo(req, pend, k)
  <2>1. DOMAIN pend = 1 .. Len(pend) /\ Len(pend) \in Nat
    BY DEF Agrees
  <2>2. \A k \in DOMAIN pend : \A j \in 1 .. k : j \in DOMAIN pend
    BY <2>1
  <2>3. QED
    BY <1>3, <2>2 DEF SharedUpTo
<1>5. QED
  BY <1>1, <1>2, <1>4 DEF Grantees

LEMMA AppendFacts ==
    ASSUME NEW s \in Seq(Ids), NEW x \in Ids, NEW R, Ordered(s, R),
           \A y \in ToSet(s) : <<y, x>> \in R
    PROVE  /\ Append(s, x) \in Seq(Ids) /\ ToSet(Append(s, x)) = ToSet(s) \cup {x}
           /\ Ordered(Append(s, x), R)
<1> DEFINE t == <<x>>
<1>1. t \in Seq(Ids) /\ Append(s, x) = s \o t
  OBVIOUS
<1>2. ToSet(t) = {x}
  BY DEF ToSet
<1>3. \A i, j \in DOMAIN t : i < j => <<t[i], t[j]>> \in R
  OBVIOUS
<1> HIDE DEF t
<1>4. s \o t \in Seq(Ids) /\ ToSet(s \o t) = ToSet(s) \cup ToSet(t)
  BY <1>1, ConcatOrder
<1>5. \A i, j \in DOMAIN (s \o t) : i < j => <<(s \o t)[i], (s \o t)[j]>> \in R
  <2>1. \A i, j \in DOMAIN s : i < j => <<s[i], s[j]>> \in R
    BY DEF Ordered
  <2>2. \A y \in ToSet(s), z \in ToSet(t) : <<y, z>> \in R
    BY <1>2
  <2>3. QED
    BY <1>1, <1>3, <2>1, <2>2, ConcatOrder
<1>6. QED
  BY <1>1, <1>2, <1>4, <1>5 DEF Ordered

\* A request that is granted at once (web_lock_is_immediately_grantable).
LEMMA EnterHolder ==
    ASSUME NEW req \in Table, NEW n, NEW held, NEW pend, Agrees(req, held, pend, n),
           NEW id \in Ids, req[id] = None,
           NEW r \in Requests, r.name = n, r.state = "granted",
           NEW new, new = [req EXCEPT ![id] = r],
           pend = <<>>,
           \/ held = <<>>
           \/ r.mode = "shared" /\ \A i \in ToSet(held) : req[i].mode = "shared"
    PROVE  Agrees(new, Append(held, id), pend, n) /\ Grantees(new, Append(held, id), pend) = {}
<1>1. /\ held \in Seq(Ids) /\ Ordered(held, Apart) /\ ToSet(held) = Holders(req, n)
      /\ pend \in Seq(Ids) /\ Ordered(pend, Older) /\ ToSet(pend) = Waiters(req, n)
  BY DEF Agrees
<1>2. new[id] = r /\ r # None /\ \A i \in Ids \ {id} : new[i] = req[i]
  BY NoneAssumption DEF Table
<1>3. id \notin Holders(req, n) /\ id \notin Waiters(req, n)
  BY DEF Holders, Waiters
<1>4. Holders(new, n) = Holders(req, n) \cup {id} /\ Waiters(new, n) = Waiters(req, n)
  BY <1>2, <1>3 DEF Holders, Waiters
<1>5. \A y \in ToSet(held) : <<y, id>> \in Apart
  BY <1>1, <1>3 DEF Holders, Apart
<1>6. /\ Append(held, id) \in Seq(Ids) /\ ToSet(Append(held, id)) = ToSet(held) \cup {id}
      /\ Ordered(Append(held, id), Apart)
  BY <1>1, <1>5, AppendFacts
<1>7. \A i \in ToSet(held) : i \in Ids \ {id}
  BY <1>1, <1>3 DEF Holders
<1>8. \A i, j \in ToSet(held) \cup {id} : i # j => new[i].mode = "shared" /\ new[j].mode = "shared"
  <2>1. CASE held = <<>>
    BY <2>1 DEF ToSet
  <2>2. CASE r.mode = "shared" /\ \A i \in ToSet(held) : req[i].mode = "shared"
    BY <1>2, <1>7, <2>2
  <2>3. QED
    BY <2>1, <2>2
<1>9. Grantees(new, Append(held, id), pend) = {}
  BY DEF Grantees
<1>10. QED
  BY <1>1, <1>4, <1>6, <1>8, <1>9 DEF Agrees

\* A request that joins the queue.
LEMMA EnterWaiter ==
    ASSUME NEW req \in Table, NEW n, NEW held, NEW pend, Agrees(req, held, pend, n),
           Grantees(req, held, pend) = {},
           NEW id \in Ids, req[id] = None, \A i \in Ids : req[i] # None => i < id,
           NEW r \in Requests, r.name = n, r.state = "pending",
           NEW new, new = [req EXCEPT ![id] = r],
           ~ /\ pend = <<>>
             /\ \/ held = <<>>
                \/ r.mode = "shared" /\ \A i \in ToSet(held) : req[i].mode = "shared"
    PROVE  Agrees(new, held, Append(pend, id), n) /\ Grantees(new, held, Append(pend, id)) = {}
<1>1. /\ held \in Seq(Ids) /\ Ordered(held, Apart) /\ ToSet(held) = Holders(req, n)
      /\ pend \in Seq(Ids) /\ Ordered(pend, Older) /\ ToSet(pend) = Waiters(req, n)
  BY DEF Agrees
<1>2. new[id] = r /\ r # None /\ \A i \in Ids \ {id} : new[i] = req[i]
  BY NoneAssumption DEF Table
<1>3. id \notin Holders(req, n) /\ id \notin Waiters(req, n)
  BY DEF Holders, Waiters
<1>4. Holders(new, n) = Holders(req, n) /\ Waiters(new, n) = Waiters(req, n) \cup {id}
  BY <1>2, <1>3 DEF Holders, Waiters
<1>5. \A y \in ToSet(pend) : <<y, id>> \in Older
  BY <1>1 DEF Waiters, Older
<1>6. /\ Append(pend, id) \in Seq(Ids) /\ ToSet(Append(pend, id)) = ToSet(pend) \cup {id}
      /\ Ordered(Append(pend, id), Older)
  BY <1>1, <1>5, AppendFacts
<1>7. \A i \in ToSet(held) : i \in Ids \ {id}
  BY <1>1, <1>3 DEF Holders
<1>8. \A i, j \in ToSet(held) : i # j => new[i].mode = "shared" /\ new[j].mode = "shared"
  BY <1>2, <1>7 DEF Agrees
<1>9. ASSUME NEW k \in Grantees(new, held, Append(pend, id))
      PROVE  FALSE
  <2>1. /\ k \in DOMAIN Append(pend, id) /\ \A i \in ToSet(held) : new[i].mode = "shared"
        /\ SharedUpTo(new, Append(pend, id), k) \/ (k = 1 /\ held = <<>>)
    BY <1>9 DEF Grantees
  <2>2. \A i \in ToSet(held) : req[i].mode = "shared"
    BY <1>2, <1>7, <2>1
  <2>3. 1 \in 1 .. k
    BY <1>6, <2>1
  <2>4. new[Append(pend, id)[1]].mode = "shared" \/ held = <<>>
    BY <2>1, <2>3 DEF SharedUpTo
  <2>5. CASE pend = <<>>
    <3>1. Append(pend, id)[1] = id
      BY <2>5
    <3>2. QED
      BY <1>2, <2>2, <2>4, <2>5, <3>1
  <2>6. CASE pend # <<>>
    <3>1. 1 \in DOMAIN pend /\ Append(pend, id)[1] = pend[1]
      BY <1>1, <2>6
    <3>2. pend[1] \in Ids \ {id}
      BY <1>1, <1>3, <3>1, InToSet DEF Waiters
    <3>3. req[pend[1]].mode = "shared" \/ held = <<>>
      BY <1>2, <2>4, <3>1, <3>2
    <3>4. 1 \in Grantees(req, held, pend)
      BY <2>2, <3>1, <3>3 DEF Grantees, SharedUpTo
    <3>5. QED
      BY <3>4
  <2>7. QED
    BY <2>5, <2>6
<1>10. QED
  BY <1>1, <1>4, <1>6, <1>8, <1>9 DEF Agrees

\* A request that steals the name from its holders.
LEMMA EnterThief ==
    ASSUME NEW req \in Table, NEW n, NEW held, NEW pend, Agrees(req, held, pend, n),
           NEW id \in Ids, req[id] = None,
           NEW r \in Requests, r.name = n, r.state = "granted", r.mode = "exclusive",
           NEW new, new[id] = r,
           \A i \in ToSet(held) : new[i].state = "stolen",
           \A i \in Ids \ ToSet(held) : i # id => new[i] = req[i]
    PROVE  Agrees(new, <<id>>, pend, n) /\ Grantees(new, <<id>>, pend) = {}
<1>1. /\ held \in Seq(Ids) /\ Ordered(held, Apart) /\ ToSet(held) = Holders(req, n)
      /\ pend \in Seq(Ids) /\ Ordered(pend, Older) /\ ToSet(pend) = Waiters(req, n)
  BY DEF Agrees
<1>2. r # None
  BY NoneAssumption
<1>3. ToSet(<<id>>) = {id} /\ <<id>> \in Seq(Ids) /\ Ordered(<<id>>, Apart)
  BY DEF ToSet, Ordered
<1>4. id \notin Holders(req, n)
  BY DEF Holders
<1>5. Holders(new, n) = {id}
  <2>1. ASSUME NEW i \in Ids, i # id, i \in Holders(new, n)
        PROVE  FALSE
    <3>1. i \notin ToSet(held)
      BY <2>1 DEF Holders
    <3>2. QED
      BY <1>1, <2>1, <3>1 DEF Holders
  <2>2. id \in Holders(new, n)
    BY <1>2 DEF Holders
  <2>3. QED
    BY <2>1, <2>2 DEF Holders
<1>6. Waiters(new, n) = Waiters(req, n)
  <2>1. \A i \in Ids : i \in Holders(req, n) => i \notin Waiters(req, n)
    BY DEF Holders, Waiters
  <2>2. \A i \in ToSet(held) : i \notin Waiters(new, n) /\ i \notin Waiters(req, n)
    BY <1>1, <2>1 DEF Holders, Waiters
  <2>3. id \notin Waiters(new, n) /\ id \notin Waiters(req, n)
    BY DEF Waiters
  <2>4. QED
    BY <2>2, <2>3 DEF Waiters
<1>7. Grantees(new, <<id>>, pend) = {}
  BY <1>3 DEF Grantees
<1>8. QED
  BY <1>1, <1>3, <1>5, <1>6, <1>7 DEF Agrees

-----------------------------------------------------------------------------
(* The manager as a whole. *)

Sound(m) ==
    /\ m \in Managers
    /\ \A n \in Names : Agrees(m.requests, m.held[n], m.pending[n], n)

\* What a step that makes no request does to the table: those in D are gone, the
\* others stay as they are, are granted in the order in which they wait, or are
\* taken up by their page.
Moves(req, new, D) ==
    /\ \A i \in D : new[i] = None
    /\ \A i \in Ids \ D : req[i] = None => new[i] = None
    /\ \A i \in Ids \ D : req[i] # None =>
          /\ new[i] # None /\ new[i].client = req[i].client /\ new[i].name = req[i].name
          /\ new[i].mode = req[i].mode
          /\ \/ new[i].state = req[i].state
             \/ req[i].state = "pending" /\ new[i].state = "granted"
             \/ req[i].state = "granted" /\ new[i].state = "held"
    /\ \A i, j \in Ids \ D :
          /\ i < j /\ req[i] # None /\ req[j] # None /\ req[i].name = req[j].name
          /\ req[i].state = "pending" /\ req[j].state = "pending"
          /\ new[j].state = "granted"
          => new[i].state = "granted"

\* The result r of advancing or removing: nothing more can be granted, and the
\* notifications are all of grants.
Outcome(m, r, D) ==
    /\ Sound(r.locks) /\ \A k \in Names : Granted(r.locks, k) = {}
    /\ Moves(m.requests, r.locks.requests, D)
    /\ r.notes \in Seq(Notes) /\ \A q \in ToSet(r.notes) : q.kind = "granted"

\* The manager with new lists for one name and a new table.
Updated(m, n, t, h, p) ==
    [requests |-> t, held |-> [m.held EXCEPT ![n] = h], pending |-> [m.pending EXCEPT ![n] = p]]

Updates(w, m, n, t, h, p) ==
    /\ w \in Managers /\ w.requests = t /\ w.held[n] = h /\ w.pending[n] = p
    /\ \A k \in Names \ {n} : w.held[k] = m.held[k] /\ w.pending[k] = m.pending[k]

LEMMA UpdatedFacts ==
    ASSUME NEW m \in Managers, NEW n \in Names, NEW t \in Table, NEW h \in Seq(Ids),
           NEW p \in Seq(Ids)
    PROVE  Updates(Updated(m, n, t, h, p), m, n, t, h, p)
<1> DEFINE w == Updated(m, n, t, h, p)
<1>1. m.held \in [Names -> Seq(Ids)] /\ m.pending \in [Names -> Seq(Ids)]
  BY DEF Managers
<1>2. /\ w.requests = t /\ w.held = [m.held EXCEPT ![n] = h]
      /\ w.pending = [m.pending EXCEPT ![n] = p]
  BY DEF Updated
<1>3. [m.held EXCEPT ![n] = h] \in [Names -> Seq(Ids)]
  BY <1>1
<1>4. [m.pending EXCEPT ![n] = p] \in [Names -> Seq(Ids)]
  BY <1>1
<1>5. w \in Managers
  BY <1>3, <1>4 DEF Updated, Managers
<1>6. QED
  BY <1>1, <1>2, <1>5 DEF Updates

\* web_lock_advance
LEMMA AdvanceFacts ==
    ASSUME NEW m, Sound(m), NEW n \in Names, NEW r, r = Advance(m, n),
           \A k \in Names \ {n} : Granted(m, k) = {}
    PROVE  Outcome(m, r, {})
<1>1. PICK req, held, pend : req = m.requests /\ held = m.held[n] /\ pend = m.pending[n]
  OBVIOUS
<1>2. m \in Managers /\ req \in Table /\ Agrees(req, held, pend, n)
  BY <1>1 DEF Sound, Managers
<1>3. PICK I : I = Grantees(req, held, pend)
  OBVIOUS
<1>4. PICK gone, rest : gone = Pick(pend, I) /\ rest = Pick(pend, DOMAIN pend \ I)
  OBVIOUS
<1> DEFINE new == [i \in Ids |-> IF i \in ToSet(gone)
                      THEN [req[i] EXCEPT !.state = "granted"] ELSE req[i]]
<1>5. I = Granted(m, n)
  BY <1>1, <1>3, GrantedIsGrantees
<1>6. pend \in Seq(Ids) /\ held \in Seq(Ids) /\ I \in SUBSET (DOMAIN pend)
  BY <1>2, <1>3, GranteesArePrefix DEF Agrees
<1>7. /\ gone \in Seq(Ids) /\ rest \in Seq(Ids) /\ ToSet(gone) = {pend[k] : k \in I}
  BY <1>4, <1>6, PickFacts, PickElements
<1>8. /\ DOMAIN pend = 1 .. Len(pend) /\ Len(pend) \in Nat
      /\ \A k \in DOMAIN pend :
            /\ pend[k] \in Ids /\ pend[k] \in Waiters(req, n)
            /\ req[pend[k]] \in Requests
      /\ \A j, k \in DOMAIN pend : j < k => pend[j] < pend[k]
      /\ \A i \in Waiters(req, n) : \E k \in DOMAIN pend : pend[k] = i
      /\ \A i \in Ids : i \in Nat
  BY <1>2, InQueue
<1>9. \A i \in ToSet(gone) : i \in Waiters(req, n) /\ i \in Ids /\ req[i] \in Requests
  BY <1>6, <1>7, <1>8
<1>10. \A i \in Ids : /\ i \in ToSet(gone) => new[i] = [req[i] EXCEPT !.state = "granted"]
                      /\ i \notin ToSet(gone) => new[i] = req[i]
  OBVIOUS
<1>11. \A i \in ToSet(gone) :
          /\ new[i] \in Requests /\ new[i].client = req[i].client
          /\ new[i].name = req[i].name /\ new[i].mode = req[i].mode
          /\ new[i].state = "granted"
  <2>1. SUFFICES ASSUME NEW i \in ToSet(gone)
                 PROVE  /\ new[i] \in Requests /\ new[i].client = req[i].client
                        /\ new[i].name = req[i].name /\ new[i].mode = req[i].mode
                        /\ new[i].state = "granted"
    OBVIOUS
  <2>2. PICK old \in Requests : old = req[i]
    BY <1>9
  <2>3. new[i] = [old EXCEPT !.state = "granted"]
    BY <1>9, <1>10, <2>2
  <2> HIDE DEF new
  <2>4. QED
    BY <2>2, <2>3 DEF Requests
<1>12. new \in Table
  <2>1. \A i \in Ids : new[i] \in Requests \cup {None}
    BY <1>2, <1>10, <1>11 DEF Table
  <2>2. new = [i \in Ids |-> new[i]]
    OBVIOUS
  <2> HIDE DEF new
  <2>3. QED
    BY <2>1, <2>2 DEF Table
<1>13. /\ r.locks = [m EXCEPT !.pending[n] = rest, !.held[n] = held \o gone, !.requests = new]
       /\ r.notes = [k \in DOMAIN gone |-> Note(m, gone[k], "granted")]
  BY <1>1, <1>4, <1>5 DEF Advance, Grant
<1> HIDE DEF new
<1>14. /\ r.locks \in Managers /\ r.locks.requests = new
       /\ r.locks.held[n] = held \o gone /\ r.locks.pending[n] = rest
       /\ \A k \in Names \ {n} : r.locks.held[k] = m.held[k] /\ r.locks.pending[k] = m.pending[k]
  <2>1. held \o gone \in Seq(Ids)
    BY <1>6, <1>7
  <2>2. r.locks = Updated(m, n, new, held \o gone, rest)
    BY <1>2, <1>13 DEF Managers, Updated
  <2>3. rest \in Seq(Ids) /\ m \in Managers
    BY <1>2, <1>7
  <2>4. Updates(r.locks, m, n, new, held \o gone, rest)
    BY <1>12, <2>1, <2>2, <2>3, UpdatedFacts, Zenon
  <2>5. QED
    BY <2>4 DEF Updates
<1>15. Grants(req, new, ToSet(gone))
  <2>1. None \notin Requests
    BY NoneAssumption
  <2>2. QED
    BY <1>10, <1>11, <2>1 DEF Grants
<1>16. Agrees(new, held \o gone, rest, n) /\ Grantees(new, held \o gone, rest) = {}
  BY <1>2, <1>3, <1>4, <1>12, <1>15, AdvanceStep
<1>17. ASSUME NEW k \in Names, k # n
       PROVE  /\ Agrees(new, m.held[k], m.pending[k], k)
              /\ Grantees(new, m.held[k], m.pending[k]) = {}
  <2>1. Agrees(req, m.held[k], m.pending[k], k) /\ Grantees(req, m.held[k], m.pending[k]) = {}
    BY <1>1, <1>17, GrantedIsGrantees DEF Sound
  <2>2. \A i \in Ids : i \in ToSet(gone) => req[i].name # k /\ new[i].name # k
    BY <1>9, <1>11, <1>17 DEF Waiters
  <2>3. Holders(new, k) = Holders(req, k) /\ Waiters(new, k) = Waiters(req, k)
    BY <1>10, <2>2 DEF Holders, Waiters
  <2>4. \A i \in Holders(req, k) \cup Waiters(req, k) : new[i].mode = req[i].mode
    BY <1>10, <2>2 DEF Holders, Waiters
  <2>5. QED
    BY <2>1, <2>3, <2>4, AgreesFrame DEF Same
<1>18. Sound(r.locks) /\ \A k \in Names : Granted(r.locks, k) = {}
  <2>1. \A k \in Names : /\ Agrees(new, r.locks.held[k], r.locks.pending[k], k)
                         /\ Grantees(new, r.locks.held[k], r.locks.pending[k]) = {}
    BY <1>14, <1>16, <1>17
  <2>2. QED
    BY <1>14, <2>1, GrantedIsGrantees DEF Sound
<1>19. Moves(req, new, {})
  <2>1. \A i \in Ids : req[i] = None => new[i] = None
    BY <1>9, <1>10 DEF Waiters
  <2>2. \A i \in Ids : req[i] # None =>
          /\ new[i] # None /\ new[i].client = req[i].client /\ new[i].name = req[i].name
          /\ new[i].mode = req[i].mode
          /\ \/ new[i].state = req[i].state
             \/ req[i].state = "pending" /\ new[i].state = "granted"
    BY <1>9, <1>10, <1>11, NoneAssumption DEF Waiters
  <2>3. ASSUME NEW i \in Ids, NEW j \in Ids, i < j,
               req[i] # None, req[j] # None, req[i].name = req[j].name,
               req[i].state = "pending", req[j].state = "pending", new[j].state = "granted"
        PROVE  new[i].state = "granted"
    <3>1. j \in ToSet(gone)
      BY <1>10, <2>3
    <3>2. i \in Waiters(req, n) /\ j \in Waiters(req, n)
      BY <1>9, <2>3, <3>1 DEF Waiters
    <3>3. PICK b \in I : pend[b] = j
      BY <1>7, <3>1
    <3>4. PICK a \in DOMAIN pend : pend[a] = i
      BY <1>8, <3>2
    <3>5. a < b
      <4>1. b \in DOMAIN pend /\ a \in Nat /\ b \in Nat
        BY <1>6, <1>8
      <4>2. ~(b < a) /\ a # b
        BY <1>8, <2>3, <3>3, <3>4, <4>1
      <4>3. QED
        BY <4>1, <4>2
    <3>6. a \in I
      BY <1>3, <1>6, <3>4, <3>5, GranteesArePrefix
    <3>7. i \in ToSet(gone)
      BY <1>7, <3>4, <3>6
    <3>8. QED
      BY <1>11, <3>7
  <2>4. QED
    BY <2>1, <2>2, <2>3 DEF Moves
<1>20. r.notes \in Seq(Notes) /\ \A q \in ToSet(r.notes) : q.kind = "granted"
  <2>1. ASSUME NEW k \in DOMAIN gone
        PROVE  Note(m, gone[k], "granted") \in Notes /\ Note(m, gone[k], "granted").kind = "granted"
    <3>1. gone[k] \in Ids /\ req[gone[k]] \in Requests
      BY <1>9, <2>1, InToSet
    <3>2. req[gone[k]].client \in Clients
      BY <3>1 DEF Requests
    <3>3. QED
      BY <1>1, <3>1, <3>2 DEF Note, Notes
  <2>2. DOMAIN gone = 1 .. Len(gone) /\ Len(gone) \in Nat
    BY <1>7
  <2>3. r.notes \in Seq(Notes) /\ DOMAIN r.notes = DOMAIN gone
    BY <1>13, <2>1, <2>2
  <2>4. \A k \in DOMAIN r.notes : r.notes[k].kind = "granted"
    BY <1>13, <2>1, <2>3
  <2>5. QED
    BY <2>3, <2>4, InToSet
<1>21. QED
  BY <1>1, <1>14, <1>18, <1>19, <1>20 DEF Outcome

LEMMA KeptFacts ==
    ASSUME NEW s \in Seq(Ids), NEW i, NEW R, Ordered(s, R)
    PROVE  /\ Keep(s, Ids \ {i}) \in Seq(Ids) /\ ToSet(Keep(s, Ids \ {i})) = ToSet(s) \ {i}
           /\ Ordered(Keep(s, Ids \ {i}), R)
<1>1. Keep(s, Ids \ {i}) \in Seq(Ids) /\ ToSet(Keep(s, Ids \ {i})) = ToSet(s) \cap (Ids \ {i})
  BY KeepFacts
<1>2. \A x \in ToSet(s) : x \in Ids
  BY DEF ToSet
<1>3. \A j, k \in DOMAIN s : j < k => <<s[j], s[k]>> \in R
  BY DEF Ordered
<1>4. Ordered(Keep(s, Ids \ {i}), R)
  BY <1>3, KeepOrder DEF Ordered
<1>5. QED
  BY <1>1, <1>2, <1>4

\* Taking a request off the table and off the lists of its name.
LEMMA WithoutFacts ==
    ASSUME NEW m, Sound(m), NEW i \in Ids, m.requests[i] # None,
           NEW n, n = m.requests[i].name, \A k \in Names : Granted(m, k) = {},
           NEW w, w = Without(m, i)
    PROVE  /\ n \in Names /\ Sound(w) /\ \A k \in Names \ {n} : Granted(w, k) = {}
           /\ w.requests = [m.requests EXCEPT ![i] = None]
<1>1. PICK req, held, pend : req = m.requests /\ held = m.held[n] /\ pend = m.pending[n]
  OBVIOUS
<1>2. m \in Managers /\ req \in Table
  BY <1>1 DEF Sound, Managers
<1>3. req[i] \in Requests /\ n \in Names
  BY <1>1, <1>2 DEF Table, Requests
<1>4. Agrees(req, held, pend, n)
  BY <1>1, <1>3 DEF Sound
<1>5. PICK new : new = [req EXCEPT ![i] = None]
  OBVIOUS
<1>6. new \in Table /\ new[i] = None /\ \A j \in Ids \ {i} : new[j] = req[j]
  BY <1>2, <1>5 DEF Table
<1>7. PICK h, p : h = Keep(held, Ids \ {i}) /\ p = Keep(pend, Ids \ {i})
  OBVIOUS
<1>8. /\ held \in Seq(Ids) /\ Ordered(held, Apart) /\ ToSet(held) = Holders(req, n)
      /\ pend \in Seq(Ids) /\ Ordered(pend, Older) /\ ToSet(pend) = Waiters(req, n)
      /\ \A j, k \in ToSet(held) : j # k => req[j].mode = "shared" /\ req[k].mode = "shared"
  BY <1>4 DEF Agrees
<1>9. /\ h \in Seq(Ids) /\ ToSet(h) = ToSet(held) \ {i} /\ Ordered(h, Apart)
      /\ p \in Seq(Ids) /\ ToSet(p) = ToSet(pend) \ {i} /\ Ordered(p, Older)
  BY <1>7, <1>8, KeptFacts
<1>10. \A k : Holders(new, k) = Holders(req, k) \ {i} /\ Waiters(new, k) = Waiters(req, k) \ {i}
  BY <1>6 DEF Holders, Waiters
<1>11. Agrees(new, h, p, n)
  <2>1. \A j \in ToSet(h) : j \in ToSet(held) /\ new[j] = req[j]
    BY <1>6, <1>8, <1>9 DEF Holders
  <2>2. QED
    BY <1>8, <1>9, <1>10, <2>1 DEF Agrees
<1>12. w = Updated(m, n, new, h, p)
  BY <1>1, <1>2, <1>5, <1>7 DEF Without, Updated, Managers
<1>13. Updates(w, m, n, new, h, p)
  <2>1. m \in Managers /\ n \in Names /\ new \in Table /\ h \in Seq(Ids) /\ p \in Seq(Ids)
    BY <1>2, <1>3, <1>6, <1>9
  <2>2. QED
    BY <1>12, <2>1, UpdatedFacts, Zenon
<1>14. ASSUME NEW k \in Names \ {n}
       PROVE  /\ Agrees(new, m.held[k], m.pending[k], k)
              /\ Grantees(new, m.held[k], m.pending[k]) = {}
  <2>1. Agrees(req, m.held[k], m.pending[k], k) /\ Grantees(req, m.held[k], m.pending[k]) = {}
    BY <1>1, <1>14, GrantedIsGrantees DEF Sound
  <2>2. i \notin Holders(req, k) /\ i \notin Waiters(req, k)
    BY <1>1, <1>14 DEF Holders, Waiters
  <2>3. Holders(new, k) = Holders(req, k) /\ Waiters(new, k) = Waiters(req, k)
    BY <1>10, <2>2
  <2>4. \A j \in Holders(req, k) \cup Waiters(req, k) : new[j].mode = req[j].mode
    BY <1>6, <2>2 DEF Holders, Waiters
  <2>5. QED
    BY <2>1, <2>3, <2>4, AgreesFrame DEF Same
<1>15. Sound(w)
  BY <1>11, <1>13, <1>14 DEF Sound, Updates
<1>16. \A k \in Names \ {n} : Granted(w, k) = {}
  BY <1>13, <1>14, GrantedIsGrantees DEF Updates
<1>17. QED
  BY <1>1, <1>3, <1>5, <1>13, <1>15, <1>16 DEF Updates

\* web_lock_remove_request
LEMMA RemoveFacts ==
    ASSUME NEW m, Sound(m), NEW i \in Ids, m.requests[i] # None,
           \A k \in Names : Granted(m, k) = {}, NEW r, r = RemoveRequest(m, i)
    PROVE  Outcome(m, r, {i})
<1>1. PICK n : n = m.requests[i].name
  OBVIOUS
<1>2. PICK w : w = Without(m, i)
  OBVIOUS
<1>3. /\ n \in Names /\ Sound(w) /\ \A k \in Names \ {n} : Granted(w, k) = {}
      /\ w.requests = [m.requests EXCEPT ![i] = None]
  BY <1>1, <1>2, WithoutFacts
<1>4. r = Advance(w, n)
  BY <1>1, <1>2 DEF RemoveRequest
<1>5. Outcome(w, r, {})
  BY <1>3, <1>4, AdvanceFacts
<1>6. m.requests \in Table
  BY DEF Sound, Managers
<1>7. w.requests[i] = None /\ \A j \in Ids \ {i} : w.requests[j] = m.requests[j]
  BY <1>3, <1>6 DEF Table
<1>8. Moves(m.requests, r.locks.requests, {i})
  BY <1>5, <1>7 DEF Moves, Outcome
<1>9. QED
  BY <1>5, <1>8 DEF Outcome

-----------------------------------------------------------------------------
(* The invariant. *)

\* A notice of theft is about a request that was stolen.
Thefts(req, nxt, S) ==
    \A q \in S : q.kind = "stolen" =>
        q.id < nxt /\ (req[q.id] = None \/ req[q.id].state = "stolen")

Typed ==
    /\ next \in 1 .. MaxRequests + 1
    /\ registered \subseteq Clients /\ alive \subseteq Clients
    /\ notes \in Seq(Notes) /\ tasks \in [Clients -> Seq(Notes)]
    /\ entries \in [Ids -> {"none", "waiting", "started"}]
    /\ microtasks \subseteq Ids /\ closing \subseteq Ids

Idle == \A n \in Names : Granted(locks, n) = {}

Entries ==
    \A i \in Ids : /\ entries[i] # "none" <=> locks.requests[i] # None
                   /\ locks.requests[i] # None => i < next

Closing == \A i \in closing : locks.requests[i] # None

Notices ==
    /\ Thefts(locks.requests, next, ToSet(notes))
    /\ \A c \in Clients : Thefts(locks.requests, next, ToSet(tasks[c]))

\* The lists agree with the table and no queue can advance, pages and manager
\* know the same requests, and a stolen request is never taken for another one.
IInv == Typed /\ Sound(locks) /\ Idle /\ Entries /\ Closing /\ Notices

LEMMA IInvInit == Init => IInv
<1> SUFFICES ASSUME Init PROVE IInv
  OBVIOUS
<1>1. PICK req : req = [i \in Ids |-> None]
  OBVIOUS
<1>2. /\ locks.requests = req
      /\ \A n \in Names : locks.held[n] = <<>> /\ locks.pending[n] = <<>>
  BY <1>1 DEF Init
<1>3. locks \in Managers
  <2>1. req \in Table /\ <<>> \in Seq(Ids)
    BY <1>1 DEF Table
  <2>2. [n \in Names |-> <<>>] \in [Names -> Seq(Ids)]
    BY <2>1
  <2>3. QED
    BY <1>1, <2>1, <2>2 DEF Init, Managers
<1>4. ToSet(<<>>) = {}
  BY DEF ToSet
<1>5. \A n \in Names : Agrees(req, <<>>, <<>>, n)
  <2>1. \A n : Holders(req, n) = {} /\ Waiters(req, n) = {}
    BY <1>1 DEF Holders, Waiters
  <2>2. <<>> \in Seq(Ids) /\ \A R : Ordered(<<>>, R)
    BY DEF Ordered
  <2>3. QED
    BY <1>4, <2>1, <2>2 DEF Agrees
<1>6. Sound(locks)
  BY <1>2, <1>3, <1>5 DEF Sound
<1>7. Idle
  <2>1. \A n \in Names : Grantees(req, <<>>, <<>>) = {}
    BY DEF Grantees
  <2>2. QED
    BY <1>2, <2>1, GrantedIsGrantees DEF Idle
<1>8. Typed
  <2>1. 1 \in 1 .. MaxRequests + 1
    BY RequestsAssumption
  <2>2. <<>> \in Seq(Notes)
    OBVIOUS
  <2>3. QED
    BY <2>1, <2>2 DEF Init, Typed
<1>9. Entries /\ Closing /\ Notices
  <2>1. \A c \in Clients : tasks[c] = <<>>
    BY DEF Init
  <2>2. Notices
    BY <1>4, <2>1 DEF Init, Notices, Thefts
  <2>3. QED
    BY <1>1, <1>2, <2>2 DEF Init, Entries, Closing
<1>10. QED
  BY <1>6, <1>7, <1>8, <1>9 DEF IInv

\* A change of the table that leaves holders, waiters and modes alone.
LEMMA TableFrame ==
    ASSUME NEW m, Sound(m), \A k \in Names : Granted(m, k) = {}, NEW t \in Table,
           NEW w, w = [m EXCEPT !.requests = t],
           \A k \in Names : Same(m.requests, t, k)
    PROVE  Sound(w) /\ w.requests = t /\ \A k \in Names : Granted(w, k) = {}
<1>1. m \in Managers
  BY DEF Sound
<1>2. w \in Managers /\ w.requests = t /\ w.held = m.held /\ w.pending = m.pending
  BY <1>1 DEF Managers
<1>3. ASSUME NEW k \in Names
      PROVE  /\ Agrees(t, m.held[k], m.pending[k], k)
             /\ Grantees(t, m.held[k], m.pending[k]) = {}
  <2>1. PICK req, h, p : req = m.requests /\ h = m.held[k] /\ p = m.pending[k]
    OBVIOUS
  <2>2. Agrees(req, h, p, k)
    BY <2>1 DEF Sound
  <2>3. Grantees(req, h, p) = {}
    BY <2>1, GrantedIsGrantees
  <2>4. Same(req, t, k)
    BY <2>1
  <2>5. Agrees(t, h, p, k) /\ Grantees(t, h, p) = Grantees(req, h, p)
    BY <2>2, <2>4, AgreesFrame
  <2>6. QED
    BY <2>1, <2>3, <2>5
<1>4. QED
  BY <1>2, <1>3, GrantedIsGrantees DEF Sound

\* Notices of theft stay true when the table moves.
LEMMA MovesKeepThefts ==
    ASSUME NEW req, NEW new, NEW D \in SUBSET Ids, Moves(req, new, D), NEW nxt,
           NEW S \in SUBSET Notes, Thefts(req, nxt, S)
    PROVE  Thefts(new, nxt, S)
<1>1. SUFFICES ASSUME NEW q \in S, q.kind = "stolen"
               PROVE  q.id < nxt /\ (new[q.id] = None \/ new[q.id].state = "stolen")
  BY DEF Thefts
<1>2. q.id \in Ids /\ q.id < nxt /\ (req[q.id] = None \/ req[q.id].state = "stolen")
  BY <1>1 DEF Thefts, Notes
<1>3. CASE q.id \in D
  BY <1>2, <1>3 DEF Moves
<1>4. CASE q.id \notin D
  BY <1>2, <1>4 DEF Moves
<1>5. QED
  BY <1>3, <1>4

\* flush_web_lock_notifications moves notifications and makes none.
LEMMA FlushFacts ==
    ASSUME NEW queued \in Seq(Notes), NEW reg, NEW busy, Flush(queued, reg, busy),
           tasks \in [Clients -> Seq(Notes)]
    PROVE  /\ notes' \in Seq(Notes) /\ ToSet(notes') \subseteq ToSet(queued)
           /\ tasks' \in [Clients -> Seq(Notes)]
           /\ \A c \in Clients : ToSet(tasks'[c]) \subseteq ToSet(tasks[c]) \cup ToSet(queued)
<1>1. notes' \in Seq(Notes) /\ ToSet(notes') \subseteq ToSet(queued)
  BY KeepFacts DEF Flush
<1>2. ASSUME NEW c \in Clients
      PROVE  /\ tasks'[c] \in Seq(Notes)
             /\ ToSet(tasks'[c]) \subseteq ToSet(tasks[c]) \cup ToSet(queued)
  <2>1. PICK more : more = Keep(queued, NotesFor({c} \cap (reg \ busy)))
    OBVIOUS
  <2>2. more \in Seq(Notes) /\ ToSet(more) \subseteq ToSet(queued)
    BY <2>1, KeepFacts
  <2>3. tasks'[c] = tasks[c] \o more
    BY <2>1 DEF Flush
  <2>4. tasks[c] \in Seq(Notes)
    OBVIOUS
  <2>5. tasks[c] \o more \in Seq(Notes) /\ ToSet(tasks[c] \o more) = ToSet(tasks[c]) \cup ToSet(more)
    BY <2>2, <2>4, ConcatOrder
  <2>6. QED
    BY <2>2, <2>3, <2>5
<1>3. tasks' \in [Clients -> Seq(Notes)]
  <2>1. tasks' = [c \in Clients |-> tasks'[c]]
    BY DEF Flush
  <2>2. QED
    BY <1>2, <2>1
<1>4. QED
  BY <1>1, <1>2, <1>3

\* The notifications of a sequence are notifications.
LEMMA ElementsAreNotes ==
    ASSUME NEW s \in Seq(Notes) PROVE ToSet(s) \in SUBSET Notes
  BY DEF ToSet

-----------------------------------------------------------------------------
(* The steps. *)

\* The table after a step that makes no request.
Moved == \E D \in SUBSET Ids : Moves(locks.requests, locks'.requests, D)

\* startWebLockRequest
LEMMA StartFacts ==
    ASSUME IInv, NEW i \in Ids, StartRequest(i), next' = next
    PROVE  /\ Sound(locks)' /\ Idle' /\ Entries' /\ Moved
           /\ entries' \in [Ids -> {"none", "waiting", "started"}]
           /\ \A j \in Ids : locks.requests[j] # None /\ locks'.requests[j] = None => j = i
<1>1. PICK m : m = locks
  OBVIOUS
<1>2. PICK req : req = m.requests
  OBVIOUS
<1>3. Sound(m) /\ (\A k \in Names : Granted(m, k) = {}) /\ m \in Managers /\ req \in Table
  BY <1>1, <1>2 DEF IInv, Sound, Idle, Managers
<1>4. /\ entries \in [Ids -> {"none", "waiting", "started"}]
      /\ \A j \in Ids : (entries[j] # "none" <=> req[j] # None) /\ (req[j] # None => j < next)
  BY <1>1, <1>2 DEF IInv, Typed, Entries
<1>5. CASE UNCHANGED <<locks, entries>>
  <2>1. Moves(req, req, {})
    BY DEF Moves
  <2>2. QED
    BY <1>1, <1>2, <1>4, <1>5, <2>1 DEF IInv, Sound, Idle, Entries, Moved
<1>6. CASE /\ req[i] # None /\ req[i].state \in {"granted", "held"}
           /\ locks' = [locks EXCEPT !.requests[i].state = "held"]
           /\ entries' = [entries EXCEPT ![i] = "started"]
  <2>1. PICK r : r = [req[i] EXCEPT !.state = "held"]
    OBVIOUS
  <2>2. PICK t : t = [req EXCEPT ![i] = r]
    OBVIOUS
  <2>3. req[i] \in Requests
    BY <1>3, <1>6 DEF Table
  <2>4. /\ r \in Requests /\ r.state = "held" /\ r.name = req[i].name /\ r.mode = req[i].mode
        /\ r.client = req[i].client
    BY <2>1, <2>3 DEF Requests
  <2>5. r # None
    BY <2>4, NoneAssumption
  <2>6. t \in Table /\ t[i] = r /\ \A j \in Ids \ {i} : t[j] = req[j]
    BY <1>3, <2>2, <2>4 DEF Table
  <2>7. locks' = [m EXCEPT !.requests = t]
    BY <1>1, <1>2, <1>3, <1>6, <2>1, <2>2 DEF Managers
  <2>8. ASSUME NEW k \in Names
        PROVE  Same(req, t, k)
    <3>1. Holders(t, k) = Holders(req, k)
      BY <1>6, <2>4, <2>5, <2>6 DEF Holders
    <3>2. Waiters(t, k) = Waiters(req, k)
      BY <1>6, <2>4, <2>5, <2>6 DEF Waiters
    <3>3. \A j \in Ids : t[j].mode = req[j].mode
      BY <2>4, <2>6
    <3>4. QED
      BY <3>1, <3>2, <3>3 DEF Holders, Waiters, Same
  <2>9. Sound(locks') /\ locks'.requests = t /\ \A k \in Names : Granted(locks', k) = {}
    BY <1>2, <1>3, <2>6, <2>7, <2>8, TableFrame
  <2>10. Moves(req, t, {})
    BY <1>6, <2>4, <2>5, <2>6 DEF Moves
  <2>11. Entries'
    BY <1>4, <1>6, <2>5, <2>6, <2>9 DEF Entries
  <2>12. QED
    BY <1>1, <1>2, <1>4, <1>6, <2>5, <2>6, <2>9, <2>10, <2>11 DEF Idle, Moved
<1>7. CASE /\ req[i] # None /\ req[i].state = "stolen"
           /\ locks' = [locks EXCEPT !.requests[i] = None]
           /\ entries' = [entries EXCEPT ![i] = "none"]
  <2>1. PICK t : t = [req EXCEPT ![i] = None]
    OBVIOUS
  <2>2. t \in Table /\ t[i] = None /\ \A j \in Ids \ {i} : t[j] = req[j]
    BY <1>3, <2>1 DEF Table
  <2>3. locks' = [m EXCEPT !.requests = t]
    BY <1>1, <1>2, <1>3, <1>7, <2>1 DEF Managers
  <2>4. ASSUME NEW k \in Names
        PROVE  Same(req, t, k)
    BY <1>7, <2>2 DEF Holders, Waiters, Same
  <2>5. Sound(locks') /\ locks'.requests = t /\ \A k \in Names : Granted(locks', k) = {}
    BY <1>2, <1>3, <2>2, <2>3, <2>4, TableFrame
  <2>6. Moves(req, t, {i})
    BY <2>2 DEF Moves
  <2>7. Entries'
    BY <1>4, <1>7, <2>2, <2>5 DEF Entries
  <2>8. QED
    BY <1>1, <1>2, <1>4, <1>7, <2>2, <2>5, <2>6, <2>7 DEF Idle, Moved
<1>8. QED
  <2>1. State(i) = IF req[i] # None THEN req[i].state ELSE "missing"
    BY <1>1, <1>2 DEF State, Exists
  <2>2. req[i] # None => req[i].state \in {"pending", "granted", "held", "stolen"}
    BY <1>3 DEF Table, Requests
  <2>3. CASE entries[i] # "waiting"
    BY <1>5, <2>3 DEF StartRequest
  <2>4. CASE entries[i] = "waiting" /\ State(i) \in {"granted", "held"}
    BY <1>1, <1>6, <2>1, <2>4 DEF StartRequest
  <2>5. CASE entries[i] = "waiting" /\ State(i) = "stolen"
    BY <1>1, <1>7, <2>1, <2>5 DEF StartRequest
  <2>6. CASE entries[i] = "waiting" /\ State(i) \in {"pending", "missing"}
    BY <1>5, <2>6 DEF StartRequest
  <2>7. QED
    BY <2>1, <2>2, <2>3, <2>4, <2>5, <2>6

\* Notices of theft stay true in the next state.
LEMMA NoticesMove ==
    ASSUME IInv, Moved, next' = next, notes' \in Seq(Notes),
           tasks' \in [Clients -> Seq(Notes)], NEW S \in SUBSET Notes,
           \A q \in S : q.kind = "granted",
           ToSet(notes') \subseteq ToSet(notes) \cup S,
           \A c \in Clients : ToSet(tasks'[c]) \subseteq ToSet(tasks[c]) \cup ToSet(notes) \cup S
    PROVE  Notices'
<1>1. PICK D \in SUBSET Ids : Moves(locks.requests, locks'.requests, D)
  BY DEF Moved
<1>2. /\ ToSet(notes) \in SUBSET Notes
      /\ \A c \in Clients : ToSet(tasks[c]) \in SUBSET Notes
  BY ElementsAreNotes DEF IInv, Typed
<1>3. /\ Thefts(locks'.requests, next, ToSet(notes))
      /\ \A c \in Clients : Thefts(locks'.requests, next, ToSet(tasks[c]))
  BY <1>1, <1>2, MovesKeepThefts DEF IInv, Notices
<1>4. Thefts(locks'.requests, next, S)
  BY DEF Thefts
<1>5. Thefts(locks'.requests, next, ToSet(notes'))
  BY <1>3, <1>4 DEF Thefts
<1>6. ASSUME NEW c \in Clients
      PROVE  Thefts(locks'.requests, next, ToSet(tasks'[c]))
  BY <1>3, <1>4 DEF Thefts
<1>7. QED
  BY <1>5, <1>6 DEF Notices

LEMMA RunMicrotaskStep ==
    ASSUME IInv, NEW i \in Ids, closing = {}, RunMicrotask(i) PROVE IInv' /\ Moved
<1>1. /\ StartRequest(i) /\ microtasks' = microtasks \ {i}
      /\ UNCHANGED <<next, registered, notes, tasks, abortable, alive, closing>>
  BY DEF RunMicrotask
<1>2. /\ Sound(locks)' /\ Idle' /\ Entries' /\ Moved
      /\ entries' \in [Ids -> {"none", "waiting", "started"}]
  BY <1>1, StartFacts
<1>3. Typed'
  BY <1>1, <1>2 DEF IInv, Typed
<1>4. Notices'
  <2>1. notes' \in Seq(Notes) /\ tasks' \in [Clients -> Seq(Notes)]
    BY <1>3 DEF Typed
  <2>2. {} \in SUBSET Notes /\ \A q \in {} : q.kind = "granted"
    OBVIOUS
  <2>3. QED
    BY <1>1, <1>2, <2>1, <2>2, NoticesMove
<1>5. QED
  BY <1>1, <1>2, <1>3, <1>4 DEF IInv, Closing

\* Task::WebLock
LEMMA RunTaskStep ==
    ASSUME IInv, NEW c \in Clients, closing = {}, RunTask(c) PROVE IInv' /\ Moved
<1>1. PICK task : task = Head(tasks[c])
  OBVIOUS
<1>2. /\ tasks[c] # <<>> /\ tasks' = [tasks EXCEPT ![c] = Tail(@)]
      /\ \/ task.kind = "granted" /\ StartRequest(task.id)
         \/ task.kind = "stolen" /\ entries[task.id] = "none" /\ UNCHANGED <<locks, entries>>
         \/ /\ task.kind = "stolen" /\ entries[task.id] # "none"
            /\ entries' = [entries EXCEPT ![task.id] = "none"]
            /\ locks' = IF State(task.id) = "stolen"
                        THEN [locks EXCEPT !.requests[task.id] = None] ELSE locks
      /\ UNCHANGED <<next, registered, notes, microtasks, abortable, alive, closing>>
  BY <1>1 DEF RunTask
<1>3. tasks \in [Clients -> Seq(Notes)] /\ tasks[c] \in Seq(Notes)
  BY DEF IInv, Typed
<1>4. /\ Tail(tasks[c]) \in Seq(Notes) /\ task \in ToSet(tasks[c])
      /\ ToSet(Tail(tasks[c])) \subseteq ToSet(tasks[c])
  BY <1>1, <1>2, <1>3, TailOrder
<1>5. task \in Notes /\ task.id \in Ids
  <2>1. task \in Notes
    BY <1>3, <1>4, ElementsAreNotes
  <2>2. QED
    BY <2>1 DEF Notes
<1>6. PICK i \in Ids : i = task.id
  BY <1>5
<1>7. /\ Sound(locks)' /\ Idle' /\ Entries' /\ Moved
      /\ entries' \in [Ids -> {"none", "waiting", "started"}]
  <2>1. CASE StartRequest(i)
    BY <1>2, <2>1, StartFacts
  <2>2. CASE UNCHANGED <<locks, entries>>
    <3>1. Moves(locks.requests, locks.requests, {})
      BY DEF Moves
    <3>2. QED
      BY <1>2, <2>2, <3>1 DEF IInv, Sound, Idle, Entries, Moved, Typed
  <2>3. CASE /\ task.kind = "stolen" /\ entries[i] # "none"
             /\ entries' = [entries EXCEPT ![i] = "none"]
             /\ locks' = IF State(i) = "stolen" THEN [locks EXCEPT !.requests[i] = None] ELSE locks
    <3>1. PICK m, req : m = locks /\ req = m.requests
      OBVIOUS
    <3>2. Sound(m) /\ (\A k \in Names : Granted(m, k) = {}) /\ m \in Managers /\ req \in Table
      BY <3>1 DEF IInv, Sound, Idle, Managers
    <3>3. /\ entries \in [Ids -> {"none", "waiting", "started"}]
          /\ \A j \in Ids : (entries[j] # "none" <=> req[j] # None) /\ (req[j] # None => j < next)
      BY <3>1 DEF IInv, Typed, Entries
    <3>4. req[i] # None /\ req[i].state = "stolen"
      <4>1. req[i] # None
        BY <2>3, <3>3
      <4>2. Thefts(req, next, ToSet(tasks[c]))
        BY <3>1 DEF IInv, Notices
      <4>3. QED
        BY <1>4, <1>6, <2>3, <4>1, <4>2 DEF Thefts
    <3>5. locks' = [m EXCEPT !.requests[i] = None]
      BY <2>3, <3>1, <3>4 DEF State, Exists
    <3>6. PICK t : t = [req EXCEPT ![i] = None]
      OBVIOUS
    <3>7. t \in Table /\ t[i] = None /\ \A j \in Ids \ {i} : t[j] = req[j]
      BY <3>2, <3>6 DEF Table
    <3>8. locks' = [m EXCEPT !.requests = t]
      BY <3>1, <3>2, <3>5, <3>6 DEF Managers
    <3>9. ASSUME NEW k \in Names
          PROVE  Same(req, t, k)
      BY <3>4, <3>7 DEF Holders, Waiters, Same
    <3>10. Sound(locks') /\ locks'.requests = t /\ \A k \in Names : Granted(locks', k) = {}
      BY <3>1, <3>2, <3>7, <3>8, <3>9, TableFrame
    <3>11. Moves(req, t, {i})
      BY <3>7 DEF Moves
    <3>12. Entries'
      <4>1. next' = next /\ entries' = [entries EXCEPT ![i] = "none"]
        BY <1>2, <2>3
      <4>2. QED
        BY <3>3, <3>7, <3>10, <4>1 DEF Entries
    <3>13. QED
      BY <2>3, <3>1, <3>3, <3>10, <3>11, <3>12 DEF Idle, Moved
  <2>4. QED
    BY <1>2, <1>6, <2>1, <2>2, <2>3
<1>8. Typed'
  <2>1. tasks' \in [Clients -> Seq(Notes)]
    BY <1>2, <1>3, <1>4
  <2>2. QED
    BY <1>2, <1>7, <2>1 DEF IInv, Typed
<1>9. Notices'
  <2>1. notes' \in Seq(Notes) /\ tasks' \in [Clients -> Seq(Notes)]
    BY <1>8 DEF Typed
  <2>2. {} \in SUBSET Notes /\ \A q \in {} : q.kind = "granted"
    OBVIOUS
  <2>3. \A d \in Clients : ToSet(tasks'[d]) \subseteq ToSet(tasks[d]) \cup ToSet(notes) \cup {}
    BY <1>2, <1>3, <1>4
  <2>4. QED
    BY <1>2, <1>7, <2>1, <2>2, <2>3, NoticesMove
<1>10. QED
  BY <1>2, <1>7, <1>8, <1>9 DEF IInv, Closing

\* A request is removed from the manager and from its page.
LEMMA RemovedFacts ==
    ASSUME IInv, NEW i \in Ids, locks.requests[i] # None,
           NEW r, r = RemoveRequest(locks, i), locks' = r.locks,
           entries' = [entries EXCEPT ![i] = "none"], next' = next
    PROVE  /\ Sound(locks)' /\ Idle' /\ Entries' /\ Moved
           /\ entries' \in [Ids -> {"none", "waiting", "started"}]
           /\ r.notes \in Seq(Notes) /\ \A q \in ToSet(r.notes) : q.kind = "granted"
           /\ \A j \in Ids \ {i} : locks.requests[j] # None => locks'.requests[j] # None
<1>1. PICK m : m = locks
  OBVIOUS
<1>2. Sound(m) /\ \A k \in Names : Granted(m, k) = {}
  BY <1>1 DEF IInv, Idle
<1>3. m.requests[i] # None /\ r = RemoveRequest(m, i)
  BY <1>1
<1>4. Outcome(m, r, {i})
  BY <1>2, <1>3, RemoveFacts
<1>5. Moves(locks.requests, locks'.requests, {i})
  BY <1>1, <1>4 DEF Outcome
<1>6. Sound(locks') /\ \A k \in Names : Granted(locks', k) = {}
  BY <1>4 DEF Outcome
<1>7. /\ entries \in [Ids -> {"none", "waiting", "started"}]
      /\ \A j \in Ids : /\ entries[j] # "none" <=> locks.requests[j] # None
                        /\ locks.requests[j] # None => j < next
  BY DEF IInv, Typed, Entries
<1>8. /\ locks'.requests[i] = None
      /\ \A j \in Ids \ {i} : locks.requests[j] # None <=> locks'.requests[j] # None
  BY <1>5 DEF Moves
<1>9. Entries'
  BY <1>7, <1>8 DEF Entries
<1>10. {i} \in SUBSET Ids
  OBVIOUS
<1>11. QED
  BY <1>4, <1>5, <1>6, <1>7, <1>8, <1>9, <1>10 DEF Idle, Moved, Outcome

LEMMA RemoveOwnStep ==
    ASSUME IInv, NEW i \in Ids, RemoveOwn(i) PROVE IInv' /\ Moved
<1>1. PICK r : r = RemoveRequest(locks, i)
  OBVIOUS
<1>2. /\ i \in closing /\ closing' = closing \ {i} /\ locks' = r.locks
      /\ notes' = notes \o r.notes /\ entries' = [entries EXCEPT ![i] = "none"]
      /\ UNCHANGED <<next, registered, tasks, microtasks, abortable, alive>>
  BY <1>1 DEF RemoveOwn
<1>3. locks.requests[i] # None
  BY <1>2 DEF IInv, Closing
<1>4. /\ Sound(locks)' /\ Idle' /\ Entries' /\ Moved
      /\ entries' \in [Ids -> {"none", "waiting", "started"}]
      /\ r.notes \in Seq(Notes) /\ \A q \in ToSet(r.notes) : q.kind = "granted"
      /\ \A j \in Ids \ {i} : locks.requests[j] # None => locks'.requests[j] # None
  BY <1>1, <1>2, <1>3, RemovedFacts
<1>5. notes \in Seq(Notes) /\ notes \o r.notes \in Seq(Notes)
      /\ ToSet(notes \o r.notes) = ToSet(notes) \cup ToSet(r.notes)
  BY <1>4, ConcatOrder DEF IInv, Typed
<1>6. Typed'
  BY <1>2, <1>4, <1>5 DEF IInv, Typed
<1>7. Closing'
  BY <1>2, <1>4 DEF IInv, Closing, Typed
<1>8. Notices'
  <2>1. ToSet(r.notes) \in SUBSET Notes
    BY <1>4, ElementsAreNotes
  <2>2. tasks' \in [Clients -> Seq(Notes)] /\ notes' \in Seq(Notes)
    BY <1>6 DEF Typed
  <2>3. QED
    BY <1>2, <1>4, <1>5, <2>1, <2>2, NoticesMove
<1>9. QED
  BY <1>4, <1>6, <1>7, <1>8 DEF IInv

LEMMA DropStep ==
    ASSUME IInv, NEW i \in Ids, locks.requests[i] # None, closing = {}, Drop(i)
    PROVE  IInv' /\ Moved
<1>1. PICK r : r = RemoveRequest(locks, i)
  OBVIOUS
<1>2. PICK busy : /\ locks' = r.locks /\ entries' = [entries EXCEPT ![i] = "none"]
                  /\ Flush(notes \o r.notes, registered, busy)
                  /\ UNCHANGED <<next, registered, microtasks, abortable, alive, closing>>
  BY <1>1 DEF Drop
<1>3. /\ Sound(locks)' /\ Idle' /\ Entries' /\ Moved
      /\ entries' \in [Ids -> {"none", "waiting", "started"}]
      /\ r.notes \in Seq(Notes) /\ \A q \in ToSet(r.notes) : q.kind = "granted"
  BY <1>1, <1>2, RemovedFacts
<1>4. notes \in Seq(Notes) /\ notes \o r.notes \in Seq(Notes)
      /\ ToSet(notes \o r.notes) = ToSet(notes) \cup ToSet(r.notes)
  BY <1>3, ConcatOrder DEF IInv, Typed
<1>5. /\ notes' \in Seq(Notes) /\ ToSet(notes') \subseteq ToSet(notes \o r.notes)
      /\ tasks' \in [Clients -> Seq(Notes)]
      /\ \A c \in Clients : ToSet(tasks'[c]) \subseteq ToSet(tasks[c]) \cup ToSet(notes \o r.notes)
  BY <1>2, <1>4, FlushFacts DEF IInv, Typed
<1>6. Typed'
  BY <1>2, <1>3, <1>5 DEF IInv, Typed
<1>7. Closing'
  BY <1>2 DEF Closing
<1>8. Notices'
  <2>1. ToSet(r.notes) \in SUBSET Notes
    BY <1>3, ElementsAreNotes
  <2>2. /\ ToSet(notes') \subseteq ToSet(notes) \cup ToSet(r.notes)
        /\ \A c \in Clients :
              ToSet(tasks'[c]) \subseteq ToSet(tasks[c]) \cup ToSet(notes) \cup ToSet(r.notes)
    BY <1>4, <1>5
  <2>3. QED
    BY <1>2, <1>3, <1>5, <2>1, <2>2, NoticesMove
<1>9. QED
  BY <1>3, <1>6, <1>7, <1>8 DEF IInv

LEMMA FlushNotificationsStep ==
    ASSUME IInv, NEW busy, FlushNotifications(busy) PROVE IInv' /\ Moved
<1>1. Flush(notes, registered, busy)
      /\ UNCHANGED <<locks, next, registered, entries, abortable, microtasks, alive, closing>>
  BY DEF FlushNotifications, pageVars
<1>2. notes \in Seq(Notes) /\ tasks \in [Clients -> Seq(Notes)]
  BY DEF IInv, Typed
<1>3. /\ notes' \in Seq(Notes) /\ ToSet(notes') \subseteq ToSet(notes)
      /\ tasks' \in [Clients -> Seq(Notes)]
      /\ \A c \in Clients : ToSet(tasks'[c]) \subseteq ToSet(tasks[c]) \cup ToSet(notes)
  BY <1>1, <1>2, FlushFacts
<1>4. Moved
  <2>1. Moves(locks.requests, locks.requests, {})
    BY DEF Moves
  <2>2. QED
    BY <1>1, <2>1 DEF Moved
<1>5. Notices'
  <2>1. {} \in SUBSET Notes /\ \A q \in {} : q.kind = "granted"
    OBVIOUS
  <2>2. QED
    BY <1>1, <1>3, <1>4, <2>1, NoticesMove
<1>6. QED
  BY <1>1, <1>3, <1>4, <1>5 DEF IInv, Typed, Idle, Entries, Closing

\* unregister_web_lock_client, before its loop
LEMMA DestroyDocumentStep ==
    ASSUME IInv, NEW c \in Clients, DestroyDocument(c) PROVE IInv' /\ Moved
<1>1. /\ alive' = alive \ {c} /\ registered' = registered \ {c}
      /\ closing' = {i \in Ids : Exists(i) /\ locks.requests[i].client = c}
      /\ tasks' = [tasks EXCEPT ![c] = <<>>] /\ microtasks' = microtasks \ closing'
      /\ UNCHANGED <<locks, next, notes, entries, abortable>>
  BY DEF DestroyDocument
<1>2. notes \in Seq(Notes) /\ tasks \in [Clients -> Seq(Notes)]
  BY DEF IInv, Typed
<1>3. /\ tasks' \in [Clients -> Seq(Notes)]
      /\ \A d \in Clients : ToSet(tasks'[d]) \subseteq ToSet(tasks[d])
  <2>1. <<>> \in Seq(Notes) /\ ToSet(<<>>) = {}
    BY DEF ToSet
  <2>2. QED
    BY <1>1, <1>2, <2>1
<1>4. Moved
  <2>1. Moves(locks.requests, locks.requests, {})
    BY DEF Moves
  <2>2. QED
    BY <1>1, <2>1 DEF Moved
<1>5. Notices'
  <2>1. {} \in SUBSET Notes /\ \A q \in {} : q.kind = "granted"
    OBVIOUS
  <2>2. QED
    BY <1>1, <1>2, <1>3, <1>4, <2>1, NoticesMove
<1>6. Closing' /\ closing' \subseteq Ids
  BY <1>1 DEF Closing, Exists
<1>7. QED
  BY <1>1, <1>3, <1>4, <1>5, <1>6 DEF IInv, Typed, Idle, Entries

\* The table of a manager that enters a request id for the name n: nothing but
\* holders of n changes, and those are stolen.
Enters(req, t, id, n) ==
    \A j \in Ids \ {id} :
        \/ t[j] = req[j]
        \/ /\ req[j] # None /\ t[j] # None /\ req[j].name = n
           /\ t[j].name = n /\ t[j].state = "stolen"

\* A request r with number id is entered for the name n, with the new table t and
\* the new lists h and p.
Entered(m, n, id, r, t, h, p) ==
    /\ t \in Table /\ h \in Seq(Ids) /\ p \in Seq(Ids) /\ t[id] = r
    /\ Agrees(t, h, p, n) /\ Grantees(t, h, p) = {}
    /\ Enters(m.requests, t, id, n)

LEMMA EnteredFacts ==
    ASSUME NEW m, Sound(m), \A k \in Names : Granted(m, k) = {}, NEW n \in Names,
           NEW id \in Ids, m.requests[id] = None, NEW r \in Requests, r.name = n,
           NEW t, NEW h, NEW p, Entered(m, n, id, r, t, h, p),
           NEW w, w = Updated(m, n, t, h, p)
    PROVE  /\ Sound(w) /\ (\A k \in Names : Granted(w, k) = {})
           /\ w.requests = t /\ w.held[n] = h
<1>1. /\ m \in Managers /\ t \in Table /\ h \in Seq(Ids) /\ p \in Seq(Ids) /\ t[id] = r
      /\ Agrees(t, h, p, n) /\ Grantees(t, h, p) = {}
  BY DEF Entered, Sound
<1>2. Updates(w, m, n, t, h, p)
  <2>1. m \in Managers /\ t \in Table /\ h \in Seq(Ids) /\ p \in Seq(Ids)
    BY <1>1
  <2>2. QED
    BY <2>1, UpdatedFacts, Zenon
<1>3. ASSUME NEW k \in Names, k # n
      PROVE  Agrees(t, m.held[k], m.pending[k], k) /\ Grantees(t, m.held[k], m.pending[k]) = {}
  <2>1. PICK req, a, b : req = m.requests /\ a = m.held[k] /\ b = m.pending[k]
    OBVIOUS
  <2>2. Agrees(req, a, b, k)
    BY <2>1 DEF Sound
  <2>3. Grantees(req, a, b) = {}
    BY <2>1, GrantedIsGrantees
  <2>4. \A j \in Ids : \/ t[j] = req[j]
                       \/ /\ req[j] # None => req[j].name # k
                          /\ t[j] # None => t[j].name # k
    BY <1>1, <1>3, <2>1 DEF Entered, Enters
  <2>5. Same(req, t, k)
    <3>1. Holders(t, k) = Holders(req, k)
      BY <2>4 DEF Holders
    <3>2. Waiters(t, k) = Waiters(req, k)
      BY <2>4 DEF Waiters
    <3>3. \A j \in Holders(req, k) \cup Waiters(req, k) : t[j].mode = req[j].mode
      BY <2>4 DEF Holders, Waiters
    <3>4. QED
      BY <3>1, <3>2, <3>3 DEF Same
  <2>6. Agrees(t, a, b, k) /\ Grantees(t, a, b) = Grantees(req, a, b)
    BY <2>2, <2>5, AgreesFrame
  <2>7. QED
    BY <2>1, <2>3, <2>6
<1>4. \A k \in Names : Agrees(t, w.held[k], w.pending[k], k) /\ Grantees(t, w.held[k], w.pending[k]) = {}
  BY <1>1, <1>2, <1>3 DEF Updates
<1>5. QED
  BY <1>2, <1>4, GrantedIsGrantees DEF Updates, Sound

\* No request is granted while an older one of its name still waits, unless it
\* steals: what NoBarging says of a step.
InTurn ==
    \A i, j \in Ids :
        (i < j /\ State(i) = "pending" /\ State(i)' = "pending"
           /\ ~Holding(j) /\ Holding(j)'
           /\ locks'.requests[j].name = locks.requests[i].name)
          => locks'.held[locks.requests[i].name] = <<j>> /\ j = next
               /\ locks'.requests[j].mode = "exclusive"

LEMMA MovedInTurn ==
    ASSUME IInv, Moved PROVE InTurn
<1>1. PICK D \in SUBSET Ids : Moves(locks.requests, locks'.requests, D)
  BY DEF Moved
<1>2. PICK req, new : req = locks.requests /\ new = locks'.requests
  OBVIOUS
<1>3. Moves(req, new, D)
  BY <1>1, <1>2
<1>4. SUFFICES ASSUME NEW i \in Ids, NEW j \in Ids, i < j, State(i) = "pending",
                      State(i)' = "pending", ~Holding(j), Holding(j)',
                      new[j].name = req[i].name
               PROVE  FALSE
  BY <1>2 DEF InTurn
<1>5. req[i] # None /\ req[i].state = "pending" /\ new[i] # None /\ new[i].state = "pending"
  BY <1>2, <1>4 DEF State, Exists
<1>6. new[j] # None /\ new[j].state \in {"granted", "held"}
  BY <1>2, <1>4 DEF Holding, State, Exists
<1>7. ~(req[j] # None /\ req[j].state \in {"granted", "held"})
  BY <1>2, <1>4 DEF Holding, State, Exists
<1>8. i \in Ids \ D /\ j \in Ids \ D
  BY <1>3, <1>5, <1>6 DEF Moves
<1>9. /\ req[j] # None /\ new[j].name = req[j].name
      /\ req[j].state = "pending" /\ new[j].state = "granted"
  BY <1>3, <1>6, <1>7, <1>8 DEF Moves
<1>10. req[i].name = req[j].name
  BY <1>4, <1>9
<1>11. new[i].state = "granted"
  BY <1>3, <1>4, <1>5, <1>8, <1>9, <1>10 DEF Moves
<1>12. QED
  BY <1>5, <1>11

\* What a request adds to the queue of notifications, and what becomes of it.
Accepted(m, n, id, r, more) ==
    \E t, h, p :
        /\ locks' = Updated(m, n, t, h, p) /\ Entered(m, n, id, r, t, h, p)
        /\ more \in Seq(Notes) /\ Thefts(t, id + 1, ToSet(more))
        /\ r.state = "granted" => \/ m.pending[n] = <<>>
                                  \/ h = <<id>> /\ r.mode = "exclusive"

\* request_web_lock without steal
LEMMA RequestPlain ==
    ASSUME NEW m, m = locks, IInv, NEW c \in Clients, NEW n \in Names, NEW mode \in Modes,
           NEW id \in Ids, id = next, m.requests[id] = None,
           NEW granted \in BOOLEAN, granted <=> Grantable(n, mode),
           NEW r, r = [client |-> c, name |-> n, mode |-> mode,
                       state |-> IF granted THEN "granted" ELSE "pending"],
           NEW listed,
           listed = IF granted THEN [m EXCEPT !.held[n] = Append(@, id)]
                    ELSE [m EXCEPT !.pending[n] = Append(@, id)],
           locks' = [listed EXCEPT !.requests[id] = r]
    PROVE  Accepted(m, n, id, r, <<>>)
<1>1. PICK req, held, pend : req = m.requests /\ held = m.held[n] /\ pend = m.pending[n]
  OBVIOUS
<1>2. m \in Managers /\ req \in Table /\ Agrees(req, held, pend, n)
  BY <1>1 DEF IInv, Sound, Managers
<1>3. Grantees(req, held, pend) = {}
  BY <1>1, GrantedIsGrantees DEF IInv, Idle
<1>4. held \in Seq(Ids) /\ pend \in Seq(Ids)
  BY <1>2 DEF Agrees
<1>5. r \in Requests /\ r.name = n /\ r.mode = mode
  BY DEF Requests
<1>6. PICK t : t = [req EXCEPT ![id] = r]
  OBVIOUS
<1>7. t \in Table /\ t[id] = r /\ \A j \in Ids \ {id} : t[j] = req[j]
  BY <1>2, <1>5, <1>6 DEF Table
<1>8. Enters(req, t, id, n)
  BY <1>7 DEF Enters
<1>9. <<>> \in Seq(Notes) /\ Thefts(t, id + 1, ToSet(<<>>))
  BY DEF Thefts, ToSet
<1>10. granted <=> /\ pend = <<>>
                   /\ \/ held = <<>>
                      \/ mode = "shared" /\ \A i \in ToSet(held) : req[i].mode = "shared"
  BY <1>1 DEF Grantable, AllShared
<1>11. CASE granted
  <2>1. r.state = "granted"
    BY <1>11
  <2>2. Agrees(t, Append(held, id), pend, n) /\ Grantees(t, Append(held, id), pend) = {}
    BY <1>1, <1>2, <1>5, <1>6, <1>10, <1>11, <2>1, EnterHolder
  <2>3. Append(held, id) \in Seq(Ids)
    BY <1>4
  <2>4. locks' = Updated(m, n, t, Append(held, id), pend)
    BY <1>1, <1>2, <1>6, <1>11 DEF Updated, Managers
  <2>5. Entered(m, n, id, r, t, Append(held, id), pend)
    BY <1>1, <1>4, <1>7, <1>8, <2>2, <2>3 DEF Entered
  <2>6. QED
    BY <1>1, <1>9, <1>10, <1>11, <2>4, <2>5 DEF Accepted
<1>12. CASE ~granted
  <2>1. r.state = "pending"
    BY <1>12
  <2>2. \A i \in Ids : req[i] # None => i < id
    BY <1>1 DEF IInv, Entries
  <2>3. Agrees(t, held, Append(pend, id), n) /\ Grantees(t, held, Append(pend, id)) = {}
    BY <1>1, <1>2, <1>3, <1>5, <1>6, <1>10, <1>12, <2>1, <2>2, EnterWaiter
  <2>4. Append(pend, id) \in Seq(Ids)
    BY <1>4
  <2>5. locks' = Updated(m, n, t, held, Append(pend, id))
    BY <1>1, <1>2, <1>6, <1>12 DEF Updated, Managers
  <2>6. Entered(m, n, id, r, t, held, Append(pend, id))
    BY <1>1, <1>4, <1>7, <1>8, <2>3, <2>4 DEF Entered
  <2>7. QED
    BY <1>9, <2>1, <2>5, <2>6 DEF Accepted
<1>13. QED
  BY <1>11, <1>12

\* request_web_lock with steal
LEMMA RequestSteal ==
    ASSUME NEW m, m = locks, IInv, NEW c \in Clients, NEW n \in Names,
           NEW id \in Ids, id = next, m.requests[id] = None,
           NEW r, r = [client |-> c, name |-> n, mode |-> "exclusive", state |-> "granted"],
           NEW result, result = Steal(n),
           locks' = [result.locks EXCEPT !.requests[id] = r]
    PROVE  Accepted(m, n, id, r, result.notes)
<1>1. PICK req, held, pend : req = m.requests /\ held = m.held[n] /\ pend = m.pending[n]
  OBVIOUS
<1>2. m \in Managers /\ req \in Table /\ Agrees(req, held, pend, n)
  BY <1>1 DEF IInv, Sound, Managers
<1>3. /\ held \in Seq(Ids) /\ pend \in Seq(Ids) /\ ToSet(held) = Holders(req, n)
  BY <1>2 DEF Agrees
<1>4. r \in Requests /\ r.name = n /\ r.mode = "exclusive" /\ r.state = "granted"
  BY DEF Requests, Modes
<1>5. PICK old : old = [i \in Ids |-> IF i \in ToSet(held)
                           THEN [req[i] EXCEPT !.state = "stolen"] ELSE req[i]]
  OBVIOUS
<1>6. /\ result.locks = [m EXCEPT !.held[n] = <<id>>, !.requests = old]
      /\ result.notes = [k \in DOMAIN held |-> Note(m, held[k], "stolen")]
  BY <1>1, <1>5 DEF Steal
<1>7. \A i \in ToSet(held) : /\ i \in Ids /\ i # id /\ i < id /\ req[i] \in Requests
                             /\ req[i] # None /\ req[i].name = n
  <2>1. \A i \in Ids : req[i] # None => i < id /\ req[i] \in Requests
    BY <1>1, <1>2 DEF IInv, Entries, Table
  <2>2. QED
    BY <1>1, <1>3, <2>1 DEF Holders
<1>8. \A i \in ToSet(held) : old[i] \in Requests /\ old[i].name = n /\ old[i].state = "stolen"
  <2>1. SUFFICES ASSUME NEW i \in ToSet(held)
                 PROVE  old[i] \in Requests /\ old[i].name = n /\ old[i].state = "stolen"
    OBVIOUS
  <2>2. PICK q \in Requests : q = req[i]
    BY <1>7
  <2>3. old[i] = [q EXCEPT !.state = "stolen"] /\ q.name = n
    BY <1>5, <1>7, <2>2
  <2>4. QED
    BY <2>2, <2>3 DEF Requests
<1>9. \A i \in Ids \ ToSet(held) : old[i] = req[i]
  BY <1>5
<1>10. old \in Table
  <2>1. \A i \in Ids : old[i] \in Requests \cup {None}
    BY <1>2, <1>8, <1>9 DEF Table
  <2>2. old = [i \in Ids |-> old[i]]
    BY <1>5
  <2>3. QED
    BY <2>1, <2>2 DEF Table
<1>11. PICK t : t = [old EXCEPT ![id] = r]
  OBVIOUS
<1>12. t \in Table /\ t[id] = r /\ \A j \in Ids \ {id} : t[j] = old[j]
  BY <1>4, <1>10, <1>11 DEF Table
<1>13. Agrees(t, <<id>>, pend, n) /\ Grantees(t, <<id>>, pend) = {}
  <2>1. \A i \in ToSet(held) : t[i].state = "stolen"
    BY <1>7, <1>8, <1>12
  <2>2. \A i \in Ids \ ToSet(held) : i # id => t[i] = req[i]
    BY <1>9, <1>12
  <2>3. QED
    BY <1>1, <1>2, <1>4, <1>12, <2>1, <2>2, EnterThief
<1>14. Enters(req, t, id, n)
  BY <1>7, <1>8, <1>9, <1>12, NoneAssumption DEF Enters
<1>15. locks' = Updated(m, n, t, <<id>>, pend)
  BY <1>1, <1>2, <1>6, <1>11 DEF Updated, Managers
<1>16. <<id>> \in Seq(Ids)
  OBVIOUS
<1>17. Entered(m, n, id, r, t, <<id>>, pend)
  BY <1>1, <1>3, <1>12, <1>13, <1>14, <1>16 DEF Entered
<1>18. result.notes \in Seq(Notes) /\ Thefts(t, id + 1, ToSet(result.notes))
  <2>1. ASSUME NEW k \in DOMAIN held
        PROVE  /\ Note(m, held[k], "stolen") \in Notes
               /\ Note(m, held[k], "stolen").id \in ToSet(held)
    <3>1. held[k] \in ToSet(held) /\ held[k] \in Ids /\ req[held[k]] \in Requests
      BY <1>7, <2>1, InToSet
    <3>2. req[held[k]].client \in Clients
      BY <3>1 DEF Requests
    <3>3. QED
      BY <1>1, <3>1, <3>2 DEF Note, Notes
  <2>2. DOMAIN held = 1 .. Len(held) /\ Len(held) \in Nat
    BY <1>3
  <2>3. result.notes \in Seq(Notes) /\ DOMAIN result.notes = DOMAIN held
    BY <1>6, <2>1, <2>2
  <2>4. \A k \in DOMAIN result.notes : result.notes[k].id \in ToSet(held)
    BY <1>6, <2>1, <2>3
  <2>5. \A q \in ToSet(result.notes) : q.id \in ToSet(held)
    BY <2>4, InToSet
  <2>6. \A i \in ToSet(held) : i < id + 1 /\ t[i].state = "stolen"
    <3>1. id \in Nat /\ \A i \in Ids : i \in Nat
      BY DEF Ids
    <3>2. QED
      BY <1>7, <1>8, <1>12, <3>1
  <2>7. QED
    BY <2>3, <2>5, <2>6 DEF Thefts
<1>19. QED
  BY <1>4, <1>15, <1>17, <1>18 DEF Accepted

\* LockManager.request
LEMMA RequestStep ==
    ASSUME IInv, closing = {}, NEW c \in Clients, NEW n \in Names, NEW mode \in Modes,
           NEW ifAvailable \in BOOLEAN, NEW steal \in BOOLEAN,
           Request(c, n, mode, ifAvailable, steal)
    PROVE  IInv' /\ InTurn
<1>1. PICK m, id : m = locks /\ id = next
  OBVIOUS
<1>2. /\ id <= MaxRequests
      /\ steal => (mode = "exclusive" /\ ~ifAvailable)
      /\ next' = next + 1 /\ registered' = Registering(c)
      /\ entries' = [entries EXCEPT ![next] = "waiting"]
      /\ UNCHANGED <<alive, closing>>
  BY <1>1 DEF Request
<1>3. id \in Ids /\ next' \in 1 .. MaxRequests + 1
  BY <1>1, <1>2, RequestsAssumption DEF IInv, Typed, Ids
<1>4. m.requests[id] = None
  <2>1. m.requests[id] # None => id < id
    BY <1>1, <1>3 DEF IInv, Entries
  <2>2. id \in Nat
    BY <1>3 DEF Ids
  <2>3. QED
    BY <2>1, <2>2
<1>5. microtasks' \subseteq Ids
  <2>1. microtasks' = microtasks \cup {id} \/ microtasks' = microtasks
    BY <1>1 DEF Request
  <2>2. QED
    BY <1>3, <2>1 DEF IInv, Typed
<1>6. registered' \subseteq Clients
  BY <1>2 DEF Registering, IInv, Typed
<1>7. PICK r, more : /\ r \in Requests /\ r.name = n /\ Accepted(m, n, id, r, more)
                     /\ r.state \in {"granted", "pending"}
                     /\ \E busy : Flush(notes \o more, registered', busy)
  <2>1. CASE steal
    <3>1. PICK r : r = [client |-> c, name |-> n, mode |-> "exclusive", state |-> "granted"]
      OBVIOUS
    <3>2. PICK result : result = Steal(n)
      OBVIOUS
    <3>3. /\ locks' = [result.locks EXCEPT !.requests[id] = r]
          /\ \E busy : Flush(notes \o result.notes, registered', busy)
      BY <1>1, <1>2, <2>1, <3>1, <3>2 DEF Request
    <3>4. Accepted(m, n, id, r, result.notes)
      BY <1>1, <1>3, <1>4, <3>1, <3>2, <3>3, RequestSteal
    <3>5. r \in Requests /\ r.name = n /\ r.state \in {"granted", "pending"}
      BY <3>1 DEF Requests, Modes
    <3>6. QED
      BY <3>3, <3>4, <3>5
  <2>2. CASE ~steal
    <3>1. PICK granted \in BOOLEAN : granted <=> Grantable(n, mode)
      BY Zenon
    <3>2. PICK r : r = [client |-> c, name |-> n, mode |-> mode,
                        state |-> IF granted THEN "granted" ELSE "pending"]
      OBVIOUS
    <3>3. PICK listed : listed = IF granted THEN [m EXCEPT !.held[n] = Append(@, id)]
                                 ELSE [m EXCEPT !.pending[n] = Append(@, id)]
      OBVIOUS
    <3>4. /\ locks' = [listed EXCEPT !.requests[id] = r]
          /\ \E busy : Flush(notes \o <<>>, registered', busy)
      BY <1>1, <2>2, <3>1, <3>2, <3>3 DEF Request
    <3>5. Accepted(m, n, id, r, <<>>)
      BY <1>1, <1>3, <1>4, <3>1, <3>2, <3>3, <3>4, RequestPlain
    <3>6. r \in Requests /\ r.name = n /\ r.state \in {"granted", "pending"}
      BY <3>2 DEF Requests
    <3>7. QED
      BY <3>4, <3>5, <3>6
  <2>3. QED
    BY <2>1, <2>2
<1>8. PICK t, h, p :
         /\ locks' = Updated(m, n, t, h, p) /\ Entered(m, n, id, r, t, h, p)
         /\ more \in Seq(Notes) /\ Thefts(t, id + 1, ToSet(more))
         /\ r.state = "granted" => \/ m.pending[n] = <<>>
                                   \/ h = <<id>> /\ r.mode = "exclusive"
  BY <1>7 DEF Accepted
<1>9. Sound(m) /\ \A k \in Names : Granted(m, k) = {}
  BY <1>1 DEF IInv, Idle
<1>10. /\ Sound(locks') /\ (\A k \in Names : Granted(locks', k) = {})
       /\ locks'.requests = t /\ locks'.held[n] = h
  BY <1>3, <1>4, <1>7, <1>8, <1>9, EnteredFacts
<1>11. t[id] = r /\ r # None /\ Enters(m.requests, t, id, n)
  BY <1>7, <1>8, NoneAssumption DEF Entered
<1>12. PICK busy : Flush(notes \o more, registered', busy)
  BY <1>7
<1>13. notes \in Seq(Notes) /\ notes \o more \in Seq(Notes)
       /\ ToSet(notes \o more) = ToSet(notes) \cup ToSet(more)
  BY <1>8, ConcatOrder DEF IInv, Typed
<1>14. /\ notes' \in Seq(Notes) /\ ToSet(notes') \subseteq ToSet(notes \o more)
       /\ tasks' \in [Clients -> Seq(Notes)]
       /\ \A d \in Clients : ToSet(tasks'[d]) \subseteq ToSet(tasks[d]) \cup ToSet(notes \o more)
  BY <1>12, <1>13, FlushFacts DEF IInv, Typed
<1>15. Typed'
  BY <1>2, <1>3, <1>5, <1>6, <1>14 DEF IInv, Typed
<1>16. \A i \in Ids : i \in Nat
  BY DEF Ids
<1>17. Entries'
  <2>1. \A j \in Ids \ {id} : t[j] # None <=> m.requests[j] # None
    BY <1>11 DEF Enters
  <2>2. /\ entries \in [Ids -> {"none", "waiting", "started"}]
        /\ \A j \in Ids : /\ entries[j] # "none" <=> m.requests[j] # None
                          /\ m.requests[j] # None => j < id
    BY <1>1 DEF IInv, Typed, Entries
  <2>3. entries' = [entries EXCEPT ![id] = "waiting"] /\ next' = id + 1
    BY <1>1, <1>2
  <2>4. \A j \in Ids : /\ entries'[j] # "none" <=> t[j] # None
                       /\ t[j] # None => j < id + 1
    BY <1>3, <1>11, <1>16, <2>1, <2>2, <2>3
  <2>5. QED
    BY <1>10, <2>3, <2>4 DEF Entries
<1>18. Notices'
  <2>1. ASSUME NEW S \in SUBSET Notes, Thefts(m.requests, id, S)
        PROVE  Thefts(t, id + 1, S)
    <3>1. SUFFICES ASSUME NEW q \in S, q.kind = "stolen"
                   PROVE  q.id < id + 1 /\ (t[q.id] = None \/ t[q.id].state = "stolen")
      BY DEF Thefts
    <3>2. /\ q.id \in Ids /\ q.id < id
          /\ m.requests[q.id] = None \/ m.requests[q.id].state = "stolen"
      BY <2>1, <3>1 DEF Thefts, Notes
    <3>3. q.id # id /\ q.id < id + 1
      BY <1>3, <1>16, <3>2
    <3>4. QED
      BY <1>11, <3>2, <3>3 DEF Enters
  <2>2. /\ ToSet(notes) \in SUBSET Notes
        /\ \A d \in Clients : ToSet(tasks[d]) \in SUBSET Notes
    BY ElementsAreNotes DEF IInv, Typed
  <2>3. /\ Thefts(t, id + 1, ToSet(notes))
        /\ \A d \in Clients : Thefts(t, id + 1, ToSet(tasks[d]))
    BY <1>1, <2>1, <2>2 DEF IInv, Notices
  <2>4. Thefts(t, id + 1, ToSet(more))
    BY <1>8
  <2>5. Thefts(t, id + 1, ToSet(notes'))
    BY <1>13, <1>14, <2>3, <2>4 DEF Thefts
  <2>6. \A d \in Clients : Thefts(t, id + 1, ToSet(tasks'[d]))
    BY <1>13, <1>14, <2>3, <2>4 DEF Thefts
  <2>7. QED
    BY <1>1, <1>2, <1>10, <2>5, <2>6 DEF Notices
<1>19. InTurn
  <2>1. SUFFICES ASSUME NEW i \in Ids, NEW j \in Ids, i < j, State(i) = "pending",
                        State(i)' = "pending", ~Holding(j), Holding(j)',
                        t[j].name = m.requests[i].name
                 PROVE  locks'.held[m.requests[i].name] = <<j>> /\ j = id /\ t[j].mode = "exclusive"
    BY <1>1, <1>10 DEF InTurn
  <2>2. m.requests[i] # None /\ m.requests[i].state = "pending"
    BY <1>1, <2>1 DEF State, Exists
  <2>3. t[j] # None /\ t[j].state \in {"granted", "held"}
    BY <1>10, <2>1 DEF Holding, State, Exists
  <2>4. ~(m.requests[j] # None /\ m.requests[j].state \in {"granted", "held"})
    BY <1>1, <2>1 DEF Holding, State, Exists
  <2>5. j = id
    BY <1>11, <2>3, <2>4 DEF Enters
  <2>6. r.state = "granted" /\ m.requests[i].name = n
    BY <1>7, <1>11, <2>1, <2>3, <2>5
  <2>7. m.pending[n] # <<>>
    <3>1. i \in Waiters(m.requests, n)
      BY <2>2, <2>6 DEF Waiters
    <3>2. ToSet(m.pending[n]) = Waiters(m.requests, n)
      BY <1>9 DEF Sound, Agrees
    <3>3. ToSet(<<>>) = {}
      BY DEF ToSet
    <3>4. QED
      BY <3>1, <3>2, <3>3
  <2>8. QED
    BY <1>8, <1>10, <1>11, <2>5, <2>6, <2>7
<1>20. QED
  BY <1>2, <1>10, <1>15, <1>17, <1>18, <1>19 DEF IInv, Idle, Closing

LEMMA IInvStep == IInv /\ [Next]_vars => IInv' /\ (InTurn \/ UNCHANGED vars)
<1> SUFFICES ASSUME IInv, [Next]_vars PROVE IInv' /\ (InTurn \/ UNCHANGED vars)
  OBVIOUS
<1>1. CASE UNCHANGED vars
  <2>1. /\ locks' = locks /\ next' = next /\ registered' = registered /\ notes' = notes
        /\ tasks' = tasks /\ entries' = entries /\ microtasks' = microtasks
        /\ alive' = alive /\ closing' = closing
    BY <1>1 DEF vars, pageVars
  <2>2. QED
    BY <1>1, <2>1 DEF IInv, Typed, Idle, Entries, Closing, Notices
<1>2. ASSUME NEW i \in Ids, RemoveOwn(i) PROVE IInv' /\ InTurn
  BY <1>2, RemoveOwnStep, MovedInTurn
<1>3. ASSUME closing = {}, NEW c \in Clients, NEW n \in Names, NEW mode \in Modes,
             NEW ifAvailable \in BOOLEAN, NEW steal \in BOOLEAN,
             Request(c, n, mode, ifAvailable, steal)
      PROVE  IInv' /\ InTurn
  BY <1>3, RequestStep
<1>4. ASSUME closing = {}, NEW i \in Ids, RunMicrotask(i) PROVE IInv' /\ InTurn
  BY <1>4, RunMicrotaskStep, MovedInTurn
<1>5. ASSUME closing = {}, NEW i \in Ids, Settle(i) PROVE IInv' /\ InTurn
  <2>1. Drop(i) /\ locks.requests[i] # None
    BY <1>5 DEF Settle, Exists
  <2>2. QED
    BY <1>5, <2>1, DropStep, MovedInTurn
<1>6. ASSUME closing = {}, NEW i \in Ids, Abort(i) PROVE IInv' /\ InTurn
  <2>1. Drop(i) /\ locks.requests[i] # None
    BY <1>6 DEF Abort, State, Exists
  <2>2. QED
    BY <1>6, <2>1, DropStep, MovedInTurn
<1>7. ASSUME closing = {}, NEW c \in Clients, RunTask(c) PROVE IInv' /\ InTurn
  BY <1>7, RunTaskStep, MovedInTurn
<1>8. ASSUME NEW c \in Clients, DestroyDocument(c) PROVE IInv' /\ InTurn
  BY <1>8, DestroyDocumentStep, MovedInTurn
<1>9. ASSUME NEW busy \in SUBSET Clients, FlushNotifications(busy) PROVE IInv' /\ InTurn
  BY <1>9, FlushNotificationsStep, MovedInTurn
<1>10. QED
  <2>1. CASE Next
    BY <1>2, <1>3, <1>4, <1>5, <1>6, <1>7, <1>8, <1>9, <2>1 DEF Next, Step
  <2>2. QED
    BY <1>1, <2>1

LEMMA IInvAlways == Spec => []IInv
  BY IInvInit, IInvStep, PTL DEF Spec

\* The manager never counts two holders of one name unless both are shared
\* (web_lock_is_immediately_grantable, web_lock_advance and the steal branch of
\* request_web_lock).
THEOREM MutualExclusionAlways == Spec => []MutualExclusion
<1>1. IInv => MutualExclusion
  <2>1. SUFFICES ASSUME IInv, NEW i \in Ids, NEW j \in Ids, i # j, Holding(i), Holding(j),
                        locks.requests[i].name = locks.requests[j].name
                 PROVE  locks.requests[i].mode = "shared" /\ locks.requests[j].mode = "shared"
    BY DEF MutualExclusion
  <2>2. PICK req, n : req = locks.requests /\ n = req[i].name
    OBVIOUS
  <2>3. req \in Table
    BY <2>1, <2>2 DEF IInv, Sound, Managers
  <2>4. /\ req[i] # None /\ req[i].state \in {"granted", "held"}
        /\ req[j] # None /\ req[j].state \in {"granted", "held"}
    BY <2>1, <2>2 DEF Holding, State, Exists
  <2>5. i \in Holders(req, n) /\ j \in Holders(req, n)
    BY <2>1, <2>2, <2>4 DEF Holders
  <2>6. n \in Names
    BY <2>2, <2>3, <2>4 DEF Table, Requests
  <2>7. Agrees(req, locks.held[n], locks.pending[n], n)
    BY <2>1, <2>2, <2>6 DEF IInv, Sound
  <2>8. QED
    BY <2>1, <2>2, <2>5, <2>7 DEF Agrees
<1>2. QED
  BY <1>1, IInvAlways, PTL

\* After a release, an abort, a theft or the end of a document no queue has a
\* request that web_lock_advance would grant.
THEOREM NothingGrantableWaitsAlways == Spec => []NothingGrantableWaits
<1>1. IInv => NothingGrantableWaits
  BY DEF IInv, Idle, NothingGrantableWaits
<1>2. QED
  BY <1>1, IInvAlways, PTL

\* Pages and manager know the same requests, and the manager's lists hold exactly
\* the requests they should, each once (webLockRequests against the table of
\* storage.rs).
THEOREM PageAgreesAlways == Spec => []PageAgrees
<1>1. IInv => PageAgrees
  <2> SUFFICES ASSUME IInv PROVE PageAgrees
    OBVIOUS
  <2>1. ASSUME NEW n \in Names
        PROVE  /\ IsInjective(locks.held[n]) /\ IsInjective(locks.pending[n])
               /\ ToSet(locks.held[n]) = {i \in Ids : Exists(i) /\ locks.requests[i].name = n /\ Holding(i)}
               /\ ToSet(locks.pending[n]) = {i \in Ids : Exists(i) /\ locks.requests[i].name = n /\ State(i) = "pending"}
    <3>1. PICK req, held, pend : req = locks.requests /\ held = locks.held[n] /\ pend = locks.pending[n]
      OBVIOUS
    <3>2. Agrees(req, held, pend, n) /\ req \in Table
      BY <3>1 DEF IInv, Sound, Managers
    <3>3. /\ held \in Seq(Ids) /\ pend \in Seq(Ids) /\ Ordered(held, Apart) /\ Ordered(pend, Older)
          /\ ToSet(held) = Holders(req, n) /\ ToSet(pend) = Waiters(req, n)
      BY <3>2 DEF Agrees
    <3>4. \A a, b \in DOMAIN held : a < b => held[a] # held[b]
      BY <3>3 DEF Ordered, Apart
    <3>5. DOMAIN held = 1 .. Len(held) /\ Len(held) \in Nat
      BY <3>3
    <3>6. \A a, b \in DOMAIN held : held[a] = held[b] => a = b
      BY <3>4, <3>5
    <3>7. \A a, b \in DOMAIN pend : pend[a] = pend[b] => a = b
      BY <3>2, InQueue
    <3>8. IsInjective(held) /\ IsInjective(pend)
      BY <3>6, <3>7 DEF IsInjective
    <3>9. Holders(req, n) = {i \in Ids : Exists(i) /\ locks.requests[i].name = n /\ Holding(i)}
      BY <3>1 DEF Holders, Holding, State, Exists
    <3>10. Waiters(req, n) = {i \in Ids : Exists(i) /\ locks.requests[i].name = n /\ State(i) = "pending"}
      BY <3>1 DEF Waiters, State, Exists
    <3>11. QED
      BY <3>1, <3>3, <3>8, <3>9, <3>10
  <2>2. locks \in [requests : [Ids -> Requests \cup {None}],
                   held : [Names -> Seq(Ids)], pending : [Names -> Seq(Ids)]]
    BY DEF IInv, Sound, Managers, Table
  <2>3. TypeOK
    BY <2>1, <2>2 DEF IInv, Typed, TypeOK
  <2>4. QED
    BY <2>3 DEF IInv, Entries, PageAgrees, Exists
<1>2. QED
  BY <1>1, IInvAlways, PTL

\* Requests of one name are granted in the order they were made; only a theft
\* overtakes (web_lock_advance, web_lock_is_immediately_grantable).
THEOREM NoBargingAlways == Spec => NoBarging
<1>1. IInv /\ [Next]_vars => [InTurn]_vars
  BY IInvStep
<1>2. QED
  BY <1>1, IInvAlways, PTL DEF Spec, NoBarging, InTurn
=============================================================================
