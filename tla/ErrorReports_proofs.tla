------------------------- MODULE ErrorReports_proofs -------------------------
(***************************************************************************)
(* Proofs about the error-report database, for any number of senders,      *)
(* reports and events: no two senders hold an unexpired lease on a row, a  *)
(* row marked as submitted was accepted as it is, and recorded submissions *)
(* of a row are a cooldown apart.                                          *)
(***************************************************************************)
EXTENDS ErrorReports, Orderings_proofs

Reported(p) == sub[p].snap.fp

\* What a sender remembers: the report at the head of its list is the one it
\* read; it counts an attempt only when it has one left; what it reports as
\* accepted was accepted.
Memory(p) ==
    /\ sub[p].pc # "idle" => sub[p].todo # <<>>
    /\ sub[p].pc \in {"state", "claim"} \/ InDelivery(p) =>
          sub[p].snap \in Snapshots /\ Reported(p) = Head(sub[p].todo)
    /\ sub[p].pc \in {"state", "claim"} => attempted[p] < MaxPerRun
    /\ sub[p].pc \in {"accepted", "release"} => sub[p].snap \in accepted
    /\ sub[p].pc = "failed" => sub[p].outcome \in AllFailures

\* A sender's lease is on the row until it expires.
Leased(p) ==
    InDelivery(p) /\ Reported(p) \notin deleted =>
        /\ rows[Reported(p)] # None
        /\ rows[Reported(p)].lease = LeaseOf(p) \/ LeaseOf(p) <= clock

\* A row never falls behind the snapshot, and while it is the snapshot, the gate
\* that the sender passed is still open.
Gated(p) ==
    (sub[p].pc \in {"state", "claim"} \/ InDelivery(p)) /\ Reported(p) \notin deleted =>
        /\ rows[Reported(p)] # None /\ sub[p].snap.occ <= rows[Reported(p)].occ
        /\ sub[p].pc # "state" /\ IsPending(Reported(p)) /\ SameSnapshot(p, Reported(p))
              /\ rows[Reported(p)].sent # None
           => rows[Reported(p)].sent + Cooldown <= sub[p].now

IInv ==
    /\ SubmittedWasAccepted /\ LeaseExclusive
    /\ \A p \in Submitters : Memory(p) /\ Leased(p) /\ Gated(p)

-----------------------------------------------------------------------------
(***************************************************************************)
(* Operators.                                                              *)
(***************************************************************************)
LEMMA MaxMin ==
    ASSUME NEW a \in Nat, NEW b \in Nat
    PROVE  /\ Max({a, b}) \in Nat /\ a <= Max({a, b}) /\ b <= Max({a, b})
           /\ Max({a, b}) = a \/ Max({a, b}) = b
           /\ Min({a, b}) \in Nat /\ Min({a, b}) <= a /\ Min({a, b}) <= b
<1>1. Max({a, b}) = IF a >= b THEN a ELSE b
  BY DEF Max
<1>2. Min({a, b}) = IF a >= b THEN b ELSE a
  BY DEF Min
<1>3. QED
  BY <1>1, <1>2

\* A power of two is the number of subsets of a set.
LEMMA PowerOfTwo ==
    ASSUME NEW n \in Nat
    PROVE  2 ^ n \in Nat
<1>1. IsFiniteSet(1 .. n) /\ Cardinality(1 .. n) = n
  <2>1. IsFiniteSet(1 .. n) /\ Cardinality(1 .. n) = IF 1 > n THEN 0 ELSE n - 1 + 1
    BY FS_Interval
  <2>2. QED
    BY <2>1
<1>2. IsFiniteSet(SUBSET (1 .. n)) /\ Cardinality(SUBSET (1 .. n)) = 2 ^ n
  BY <1>1, FS_SUBSET, Zenon
<1>3. Cardinality(SUBSET (1 .. n)) \in Nat
  BY <1>2, FS_CardinalityType, Zenon
<1>4. QED
  BY <1>2, <1>3, Zenon

LEMMA RetryDelayFacts ==
    ASSUME NEW kind \in AllFailures, NEW failures \in Nat
    PROVE  RetryDelay(kind, failures) \in Nat
<1>1. PICK x \in Nat : x = 2 ^ failures
  BY PowerOfTwo
<1>2. /\ InitialBackoff \in Nat /\ MaxBackoff \in Nat /\ Hour \in Nat /\ Day \in Nat
  BY PolicyAssumption
<1>3. PICK y \in Nat : y = InitialBackoff * 2 ^ failures
  <2>1. InitialBackoff * x \in Nat
    BY <1>2
  <2>2. QED
    BY <1>1, <2>1
<1>4. PICK backoff \in Nat : backoff = Min({InitialBackoff * 2 ^ failures, MaxBackoff})
  BY <1>2, <1>3, MaxMin
<1>5. Max({Hour, backoff}) \in Nat
  BY <1>2, MaxMin
<1>6. \/ kind = "transport" /\ RetryDelay(kind, failures) = backoff
      \/ kind \in {"rate_limited", "search_incomplete"}
            /\ RetryDelay(kind, failures) = Max({Hour, backoff})
      \/ kind = "denied" /\ RetryDelay(kind, failures) = Day
      \/ kind = "invalid_response" /\ RetryDelay(kind, failures) = Hour
  BY <1>4 DEF RetryDelay, AllFailures
<1>7. QED
  BY <1>2, <1>5, <1>6

\* Eviction deletes rows and changes none.
LEMMA EvictFacts ==
    ASSUME NEW db, NEW n
    PROVE  /\ DOMAIN Evict(db, n) = Fingerprints
           /\ \A f \in Fingerprints : Evict(db, n)[f] = None \/ Evict(db, n)[f] = db[f]
  BY DEF Evict

LEMMA TypeFacts ==
    ASSUME IInv
    PROVE  /\ TypeOK /\ load \in Workloads /\ load.records \in Nat /\ clock \in Nat
           /\ records \in Nat /\ Fingerprints \subseteq Nat
           /\ \A p \in Submitters :
                 /\ sub[p] \in Progress /\ sub[p].now \in Nat /\ sub[p].now <= clock
                 /\ LeaseOf(p) \in Nat /\ sub[p].now < LeaseOf(p)
           /\ \A f \in Fingerprints : rows[f] # None => RowOK(rows[f]) /\ rows[f] \in Rows
<1>1. TypeOK /\ load \in Workloads
  BY DEF IInv, SubmittedWasAccepted, TypeOK
<1>2. load.records \in Nat /\ Fingerprints \subseteq Nat
  BY <1>1, WorkloadsAssumption DEF Fingerprints
<1>3. clock \in Nat /\ records \in Nat /\ Lease \in Nat /\ Lease # 0
  BY <1>1, <1>2, PolicyAssumption DEF TypeOK
<1>4. ASSUME NEW p \in Submitters
      PROVE  /\ sub[p] \in Progress /\ sub[p].now \in Nat /\ sub[p].now <= clock
             /\ LeaseOf(p) \in Nat /\ sub[p].now < LeaseOf(p)
  <2>1. sub[p] \in Progress
    BY <1>1 DEF TypeOK
  <2>2. sub[p].now \in 0 .. clock
    BY <2>1 DEF Progress
  <2>3. QED
    BY <1>3, <2>1, <2>2 DEF LeaseOf
<1>5. \A f \in Fingerprints : rows[f] # None => RowOK(rows[f]) /\ rows[f] \in Rows
  BY <1>1 DEF TypeOK, RowOK
<1>6. QED
  BY <1>1, <1>2, <1>3, <1>4, <1>5

\* The report of a sender that has read one.
LEMMA ReportFacts ==
    ASSUME IInv, NEW p \in Submitters, sub[p].pc \in {"state", "claim"} \/ InDelivery(p)
    PROVE  /\ sub[p].snap \in Snapshots /\ Reported(p) \in Fingerprints
           /\ Reported(p) = Head(sub[p].todo) /\ sub[p].snap.occ \in Nat
<1>1. sub[p].snap \in Snapshots /\ Reported(p) = Head(sub[p].todo)
  BY DEF IInv, Memory
<1>2. QED
  BY <1>1 DEF Snapshots, Reported

-----------------------------------------------------------------------------
(***************************************************************************)
(* Steps of one sender that leave the table alone.                         *)
(***************************************************************************)
Others(p) == \A q \in Submitters \ {p} : sub'[q] = sub[q] /\ attempted'[q] = attempted[q]

LEMMA MoveStep ==
    ASSUME IInv, NEW p \in Submitters, Others(p),
           sub' \in [Submitters -> Progress], attempted' \in [Submitters -> 0 .. MaxPerRun],
           UNCHANGED <<load, clock, rows, recorder, records, deleted>>,
           accepted \subseteq accepted',
           Memory(p)', Leased(p)', Gated(p)',
           InDelivery(p)' => InDelivery(p) /\ sub'[p].now = sub[p].now
                                           /\ sub'[p].snap = sub[p].snap
    PROVE  IInv'
<1>1. TypeOK'
  BY DEF IInv, SubmittedWasAccepted, TypeOK, RowOK, Progress
<1>2. SubmittedWasAccepted'
  BY <1>1 DEF IInv, SubmittedWasAccepted
<1>3. LeaseExclusive'
  BY DEF IInv, LeaseExclusive, InDelivery, SameReport, LeaseOf, Others
<1>4. ASSUME NEW q \in Submitters, q # p
      PROVE  Memory(q)' /\ Leased(q)' /\ Gated(q)'
  <2>1. sub'[q] = sub[q] /\ attempted'[q] = attempted[q]
    BY <1>4 DEF Others
  <2>2. Memory(q) /\ Leased(q) /\ Gated(q)
    BY DEF IInv
  <2>3. Memory(q)'
    BY <2>1, <2>2 DEF Memory, InDelivery, Reported
  <2>4. Leased(q)'
    BY <2>1, <2>2 DEF Leased, InDelivery, Reported, LeaseOf
  <2>5. Gated(q)'
    BY <2>1, <2>2 DEF Gated, InDelivery, Reported, IsPending, SameSnapshot
  <2>6. QED
    BY <2>3, <2>4, <2>5
<1>5. QED
  BY <1>2, <1>3, <1>4 DEF IInv

\* The sender stops, or turns to its next report.
Leaves(p) ==
    /\ sub' \in [Submitters -> Progress]
    /\ \A q \in Submitters \ {p} : sub'[q] = sub[q]
    /\ sub'[p].pc \in {"idle", "preview"}
    /\ sub'[p].pc # "idle" => sub'[p].todo # <<>>

LEMMA IdleFacts ==
    ASSUME IInv
    PROVE  /\ Idle \in Progress /\ Idle.pc = "idle"
           /\ \A now \in 0 .. clock : \A todo \in Seq(Fingerprints) :
                 /\ Begun(now, todo) \in Progress
                 /\ Begun(now, todo).pc = "preview" /\ Begun(now, todo).todo = todo
<1>1. clock \in Nat /\ FailureCap \in Nat
  BY TypeFacts, PolicyAssumption
<1>2. 0 \in 0 .. clock /\ 0 \in 0 .. FailureCap /\ <<>> \in Seq(Fingerprints)
  BY <1>1
<1>3. Idle \in Progress /\ Idle.pc = "idle"
  BY <1>2 DEF Idle, Progress
<1>4. ASSUME NEW now \in 0 .. clock, NEW todo \in Seq(Fingerprints)
      PROVE  /\ Begun(now, todo) \in Progress
             /\ Begun(now, todo).pc = "preview" /\ Begun(now, todo).todo = todo
  BY <1>2 DEF Begun, Idle, Progress
<1>5. QED
  BY <1>3, <1>4

LEMMA LeaveFacts ==
    ASSUME IInv, NEW p \in Submitters,
           \/ NextReport(p) /\ sub[p].pc # "idle"
           \/ StopScan(p)
    PROVE  Leaves(p)
<1>1. sub \in [Submitters -> Progress]
  BY TypeFacts DEF TypeOK
<1>2. PICK idle \in Progress : idle = Idle /\ idle.pc = "idle"
  BY IdleFacts
<1>3. CASE StopScan(p)
  <2>1. sub' = [sub EXCEPT ![p] = idle]
    BY <1>2, <1>3 DEF StopScan
  <2>2. QED
    BY <1>1, <1>2, <2>1 DEF Leaves
<1>4. CASE NextReport(p) /\ sub[p].pc # "idle"
  <2>1. sub[p] \in Progress
    BY <1>1
  <2>2. /\ sub[p].todo \in Seq(Fingerprints) /\ sub[p].todo # <<>>
        /\ sub[p].now \in 0 .. clock
    BY <1>4, <2>1 DEF IInv, Memory, Progress
  <2>3. PICK rest \in Seq(Fingerprints) : rest = Tail(sub[p].todo)
    <3>1. PICK todo \in Seq(Fingerprints) : todo = sub[p].todo /\ todo # <<>>
      BY <2>2
    <3>2. Tail(todo) \in Seq(Fingerprints)
      BY <3>1
    <3>3. QED
      BY <3>1, <3>2
  <2>4. PICK fresh \in Progress :
            /\ fresh = Begun(sub[p].now, rest)
            /\ fresh.pc = "preview" /\ fresh.todo = rest
    BY <2>2, IdleFacts
  <2>5. sub' = [sub EXCEPT ![p] = IF rest = <<>> THEN idle ELSE fresh]
    BY <1>2, <1>4, <2>3, <2>4 DEF NextReport
  <2>6. QED
    BY <1>1, <1>2, <2>4, <2>5 DEF Leaves
<1>5. QED
  BY <1>3, <1>4

LEMMA LeaveStep ==
    ASSUME IInv, NEW p \in Submitters, Leaves(p),
           attempted' \in [Submitters -> 0 .. MaxPerRun],
           \A q \in Submitters \ {p} : attempted'[q] = attempted[q],
           UNCHANGED <<load, clock, rows, recorder, records, accepted, deleted>>
    PROVE  IInv'
<1>1. sub'[p].pc \in {"idle", "preview"} /\ ~InDelivery(p)'
  BY DEF Leaves, InDelivery
<1>2. Memory(p)' /\ Leased(p)' /\ Gated(p)'
  BY <1>1 DEF Leaves, Memory, Leased, Gated
<1>3. QED
  BY <1>1, <1>2, MoveStep DEF Leaves, Others

-----------------------------------------------------------------------------
(***************************************************************************)
(* The steps of a delivery.                                                *)
(***************************************************************************)
LEMMA StartSteps ==
    ASSUME IInv, NEW p \in Submitters,
           \/ StartScan(p)
           \/ \E f \in Fingerprints : SubmitSelected(p, f)
    PROVE  IInv'
<1>1. PICK todo \in Seq(Fingerprints) : todo # <<>> /\ sub' = [sub EXCEPT ![p] = Begun(clock, todo)]
  <2>1. CASE StartScan(p)
    <3> DEFINE pending == {f \in Fingerprints : IsPending(f)}
               before == {x \in pending \X pending : ListedBefore(x[1], x[2])}
    <3>1. IsFiniteSet(pending)
      BY TableAssumption, FS_Subset
    <3>2. \A f \in pending : f \in Nat /\ rows[f].seen \in Nat
      BY TypeFacts DEF IsPending, Rows
    <3>3. \A f, g \in pending : <<f, g>> \in before <=> ListedBefore(f, g)
      OBVIOUS
    <3>4. StrictOrder(pending, before)
      <4>1. \A f \in pending : ~ListedBefore(f, f)
        BY <3>2 DEF ListedBefore
      <4>2. \A f, g, h \in pending : ListedBefore(f, g) /\ ListedBefore(g, h) => ListedBefore(f, h)
        BY <3>2 DEF ListedBefore
      <4>3. \A f, g \in pending : f = g \/ ListedBefore(f, g) \/ ListedBefore(g, f)
        BY <3>2 DEF ListedBefore
      <4> HIDE DEF pending, before
      <4>4. QED
        BY <3>3, <4>1, <4>2, <4>3 DEF StrictOrder
    <3>5. PendingNewestFirst = Enumerate(pending, before)
      BY DEF PendingNewestFirst
    <3>6. pending \subseteq Fingerprints
      OBVIOUS
    <3> HIDE DEF pending, before
    <3>7. Enumerate(pending, before) \in Seq(pending)
      BY <3>1, <3>4, EnumerateFacts
    <3>8. PendingNewestFirst \in Seq(Fingerprints)
      BY <3>5, <3>6, <3>7
    <3>9. QED
      BY <2>1, <3>8 DEF StartScan
  <2>2. CASE \E f \in Fingerprints : SubmitSelected(p, f)
    <3>1. PICK f \in Fingerprints : SubmitSelected(p, f)
      BY <2>2
    <3>2. <<f>> \in Seq(Fingerprints) /\ <<f>> # <<>>
      OBVIOUS
    <3>3. QED
      BY <3>1, <3>2 DEF SubmitSelected
  <2>3. QED
    BY <2>1, <2>2
<1>2. UNCHANGED <<load, clock, rows, recorder, records, accepted, deleted, attempted>>
  BY DEF StartScan, SubmitSelected, senderUnchanged
<1>3. clock \in 0 .. clock
  BY TypeFacts
<1>4. PICK begun \in Progress : begun = Begun(clock, todo) /\ begun.pc = "preview" /\ begun.todo = todo
  BY <1>3, IdleFacts
<1>5. sub \in [Submitters -> Progress] /\ attempted \in [Submitters -> 0 .. MaxPerRun]
  BY TypeFacts DEF TypeOK
<1>6. Leaves(p)
  BY <1>1, <1>4, <1>5 DEF Leaves
<1>7. QED
  BY <1>2, <1>5, <1>6, LeaveStep

\* Steps in which a sender only learns something or moves on.
LEMMA ReadSteps ==
    ASSUME IInv, NEW p \in Submitters, Preview(p) \/ SubmissionState(p)
    PROVE  IInv'
<1>1. UNCHANGED <<load, clock, rows, recorder, records, accepted, deleted, attempted>>
  BY DEF Preview, SubmissionState, senderUnchanged
<1>2. sub \in [Submitters -> Progress] /\ attempted \in [Submitters -> 0 .. MaxPerRun]
  BY TypeFacts DEF TypeOK
<1>3. sub[p].pc # "idle" /\ sub[p].todo # <<>> /\ sub[p] \in Progress
  BY <1>2 DEF IInv, Memory, Preview, SubmissionState
<1>4. sub[p].todo \in Seq(Fingerprints)
  BY <1>3 DEF Progress
<1>5. PICK f \in Fingerprints : f = Head(sub[p].todo)
  <2>1. PICK todo \in Seq(Fingerprints) : todo = sub[p].todo /\ todo # <<>>
    BY <1>3, <1>4
  <2>2. Head(todo) \in Fingerprints
    BY <2>1
  <2>3. QED
    BY <2>1, <2>2
<1>6. CASE NextReport(p) \/ StopScan(p)
  <2>1. Leaves(p)
    BY <1>3, <1>6, LeaveFacts
  <2>2. QED
    BY <1>1, <1>2, <2>1, LeaveStep
<1>7. CASE /\ sub[p].pc = "preview" /\ attempted[p] < MaxPerRun /\ IsPending(f)
           /\ sub' = [sub EXCEPT ![p].pc = "state",
                                 ![p].snap = [fp |-> f, occ |-> rows[f].occ, seen |-> rows[f].seen]]
  <2>1. rows[f] # None /\ rows[f].occ \in Nat /\ rows[f].seen \in Nat
    BY <1>7, TypeFacts DEF IsPending, Rows
  <2>2. PICK snap \in Snapshots :
            snap = [fp |-> f, occ |-> rows[f].occ, seen |-> rows[f].seen]
    BY <2>1 DEF Snapshots
  <2>3. snap.fp = f /\ snap.occ = rows[f].occ
    BY <2>2
  <2>4. PICK next \in Progress :
            /\ next = [sub[p] EXCEPT !.pc = "state", !.snap = snap]
            /\ next.pc = "state" /\ next.snap = snap /\ next.todo = sub[p].todo
    <3> DEFINE r == [sub[p] EXCEPT !.pc = "state", !.snap = snap]
    <3>1. r \in Progress /\ r.pc = "state" /\ r.snap = snap
      BY <1>3 DEF Progress
    <3>2. r.todo = sub[p].todo
      BY <1>3 DEF Progress
    <3> HIDE DEF r
    <3>3. QED
      BY <3>1, <3>2 DEF r
  <2>5. sub' = [sub EXCEPT ![p] = next]
    BY <1>2, <1>7, <2>2, <2>4
  <2>6. sub' \in [Submitters -> Progress] /\ sub'[p] = next /\ Others(p)
    BY <1>1, <1>2, <2>5 DEF Others
  <2>7. Memory(p)'
    BY <1>1, <1>3, <1>5, <1>7, <2>3, <2>4, <2>6 DEF Memory, Reported, InDelivery
  <2>8. Leased(p)' /\ ~InDelivery(p)'
    BY <2>4, <2>6 DEF Leased, InDelivery
  <2>9. Gated(p)'
    BY <1>1, <2>1, <2>3, <2>4, <2>6 DEF Gated, Reported, InDelivery
  <2>10. QED
    BY <1>1, <1>2, <2>6, <2>7, <2>8, <2>9, MoveStep
<1>8. CASE /\ sub[p].pc = "state" /\ rows[f] # None /\ GatesOpen(p, rows[f])
           /\ sub' = [sub EXCEPT ![p].pc = "claim", ![p].failures = rows[f].failures]
  <2>1. rows[f].failures \in 0 .. FailureCap
    BY <1>8, TypeFacts, PolicyAssumption DEF RowOK, Rows
  <2>2. PICK next \in Progress :
            /\ next = [sub[p] EXCEPT !.pc = "claim", !.failures = rows[f].failures]
            /\ next.pc = "claim" /\ next.snap = sub[p].snap /\ next.todo = sub[p].todo
            /\ next.now = sub[p].now
    <3> DEFINE r == [sub[p] EXCEPT !.pc = "claim", !.failures = rows[f].failures]
    <3>1. r \in Progress /\ r.pc = "claim" /\ r.snap = sub[p].snap
      BY <1>3, <2>1 DEF Progress
    <3>2. r.todo = sub[p].todo /\ r.now = sub[p].now
      BY <1>3, <2>1 DEF Progress
    <3> HIDE DEF r
    <3>3. QED
      BY <3>1, <3>2 DEF r
  <2>3. sub' = [sub EXCEPT ![p] = next]
    BY <1>2, <1>8, <2>2
  <2>4. sub' \in [Submitters -> Progress] /\ sub'[p] = next /\ Others(p)
    BY <1>1, <1>2, <2>3 DEF Others
  <2>5. /\ sub[p].snap \in Snapshots /\ Reported(p) = f /\ attempted[p] < MaxPerRun
    BY <1>5, <1>8 DEF IInv, Memory
  <2>6. Memory(p)'
    BY <1>1, <1>3, <1>5, <2>2, <2>4, <2>5 DEF Memory, Reported, InDelivery
  <2>7. Leased(p)' /\ ~InDelivery(p)'
    BY <2>2, <2>4 DEF Leased, InDelivery
  <2>8. Gated(p)'
    <3>1. Reported(p)' = f /\ sub'[p].snap = sub[p].snap /\ sub'[p].now = sub[p].now
      BY <2>2, <2>4, <2>5 DEF Reported
    <3>2. f \notin deleted => sub[p].snap.occ <= rows[f].occ
      BY <1>8, <2>5 DEF IInv, Gated
    <3>3. rows[f].sent # None => rows[f].sent + Cooldown <= sub[p].now
      BY <1>8 DEF GatesOpen
    <3>4. QED
      BY <1>1, <1>8, <3>1, <3>2, <3>3 DEF Gated
  <2>9. QED
    BY <1>1, <1>2, <2>4, <2>6, <2>7, <2>8, MoveStep
<1>9. QED
  BY <1>5, <1>6, <1>7, <1>8 DEF Preview, SubmissionState

LEMMA BackendSteps ==
    ASSUME IInv, NEW p \in Submitters,
           \/ BackendAccepts(p)
           \/ \E kind \in load.failures : BackendFails(p, kind)
           \/ MarkSubmittedSnapshot(p) /\ sub' = [sub EXCEPT ![p].pc = "release"]
                 /\ UNCHANGED <<rows, accepted>>
    PROVE  IInv'
<1>1. /\ UNCHANGED <<load, clock, rows, recorder, records, deleted, attempted>>
      /\ accepted \subseteq accepted'
  BY DEF BackendAccepts, BackendFails, MarkSubmittedSnapshot, senderUnchanged
<1>2. sub \in [Submitters -> Progress] /\ attempted \in [Submitters -> 0 .. MaxPerRun]
  BY TypeFacts DEF TypeOK
<1>3. sub[p] \in Progress /\ InDelivery(p)
  BY <1>2 DEF BackendAccepts, BackendFails, MarkSubmittedSnapshot, InDelivery
<1>4. sub[p].snap \in Snapshots /\ sub[p].todo # <<>> /\ Reported(p) = Head(sub[p].todo)
  BY <1>3 DEF IInv, Memory, InDelivery
<1>5. PICK next \in Progress :
          /\ sub' = [sub EXCEPT ![p] = next]
          /\ next.pc \in {"accepted", "failed", "release"}
          /\ next.snap = sub[p].snap /\ next.todo = sub[p].todo /\ next.now = sub[p].now
          /\ next.pc \in {"accepted", "release"} => sub[p].snap \in accepted'
          /\ next.pc = "failed" => next.outcome \in AllFailures
  <2>1. CASE BackendAccepts(p)
    <3>1. sub[p].snap \in accepted'
      <4>1. sub[p].snap = [fp |-> sub[p].snap.fp, occ |-> sub[p].snap.occ, seen |-> sub[p].snap.seen]
        BY <1>4 DEF Snapshots
      <4>2. QED
        BY <2>1, <4>1 DEF BackendAccepts
    <3>2. PICK next \in Progress :
              /\ next = [sub[p] EXCEPT !.pc = "accepted"] /\ next.pc = "accepted"
              /\ next.snap = sub[p].snap /\ next.todo = sub[p].todo /\ next.now = sub[p].now
      <4> DEFINE r == [sub[p] EXCEPT !.pc = "accepted"]
      <4>1. r \in Progress /\ r.pc = "accepted" /\ r.snap = sub[p].snap
        BY <1>3 DEF Progress
      <4>2. r.todo = sub[p].todo /\ r.now = sub[p].now
        BY <1>3 DEF Progress
      <4> HIDE DEF r
      <4>3. QED
        BY <4>1, <4>2 DEF r
    <3>3. sub' = [sub EXCEPT ![p] = next]
      BY <1>2, <2>1, <3>2 DEF BackendAccepts
    <3>4. QED
      BY <3>1, <3>2, <3>3
  <2>2. CASE \E kind \in load.failures : BackendFails(p, kind)
    <3>1. PICK kind \in load.failures : BackendFails(p, kind)
      BY <2>2
    <3>2. kind \in AllFailures
      BY TypeFacts, WorkloadsAssumption
    <3>3. PICK next \in Progress :
              /\ next = [sub[p] EXCEPT !.pc = "failed", !.outcome = kind] /\ next.pc = "failed"
              /\ next.snap = sub[p].snap /\ next.todo = sub[p].todo /\ next.now = sub[p].now
              /\ next.outcome = kind
      <4> DEFINE r == [sub[p] EXCEPT !.pc = "failed", !.outcome = kind]
      <4>1. r \in Progress /\ r.pc = "failed" /\ r.snap = sub[p].snap
        BY <1>3, <3>2 DEF Progress
      <4>2. r.todo = sub[p].todo /\ r.now = sub[p].now /\ r.outcome = kind
        BY <1>3, <3>2 DEF Progress
      <4> HIDE DEF r
      <4>3. QED
        BY <4>1, <4>2 DEF r
    <3>4. sub' = [sub EXCEPT ![p] = next]
      BY <1>2, <3>1, <3>3 DEF BackendFails
    <3>5. QED
      BY <3>2, <3>3, <3>4
  <2>3. CASE MarkSubmittedSnapshot(p) /\ sub' = [sub EXCEPT ![p].pc = "release"]
               /\ UNCHANGED <<rows, accepted>>
    <3>1. sub[p].snap \in accepted'
      BY <2>3 DEF MarkSubmittedSnapshot, IInv, Memory
    <3>2. PICK next \in Progress :
              /\ next = [sub[p] EXCEPT !.pc = "release"] /\ next.pc = "release"
              /\ next.snap = sub[p].snap /\ next.todo = sub[p].todo /\ next.now = sub[p].now
      <4> DEFINE r == [sub[p] EXCEPT !.pc = "release"]
      <4>1. r \in Progress /\ r.pc = "release" /\ r.snap = sub[p].snap
        BY <1>3 DEF Progress
      <4>2. r.todo = sub[p].todo /\ r.now = sub[p].now
        BY <1>3 DEF Progress
      <4> HIDE DEF r
      <4>3. QED
        BY <4>1, <4>2 DEF r
    <3>3. sub' = [sub EXCEPT ![p] = next]
      BY <1>2, <2>3, <3>2
    <3>4. QED
      BY <3>1, <3>2, <3>3
  <2>4. QED
    BY <2>1, <2>2, <2>3
<1>6. sub' \in [Submitters -> Progress] /\ sub'[p] = next /\ Others(p)
  BY <1>1, <1>2, <1>5 DEF Others
<1>7. Memory(p)'
  BY <1>4, <1>5, <1>6 DEF Memory, Reported, InDelivery
<1>8. Leased(p)'
  BY <1>1, <1>3, <1>5, <1>6 DEF IInv, Leased, Reported, InDelivery, LeaseOf
<1>9. Gated(p)'
  <2>1. sub[p].pc # "state"
    BY <1>3 DEF InDelivery
  <2>2. QED
    BY <1>1, <1>3, <1>5, <1>6, <2>1 DEF IInv, Gated, Reported, InDelivery, IsPending, SameSnapshot
<1>10. QED
  BY <1>1, <1>2, <1>3, <1>5, <1>6, <1>7, <1>8, <1>9, MoveStep

-----------------------------------------------------------------------------
(***************************************************************************)
(* The steps of a delivery that write the sender's row.                    *)
(***************************************************************************)

\* p changes the row f, and no other sender has an unexpired lease on it.
LEMMA RowStep ==
    ASSUME IInv, NEW p \in Submitters, NEW f \in Fingerprints, NEW r, RowOK(r),
           rows[f] # None, rows' = [rows EXCEPT ![f] = r], Others(p),
           sub' \in [Submitters -> Progress], attempted' \in [Submitters -> 0 .. MaxPerRun],
           UNCHANGED <<load, clock, recorder, records, accepted, deleted>>,
           r.occ = rows[f].occ, r.seen = rows[f].seen,
           r.status = "submitted" => [fp |-> f, occ |-> r.occ, seen |-> r.seen] \in accepted,
           r.status = "pending" => rows[f].status = "pending" /\ r.sent = rows[f].sent,
           \A q \in Submitters \ {p} :
               InDelivery(q) /\ Reported(q) = f /\ f \notin deleted => LeaseOf(q) <= clock,
           Memory(p)', Leased(p)', Gated(p)',
           InDelivery(p)' => Reported(p)' = f
    PROVE  IInv'
<1>1. DOMAIN rows = Fingerprints /\ r # None
  <2>1. r \in Rows
    BY DEF RowOK
  <2>2. QED
    BY <2>1, TypeFacts, TableAssumption DEF TypeOK
<1>2. /\ DOMAIN rows' = Fingerprints /\ rows'[f] = r
      /\ \A g \in Fingerprints \ {f} : rows'[g] = rows[g]
  BY <1>1
<1>3. TypeOK'
  <2>1. \A g \in Fingerprints : rows'[g] = None \/ RowOK(rows[g])'
    <3>1. \A g \in Fingerprints : rows'[g] = None \/ RowOK(rows'[g])
      BY <1>2, TypeFacts
    <3>2. QED
      BY <3>1 DEF RowOK
  <2>2. sub' \in [Submitters -> Progress']
    BY DEF Progress
  <2>3. QED
    BY <1>2, <2>1, <2>2, TypeFacts DEF TypeOK
<1>4. SubmittedWasAccepted'
  BY <1>2, <1>3 DEF IInv, SubmittedWasAccepted
<1>5. \A q \in Submitters \ {p} : sub'[q] = sub[q] /\ attempted'[q] = attempted[q]
  BY DEF Others
<1>6. LeaseExclusive'
  <2>1. SUFFICES ASSUME NEW a \in Submitters, NEW b \in Submitters, a # b,
                        InDelivery(a)', InDelivery(b)', SameReport(a, b)',
                        sub'[a].snap.fp \notin deleted
                 PROVE  LeaseOf(a)' <= clock \/ LeaseOf(b)' <= clock
    BY DEF LeaseExclusive
  <2>2. ASSUME NEW q \in Submitters, q # p, InDelivery(q)', sub'[q].snap.fp = f, f \notin deleted
        PROVE  LeaseOf(q)' <= clock
    BY <1>5, <2>2 DEF InDelivery, Reported, LeaseOf
  <2>3. CASE a = p
    <3>1. sub'[b].snap.fp = f
      BY <2>1, <2>3 DEF SameReport, Reported
    <3>2. QED
      BY <2>1, <2>2, <2>3, <3>1 DEF SameReport
  <2>4. CASE b = p
    <3>1. sub'[a].snap.fp = f
      BY <2>1, <2>4 DEF SameReport, Reported
    <3>2. QED
      BY <2>1, <2>2, <2>4, <3>1
  <2>5. CASE a # p /\ b # p
    BY <1>5, <2>1, <2>5 DEF IInv, LeaseExclusive, InDelivery, SameReport, LeaseOf
  <2>6. QED
    BY <2>3, <2>4, <2>5
<1>7. ASSUME NEW q \in Submitters, q # p
      PROVE  Memory(q)' /\ Leased(q)' /\ Gated(q)'
  <2>1. sub'[q] = sub[q] /\ attempted'[q] = attempted[q]
    BY <1>5, <1>7
  <2>2. Memory(q) /\ Leased(q) /\ Gated(q)
    BY DEF IInv
  <2>3. Memory(q)'
    BY <2>1, <2>2 DEF Memory, InDelivery, Reported
  <2>4. Reported(q)' = Reported(q) /\ (InDelivery(q)' <=> InDelivery(q)) /\ LeaseOf(q)' = LeaseOf(q)
    BY <2>1 DEF Reported, InDelivery, LeaseOf
  <2>5. Leased(q)'
    <3>1. SUFFICES ASSUME InDelivery(q), Reported(q) \notin deleted
                   PROVE  /\ rows'[Reported(q)] # None
                          /\ rows'[Reported(q)].lease = LeaseOf(q) \/ LeaseOf(q) <= clock
      BY <2>4 DEF Leased
    <3>2. Reported(q) \in Fingerprints
      BY <3>1, ReportFacts
    <3>3. CASE Reported(q) = f
      BY <1>1, <1>2, <1>7, <3>1, <3>3
    <3>4. CASE Reported(q) # f
      BY <1>2, <2>2, <3>1, <3>2, <3>4 DEF Leased
    <3>5. QED
      BY <3>3, <3>4
  <2>6. Gated(q)'
    <3>1. SUFFICES ASSUME sub[q].pc \in {"state", "claim"} \/ InDelivery(q), Reported(q) \notin deleted
                   PROVE  Gated(q)'
      BY <2>1, <2>4 DEF Gated
    <3>2. Reported(q) \in Fingerprints
      BY <3>1, ReportFacts
    <3>3. CASE Reported(q) = f
      <4>1. rows[f] # None /\ sub[q].snap.occ <= rows[f].occ
        BY <2>2, <3>1, <3>3 DEF Gated
      <4>2. (IsPending(f) /\ SameSnapshot(q, f))' /\ r.sent # None =>
               IsPending(f) /\ SameSnapshot(q, f) /\ rows[f].sent = r.sent
        BY <1>1, <1>2, <2>1 DEF IsPending, SameSnapshot
      <4>3. sub[q].pc # "state" /\ (IsPending(f) /\ SameSnapshot(q, f))' /\ r.sent # None =>
               r.sent + Cooldown <= sub[q].now
        BY <2>2, <3>1, <3>3, <4>2 DEF Gated
      <4>4. QED
        BY <1>1, <1>2, <2>1, <2>4, <3>3, <4>1, <4>3 DEF Gated
    <3>4. CASE Reported(q) # f
      <4>1. rows'[Reported(q)] = rows[Reported(q)]
        BY <1>2, <3>2, <3>4
      <4>2. QED
        BY <2>1, <2>2, <2>4, <4>1 DEF Gated, IsPending, SameSnapshot
    <3>5. QED
      BY <3>3, <3>4
  <2>7. QED
    BY <2>3, <2>5, <2>6
<1>8. QED
  BY <1>4, <1>6, <1>7 DEF IInv

LEMMA ClaimStep ==
    ASSUME IInv, NEW p \in Submitters, ClaimSubmission(p)
    PROVE  IInv'
<1>1. UNCHANGED <<load, clock, recorder, records, accepted, deleted>> /\ sub[p].pc = "claim"
  BY DEF ClaimSubmission, senderUnchanged
<1>2. sub \in [Submitters -> Progress] /\ attempted \in [Submitters -> 0 .. MaxPerRun]
  BY TypeFacts DEF TypeOK
<1>3. PICK f \in Fingerprints : f = Reported(p) /\ f = Head(sub[p].todo)
  BY <1>1, ReportFacts
<1>4. CASE ~Claimable(p, f)
  <2>1. NextReport(p) /\ UNCHANGED <<rows, attempted>>
    BY <1>3, <1>4 DEF ClaimSubmission
  <2>2. Leaves(p)
    BY <1>1, <2>1, LeaveFacts
  <2>3. QED
    BY <1>1, <1>2, <2>1, <2>2, LeaveStep
<1>5. CASE Claimable(p, f)
  <2>1. /\ rows' = [rows EXCEPT ![f].lease = LeaseOf(p)]
        /\ attempted' = [attempted EXCEPT ![p] = @ + 1]
        /\ sub' = [sub EXCEPT ![p].pc = "sending"]
    BY <1>3, <1>5 DEF ClaimSubmission
  <2>2. rows[f] # None /\ RowOK(rows[f]) /\ rows[f] \in Rows /\ DOMAIN rows = Fingerprints
    BY <1>5, TypeFacts DEF Claimable, IsPending, TypeOK
  <2>3. LeaseOf(p) \in Nat /\ sub[p] \in Progress /\ sub[p].now \in Nat /\ sub[p].now <= clock
    BY TypeFacts
  <2>4. PICK r : /\ r = [rows[f] EXCEPT !.lease = LeaseOf(p)] /\ r \in Rows
                 /\ r.occ = rows[f].occ /\ r.seen = rows[f].seen /\ r.status = rows[f].status
                 /\ r.sent = rows[f].sent /\ r.lease = LeaseOf(p) /\ r.failures = rows[f].failures
    <3> DEFINE s == [rows[f] EXCEPT !.lease = LeaseOf(p)]
    <3>1. s \in Rows /\ s.occ = rows[f].occ /\ s.seen = rows[f].seen /\ s.status = rows[f].status
      BY <2>2, <2>3 DEF Rows
    <3>2. s.sent = rows[f].sent /\ s.lease = LeaseOf(p) /\ s.failures = rows[f].failures
      BY <2>2 DEF Rows
    <3> HIDE DEF s
    <3>3. QED
      BY <3>1, <3>2 DEF s
  <2>5. RowOK(r)
    BY <2>2, <2>4 DEF RowOK
  <2>6. rows' = [rows EXCEPT ![f] = r] /\ rows'[f] = r
    BY <2>1, <2>2, <2>4
  <2>7. PICK next \in Progress :
            /\ next = [sub[p] EXCEPT !.pc = "sending"]
            /\ next.pc = "sending" /\ next.snap = sub[p].snap
            /\ next.todo = sub[p].todo /\ next.now = sub[p].now
    <3> DEFINE n == [sub[p] EXCEPT !.pc = "sending"]
    <3>1. n \in Progress /\ n.pc = "sending" /\ n.snap = sub[p].snap
      BY <2>3 DEF Progress
    <3>2. n.todo = sub[p].todo /\ n.now = sub[p].now
      BY <2>3 DEF Progress
    <3> HIDE DEF n
    <3>3. QED
      BY <3>1, <3>2 DEF n
  <2>8. sub' = [sub EXCEPT ![p] = next]
    BY <1>2, <2>1, <2>7
  <2>9. sub' \in [Submitters -> Progress] /\ sub'[p] = next /\ Others(p)
    BY <1>2, <2>1, <2>8 DEF Others
  <2>10. attempted' \in [Submitters -> 0 .. MaxPerRun]
    <3>1. attempted[p] < MaxPerRun /\ attempted[p] \in 0 .. MaxPerRun /\ MaxPerRun \in Nat
      BY <1>1, <1>2, PolicyAssumption DEF IInv, Memory
    <3>2. attempted[p] + 1 \in 0 .. MaxPerRun
      BY <3>1
    <3>3. QED
      BY <1>2, <2>1, <3>2
  <2>11. sub[p].snap \in Snapshots /\ sub[p].todo # <<>>
    BY <1>1, ReportFacts DEF IInv, Memory
  <2>12. Memory(p)'
    BY <1>3, <2>7, <2>9, <2>11 DEF Memory, Reported, InDelivery
  <2>13. r # None /\ Reported(p)' = f /\ LeaseOf(p)' = LeaseOf(p)
    BY <1>3, <2>4, <2>7, <2>9, TableAssumption DEF Reported, LeaseOf
  <2>14. Leased(p)'
    BY <2>4, <2>6, <2>13 DEF Leased
  <2>15. Gated(p)'
    <3>1. Gated(p)
      BY DEF IInv
    <3>2. f \notin deleted => sub[p].snap.occ <= rows[f].occ
      BY <1>1, <1>3, <3>1 DEF Gated
    <3>3. f \notin deleted /\ rows[f].sent # None => rows[f].sent + Cooldown <= sub[p].now
      BY <1>1, <1>3, <1>5, <3>1 DEF Gated, Claimable
    <3>4. QED
      BY <1>1, <2>4, <2>6, <2>7, <2>9, <2>13, <3>2, <3>3 DEF Gated
  <2>16. \A q \in Submitters \ {p} :
             InDelivery(q) /\ Reported(q) = f /\ f \notin deleted => LeaseOf(q) <= clock
    <3>1. rows[f].lease <= clock
      <4>1. rows[f].lease \in Nat /\ clock \in Nat /\ rows[f].lease <= sub[p].now
        BY <1>5, <2>2, TypeFacts DEF Rows, Claimable
      <4>2. QED
        BY <2>3, <4>1
    <3>2. QED
      BY <3>1 DEF IInv, Leased
  <2>17. /\ r.status = "pending" => rows[f].status = "pending" /\ r.sent = rows[f].sent
         /\ r.status # "submitted"
    BY <1>5, <2>4 DEF Claimable, IsPending
  <2>18. QED
    BY <1>1, <2>2, <2>4, <2>5, <2>6, <2>9, <2>10, <2>12, <2>13, <2>14, <2>15, <2>16, <2>17, RowStep
<1>6. QED
  BY <1>4, <1>5

\* The sender's last statement: it finds its lease and ends it.
LEMMA CloseStep ==
    ASSUME IInv, NEW p \in Submitters, InDelivery(p), NEW f \in Fingerprints, f = Reported(p),
           HoldsLease(p, f), NEW r, RowOK(r), rows' = [rows EXCEPT ![f] = r], Leaves(p),
           UNCHANGED <<load, clock, recorder, records, accepted, deleted, attempted>>,
           r.occ = rows[f].occ, r.seen = rows[f].seen,
           r.status = "submitted" => [fp |-> f, occ |-> r.occ, seen |-> r.seen] \in accepted,
           r.status = "pending" => rows[f].status = "pending" /\ r.sent = rows[f].sent
    PROVE  IInv'
<1>1. sub'[p].pc \in {"idle", "preview"} /\ ~InDelivery(p)'
  BY DEF Leaves, InDelivery
<1>2. Memory(p)' /\ Leased(p)' /\ Gated(p)'
  BY <1>1 DEF Leaves, Memory, Leased, Gated
<1>3. attempted \in [Submitters -> 0 .. MaxPerRun] /\ clock \in Nat
  BY TypeFacts DEF TypeOK
<1>4. ASSUME NEW q \in Submitters \ {p}, InDelivery(q), Reported(q) = f, f \notin deleted
      PROVE  LeaseOf(q) <= clock
  <2>1. rows[f].lease = LeaseOf(q) \/ LeaseOf(q) <= clock
    BY <1>4 DEF IInv, Leased
  <2>2. rows[f].lease = LeaseOf(p)
    BY DEF HoldsLease
  <2>3. LeaseOf(p) <= clock \/ LeaseOf(q) <= clock
    BY <1>4 DEF IInv, LeaseExclusive, SameReport, Reported
  <2>4. QED
    BY <2>1, <2>2, <2>3
<1>5. rows[f] # None /\ Others(p) /\ sub' \in [Submitters -> Progress]
  BY DEF HoldsLease, Others, Leaves
<1>6. QED
  BY <1>1, <1>2, <1>3, <1>4, <1>5, RowStep

LEMMA EndSteps ==
    ASSUME IInv, NEW p \in Submitters,
           \/ \E t \in 0 .. MaxTime : DeferFailure(p, t)
           \/ MarkSubmittedSnapshot(p)
           \/ ReleaseSubmissionLease(p)
    PROVE  IInv'
<1>1. /\ UNCHANGED <<load, clock, recorder, records, accepted, deleted, attempted>>
      /\ InDelivery(p) /\ sub[p].pc # "idle"
  BY DEF DeferFailure, MarkSubmittedSnapshot, ReleaseSubmissionLease, senderUnchanged, InDelivery
<1>2. sub[p] \in Progress /\ attempted \in [Submitters -> 0 .. MaxPerRun] /\ DOMAIN rows = Fingerprints
  BY TypeFacts DEF TypeOK
<1>3. PICK f \in Fingerprints : f = Reported(p) /\ f = Head(sub[p].todo)
  BY <1>1, ReportFacts
<1>4. rows[f] # None => RowOK(rows[f]) /\ rows[f] \in Rows
  BY TypeFacts
<1>5. CASE UNCHANGED rows /\ (NextReport(p) \/ StopScan(p))
  <2>1. Leaves(p)
    BY <1>1, <1>5, LeaveFacts
  <2>2. QED
    BY <1>1, <1>2, <1>5, <2>1, LeaveStep
<1>6. CASE MarkSubmittedSnapshot(p) /\ sub' = [sub EXCEPT ![p].pc = "release"] /\ UNCHANGED rows
  BY <1>1, <1>6, BackendSteps
<1>7. CASE MarkSubmittedSnapshot(p) /\ Markable(p, f)
  <2>1. /\ rows' = [rows EXCEPT ![f].status = "submitted", ![f].failures = 0, ![f].retry = 0,
                                ![f].sent = sub[p].now, ![f].lease = 0]
        /\ NextReport(p) /\ sub[p].pc = "accepted"
    BY <1>3, <1>7 DEF MarkSubmittedSnapshot
  <2>2. HoldsLease(p, f) /\ rows[f] # None /\ SameSnapshot(p, f)
    BY <1>7 DEF Markable, HoldsLease
  <2>3. sub[p].now \in Nat /\ sub[p].now <= clock
    BY TypeFacts
  <2>4. PICK r : /\ r = [rows[f] EXCEPT !.status = "submitted", !.failures = 0, !.retry = 0,
                                        !.sent = sub[p].now, !.lease = 0]
                 /\ r \in Rows /\ r.occ = rows[f].occ /\ r.seen = rows[f].seen
                 /\ r.status = "submitted" /\ r.sent = sub[p].now /\ r.failures = 0
    <3> DEFINE s == [rows[f] EXCEPT !.status = "submitted", !.failures = 0, !.retry = 0,
                                    !.sent = sub[p].now, !.lease = 0]
    <3>1. s \in Rows
      BY <1>4, <2>2, <2>3 DEF Rows
    <3>2. s.occ = rows[f].occ /\ s.seen = rows[f].seen /\ s.status = "submitted"
      BY <1>4, <2>2 DEF Rows
    <3>3. s.sent = sub[p].now /\ s.failures = 0
      BY <1>4, <2>2 DEF Rows
    <3> HIDE DEF s
    <3>4. QED
      BY <3>1, <3>2, <3>3 DEF s
  <2>5. RowOK(r)
    BY <1>4, <2>2, <2>3, <2>4, PolicyAssumption DEF RowOK
  <2>6. rows' = [rows EXCEPT ![f] = r]
    BY <1>2, <2>1, <2>4
  <2>7. [fp |-> f, occ |-> r.occ, seen |-> r.seen] \in accepted
    <3>1. sub[p].snap \in accepted /\ sub[p].snap \in Snapshots
      BY <1>1, <2>1, ReportFacts DEF IInv, Memory
    <3>2. sub[p].snap = [fp |-> f, occ |-> r.occ, seen |-> r.seen]
      BY <1>3, <2>2, <2>4, <3>1 DEF Snapshots, Reported, SameSnapshot
    <3>3. QED
      BY <3>1, <3>2
  <2>8. Leaves(p)
    BY <1>1, <2>1, LeaveFacts
  <2>9. QED
    BY <1>1, <1>3, <2>2, <2>4, <2>5, <2>6, <2>7, <2>8, CloseStep
<1>8. CASE /\ HoldsLease(p, f) /\ ReleaseSubmissionLease(p)
           /\ rows' = [rows EXCEPT ![f].lease = 0]
  <2>1. NextReport(p) /\ sub[p].pc = "release" /\ rows[f] # None
    BY <1>8 DEF ReleaseSubmissionLease, HoldsLease
  <2>2. PICK r : /\ r = [rows[f] EXCEPT !.lease = 0]
                 /\ r \in Rows /\ r.occ = rows[f].occ /\ r.seen = rows[f].seen
                 /\ r.status = rows[f].status /\ r.sent = rows[f].sent /\ r.failures = rows[f].failures
    <3> DEFINE s == [rows[f] EXCEPT !.lease = 0]
    <3>1. s \in Rows /\ s.occ = rows[f].occ /\ s.seen = rows[f].seen
      BY <1>4, <2>1 DEF Rows
    <3>2. s.status = rows[f].status /\ s.sent = rows[f].sent /\ s.failures = rows[f].failures
      BY <1>4, <2>1 DEF Rows
    <3> HIDE DEF s
    <3>3. QED
      BY <3>1, <3>2 DEF s
  <2>3. RowOK(r)
    BY <1>4, <2>1, <2>2 DEF RowOK
  <2>4. rows' = [rows EXCEPT ![f] = r]
    BY <1>2, <1>8, <2>2
  <2>5. r.status = "submitted" => [fp |-> f, occ |-> r.occ, seen |-> r.seen] \in accepted
    BY <2>1, <2>2 DEF IInv, SubmittedWasAccepted
  <2>6. Leaves(p)
    BY <1>1, <2>1, LeaveFacts
  <2>7. QED
    BY <1>1, <1>3, <1>8, <2>2, <2>3, <2>4, <2>5, <2>6, CloseStep
<1>9. ASSUME NEW t \in 0 .. MaxTime, DeferFailure(p, t), IsPending(f), HoldsLease(p, f)
      PROVE  IInv'
  <2>1. PICK retry \in Nat :
            rows' = [rows EXCEPT ![f].failures = Min({@ + 1, FailureCap}),
                                 ![f].retry = Max({@, retry}), ![f].lease = 0]
    <3>1. sub[p].outcome \in AllFailures
      BY <1>9 DEF DeferFailure, IInv, Memory
    <3>2. sub[p].failures \in Nat /\ sub[p].now \in Nat /\ t \in Nat
      BY <1>2, TypeFacts, PolicyAssumption DEF Progress
    <3>3. PICK delay \in Nat : delay = RetryDelay(sub[p].outcome, sub[p].failures)
      BY <3>1, <3>2, RetryDelayFacts
    <3>4. sub[p].now + delay \in Nat
      BY <3>2
    <3>5. PICK due \in Nat : due = sub[p].now + RetryDelay(sub[p].outcome, sub[p].failures)
      BY <3>3, <3>4
    <3>6. PICK retry \in Nat :
              retry = Max({sub[p].now + RetryDelay(sub[p].outcome, sub[p].failures), t})
      BY <3>2, <3>5, MaxMin
    <3>7. QED
      BY <1>3, <1>9, <3>6 DEF DeferFailure
  <2>2. rows[f] # None /\ StopScan(p) /\ rows[f].status = "pending"
    BY <1>9 DEF HoldsLease, DeferFailure, IsPending
  <2>3. PICK failures \in Nat : failures = Min({rows[f].failures + 1, FailureCap}) /\ failures <= FailureCap
    <3>1. PICK n \in Nat : n = rows[f].failures + 1
      BY <1>4, <2>2 DEF Rows
    <3>2. QED
      BY <3>1, MaxMin, PolicyAssumption
  <2>4. PICK again \in Nat : again = Max({rows[f].retry, retry})
    <3>1. rows[f].retry \in Nat
      BY <1>4, <2>2 DEF Rows
    <3>2. QED
      BY <3>1, MaxMin
  <2>5. PICK r : /\ r = [rows[f] EXCEPT !.failures = failures, !.retry = again, !.lease = 0]
                 /\ r \in Rows /\ r.occ = rows[f].occ /\ r.seen = rows[f].seen
                 /\ r.status = rows[f].status /\ r.sent = rows[f].sent /\ r.failures = failures
    <3> DEFINE s == [rows[f] EXCEPT !.failures = failures, !.retry = again, !.lease = 0]
    <3>1. s \in Rows /\ s.occ = rows[f].occ /\ s.seen = rows[f].seen
      BY <1>4, <2>2 DEF Rows
    <3>2. s.status = rows[f].status /\ s.sent = rows[f].sent /\ s.failures = failures
      BY <1>4, <2>2 DEF Rows
    <3> HIDE DEF s
    <3>3. QED
      BY <3>1, <3>2 DEF s
  <2>6. RowOK(r)
    BY <1>4, <2>2, <2>3, <2>5 DEF RowOK
  <2>7. rows' = [rows EXCEPT ![f] = r]
    BY <1>2, <1>4, <2>1, <2>2, <2>3, <2>4, <2>5 DEF Rows
  <2>8. Leaves(p)
    BY <2>2, LeaveFacts
  <2>9. QED
    BY <1>1, <1>3, <1>9, <2>2, <2>5, <2>6, <2>7, <2>8, CloseStep
<1>10. QED
  <2>1. CASE \E t \in 0 .. MaxTime : DeferFailure(p, t)
    <3>1. PICK t \in 0 .. MaxTime : DeferFailure(p, t)
      BY <2>1
    <3>2. CASE IsPending(f) /\ HoldsLease(p, f)
      BY <1>9, <3>1, <3>2
    <3>3. CASE ~(IsPending(f) /\ HoldsLease(p, f))
      <4>1. UNCHANGED rows /\ StopScan(p)
        BY <1>3, <3>1, <3>3 DEF DeferFailure
      <4>2. QED
        BY <1>5, <4>1
    <3>4. QED
      BY <3>2, <3>3
  <2>2. CASE MarkSubmittedSnapshot(p)
    <3>1. \/ Markable(p, f)
          \/ sub' = [sub EXCEPT ![p].pc = "release"] /\ UNCHANGED rows
      BY <1>3, <2>2 DEF MarkSubmittedSnapshot
    <3>2. QED
      BY <1>6, <1>7, <2>2, <3>1
  <2>3. CASE ReleaseSubmissionLease(p)
    <3>1. \/ HoldsLease(p, f) /\ rows' = [rows EXCEPT ![f].lease = 0]
          \/ UNCHANGED rows /\ NextReport(p)
      BY <1>3, <2>3 DEF ReleaseSubmissionLease
    <3>2. QED
      BY <1>5, <1>8, <2>3, <3>1
  <2>4. QED
    BY <2>1, <2>2, <2>3

-----------------------------------------------------------------------------
(***************************************************************************)
(* Steps of the recorder and of the operators: no sender moves.            *)
(***************************************************************************)

\* What the row of one report may become: deleted, renewed by an event, or with
\* its retry block reset.
RowMoves(f) ==
    /\ rows[f] # None /\ f \notin deleted' => rows'[f] # None
    /\ rows'[f] # None /\ rows[f] # None =>
          /\ rows'[f].lease = rows[f].lease /\ rows'[f].sent = rows[f].sent
          /\ \/ rows'[f].occ > rows[f].occ
             \/ /\ rows'[f].occ = rows[f].occ /\ rows'[f].seen = rows[f].seen
                /\ rows'[f].status = rows[f].status
    /\ rows'[f] # None /\ rows'[f].status = "submitted" =>
          /\ rows[f] # None /\ rows[f].status = "submitted"
          /\ rows'[f].occ = rows[f].occ /\ rows'[f].seen = rows[f].seen

LEMMA TableStep ==
    ASSUME IInv, UNCHANGED <<load, clock, sub, attempted, accepted>>,
           recorder' \in {"idle", "limit"}, records' \in 0 .. load.records,
           DOMAIN rows' = Fingerprints, deleted \subseteq deleted',
           \A f \in Fingerprints : rows'[f] = None \/ RowOK(rows[f])',
           \A f \in Fingerprints : RowMoves(f)
    PROVE  IInv'
<1>1. TypeOK'
  <2>1. sub' \in [Submitters -> Progress'] /\ load' \in Workloads /\ clock' \in 0 .. MaxTime
    BY TypeFacts DEF TypeOK, Progress
  <2>2. QED
    BY <2>1, TypeFacts DEF TypeOK
<1>2. SubmittedWasAccepted'
  BY <1>1 DEF IInv, SubmittedWasAccepted, RowMoves
<1>3. LeaseExclusive'
  BY DEF IInv, LeaseExclusive, InDelivery, SameReport, LeaseOf
<1>4. ASSUME NEW q \in Submitters
      PROVE  Memory(q)' /\ Leased(q)' /\ Gated(q)'
  <2>1. Memory(q) /\ Leased(q) /\ Gated(q)
    BY DEF IInv
  <2>2. Memory(q)'
    BY <2>1 DEF Memory, InDelivery, Reported
  <2>3. Reported(q)' = Reported(q) /\ (InDelivery(q)' <=> InDelivery(q)) /\ LeaseOf(q)' = LeaseOf(q)
    BY DEF Reported, InDelivery, LeaseOf
  <2>4. CASE sub[q].pc \in {"state", "claim"} \/ InDelivery(q)
    <3>1. PICK f \in Fingerprints : f = Reported(q) /\ sub[q].snap.occ \in Nat
      BY <2>4, ReportFacts
    <3>2. CASE f \in deleted'
      BY <2>2, <2>3, <3>1, <3>2 DEF Leased, Gated
    <3>3. CASE f \notin deleted'
      <4>1. f \notin deleted /\ rows[f] # None /\ sub[q].snap.occ <= rows[f].occ
        BY <2>1, <2>4, <3>1, <3>3 DEF Gated
      <4>2. RowMoves(f) /\ rows'[f] # None
        BY <3>3, <4>1 DEF RowMoves
      <4>3. /\ rows'[f].lease = rows[f].lease /\ rows'[f].sent = rows[f].sent
            /\ \/ rows'[f].occ > rows[f].occ
               \/ /\ rows'[f].occ = rows[f].occ /\ rows'[f].seen = rows[f].seen
                  /\ rows'[f].status = rows[f].status
        BY <4>1, <4>2 DEF RowMoves
      <4>4. rows[f].occ \in Nat /\ rows'[f].occ \in Nat
        <5>1. rows[f] \in Rows /\ rows'[f] \in Rows
          BY <4>1, <4>2, TypeFacts DEF RowOK
        <5>2. QED
          BY <5>1 DEF Rows
      <4>5. Leased(q)'
        BY <2>1, <2>3, <3>1, <4>1, <4>2, <4>3 DEF Leased
      <4>6. (IsPending(f) /\ SameSnapshot(q, f))' => IsPending(f) /\ SameSnapshot(q, f)
        BY <3>1, <4>1, <4>3, <4>4 DEF IsPending, SameSnapshot
      <4>7. sub[q].snap.occ <= rows'[f].occ
        BY <3>1, <4>1, <4>3, <4>4
      <4>8. /\ sub[q].pc # "state" /\ IsPending(f) /\ SameSnapshot(q, f) /\ rows[f].sent # None
               => rows[f].sent + Cooldown <= sub[q].now
        BY <2>1, <2>4, <3>1, <4>1 DEF Gated
      <4>9. Gated(q)'
        BY <2>3, <3>1, <4>2, <4>3, <4>6, <4>7, <4>8 DEF Gated
      <4>10. QED
        BY <2>2, <4>5, <4>9
    <3>4. QED
      BY <2>2, <3>2, <3>3
  <2>5. CASE ~(sub[q].pc \in {"state", "claim"} \/ InDelivery(q))
    BY <2>2, <2>3, <2>5 DEF Leased, Gated
  <2>6. QED
    BY <2>4, <2>5
<1>5. QED
  BY <1>2, <1>3, <1>4 DEF IInv

\* The row that an event leaves.
LEMMA UpsertedFacts ==
    ASSUME IInv, NEW f \in Fingerprints, records' = records + 1, UNCHANGED clock, NEW r, r = Upserted(f)
    PROVE  /\ r \in Rows /\ r.status = "pending" /\ r.occ \in 1 .. records + 1
           /\ r.seen <= clock /\ r.failures <= FailureCap /\ (r.sent # None => r.sent <= clock)
           /\ rows[f] # None => /\ r.occ > rows[f].occ /\ r.lease = rows[f].lease
                                /\ r.sent = rows[f].sent
<1>1. clock \in Nat /\ records \in Nat /\ FailureCap \in Nat
  BY TypeFacts, PolicyAssumption
<1>2. CASE rows[f] = None
  <2>1. r = NewRow
    BY <1>2 DEF Upserted
  <2>2. QED
    BY <1>1, <1>2, <2>1 DEF NewRow, Rows
<1>3. CASE rows[f] # None
  <2>1. RowOK(rows[f]) /\ rows[f] \in Rows
    BY <1>3, TypeFacts
  <2>2. rows[f].occ \in 1 .. records /\ rows[f].seen \in Nat /\ rows[f].seen <= clock
    BY <2>1 DEF RowOK, Rows
  <2>3. PICK seen \in Nat : seen = Max({rows[f].seen, clock}) /\ seen <= clock
    BY <1>1, <2>2, MaxMin
  <2>4. PICK occ \in Nat : occ = rows[f].occ + 1
    BY <2>2
  <2>5. r = [rows[f] EXCEPT !.occ = occ, !.seen = seen, !.status = "pending"]
    BY <1>3, <2>1, <2>3, <2>4 DEF Upserted, Rows
  <2>6. r \in Rows /\ r.status = "pending" /\ r.occ = occ /\ r.seen = seen
    BY <2>1, <2>5 DEF Rows
  <2>7. r.failures = rows[f].failures /\ r.sent = rows[f].sent /\ r.lease = rows[f].lease
    BY <2>1, <2>5 DEF Rows
  <2>8. QED
    BY <1>1, <1>3, <2>1, <2>2, <2>3, <2>4, <2>6, <2>7 DEF RowOK
<1>4. QED
  BY <1>2, <1>3

LEMMA RecordSteps ==
    ASSUME IInv,
           \/ \E f \in Fingerprints : RecordAt(f)
           \/ EvictForBytes
    PROVE  IInv'
<1>1. UNCHANGED <<load, clock, sub, attempted, accepted>> /\ deleted \subseteq deleted'
  BY DEF RecordAt, EvictForBytes
<1>2. TypeOK /\ clock \in Nat /\ records \in Nat /\ load.records \in Nat
  BY TypeFacts
<1>3. recorder' \in {"idle", "limit"} /\ records' \in Nat /\ records <= records' /\ records' \in 0 .. load.records
  <2>1. \/ records < load.records /\ records' = records + 1 /\ recorder' = "limit"
        \/ UNCHANGED <<records, recorder>>
    BY Zenon DEF RecordAt, EvictForBytes
  <2>2. QED
    BY <1>2, <2>1 DEF TypeOK
<1>4. ASSUME NEW g \in Fingerprints, rows[g] # None
      PROVE  RowOK(rows[g]) /\ rows[g] \in Rows /\ rows[g].status \in {"pending", "submitted"}
  BY <1>4, TypeFacts DEF Rows
<1>5. CASE EvictForBytes
  <2>1. /\ DOMAIN rows' = Fingerprints
        /\ \A g \in Fingerprints : rows'[g] = None \/ rows'[g] = rows[g]
    BY <1>5, EvictFacts DEF EvictForBytes
  <2>2. \A g \in Fingerprints : rows[g] # None /\ rows'[g] = None => g \in deleted'
    BY <1>5 DEF EvictForBytes, Retained
  <2>3. \A g \in Fingerprints : RowMoves(g)
    BY <2>1, <2>2 DEF RowMoves
  <2>4. UNCHANGED records
    BY <1>5 DEF EvictForBytes
  <2>5. \A g \in Fingerprints : rows'[g] = None \/ RowOK(rows[g])'
    BY <1>1, <1>4, <2>1, <2>4 DEF RowOK
  <2>6. QED
    BY <1>1, <1>3, <2>1, <2>3, <2>5, TableStep
<1>6. ASSUME NEW f \in Fingerprints, RecordAt(f)
      PROVE  IInv'
  <2> DEFINE inserted == [rows EXCEPT ![f] = Upserted(f)]
             fresh == [g \in Fingerprints |->
                          IF inserted[g] # None /\ inserted[g].seen + load.maxAge < clock
                          THEN None ELSE inserted[g]]
  <2>1. records' = records + 1
    BY <1>6 DEF RecordAt
  <2>2. PICK n : rows' = Evict(fresh, n)
    BY <1>6 DEF RecordAt
  <2>3. deleted' = deleted \cup (Retained(inserted) \ Retained(rows'))
    BY <1>6 DEF RecordAt
  <2>4. \A g \in Fingerprints : fresh[g] = None \/ fresh[g] = inserted[g]
    OBVIOUS
  <2> HIDE DEF fresh
  <2>5. /\ DOMAIN rows' = Fingerprints
        /\ \A g \in Fingerprints : rows'[g] = None \/ rows'[g] = inserted[g]
    BY <2>2, <2>4, EvictFacts
  <2>6. DOMAIN rows = Fingerprints
    BY <1>2 DEF TypeOK
  <2>7. PICK r : r = Upserted(f)
    OBVIOUS
  <2>8. inserted[f] = r /\ \A g \in Fingerprints \ {f} : inserted[g] = rows[g]
    BY <2>6, <2>7
  <2> HIDE DEF inserted
  <2>9. /\ r \in Rows /\ r.status = "pending" /\ r.occ \in 1 .. records + 1
        /\ r.seen <= clock /\ r.failures <= FailureCap /\ (r.sent # None => r.sent <= clock)
        /\ rows[f] # None => r.occ > rows[f].occ /\ r.lease = rows[f].lease /\ r.sent = rows[f].sent
    BY <1>1, <2>1, <2>7, UpsertedFacts
  <2>10. r # None
    BY <2>9, TableAssumption
  <2>11. \A g \in Fingerprints : inserted[g] # None /\ rows'[g] = None => g \in deleted'
    BY <2>3 DEF Retained
  <2>12. RowMoves(f)
    BY <2>5, <2>8, <2>9, <2>10, <2>11 DEF RowMoves
  <2>13. \A g \in Fingerprints \ {f} : RowMoves(g)
    BY <2>5, <2>8, <2>11 DEF RowMoves
  <2>14. ASSUME NEW g \in Fingerprints, rows'[g] # None
         PROVE  RowOK(rows[g])'
    <3>1. CASE g = f
      <4>1. rows'[g] = r
        BY <2>5, <2>8, <2>14, <3>1
      <4>2. QED
        BY <1>1, <2>1, <2>9, <4>1 DEF RowOK
    <3>2. CASE g # f
      <4>1. rows'[g] = rows[g] /\ rows[g] # None
        BY <2>5, <2>8, <2>14, <3>2
      <4>2. rows[g].occ \in 1 .. records'
        BY <1>2, <1>3, <1>4, <4>1 DEF RowOK
      <4>3. QED
        BY <1>1, <1>4, <4>1, <4>2 DEF RowOK
    <3>3. QED
      BY <3>1, <3>2
  <2>15. \A g \in Fingerprints : RowMoves(g)
    BY <2>12, <2>13
  <2>16. QED
    BY <1>1, <1>3, <2>5, <2>14, <2>15, TableStep
<1>7. QED
  BY <1>5, <1>6

LEMMA ResetStep ==
    ASSUME IInv, NEW f \in Fingerprints, ResetSubmissionRetry(f)
    PROVE  IInv'
<1>1. /\ UNCHANGED <<load, clock, recorder, sub, attempted, records, accepted, deleted>>
      /\ rows' = [rows EXCEPT ![f].failures = 0, ![f].retry = 0] /\ rows[f] # None
  BY DEF ResetSubmissionRetry, IsPending
<1>2. /\ TypeOK /\ DOMAIN rows = Fingerprints /\ RowOK(rows[f]) /\ rows[f] \in Rows
      /\ recorder \in {"idle", "limit"} /\ records \in 0 .. load.records
  BY <1>1, TypeFacts DEF TypeOK
<1>3. PICK r : /\ r = [rows[f] EXCEPT !.failures = 0, !.retry = 0]
               /\ r \in Rows /\ r.occ = rows[f].occ /\ r.seen = rows[f].seen /\ r.lease = rows[f].lease
               /\ r.status = rows[f].status /\ r.sent = rows[f].sent /\ r.failures = 0
  <2> DEFINE s == [rows[f] EXCEPT !.failures = 0, !.retry = 0]
  <2>1. s \in Rows /\ s.occ = rows[f].occ /\ s.seen = rows[f].seen /\ s.lease = rows[f].lease
    BY <1>2 DEF Rows
  <2>2. s.status = rows[f].status /\ s.sent = rows[f].sent /\ s.failures = 0
    BY <1>2 DEF Rows
  <2> HIDE DEF s
  <2>3. QED
    BY <2>1, <2>2 DEF s
<1>4. rows' = [rows EXCEPT ![f] = r]
  BY <1>1, <1>2, <1>3
<1>5. /\ DOMAIN rows' = Fingerprints /\ rows'[f] = r
      /\ \A g \in Fingerprints \ {f} : rows'[g] = rows[g]
  BY <1>2, <1>4
<1>6. \A g \in Fingerprints : rows'[g] = None \/ RowOK(rows[g])'
  <2>1. RowOK(rows[f])'
    BY <1>1, <1>2, <1>3, <1>5, PolicyAssumption DEF RowOK
  <2>2. \A g \in Fingerprints \ {f} : rows'[g] = None \/ RowOK(rows[g])'
    BY <1>1, <1>5, TypeFacts DEF RowOK
  <2>3. QED
    BY <2>1, <2>2
<1>7. \A g \in Fingerprints : RowMoves(g)
  <2>1. RowMoves(f)
    BY <1>1, <1>3, <1>5, TableAssumption DEF RowMoves
  <2>2. \A g \in Fingerprints \ {f} : RowMoves(g)
    BY <1>1, <1>5 DEF RowMoves
  <2>3. QED
    BY <2>1, <2>2
<1>8. QED
  BY <1>1, <1>2, <1>5, <1>6, <1>7, TableStep

-----------------------------------------------------------------------------
(***************************************************************************)
(* The invariant.                                                          *)
(***************************************************************************)
LEMMA TickStep ==
    ASSUME IInv, Tick
    PROVE  IInv'
<1>1. /\ UNCHANGED <<load, rows, recorder, sub, attempted, records, accepted, deleted>>
      /\ clock' = clock + 1 /\ clock < MaxTime
  BY DEF Tick
<1>2. clock \in Nat /\ MaxTime \in Nat /\ clock' \in 0 .. MaxTime
  BY <1>1, TypeFacts, PolicyAssumption
<1>3. \A f \in Fingerprints : rows[f] = None \/ RowOK(rows[f])'
  <2>1. SUFFICES ASSUME NEW f \in Fingerprints, rows[f] # None PROVE RowOK(rows[f])'
    OBVIOUS
  <2>2. RowOK(rows[f])
    BY <2>1, TypeFacts
  <2>3. rows[f].seen \in Nat /\ (rows[f].sent # None => rows[f].sent \in Nat)
    BY <2>2 DEF RowOK, Rows
  <2>4. QED
    BY <1>1, <1>2, <2>2, <2>3 DEF RowOK
<1>4. Progress \subseteq Progress'
  <2>1. 0 .. clock \subseteq 0 .. clock'
    BY <1>1, <1>2
  <2>2. QED
    BY <2>1 DEF Progress
<1>5. TypeOK'
  <2>1. sub \in [Submitters -> Progress']
    BY <1>4, TypeFacts DEF TypeOK
  <2>2. QED
    BY <1>1, <1>2, <1>3, <2>1, TypeFacts DEF TypeOK
<1>6. SubmittedWasAccepted'
  BY <1>1, <1>5 DEF IInv, SubmittedWasAccepted
<1>7. \A p \in Submitters : LeaseOf(p)' = LeaseOf(p) /\ (LeaseOf(p) <= clock => LeaseOf(p) <= clock')
  <2>1. SUFFICES ASSUME NEW p \in Submitters
                 PROVE  LeaseOf(p)' = LeaseOf(p) /\ (LeaseOf(p) <= clock => LeaseOf(p) <= clock')
    OBVIOUS
  <2>2. LeaseOf(p) \in Nat
    BY TypeFacts
  <2>3. LeaseOf(p)' = LeaseOf(p)
    BY <1>1 DEF LeaseOf
  <2>4. QED
    BY <1>1, <1>2, <2>2, <2>3
<1>8. LeaseExclusive'
  BY <1>1, <1>7 DEF IInv, LeaseExclusive, InDelivery, SameReport
<1>9. ASSUME NEW q \in Submitters
      PROVE  Memory(q)' /\ Leased(q)' /\ Gated(q)'
  <2>1. Memory(q) /\ Leased(q) /\ Gated(q)
    BY DEF IInv
  <2>2. Memory(q)'
    BY <1>1, <2>1 DEF Memory, InDelivery, Reported
  <2>3. Leased(q)'
    BY <1>1, <1>7, <2>1 DEF Leased, InDelivery, Reported
  <2>4. Gated(q)'
    BY <1>1, <2>1 DEF Gated, InDelivery, Reported, IsPending, SameSnapshot
  <2>5. QED
    BY <2>2, <2>3, <2>4
<1>10. QED
  BY <1>6, <1>8, <1>9 DEF IInv

\* A failed statement, a crash and the end of the byte limit.
LEMMA OtherSteps ==
    ASSUME IInv,
           \/ \E p \in Submitters : StoreFails(p) \/ Crash(p)
           \/ ByteLimitDone
           \/ UNCHANGED vars
    PROVE  IInv'
<1>1. attempted \in [Submitters -> 0 .. MaxPerRun] /\ 0 \in 0 .. MaxPerRun
  BY TypeFacts, PolicyAssumption DEF TypeOK
<1>2. ASSUME NEW p \in Submitters, StoreFails(p) \/ Crash(p)
      PROVE  IInv'
  <2>1. /\ UNCHANGED <<load, clock, rows, recorder, records, accepted, deleted>> /\ StopScan(p)
        /\ attempted' = attempted \/ attempted' = [attempted EXCEPT ![p] = 0]
    BY <1>2 DEF StoreFails, Crash
  <2>2. Leaves(p)
    BY <2>1, LeaveFacts
  <2>3. /\ attempted' \in [Submitters -> 0 .. MaxPerRun]
        /\ \A q \in Submitters \ {p} : attempted'[q] = attempted[q]
    BY <1>1, <2>1
  <2>4. QED
    BY <2>1, <2>2, <2>3, LeaveStep
<1>3. CASE ByteLimitDone \/ UNCHANGED vars
  <2>1. /\ UNCHANGED <<load, clock, rows, sub, attempted, records, accepted, deleted>>
        /\ recorder' = recorder \/ recorder' = "idle"
    BY <1>3 DEF ByteLimitDone, vars
  <2>2. /\ TypeOK /\ recorder' \in {"idle", "limit"} /\ records' \in 0 .. load.records
        /\ DOMAIN rows' = Fingerprints
    BY <2>1, TypeFacts DEF TypeOK
  <2>3. \A f \in Fingerprints : rows'[f] = None \/ RowOK(rows[f])'
    BY <2>1, TypeFacts DEF RowOK
  <2>4. \A f \in Fingerprints : RowMoves(f)
    BY <2>1 DEF RowMoves
  <2>5. QED
    BY <2>1, <2>2, <2>3, <2>4, TableStep
<1>4. QED
  BY <1>2, <1>3

LEMMA IInvStep ==
    ASSUME IInv, [Next]_vars
    PROVE  IInv'
<1>1. ASSUME NEW p \in Submitters, SenderStep(p)
      PROVE  IInv'
  BY <1>1, ReadSteps, ClaimStep, BackendSteps, EndSteps DEF SenderStep
<1>2. ASSUME NEW p \in Scanners, StartScan(p)
      PROVE  IInv'
  BY <1>2, StartSteps DEF Submitters
<1>3. ASSUME NEW p \in Operators, NEW f \in Fingerprints, SubmitSelected(p, f)
      PROVE  IInv'
  BY <1>3, StartSteps DEF Submitters
<1>4. QED
  BY <1>1, <1>2, <1>3, RecordSteps, ResetStep, TickStep, OtherSteps DEF Next

LEMMA IInvInit ==
    ASSUME Init
    PROVE  IInv
<1>1. load \in Workloads /\ load.records \in Nat
  BY WorkloadsAssumption DEF Init
<1>2. Idle \in Progress /\ Idle.pc = "idle"
  <2>1. clock = 0 /\ FailureCap \in Nat
    BY PolicyAssumption DEF Init
  <2>2. 0 \in 0 .. clock /\ 0 \in 0 .. FailureCap /\ <<>> \in Seq(Fingerprints)
    BY <2>1
  <2>3. QED
    BY <2>2 DEF Idle, Progress
<1>3. \A p \in Submitters : sub[p] = Idle
  BY DEF Init
<1>4. \A f \in Fingerprints : rows[f] = None
  BY DEF Init
<1>5. TypeOK
  BY <1>1, <1>2, <1>4, PolicyAssumption DEF Init, TypeOK
<1>6. SubmittedWasAccepted
  BY <1>4, <1>5 DEF SubmittedWasAccepted
<1>7. \A p \in Submitters : ~InDelivery(p) /\ sub[p].pc = "idle"
  BY <1>2, <1>3 DEF InDelivery
<1>8. LeaseExclusive
  BY <1>7 DEF LeaseExclusive
<1>9. \A p \in Submitters : Memory(p) /\ Leased(p) /\ Gated(p)
  BY <1>7 DEF Memory, Leased, Gated
<1>10. QED
  BY <1>6, <1>8, <1>9 DEF IInv

LEMMA IInvAlways == Spec => []IInv
<1>1. Init => IInv
  BY IInvInit
<1>2. IInv /\ [Next]_vars => IInv'
  BY IInvStep
<1>3. QED
  BY <1>1, <1>2, PTL DEF Spec

-----------------------------------------------------------------------------
(***************************************************************************)
(* Theorems.                                                               *)
(***************************************************************************)

\* A row marked as submitted shows exactly what the backend accepted, and rows,
\* failures and attempts stay in their bounds (mark_submitted_snapshot,
\* record_submission_failure, max_per_run), whatever is recorded meanwhile.
THEOREM SubmittedWasAcceptedAlways == Spec => []SubmittedWasAccepted
<1>1. IInv => SubmittedWasAccepted
  BY DEF IInv
<1>2. QED
  BY <1>1, IInvAlways, PTL

\* No two senders hold an unexpired lease on one row that retention left alone
\* (claim_submission and the three statements that end a delivery).
THEOREM LeaseExclusiveAlways == Spec => []LeaseExclusive
<1>1. IInv => LeaseExclusive
  BY DEF IInv
<1>2. QED
  BY <1>1, IInvAlways, PTL

\* A step that changes the time of a recorded submission is the last statement
\* of a delivery whose gate still holds.
LEMMA CooldownStep ==
    ASSUME IInv, [Next]_vars, NEW f \in Fingerprints \ deleted,
           rows[f] # None, rows'[f] # None, rows[f].sent # None, rows'[f].sent # rows[f].sent
    PROVE  rows'[f].sent # None /\ rows'[f].sent >= rows[f].sent + Cooldown
<1>1. DOMAIN rows = Fingerprints /\ rows[f] \in Rows
  BY TypeFacts DEF TypeOK
<1>2. rows' # rows
  OBVIOUS
<1>3. ASSUME NEW g \in Fingerprints, ResetSubmissionRetry(g)
      PROVE  FALSE
  <2>1. rows' = [rows EXCEPT ![g].failures = 0, ![g].retry = 0] /\ rows[g] # None
    BY <1>3 DEF ResetSubmissionRetry, IsPending
  <2>2. rows[g] \in Rows
    BY <2>1, TypeFacts
  <2>3. QED
    BY <1>1, <2>1, <2>2 DEF Rows
<1>4. ASSUME NEW g \in Fingerprints, RecordAt(g)
      PROVE  FALSE
  <2> DEFINE inserted == [rows EXCEPT ![g] = Upserted(g)]
             fresh == [h \in Fingerprints |->
                          IF inserted[h] # None /\ inserted[h].seen + load.maxAge < clock
                          THEN None ELSE inserted[h]]
  <2>1. PICK n : rows' = Evict(fresh, n)
    BY <1>4 DEF RecordAt
  <2>2. fresh[f] = None \/ fresh[f] = inserted[f]
    OBVIOUS
  <2> HIDE DEF fresh
  <2>3. rows'[f] = inserted[f]
    BY <2>1, <2>2, EvictFacts
  <2>4. inserted[f] = rows[f] \/ (f = g /\ inserted[f] = Upserted(f))
    BY <1>1
  <2> HIDE DEF inserted
  <2>5. records' = records + 1 /\ UNCHANGED clock
    BY <1>4 DEF RecordAt
  <2>6. PICK r : r = Upserted(f)
    OBVIOUS
  <2>7. r.sent = rows[f].sent
    BY <2>5, <2>6, UpsertedFacts
  <2>8. QED
    BY <2>3, <2>4, <2>6, <2>7
<1>5. ASSUME EvictForBytes
      PROVE  FALSE
  BY <1>5, EvictFacts DEF EvictForBytes
<1>6. ASSUME NEW p \in Submitters, SenderStep(p)
      PROVE  rows'[f].sent # None /\ rows'[f].sent >= rows[f].sent + Cooldown
  <2>1. InDelivery(p) \/ sub[p].pc = "claim"
    BY <1>2, <1>6 DEF SenderStep, Preview, SubmissionState, ClaimSubmission, BackendAccepts,
                      BackendFails, DeferFailure, MarkSubmittedSnapshot,
                      ReleaseSubmissionLease, InDelivery
  <2>2. PICK g \in Fingerprints : g = Head(sub[p].todo) /\ g = Reported(p)
    BY <2>1, ReportFacts
  <2>3. CASE MarkSubmittedSnapshot(p)
    <3>1. /\ Markable(p, g) /\ sub[p].pc = "accepted"
          /\ rows' = [rows EXCEPT ![g].status = "submitted", ![g].failures = 0, ![g].retry = 0,
                                  ![g].sent = sub[p].now, ![g].lease = 0]
      BY <1>2, <2>2, <2>3 DEF MarkSubmittedSnapshot
    <3>2. g = f
      BY <1>1, <3>1
    <3>3. rows'[f].sent = sub[p].now
      BY <1>1, <3>1, <3>2 DEF Rows
    <3>4. rows[f].sent + Cooldown <= sub[p].now
      BY <2>2, <3>1, <3>2 DEF IInv, Gated, InDelivery, Markable
    <3>5. sub[p].now \in Nat /\ rows[f].sent \in Nat /\ Cooldown \in Nat
      BY <1>1, TypeFacts, PolicyAssumption DEF Rows
    <3>6. QED
      BY <3>3, <3>4, <3>5, TableAssumption
  <2>4. CASE ClaimSubmission(p) \/ ReleaseSubmissionLease(p)
    <3>1. PICK lease : rows' = [rows EXCEPT ![g].lease = lease]
      BY <1>2, <2>2, <2>4 DEF ClaimSubmission, ReleaseSubmissionLease
    <3>2. QED
      BY <1>1, <3>1 DEF Rows
  <2>5. CASE \E t \in 0 .. MaxTime : DeferFailure(p, t)
    <3>1. PICK a, b : rows' = [rows EXCEPT ![g].failures = a, ![g].retry = b, ![g].lease = 0]
      <4>1. PICK t \in 0 .. MaxTime : DeferFailure(p, t)
        BY <2>5
      <4>2. rows' = [rows EXCEPT
                ![g].failures = Min({@ + 1, FailureCap}),
                ![g].retry = Max({@, Max({sub[p].now + RetryDelay(sub[p].outcome, sub[p].failures), t})}),
                ![g].lease = 0]
        BY <1>2, <2>2, <4>1 DEF DeferFailure
      <4>3. QED
        BY <4>2
    <3>2. QED
      BY <1>1, <3>1 DEF Rows
  <2>6. CASE UNCHANGED rows
    BY <1>2, <2>6
  <2>7. QED
    BY <1>6, <2>3, <2>4, <2>5, <2>6 DEF SenderStep, Preview, SubmissionState, BackendAccepts, BackendFails
<1>7. \/ UNCHANGED rows \/ EvictForBytes
      \/ \E g \in Fingerprints : RecordAt(g) \/ ResetSubmissionRetry(g)
      \/ \E p \in Submitters : SenderStep(p)
  BY DEF Next, StartScan, SubmitSelected, StoreFails, Crash, Tick, ByteLimitDone, vars
<1>8. QED
  BY <1>2, <1>3, <1>4, <1>5, <1>6, <1>7

\* Two submissions recorded for a row that retention left alone are a cooldown
\* apart (submit_selected_at's gate with claim_submission's snapshot test).
THEOREM RecordedCooldownAlways == Spec => RecordedCooldown
<1>1. ASSUME IInv, [Next]_vars
      PROVE  [\A f \in Fingerprints \ deleted :
                 (rows[f] # None /\ rows'[f] # None
                    /\ rows[f].sent # None /\ rows'[f].sent # rows[f].sent)
                   => (rows'[f].sent # None /\ rows'[f].sent >= rows[f].sent + Cooldown)]_vars
  BY <1>1, CooldownStep
<1>2. QED
  BY <1>1, IInvAlways, PTL DEF Spec, RecordedCooldown
=============================================================================
